# Astro Fighters: a TLA+ verification of the game

The repository is a hardware arcade game for a DE10-Lite FPGA board: SystemVerilog
modules that hold the rules of the game and paint it on a VGA screen, and C firmware on
a Nios II processor that turns a USB keyboard into the `keycode` the game reads. The
firmware runs on the vendor's hardware abstraction layer (HAL), whose sources are part of
the repository.
This directory models the game's own logic, the firmware, and the parts of the HAL the
firmware leans on, checks them with TLC and proves the most important facts with TLAPS.
Paths below are relative to `src/FPGA_Project_Files/`.

## The system

| Part | Source | State | Operations |
|---|---|---|---|
| enemy array, waves | `enemy_status.sv` | array of living enemies, wave `count`, kill counter `sig` | reset; collision: kill, or load the next wave |
| game state machine | `stateMachine.sv` | `state` (0 start, 1..10 levels, 11 victory, 12 game over) | vsync, reset |
| score | `score.sv` | three decimal digits | edge of the enemy collision flag, reset |
| health display | `health.sv` | two digits and a flag | edge of the player collision flag, reset |
| ship | `player.sv` `player` | 12-bit position, fire command, lives, invincibility | vsync, reset |
| player's missile | `player.sv` `player_missile` | exists, X, Y | vsync: create, climb, erase |
| collision detection | `collisionDetection.sv` | two flags, index of the enemy hit | vsync: compare, reset |
| enemies' missile | `enemy_missle.sv` | exists, X, Y, timer | vsync: wait, launch, fall, vanish; cleared outside of play |
| array movement | `enemy_controller.sv` | position and direction on two axes | vsync, reset |
| VGA timing | `VGA_controller.sv` | pixel clock, beam, sync pulses | 50 MHz clock, reset |
| picture | `Color_Mapper.sv` | none (combinational) | colour of the pixel under the beam |
| firmware main loop | `software/usb_kb/main.c` | running flag, device class, keycode | one iteration of the loop |
| USB host | `usb_kb/transfer.c` `USB_Task` | `usb_task_state`, device table, delay | `USB_Task`, `USB_init` |
| USB transfers | `usb_kb/transfer.c` `Xfer*` | packet counters, toggles, received data | control requests, IN transfers, packets |
| host controller driver | `usb_kb/MAX3421E.c` | registers of the controller | init, bus probe, polled interrupt handler |
| HID driver | `usb_kb/HID.c` | `hid_device`, endpoints, `bigbuf` | probes, polls |
| JTAG UART driver | `usb_kb_bsp/drivers/src/altera_avalon_jtag_uart_*.c` | two rings, interrupt enables, host activity | write, read, close; interrupt, one-second timer |
| alarms, system clock | `usb_kb_bsp/HAL/src/alt_tick.c`, `alt_alarm_start.c`, `alt_llist.h` | tick counter, list of alarms | tick interrupt, start, stop, rearm |
| file descriptors | `usb_kb_bsp/HAL/src/alt_open.c` and what it calls | pool of descriptors, high-water mark | open, close, lock, unlock, redirection |

**How they interact.** All game registers but three modules' are clocked by the rising
edge of vsync (`VGA_VS`), so in one frame each computes its new value from the old values
of the others. `enemy_status` and `score_map` are clocked by the rising edge of the enemy
collision flag, `health_map` by that of the player collision flag; both flags are
themselves vsync registers. A kill therefore happens in the frame in which the flag
rises, with the `enemy_hit` written by the same edge, and everyone else sees it one frame
later. `KEY[0]` resets all of it asynchronously, each module resetting the registers it
chooses to. The firmware shares one register with the game, the keycode PIO. It is a
single loop without an operating system; what runs beside it are two interrupt handlers,
the timer's (tick counter, alarms) and the UART's (rings), and the hardware: the USB
controller, its port, the device, the host at the end of the JTAG cable.

**What is hard.** Clients of an edge and clients of a level watch the same flag
(score, array and health bar against missile and lives). The detector compares
coordinates of missiles that may not exist any more. Registers that a reset forgets
(`sig`, missile coordinates). Fixed-width arithmetic at the edges of the screen. Wave
ends that depend on literals matching the number of enemies. In the firmware: a port that
changes between any two accesses to the controller, interrupt bits that outlive the event
they announce, a copied device class, addresses that must not leak, packets and
acknowledges that get lost, descriptors longer than their buffer, a clock whose product
overflows. In the HAL: rings shared with an interrupt handler without a lock, interrupts
that each side switches on and off, a list that changes while it is walked, comparisons
across the roll-over of a counter, searches that end early. `PROJECT.json` lists each
hazard at its line.

**What makes each part correct.** Array: each kill counted once, waves in order, none
early, none stuck. State machine: victory only when earned, verdicts final, outcomes
announced. Score and health: equal to what they count. Ship: on the screen, no jumps,
one life per missile. Missiles and flags: end in finite time. Detection: reads inside
the array, hits what is drawn, hits the living. Movement: inside its span, no
skipped pixel. VGA: one game step per picture, outside of it. Firmware: polls a device
that exists with the right driver, keyboards come up, departures are noticed, addresses
come back, probes decide rightly, reports arrive once and in order, every transfer and
every wait ends. UART: two lossless streams, no call hangs. Alarms: called when due and
only then. Descriptors: none lost, locks exclude.

## Modules

| Module | Models | Notes |
|---|---|---|
| `WaveCampaign` | nothing directly: the promise of the array | abstract specification |
| `EnemyStatus`, `WaveData` | `enemy_status.sv`, its ten waves | implements `WaveCampaign` |
| `ScoreMap`, `HealthMap` | `score.sv`, `health.sv` | |
| `StateMachine` | `stateMachine.sv` | one operator for the chain of branches |
| `GameFlow` | `EnemyStatus` with score and state machine wired to it | extends `EnemyStatus`; missiles left open |
| `SwayLimits`, `EnemyController` | `enemy_controller.sv` | the numbers of the source as constants |
| `ShipLimits`, `Player` | `player.sv`, `player` | two halves without shared registers: `Move`, `TakeHit` |
| `PlayerMissile` | `player.sv`, `player_missile` | |
| `CollisionDetection` | `collisionDetection.sv` | two halves: enemies, ship |
| `EnemyMissile` | `enemy_missle.sv` | |
| `ColorMapper` | scenes and enemy cells of `Color_Mapper.sv` | operators only |
| `VgaController` | `VGA_controller.sv` | |
| `Picture` | `VgaController`, `Player`, `EnemyController` wired | the beam's sync pulse is the clock of the other two |
| `Offence` | `PlayerMissile`, `CollisionDetection`, `EnemyController`, `EnemyStatus` wired | ship left open |
| `Defence` | `EnemyMissile`, `CollisionDetection`, `Player`, `HealthMap`, `StateMachine` wired | array and ship positions left open |
| `UsbHost` | `main.c`, `USB_Task`, `MAX3421E.c`, effects of `HID.c` | port and controller are external; a transfer is one step |
| `UsbTransfer` | the transfers of `transfer.c` | device and bus are external; packet by packet |
| `HidProbe` | probes and polls of `HID.c`, the driver table | the caller of `UsbTransfer` |
| `ReportPipe` | nothing directly: every report once, in order | abstract specification of `UsbTransfer` and `HidProbe` |
| `JtagUart` | the UART driver | host and FIFOs are external |
| `ByteStream` | nothing directly: a lossless stream | abstract specification of each direction of `JtagUart` |
| `AlarmTime` | times and flags of alarms | operators only |
| `AlarmClock` | nothing directly: alarms that count down | abstract specification |
| `AltAlarm` | the alarms, as a set | implements `AlarmClock` |
| `AltTick` | the alarms, as the linked list that `alt_tick` walks | implements `AltAlarm`; `Follow` is what can be reached along the links |
| `HostTimers` | the two waits of the USB host, on `AltTick`'s clock | |
| `AltFd` | `alt_open.c`, `alt_close.c`, `alt_ioctl.c`, `alt_io_redirect.c` and what they call | |
| `GameFlowProofs` | theorems about `EnemyStatus` and `GameFlow` | |
| `PictureProofs` | theorems about `VgaController`, `Player`, `EnemyController` and `Picture` | the parts' carry over to the whole |
| `OffenceProofs`, `DefenceProofs`, `UsbHostProofs`, `JtagUartProofs` | theorems about the module before the suffix | |
| `HidProbeProofs` | theorems about `UsbTransfer` and `HidProbe` | `HidProbe` extends `UsbTransfer` |
| `HalProofs` | theorems about `AltFd`, `AltTick`, `AltAlarm` and `HostTimers` | parts that know nothing of each other |
| `MC*` | instances for TLC | |

Correspondence, hardware. The VARIABLES are the registers, with the source's names. A register of
the array is a set of slots `<<column, row>>`; a missing bit is a missing slot. Blocking
assignments of one process are composed into one expression; non-blocking ones take old
values. `Reset` of a module assigns what its reset branch assigns and leaves the rest.
`Clock(...)` is the branch taken at an edge, its arguments the input ports. A composition
instantiates the modules by their names and takes one step `Frame` per vsync; modules
clocked by a flag step in the frames in which the flag rises. `Picture` steps with the
50 MHz clock, and the game's registers step with those edges that raise `VGA_VS`. Variables marked *history*
(`losses`, `ticks`, `first`, `parity`, `clean`) do not exist in the code and are read by properties
only. Power-up values are those the synthesis report gives (`output_files/adder2.map.rpt`:
registers that are inverted power up at 1, the rest at 0); the wave registers, written
and copied in one step, are constants because the report finds all their bits stuck.

Correspondence, USB. In `UsbHost` a step is what the firmware does between two moments at which a change of
the port could matter: reading the port, acknowledging the interrupt, one pass through
`USB_Task`, one pass through the application. A control or interrupt transfer is one
step that can fail, and the probes are their effect on the device table. The controller is modelled as the code uses it: `CONDETIRQ` is raised
by every change of the port and by a bus reset (MAX3421E.c:142), `BUSEVENTIRQ` by the end
of a bus reset (:227), and only the first drives the pin (:190). `UsbTransfer` and
`HidProbe` open up what is one step there. In `UsbTransfer` a step is one access of
`XferDispatchPkt` to the controller (launch, see that it is done, give up) or what its
caller does with the result; `kind` and `token` say who that caller is. The device sends
a packet again until it sees the acknowledge, and flips its toggle then; the controller
flips its own with every packet it takes. Data are numbers of packets and of reports, not
their bytes. `HidProbe`'s steps are the stretches of a probe between two transfers, and
one descriptor of the walk at a time, by lengths: `ptr` is `byte_ptr - bigbuf`.

Correspondence, HAL. In `JtagUart` a step of the program is what it does between two
accesses to state that the interrupt handler shares, and the handler's body is a step for
each direction; the `memcpy` of a chunk and the assignment of the index that tells the
handler of it are two steps (`Copy` and `Publish`, `ReadCopy` and `ReadRelease`), and the handler
may run in between. The program does nothing while the handler runs. The characters are
numbered modulo `K`, which is enough to tell any two apart that are under way. `AltTick`
has the list as it is, links and all; the program stands still while `alt_tick` walks
along it. `AltFd` takes one step for each call but `open`, which is told in steps: the claim of a
descriptor, the test for a lock and the driver's `open()`, and the return, the redirection or the
clean-up. Without an operating system the semaphores are empty macros and no other call comes
in between.

Operators called like `LoadWave_SigKept` are wrong variants of the definition they
precede: each is a slip that source could contain, and shows which property notices it.

## What the runs check

| Run | Shows |
|---|---|
| `game_flow` | button at any time, the ten real waves: kills are counted exactly once and `WaveCampaign` is followed unless a press in mid-wave spoils the count; victory is earned, verdicts stand and are announced; level states 2..10 mean a stuck game; the score equals the kills over all waves |
| `picture` | button at any time: one step of the game per picture, none that tears a picture; the ship stays on the screen and never jumps, the array skips no pixel; the game goes on for ever and the array reaches both ends |
| `offence` | array driven as specified, reads in range, hits are what is drawn, the flag falls, the shot ends |
| `defence` | one life per missile, display never too high; missile and shield end |
| `usb_host` | polls of known devices with the right driver; only keyboards type; what keeps an address taken; keyboards come up as long as there is an address, unplugging is noticed |
| `usb_transfer` | through lost packets and acknowledges, NAKs, stalls and a dead controller: probes decide by the device's descriptors, descriptors are read whole, reports arrive once and in order, everything returns |
| `jtag_uart` | both directions are lossless streams, no character is stuck behind a disabled interrupt, calls return with and without a host |
| `clocks` | alarms are called when due, across roll-overs and while alarms leave the list; the USB waits are never too short, and end unless they end behind the overflow |
| `settle` | a wait that ends behind the overflow does not end (violation, see below) |
| `alt_fd` | no descriptor is lost or given out twice, wherever an open fails; a locked device is shut |
| `alt_fd_lock` | a lock is given although the device is shared (violation, see below) |
| `usb_host_lost` | an interrupt nobody serviced is cleared (violation, see below) |

**Refinements.** `FollowsCampaign` (`GameFlow` to `WaveCampaign`; a game whose count a press has
spoilt maps to the first wave untouched), `DrivesArray` (`Offence` drives the array by the clean
specification of `EnemyStatus`), `ImplementsPipe` (`UsbTransfer` and `HidProbe` to
`ReportPipe`), `InOrder` (`JtagUart` to two `ByteStream`s, whose content is FIFO and ring
together), `ImplementsAlarms` (`AltTick` to `AltAlarm`, whose set of alarms is what can be
reached along the links, and from there to `AlarmClock`, which counts the ticks left).

**The button.** `KEY[0]` is a step of every specification of the game. `Spec` lets it be pressed in any
frame. Two modules also have a `CleanSpec`, for what a badly timed press breaks because a
register is not reset: in `EnemyStatus` (and `Offence`, which has to drive the
array as `EnemyStatus` requires) it is not pressed while kills of the current wave are counted
(`sig` is not reset; what the counter does then is `KillCountNeverLags`, proved, and
`LevelStateMeansStuck`); in `Defence` not while a missile, erased ones included, is at the
height of the ship (its coordinates are not reset). `GameFlow` lets it be pressed at any time
and keeps in `clean` whether the last press was such a one; `ScoreCountsKills` and two clauses
about lost games are claimed while it was not.

**Bounds.** `EnemyStatus` and `GameFlow` run on the real waves; `MaxSig` is 12: wave 10
has eleven enemies, and `sig` passes every threshold (at most 7), so that both victory and
the stuck counter are reached; `MCMaxLives` = 2 is
enough for being alive, hit, and dead. `Picture` has to count pixels, so its screen is
small: 5 by 6 clocks with a visible corner, a blanking interval and both pulses, a ship
whose positions wrap, a sway of five pixels. The numbers of the source (800 by 525, 576,
999, 1024, 32, 20) satisfy the same assumptions `TimingAssumption`, `PositionAssumption` and
`ShiftAssumption`, from which the theorems below give the safety properties for all sizes.
`Offence` divides the width by eight and has two rows of three columns: an array
that sways by more than half a column, enemies above each other, waves sharing slots, a
fast wave, ships at both ends, all as in the source; `GeometryAssumption` states what the
small geometry shares with the real one (1024, 64, 32, six rows, ten columns, muzzle at 30,
shots from 448 in steps of 4, a sway of 32, ships up to 576), and is all the theorems use. `Defence` shrinks the fall to a band of a few
frames and keeps the relation that matters, `ShieldAssumption`, from which the theorems
follow for every size. `UsbHost` has three
addresses and seven changes of the port after power-up, which is enough to unplug, replug,
replace and have a bad contact in the middle of an enumeration, and to use up the addresses
with a keyboard still to come: that takes six.
`HidProbe` counts bytes in quarters of a packet of endpoint 0: `MCDevices` has a keyboard
whose reports fill a packet, a mouse with shorter ones, a device whose keyboard is its
second interface, and a keyboard whose endpoint lies behind the end of `bigbuf`; the host's
toggle begins with either value, as a former device may have left it; a
configuration takes several packets with a short last one, and the limits of NAKs and
retries are three (in the source 200 and 3), so that one may be reached while the other
counts. Descriptors of length 0, at which the walk would stand still, are malformed and
left out; three reports are enough for one lost, one repeated and one after it.
`JtagUart` has rings of three slots, two of which hold characters, FIFOs of one, calls of
up to three characters (more than a ring) and a time-out of two seconds: rings fill, wrap and
run empty under every call. Characters are numbered modulo `K` >= `BufLen`; at most
`BufLen - 1` of a direction are in the ring and each side of it is a first-in first-out
queue, so a lost or repeated character shows. `HostTimers` has a word of 16 values and two
ticks per second with a factor of two: the product overflows twice in a turn of the tick
counter as it does a thousand times with 2^32, 1000 and 1000, and both waits can begin on
either side. Two alarms with periods and delays on both sides of the roll-over are enough
for every change of a neighbour in the list; an alarm is not started while it is registered
(the HAL does not allow it) and a callback stops no other alarm (none in the repository
does). `AltFd` has seven descriptors, three reserved and four to open, and three devices,
one of which may refuse; the pool runs out, and a name may belong to no device. Its theorems,
like those of the other modules, hold for any number of both.

**Fairness.** The game modules assume weak fairness of `Frame`: vsync rises for ever. Fairness
asks nothing of steps that change no register, so `GameFlow` keeps the parity of the frames
as history: else it would force the player to hit something in the end. (In the other modules
a position or a timer moves in every frame the properties are about.) That vsync goes on
is not taken on faith: `GameRunsOn` checks it in `Picture`, whose only fairness is
that the oscillator does not stop. Nothing is assumed about the player, the button or the
shooters; `GameRunsOn`, which a button pressed for ever would break, says so.
`UsbHost` assumes that the loop of `main` keeps running
(each step of the firmware terminates: that is `TransferEnds` of `HidProbe`), that the
controller ends its bus resets, and that a device
left in SETTLE long enough leaves it (`WaitsEnd`; wrong near the overflow of the clock, see
below). `KeyboardComesUp` is claimed of behaviours in which transfers to a present device
succeed, and it and `UnplugIsNoticed` of those in which the port
does not change within the handler; the run `usb_host_lost` shows why the latter is needed.
`KeyboardComesUp` has a third premise: since the device table was last cleared the port has
changed fewer than `2 * (NumDevices - 1)` times, 14 in the code. Only an unplug that is seen
clears the table. A bad contact before `main` has taken the device over is none
(`transfer.c:268`), nor is a replug that looks like one change, and each of them leaves an
address taken; `AddressesLast` bounds how many, two changes of the port for each beside the
first. The limit is exact: with one change more TLC finds the keyboard in ERROR.
`HidProbe` assumes weak fairness of the firmware and of the controller, which ends every
packet or is dead, and strong fairness of `Arrival`: a packet that is sent again and again,
and its acknowledge, get through some day. Without it nothing could promise that a report
arrives. `JtagUart` assumes that processor and timer go on, nothing of the host.
`HostTimers` assumes that the timer ticks, and strong fairness of `Expire`: the main loop
looks at the clock while it shows an expired time, if it does so again and again.

## Where the code and its comments disagree

Three of these are runs whose property is what a comment says and which TLC refutes:

| Run | Property | What happens |
|---|---|---|
| `usb_host_lost` | `OnlyServicedCleared` | a change of the port between the probe and the acknowledge is cleared unserviced |
| `settle` | `SettleEnds` | the clock of the settle timer (`transfer.c:281`) jumps back to 0 every 71.6 minutes; a device attached in the 200 ms before waits for a time it never shows |
| `alt_fd_lock` | `LockIsExclusive` | the search for other users ends before the highest descriptor (`alt_fd_lock.c:61`): of two descriptors of a device the lower one gets the lock that `:43-44` promises only "if there are no other open file descriptors" |

The modules state more of the comments' claims that the code does not satisfy. TLC refutes
each within seconds when it takes the place of the properties of the configuration named (with
the specification given, where it is another one); they are kept as definitions, not as runs.

| Property | Configuration | What happens |
|---|---|---|
| `NeverStuck` | `GameFlow` | reset in mid-wave leaves `sig`: a later wave never ends |
| `StateNamesLevel` | `GameFlow` | all waves are fought in state 1 |
| `EnemiesAreShown` | `GameFlow` | wave 10 is painted without enemies (`4'h10` is 0 in four bits) |
| `SingleCycleFlag` | `Offence` | the enemy flag stays high for many frames while the erased missile lies on a living enemy |
| `KillsNeedMissile` | `Offence` | an erased missile kills |
| `DisplayShowsLives` | `Defence` | the health bar drops while the ship is invincible |
| `StartScreenIsSafe` | `Defence`, `Spec` | a life is lost on the start screen |
| `EnemiesShoot` | `Defence` | nobody shoots at a ship below empty columns |
| `PulseOnItsLines` | `Picture` | pulse in lines 489-490, comment says 490-491 |
| `NeverDefault` | `UsbHost` | the error state runs into "Should never get here" |
| `DetachedTableIsClear` | `UsbHostLost` | the device table is not cleared, an address is lost |

Met while modelling, and visible in the modules: `main.c:160` takes a NAK for "no new data",
also when it ends a poll of several packets that has already taken some; the UART's `write`
returns "Host not connected" (`altera_avalon_jtag_uart_write.c:214`) after a single second
without the host if the ring stayed full that long (`:187` tests `host_inactive`, not the
time-out); closing a standard descriptor does not release its lock
(`alt_release_fd.c:46`, against `alt_fd_lock.c:47`). An address that an interrupted enumeration
has taken stays taken: kb, noise, kb, noise, kb, noise, kb use up three addresses and leave the
last keyboard in ERROR although every transfer succeeded, so `KeyboardComesUp` without its third
premise is refuted by the configuration of `UsbHost` (seven such rounds in the code). No
comment says otherwise, so it is a premise and not a run.

## What is proved

Every safety property and every refinement that a passing run checks is also a theorem, for
every value of the constants that satisfies the named assumptions (TLC evaluates these on
the instance it checks). A theorem of the form `Spec => []P` rests on an inductive invariant
`Inv` of its module: `Init => Inv`, one lemma for each action that `Inv` survives it, and
`Inv => P`. The invariants were checked with TLC before they were proved.

**Rules of the game (`GameFlowProofs`).**

- The array, from `WaveAssumption` (each wave but the last has one enemy more than
  its threshold). `TypeCorrect` is inductive. For
  `KillsAccountedFor` the invariant is the equation `sig + |enemies| = |wave|` itself plus
  types: a kill moves one from the set to the counter (cardinality of a set less a member),
  and at the threshold exactly one enemy is left, so the load restores both. With resets at
  any time only `>=` survives (`KillCountBounded`). `Implements` maps a kill below the
  threshold to `Kill`, the one at the threshold to `ClearWave`: it needs the equation to
  know that the enemy hit is the last.
- `ScoreIsDecimal` by cases on the carries. `VictoryEarned` and
  `LevelMeansStuck` share one invariant: an empty array stays empty until the button, because
  loading needs a hit and a hit needs a living enemy; the state machine sees a frame-old
  array, so the facts about `state` need the facts about the array before and after the step.
  `VerdictsStand` is the same invariant seen from a step.
- `ScoreIsKills`, also from `ScoreAssumption` (fewer than a thousand enemies): as long as the
  last press was clean, the score is the number of enemies of the waves passed plus those
  missing from this one. `KillsCounted` and `CampaignFollowed` come from the same invariant: while
  `clean` holds, a step of the game is one of the array's clean steps or leaves it alone, and a
  press restores the first wave in either case. `KilledBefore` is a recursive function; that it exists is itself proved, by
  the least wave for which it would not.

**Picture (`PictureProofs`).**

- The beam, from `TimingAssumption`: one invariant ties the history of ticks to
  the line the beam is in (`OneTick`, `TicksOffScreen`). The array's movement, from
  `ShiftAssumption`: the span plus "moving left means at least one pixel to go", strong
  enough for steps of up to 3 quarters. The ship, from `LivesAssumption` and
  `PositionAssumption`: the bound on the pixel position is inductive; the wrap at the left
  edge falls into the overflow test.
- `PartsImplemented`: the composition steps each part only as the part's own specification
  allows, or leaves it alone, so the parts' invariants hold in the picture. From them
  `StaysOnScreen`, `NeverTeleports`, `SkipsNoPixel`; `HoldsStill` also needs
  that the step which raises `VGA_VS` paints nothing.

**Shots.**

- `OffenceProofs`. `OffenceDrivesArray`: each step of `Offence` is a step of `EnemyStatus`'s
  clean specification or leaves it unchanged, because the index written with the flag is
  that of a living enemy. `IndexSafe` and `HitsAreDrawn`, from `GeometryAssumption`, rest on
  an invariant: a missile that flies has an X of at least `Muzzle` and a Y that is a multiple
  of its step (`MissileInv`), and the array is left of its limit (`SwayInv`). The subtraction then
  wraps by at most half a column and ends in the right half of one (`OverSprite`), where no
  sprite is; without a wrap the column is one of the array's. The divisions, bit selections
  in the source, are lemmas about any divisor (`Parts`, `Compose`, `QuotientBelow`).
- `DefenceProofs`, from `DefenceAssumption` and `ShieldAssumption`: the shield outlasts the
  fall of a missile past the ship, `(Shield + 3) * FallStep >= PlayerBottom - PlayerTop`.
  `OneLife` needs to know where the missile that has cost a life is: past
  the ship, or so far down that the frames the shield has counted are behind it (`Covered`).
  For `NeverFlatters` the flag, an edge to the health bar and a level to the ship, has to be
  followed through the frame between: while it is up and has cost nothing yet, the bar is
  one life ahead (`Ahead`).

**USB.**

- `UsbHostProofs`, for any number of addresses. The driver's `GetDriverandReport` takes the
  last entry of the device table, and `main` keeps a copy of the class. That both belong to
  the device at hand needs that addresses are given in order and only returned all at once
  (`GivenInOrder`), that the table's entry was written by the probe of this device
  (`RunsWhatItConfigured`), and that `main` gives up its copy before another device can be
  configured (`CopyIsCurrent`, which in turn needs that `USB_init` never leaves the host in
  the running state). From it `PollsKnown`, `DriverMatches` and `KeyboardsType`. For
  `AddressesPaid` an address that is about to be given counts as taken (`UnderWay`), and so does
  the next one of a device whose arrival will start its enumeration again; each has been paid
  for with two changes of the port, the device that is there now being one of them (`PaidFor`).
- `HidProbeProofs`, for any packet sizes, limits and devices. `ReadsWhole`: after any loss of
  packets and acknowledges the two toggles tell who has seen the last acknowledge, so what has been received
  is in order (`InOrderSoFar`). `ImplementsReports` carries the same facts from one poll to
  the next (`Between`, `Polling`), and needs `ReportAssumption`: a report ends its poll, being
  shorter than a packet or all of the eight bytes. The keyboards and mice of the boot protocol
  satisfy it; a device whose full packets are shorter than the poll could lose what
  `main.c:160` discards with the NAK. `VerdictRight`, from `ProbeAssumption` (the descriptors
  add up to the total): the walk has not met the wanted descriptor before the place where it is
  (`Walk`). The offsets of the descriptors are a recursive function, which is
  shown to exist first.

**HAL.**

- `JtagUartProofs`, from `UartAssumption` (a ring has at least two slots, and there are at
  least as many character numbers as slots). `HandlerAwake`: characters in the transmit ring mean an enabled
  interrupt or a program about to enable it (`WriteAwake`), and a disabled read
  interrupt means characters in the receive ring or a program about to enable it; the
  second had to be said for a call that has read nothing so far (`ReadAwake`).
  `StreamsInOrder`: the chunk that the program has measured still fits, or is still there,
  in one piece, whatever the handler has done since (`Chunks`); with it each copy appends to
  or takes from the content of a ring (`PutContents`, `TakeContents`), where the content ends
  at what is copied and not at the index while a copy waits for its index (`Filled`, `Emptied`;
  `Marks`, `Prefix`), the handler's bodies
  move characters between FIFO and ring and leave the stream as it is, and the
  other steps are those of `ByteStream`.
- `HalProofs`, alarms, from `AlarmAssumption` (delays and periods are shorter than a turn of
  the counter) and `ListAssumption`. `ListWalksOnce`: the links are inverse to each other
  (`Mutual`), point to themselves exactly outside of the list (`Apart`), and following them from an
  alarm never comes back to it (`Straight`); then `Insert` and `Remove` add and remove one alarm, and
  removing the alarm that is being visited does not change the rest of the walk.
  `AlarmsOnTime` continues from there to `AlarmClock`. That alarms are on time is no invariant
  of the counter alone: the induction needs
  that the flag of each registered alarm says on which side of the next roll-over it lies, seen
  from this tick for those already looked at and from the last one for the others
  (`FlagsRight`). With it each visit is a countdown step of `AlarmClock` and a callback happens
  exactly at 0.
- `HalProofs`, the host's waits, from `TimerAssumption`: no deadline goes beyond the last
  value of a word (the clock ends at 4294967, so no time of five seconds can take it there).
  `NoWaitTooShort`: the product grows by `Scale` in each tick or, where it overflows,
  by less (`NotAhead`), so a clock that shows the deadline has had its ticks.
- `HalProofs`, descriptors, from `FdAssumption`. Neither property is inductive: `open` finds
  the lowest free descriptor and searches up to the mark, so the induction needs that no
  descriptor above the mark was ever used (`Marked`), that only descriptors in use are locked
  and that they are marked as devices, and, while the standard descriptors are being
  redirected, that descriptor 3 is the only one that `open` can return (`FdsConsistent`).
  `NoFdLost` and `LocksShutOut` follow from it, the second as a step property. What an `open` under
  way has claimed is part of the invariant: the descriptor in use that nobody has been given
  is `index`, from the claim to the return or the clean-up.

**Only model-checked**: the liveness properties (`VerdictIsShown`, `GameRunsOn`, `FlagFalls`,
`ShotEnds`, `NothingHangs`, `KeyboardComesUp`, `UnplugIsNoticed`, `TransferEnds`, `EveryReportArrives`,
`CallsReturn`, `WaitsEnd`) and everything about fairness, which are out of the prover's reach.

## What is not modelled

- Sprite, font and ship tables, colours and text layout: combinational data. Metastability and
  the race between `enemy_hit` and the flag that clocks its reader: below the level of the
  language's zero-delay semantics. `pulse` and `co` of the state machine: no rule depends on
  them.
- All game modules in one composition. Each of the four compositions leaves the others'
  parts open and thus covers what the whole can do; positions of ship, array and two
  missiles together with waves and lives are out of TLC's reach, and what the four assume of
  each other (vsync goes on, the array is driven as `EnemyStatus` requires) is checked where
  it is provided.
- Devices that answer later than the five seconds `XferDispatchPkt` waits: the controller ends
  a packet within a frame or is dead, so an answer that comes after giving up belongs to no
  hardware. Malformed descriptors (length 0).
- The `ioctl` of the UART driver, which sets the time-out, and its polled "small" variant,
  which is not configured. The interrupt dispatcher, beyond which handler runs first. The SPI
  driver: one loop over a status register. File systems: none is registered.
- The rest of the two board support packages: `usb_kb_bsp` and `lab61_app_bsp` hold the same
  HAL sources, headers of register masks, stubs of system calls that return an error,
  profiling, logging, cache and start-up code, and generated address maps. Most of the
  repository's C lines are there; they keep no state that two calls of this firmware share,
  or are not called by it, and a model of them would say nothing. This is why the mapped
  definitions cover a small part of the C lines, although they cover the firmware. The
  game itself is SystemVerilog.
- `lab61.sv`, `lab62.sv`, `ball.sv`, `enemy.sv`, `detectCollision.sv`, `image_mapper.sv`: not
  instantiated by the game. `ImageTraversal`: an unfinished host tool that does not compile.
  `lab61_app/main.c`: a counting loop. Qsys and Quartus outputs: vendor code.

## Plan

Done: the rules, movement, shots, displays and timing of the game; the firmware's state
machine, transfers, probes and timers; the UART driver, alarms and file descriptors it runs
on; the proofs above. What could follow, in order of worth:

1. That `UsbHost`'s one-step transfers are an abstraction of `UsbTransfer`'s, as a refinement.
2. A composition of shots and rules in which the missiles are no longer open, in a geometry
   of one row.
