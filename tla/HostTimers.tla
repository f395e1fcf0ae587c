----------------------------- MODULE HostTimers -----------------------------
(***************************************************************************)
(* The timing of the USB host next to the alarms it shares the tick with.  *)
(* USB_Task notes when 200 ms will have passed and waits for the clock to  *)
(* get past that (transfer.c:275-284); XferDispatchPkt computes a deadline *)
(* of 5 s for each packet and gives up when the clock has reached it       *)
(* (transfer.c:144-163).  The clock is                                     *)
(*      (alt_nticks() * 1000) / alt_ticks_per_second()                     *)
(* in 32-bit arithmetic: the product overflows long before the tick        *)
(* counter does.  With 1000 ticks per second it is back at 0 every 71.6    *)
(* minutes.                                                                *)
(***************************************************************************)
EXTENDS AltTick

CONSTANTS
  Scale,              (* 1000                                              *)
  TicksPerSecond,     (* alt_ticks_per_second()                            *)
  SettleTime,         (* 200                                               *)
  XferTimeout,        (* USB_XFER_TIMEOUT                                  *)
  MaxAge              (* bound on the history variable                     *)

(* What the clock shows last before it jumps back to 0. *)
LastClock == (Word - 1) \div TicksPerSecond

(* No deadline is beyond the last value of a word (with 1000 ticks per     *)
(* second the clock ends at 4294967), and the history reaches beyond both  *)
(* times.                                                                  *)
ASSUME TimerAssumption ==
  /\ {Scale, TicksPerSecond, SettleTime, XferTimeout, MaxAge} \subseteq Nat \ {0}
  /\ \A time \in {SettleTime, XferTimeout} :
       LastClock + time < Word /\ time * TicksPerSecond < MaxAge * Scale

VARIABLES
  deadline,     (* usb_delay, or timeout in XferDispatchPkt                *)
  waiting,      (* "settle", "packet", or "no" if USB_Task does neither    *)
  age           (* history: ticks since the wait began, up to MaxAge       *)

timerVars == <<deadline, waiting, age>>
allVars == <<tickVars, timerVars>>

Clock == ((nticks * Scale) % Word) \div TicksPerSecond

HostInit == TickInit /\ deadline = 0 /\ waiting = "no" /\ age = 0

Wait(what, time) ==
  /\ waiting' = what /\ age' = 0
  /\ deadline' = (Clock + time) % Word

(* USB_STATE_ATTACHED; the probe of a changed port comes back to it at any *)
(* time.                                                                   *)
Attach == waiting # "packet" /\ Wait("settle", SettleTime)

(* Nothing else happens in the main loop until the packet is done. *)
DispatchPkt == waiting = "no" /\ Wait("packet", XferTimeout)

(* The clock is only compared while one waits. *)
Forget == waiting' = "no" /\ deadline' = 0 /\ age' = 0

Settled_Differs == Clock # deadline

Settled == Clock > deadline

(* USB_ATTACHED_SUBSTATE_SETTLE *)
Settle == waiting = "settle" /\ Settled /\ Forget

TimedOut_Past == Clock > deadline

TimedOut == Clock >= deadline

(* rcode = 0xff *)
GiveUp == waiting = "packet" /\ TimedOut /\ Forget

(* The device is gone, or the packet is done. *)
Over == waiting # "no" /\ Forget

Expire == MainRuns /\ (Settle \/ GiveUp) /\ UNCHANGED tickVars

Change == MainRuns /\ (Attach \/ DispatchPkt \/ Over) /\ UNCHANGED tickVars

(* Time passes, for the alarms as for the host. *)
Pass ==
  /\ Tick
  /\ age' = IF StartTick /\ waiting # "no" /\ age < MaxAge THEN age + 1 ELSE age
  /\ UNCHANGED <<deadline, waiting>>

HostNext ==
  \/ Pass \/ Expire \/ Change
  \/ (\E a \in Alarms : StartAlarm(a) \/ StopAlarm(a)) /\ UNCHANGED timerVars

(* The timer goes on, and the main loop looks at the clock often enough.   *)
HostSpec ==
  /\ HostInit /\ [][HostNext]_allVars
  /\ WF_allVars(Pass) /\ SF_allVars(Expire)

----------------------------------------------------------------------------

(* Wherever the overflow of the clock falls, no device is reset before it  *)
(* has settled and no packet is given up before its five seconds are over  *)
(* (in ticks, which are at least as fine as the clock).                    *)
NeverEarly ==
  [][Expire => age * Scale > (IF waiting = "settle" THEN SettleTime ELSE XferTimeout - 1)
                               * TicksPerSecond]_allVars

(* A wait ends, or begins anew, if its end lies before the next overflow;  *)
(* if the clock was not looked at in time it takes another turn.           *)
WaitsEnd ==
  /\ waiting = "settle" /\ deadline < LastClock ~> waiting # "settle" \/ age = 0
  /\ waiting = "packet" /\ deadline <= LastClock ~> waiting # "packet"

(* transfer.c:280, "waiting for settle timer to expire": it does expire,   *)
(* unless the device comes again and again.                                *)
SettleEnds == waiting = "settle" ~> waiting # "settle" \/ age = 0

=============================================================================
