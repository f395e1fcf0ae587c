------------------------------ MODULE UsbHost ------------------------------
(***************************************************************************)
(* The firmware that turns a USB keyboard into the keycode of the game:    *)
(* the main loop (main.c), the host state machine USB_Task (transfer.c),   *)
(* the handler of the host controller's interrupts (MAX3421E.c, polled,    *)
(* not a real interrupt) and the class probes (HID.c).                     *)
(*                                                                         *)
(* The firmware is sequential; what is concurrent with it is the port:     *)
(* devices come and go between any two of its accesses to the controller.  *)
(* The controller and the port are modelled from how the firmware uses     *)
(* them: CONDETIRQ on every change of the port and during a bus reset      *)
(* (MAX3421E.c:142), BUSEVENTIRQ at the end of a bus reset (:227), and     *)
(* only CONDETIRQ enabled on the interrupt pin (:190).                     *)
(*                                                                         *)
(* A transfer is one step; it fails if nobody answers at its address and   *)
(* may fail in any case.  UsbTransfer is about what happens inside.        *)
(***************************************************************************)
EXTENDS Naturals, FiniteSetsExt

CONSTANTS
  NumDevices,   (* USB_NUMDEVICES, 8: addresses are 1 .. NumDevices - 1  *)
  Keycodes,     (* what a keyboard can report, 0 for no key              *)
  MaxEvents     (* bound on the changes of the port                      *)

ASSUME HostAssumption ==
  /\ NumDevices \in Nat /\ NumDevices >= 2
  /\ 0 \in Keycodes
  /\ MaxEvents \in Nat

VARIABLES
  usb_task_state,
  devtable,            (* epinfo and devclass of each address             *)
  tmp_addr,            (* address given last                              *)
  hid_addr,            (* hid_device.addr                                 *)
  pc,                  (* what the main loop does next                    *)
  device,              (* main's copy of the device class                 *)
  runningdebugflag,
  keycode,             (* the PIO the game reads                          *)
  condet, busevent,    (* bits of HIRQ                                    *)
  acked,               (* busevent as the handler read it, to be cleared  *)
  busrst,              (* a bus reset is in progress                      *)
  port,                (* what is plugged in                              *)
  dev_addr,            (* the address that the plugged device answers to  *)
  events,              (* changes of the port so far                      *)
  trouble,             (* history: "failed" after a transfer that failed  *)
                       (* although the device was there, "raced" after a  *)
                       (* change of the port while an interrupt was being *)
                       (* handled                                         *)
  changes              (* history: changes of the port since the device   *)
                       (* table was last cleared                          *)

tableVars == <<devtable, tmp_addr, hid_addr>>
mainVars == <<device, runningdebugflag, keycode>>
chipVars == <<condet, busevent, acked, busrst>>
portVars == <<port, dev_addr, events>>
history == <<trouble, changes>>
vars == <<usb_task_state, tableVars, pc, mainVars, chipVars, portVars, history>>

(* USB.h; a substate is the state plus a number. *)
DETACHED == 0
INITIALIZE == 1
WAIT_FOR_DEVICE == 3
ILLEGAL == 4
ATTACHED == 16
SETTLE == 17
RESET_DEVICE == 18
WAIT_RESET_COMPLETE == 19
WAIT_SOF == 20
GET_DEVICE_DESCRIPTOR_SIZE == 21
ADDRESSING == 32
CONFIGURING == 48
RUNNING == 64
ERROR == 255

(* usb_task_state & USB_STATE_MASK *)
MainState(state) == (state \div 16) * 16

Addresses == 1 .. NumDevices - 1

HID_K == 1
HID_M == 2
NoDevice == 255

Devices == {"keyboard", "mouse", "other"}

Unused == [epinfo |-> "null", devclass |-> 0]
CleanTable == [a \in Addresses |-> Unused]

Init ==
  /\ usb_task_state = INITIALIZE
  /\ devtable = CleanTable /\ tmp_addr = 0 /\ hid_addr = 0
  /\ pc = "init"
  /\ device = NoDevice /\ runningdebugflag = FALSE /\ keycode = 0
  /\ condet = FALSE /\ busevent = FALSE /\ acked = FALSE /\ busrst = FALSE
  /\ port \in {"none", "keyboard"} /\ dev_addr = 0 /\ events = 0
  /\ trouble = {} /\ changes = 0

----------------------------------------------------------------------------
(* The controller, MAX3421E.c                                              *)

BusProbe_NoKludge(state) ==
  CASE port \in Devices -> ATTACHED
    [] port = "noise"   -> ILLEGAL
    [] port = "none"    -> IF MainState(state) = DETACHED THEN WAIT_FOR_DEVICE
                           ELSE INITIALIZE

BusProbe_KeepsReset(state) ==
  IF state = WAIT_RESET_COMPLETE THEN state
  ELSE CASE port \in Devices -> ATTACHED
         [] port = "noise"   -> ILLEGAL
         [] port = "none"    -> IF MainState(state) = DETACHED THEN WAIT_FOR_DEVICE
                                ELSE INITIALIZE

(* MAX_busprobe: the state after looking at the lines.  SE1, here noise,   *)
(* is what a bad contact looks like.                                       *)
BusProbe(state) ==
  CASE port \in Devices -> IF state = WAIT_RESET_COMPLETE THEN state ELSE ATTACHED
    [] port = "noise"   -> ILLEGAL
    [] port = "none"    -> IF MainState(state) = DETACHED THEN WAIT_FOR_DEVICE
                           ELSE INITIALIZE

(* usb_task_state++ *)
Advance(state) == (state + 1) % 256

(* MAX3421E_Task, MaxIntHandler up to the write that acknowledges. *)
HandleInterrupt ==
  /\ pc = "irq"
  /\ \/ /\ ~condet
        /\ pc' = "usb"
        /\ UNCHANGED <<usb_task_state, acked>>
     \/ /\ condet
        /\ usb_task_state' = IF busevent THEN Advance(BusProbe(usb_task_state))
                             ELSE BusProbe(usb_task_state)
        /\ acked' = busevent
        /\ pc' = "ack"
  /\ UNCHANGED <<tableVars, mainVars, condet, busevent, busrst, portVars, history>>

(* The last write of MaxIntHandler clears the bits it read. *)
Acknowledge ==
  /\ pc = "ack"
  /\ condet' = FALSE
  /\ busevent' = (busevent /\ ~acked)
  /\ acked' = FALSE
  /\ pc' = "usb"
  /\ UNCHANGED <<usb_task_state, tableVars, mainVars, busrst, portVars, history>>

(* MAX3421E_init up to the probe; the chip reset ends a bus reset. *)
InitController ==
  /\ pc = "init"
  /\ usb_task_state' = BusProbe(usb_task_state)
  /\ busevent' = FALSE /\ busrst' = FALSE
  /\ pc' = "initack"
  /\ UNCHANGED <<tableVars, mainVars, condet, acked, portVars, history>>

(* MAX3421E_init from clearing CONDETIRQ on, and USB_init. *)
FinishInit ==
  /\ pc = "initack"
  /\ condet' = FALSE
  /\ devtable' = CleanTable /\ changes' = 0
  /\ pc' = "irq"
  /\ UNCHANGED <<usb_task_state, tmp_addr, hid_addr, mainVars, busevent, acked,
                 busrst, portVars, trouble>>

----------------------------------------------------------------------------
(* USB_Task, transfer.c                                                    *)

Answers(addr) == port \in Devices /\ dev_addr = addr

Transfer(addr, ok) ==
  /\ ok => Answers(addr)
  /\ trouble' = IF Answers(addr) /\ ~ok THEN trouble \cup {"failed"} ELSE trouble

Goto(state) == usb_task_state' = state

(* The branches that touch nothing but the state. *)
Settling ==
  /\ \/ usb_task_state = ATTACHED /\ Goto(SETTLE)
     \/ usb_task_state = SETTLE /\ Goto(RESET_DEVICE)
     \/ usb_task_state = SETTLE /\ Goto(SETTLE)           (* not 200 ms yet *)
     \/ usb_task_state = WAIT_RESET_COMPLETE /\ ~busrst /\ Goto(WAIT_SOF)
     \/ usb_task_state = WAIT_RESET_COMPLETE /\ busrst /\ Goto(usb_task_state)
     \/ usb_task_state = WAIT_SOF /\ Goto(GET_DEVICE_DESCRIPTOR_SIZE)
  /\ UNCHANGED <<tableVars, chipVars, dev_addr, history>>

Cleanup_TableKept ==
  /\ usb_task_state = INITIALIZE
  /\ changes' = 0
  /\ Goto(WAIT_FOR_DEVICE)
  /\ UNCHANGED <<tableVars, chipVars, dev_addr, trouble>>

(* USB_init *)
Cleanup ==
  /\ usb_task_state = INITIALIZE
  /\ devtable' = CleanTable /\ changes' = 0
  /\ Goto(WAIT_FOR_DEVICE)
  /\ UNCHANGED <<tmp_addr, hid_addr, chipVars, dev_addr, trouble>>

(* The reset makes a device forget its address and shows as CONDETIRQ. *)
ResetDevice ==
  /\ usb_task_state = RESET_DEVICE
  /\ busevent' = FALSE /\ busrst' = TRUE
  /\ condet' = (condet \/ port \in Devices)
  /\ dev_addr' = 0
  /\ Goto(WAIT_RESET_COMPLETE)
  /\ UNCHANGED <<tableVars, acked, history>>

GetDescriptor ==
  /\ usb_task_state = GET_DEVICE_DESCRIPTOR_SIZE
  /\ \E ok \in BOOLEAN : Transfer(0, ok) /\ Goto(IF ok THEN ADDRESSING ELSE ERROR)
  /\ UNCHANGED <<tableVars, chipVars, dev_addr, changes>>

Free == {a \in Addresses : devtable[a].epinfo = "null"}

(* The device may take the address although its answer gets lost. *)
SetAddress ==
  /\ usb_task_state = ADDRESSING
  /\ \/ /\ Free = {}
        /\ Goto(ERROR)
        /\ UNCHANGED <<devtable, tmp_addr, dev_addr, trouble>>
     \/ /\ Free # {}
        /\ devtable' = [devtable EXCEPT ![Min(Free)].epinfo = "dev0"]
        /\ \/ /\ Transfer(0, TRUE)
              /\ tmp_addr' = Min(Free) /\ dev_addr' = Min(Free)
              /\ Goto(CONFIGURING)
           \/ /\ Transfer(0, FALSE)
              /\ dev_addr' \in {dev_addr} \cup (IF Answers(0) THEN {Min(Free)} ELSE {})
              /\ Goto(ERROR)
              /\ UNCHANGED tmp_addr
  /\ UNCHANGED <<hid_addr, chipVars, changes>>

DriverOf(dev) == IF dev = "keyboard" THEN HID_K ELSE HID_M

Configure_AddressKept ==
  /\ usb_task_state = CONFIGURING
  /\ \/ /\ Transfer(tmp_addr, port = "other" /\ Answers(tmp_addr))
        /\ Goto(ERROR)
        /\ UNCHANGED <<devtable, hid_addr>>
     \/ /\ port \in {"keyboard", "mouse"} /\ Answers(tmp_addr)
        /\ devtable' = [devtable EXCEPT
             ![tmp_addr] = [epinfo |-> "hid", devclass |-> DriverOf(port)]]
        /\ \E ok \in BOOLEAN :
             Transfer(tmp_addr, ok) /\ Goto(IF ok THEN RUNNING ELSE ERROR)
        /\ UNCHANGED hid_addr
  /\ UNCHANGED <<tmp_addr, chipVars, dev_addr, changes>>

(* The probes: a boot keyboard or mouse whose configuration can be read is *)
(* entered in the table, and is up if it can be configured.                *)
Configure ==
  /\ usb_task_state = CONFIGURING
  /\ \/ /\ Transfer(tmp_addr, port = "other" /\ Answers(tmp_addr))
        /\ Goto(ERROR)
        /\ UNCHANGED <<devtable, hid_addr>>
     \/ /\ port \in {"keyboard", "mouse"} /\ Answers(tmp_addr)
        /\ devtable' = [devtable EXCEPT
             ![tmp_addr] = [epinfo |-> "hid", devclass |-> DriverOf(port)]]
        /\ hid_addr' = tmp_addr
        /\ \E ok \in BOOLEAN :
             Transfer(tmp_addr, ok) /\ Goto(IF ok THEN RUNNING ELSE ERROR)
  /\ UNCHANGED <<tmp_addr, chipVars, dev_addr, changes>>

Working == {INITIALIZE, SETTLE, ATTACHED, RESET_DEVICE, WAIT_RESET_COMPLETE, WAIT_SOF,
            GET_DEVICE_DESCRIPTOR_SIZE, ADDRESSING, CONFIGURING}

(* The other states, those no constant names included. *)
Idle ==
  /\ usb_task_state \notin Working
  /\ UNCHANGED <<usb_task_state, tableVars, chipVars, dev_addr, history>>

UsbTask ==
  /\ pc = "usb"
  /\ \/ Cleanup \/ Settling \/ ResetDevice \/ GetDescriptor \/ SetAddress
     \/ Configure \/ Idle
  /\ pc' = "app"
  /\ UNCHANGED <<mainVars, port, events>>

----------------------------------------------------------------------------
(* main                                                                    *)

(* GetDriverandReport: the class of the last device in the table. *)
LastClass ==
  LET used == Addresses \ Free
  IN  IF used = {} THEN NoDevice ELSE devtable[Max(used)].devclass

Report ==
  /\ ~runningdebugflag
  /\ runningdebugflag' = TRUE
  /\ device' = LastClass
  /\ UNCHANGED keycode

(* A poll without an answer, or without news, keeps the last keycode.  A   *)
(* report is read as a keyboard's, whatever sent it.                       *)
Poll ==
  /\ runningdebugflag
  /\ \/ device = HID_K /\ Answers(hid_addr) /\ keycode' \in Keycodes
     \/ UNCHANGED keycode
  /\ UNCHANGED <<device, runningdebugflag>>

Application_FlagKept ==
  /\ pc = "app"
  /\ \/ usb_task_state = RUNNING /\ (Report \/ Poll) /\ pc' = "irq"
     \/ usb_task_state # RUNNING /\ UNCHANGED mainVars /\ pc' = "irq"
  /\ UNCHANGED <<usb_task_state, tableVars, chipVars, portVars, history>>

Application ==
  /\ pc = "app"
  /\ \/ usb_task_state = RUNNING /\ (Report \/ Poll) /\ pc' = "irq"
     \/ usb_task_state = ERROR /\ UNCHANGED mainVars /\ pc' = "irq"
     \/ /\ usb_task_state \notin {RUNNING, ERROR}
        /\ runningdebugflag' = FALSE
        /\ pc' = IF runningdebugflag THEN "init" ELSE "irq"
        /\ UNCHANGED <<device, keycode>>
  /\ UNCHANGED <<usb_task_state, tableVars, chipVars, portVars, history>>

Firmware ==
  HandleInterrupt \/ Acknowledge \/ InitController \/ FinishInit \/ UsbTask \/ Application

----------------------------------------------------------------------------
(* The port and the controller's own steps                                 *)

PortChanges(to) ==
  /\ events < MaxEvents
  /\ port # to
  /\ port' = to
  /\ dev_addr' = 0
  /\ condet' = TRUE
  /\ events' = events + 1 /\ changes' = changes + 1
  /\ trouble' = IF pc \in {"ack", "initack"} THEN trouble \cup {"raced"} ELSE trouble
  /\ UNCHANGED <<usb_task_state, tableVars, pc, mainVars, busevent, acked, busrst>>

(* A device is plugged into a free port. *)
Plug == port \notin Devices /\ \E dev \in Devices : PortChanges(dev)

Unplug == port # "none" /\ PortChanges("none")

BadContact == PortChanges("noise")

ResetCompletes ==
  /\ busrst
  /\ busrst' = FALSE
  /\ busevent' = TRUE
  /\ UNCHANGED <<usb_task_state, tableVars, pc, mainVars, condet, acked, portVars, history>>

Next == Firmware \/ ResetCompletes \/ Plug \/ Unplug \/ BadContact

(* The loop of main never blocks, the controller ends its resets, and the  *)
(* settle time runs out.                                                   *)
SettleTimeUp == UsbTask /\ usb_task_state = SETTLE /\ usb_task_state' = RESET_DEVICE

Fairness ==
  /\ WF_vars(Firmware) /\ WF_vars(ResetCompletes)
  /\ SF_vars(SettleTimeUp)

Spec == Init /\ [][Next]_vars /\ Fairness

----------------------------------------------------------------------------

States == {INITIALIZE, WAIT_FOR_DEVICE, ILLEGAL, ATTACHED, SETTLE, RESET_DEVICE,
           WAIT_RESET_COMPLETE, WAIT_SOF, GET_DEVICE_DESCRIPTOR_SIZE, ADDRESSING,
           CONFIGURING, RUNNING, ERROR}

TypeOK ==
  /\ usb_task_state \in States \cup {2, 5}
  /\ devtable \in [Addresses -> [epinfo : {"null", "dev0", "hid"}, devclass : 0 .. 2]]
  /\ tmp_addr \in 0 .. NumDevices - 1 /\ hid_addr \in 0 .. NumDevices - 1
  /\ pc \in {"init", "initack", "irq", "ack", "usb", "app"}
  /\ device \in {NoDevice, 0, HID_K, HID_M}
  /\ keycode \in Keycodes
  /\ {runningdebugflag, condet, busevent, acked, busrst} \subseteq BOOLEAN
  /\ port \in Devices \cup {"none", "noise"}
  /\ dev_addr \in 0 .. NumDevices - 1
  /\ events \in 0 .. MaxEvents /\ trouble \subseteq {"failed", "raced"}
  /\ changes \in 0 .. events

(* kbdPoll and mousePoll dereference the endpoints of hid_device.addr      *)
(* without looking (HID.c:211, 219): whenever main reaches them, and when  *)
(* it first looks at a new device, the entry is there and is a HID         *)
(* device's.                                                               *)
PollsKnownDevice ==
  pc = "app" /\ usb_task_state = RUNNING
    => hid_addr \in Addresses /\ devtable[hid_addr].epinfo = "hid"

(* main polls with the driver of the device that is enumerated, never with *)
(* the class of an earlier one (its copy is made once per run).            *)
DriverMatchesDevice ==
  pc = "app" /\ usb_task_state = RUNNING /\ runningdebugflag
    => device = devtable[hid_addr].devclass

(* Only a keyboard can press keys: no report of a mouse that took its      *)
(* place ends up in the keycode.                                           *)
OnlyKeyboardsType == [][keycode' # keycode => port = "keyboard"]_vars

(* An address is given to every device that is enumerated and never given  *)
(* back by itself; the table is cleared when a device is seen to be gone.  *)
(* A bad contact is no such case (transfer.c:268, no cleanup), nor is a    *)
(* replug that is seen as one change.  So addresses do stay taken, but     *)
(* each after the first has cost two changes of the port that were not     *)
(* seen as an unplug (transfer.c:337-339).                                 *)
AddressesLast == Cardinality(Addresses \ Free) <= 1 + changes \div 2

(* A keyboard that stays plugged in is polled in the end, whatever was     *)
(* plugged in and taken out before, if no transfer failed and no interrupt *)
(* was lost, and as long as the port has not changed 2 * (NumDevices - 1)  *)
(* times, 14 in the code, without an unplug that is seen: then the         *)
(* addresses may be used up and the keyboard ends in ERROR.                *)
KeyboardComesUp ==
  [](trouble = {} /\ changes < 2 * (NumDevices - 1)) /\ <>[](port = "keyboard")
    => <>[](usb_task_state = RUNNING /\ runningdebugflag /\ device = HID_K)

Detached == usb_task_state < ATTACHED

(* A device that is gone for good is noticed, also after failed transfers, *)
(* if the port keeps still while an interrupt is being handled.            *)
UnplugIsNoticed ==
  []("raced" \notin trouble) /\ <>[](port = "none") => <>[]Detached

----------------------------------------------------------------------------
(* What the comments say                                                   *)

(* transfer.c:382, of the default case of USB_Task: "Should never get      *)
(* here".  The switch masks the state first, and no case label is ERROR    *)
(* masked.                                                                 *)
CaseLabels == {DETACHED, ATTACHED, ADDRESSING, CONFIGURING, RUNNING, ERROR}

NeverDefault == pc = "usb" => MainState(usb_task_state) \in CaseLabels

(* MAX3421E.c:231: "clear serviced IRQs".  If only serviced ones were      *)
(* cleared, then with no CONDETIRQ pending the firmware would know whether *)
(* there is a device.                                                      *)
OnlyServicedCleared ==
  pc = "irq" /\ ~condet => (port \in Devices <=> usb_task_state >= ATTACHED)

(* transfer.c:260, MAX3421E.c:170: "cleanup device data structures" when   *)
(* the device is gone.  If it were always done, no address would be taken  *)
(* while the firmware waits for a device.                                  *)
DetachedTableIsClear ==
  pc = "app" /\ Detached /\ usb_task_state # ILLEGAL => devtable = CleanTable

============================================================================
