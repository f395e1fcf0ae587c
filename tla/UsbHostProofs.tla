--------------------------- MODULE UsbHostProofs ---------------------------
(***************************************************************************)
(* Proofs about UsbHost, for every number of addresses, every set of       *)
(* keycodes and any number of changes of the port: main polls a device the *)
(* table knows, with the driver of that device, and only a keyboard can    *)
(* press keys.                                                             *)
(***************************************************************************)
EXTENDS UsbHost, FiniteSetTheorems, TLAPS

(***************************************************************************)
(* The inductive invariant.                                                *)
(***************************************************************************)

Ports == Devices \cup {"none", "noise"}

Entries == [epinfo : {"null", "dev0", "hid"}, devclass : 0 .. 2]

(* Registers that hold numbers, names or tables, and those that hold bits. *)
Values ==
  /\ usb_task_state \in States \cup {2, 5}
  /\ devtable \in [Addresses -> Entries]
  /\ tmp_addr \in 0 .. NumDevices - 1 /\ hid_addr \in 0 .. NumDevices - 1
  /\ pc \in {"init", "initack", "irq", "ack", "usb", "app"}
  /\ device \in {NoDevice, 0, HID_K, HID_M}
  /\ keycode \in Keycodes
  /\ port \in Ports
  /\ dev_addr \in 0 .. NumDevices - 1
  /\ events \in 0 .. MaxEvents /\ trouble \subseteq {"failed", "raced"}
  /\ changes \in 0 .. events

Bits ==
  /\ runningdebugflag \in BOOLEAN
  /\ condet \in BOOLEAN /\ busevent \in BOOLEAN
  /\ acked \in BOOLEAN /\ busrst \in BOOLEAN

(* The addresses in use are the first k. *)
Taken(k) == \A a \in Addresses : devtable[a].epinfo # "null" <=> a <= k

(* GetDriverandReport takes the last entry of the table: that is the       *)
(* device at hand because addresses are given in order and never returned  *)
(* one by one.                                                             *)
GivenInOrder ==
  /\ \E k \in 0 .. NumDevices - 1 : Taken(k)
  /\ usb_task_state \in {CONFIGURING, RUNNING}
       => tmp_addr \in Addresses /\ Taken(tmp_addr)

(* What has been configured is what main will poll; a device that answers  *)
(* while it runs is the one that was configured.                           *)
RunsWhatItConfigured ==
  usb_task_state = RUNNING =>
    /\ hid_addr = tmp_addr
    /\ devtable[hid_addr].epinfo = "hid"
    /\ dev_addr # 0 => /\ port \in {"keyboard", "mouse"}
                       /\ devtable[hid_addr].devclass = DriverOf(port)

(* The states in which main may still hold the class of the last run: it   *)
(* lets go of it before the next device can be configured.                 *)
Holding ==
  [init |-> {}, initack |-> {},
   irq  |-> {RUNNING},
   ack  |-> {RUNNING, ATTACHED, SETTLE, ILLEGAL, 5, INITIALIZE, 2},
   usb  |-> {RUNNING, ATTACHED, SETTLE, ILLEGAL, 5, INITIALIZE, 2},
   app  |-> {RUNNING, SETTLE, RESET_DEVICE, ILLEGAL, 5, WAIT_FOR_DEVICE, 2}]

CopyIsCurrent ==
  runningdebugflag =>
    /\ usb_task_state \in Holding[pc]
    /\ usb_task_state = RUNNING => device = devtable[hid_addr].devclass

NotUpDuringInit ==
  pc \in {"init", "initack"} => usb_task_state \notin {ADDRESSING, CONFIGURING, RUNNING}

(* What is under way: devices that will take an address unless the port    *)
(* changes again.  A device that is being given one may already have been  *)
(* followed by another.                                                    *)
Early == {ATTACHED, SETTLE, RESET_DEVICE, WAIT_RESET_COMPLETE, WAIT_SOF,
          GET_DEVICE_DESCRIPTOR_SIZE}

Restarting == port \in Devices /\ condet /\ pc # "ack"

UnderWay ==
  IF usb_task_state = ADDRESSING /\ pc = "usb" THEN IF Restarting THEN 2 ELSE 1
  ELSE IF \/ usb_task_state = ADDRESSING \/ Restarting
          \/ port \in Devices /\ usb_task_state \in Early
       THEN 1 ELSE 0

PortWeight == IF port \in Devices THEN 2 ELSE 1

(* Of k addresses that are taken. *)
PaidFor(k) ==
  /\ 2 * k <= changes + 2
  /\ pc \notin {"init", "initack"} => 2 * (k + UnderWay) <= changes + PortWeight

(* A further address costs two changes of the port, and so does one that   *)
(* is about to be given.                                                   *)
AddressesPaidFor == \A k \in 0 .. NumDevices - 1 : Taken(k) => PaidFor(k)

Inv ==
  /\ Values /\ Bits
  /\ GivenInOrder /\ RunsWhatItConfigured /\ CopyIsCurrent
  /\ NotUpDuringInit /\ AddressesPaidFor

----------------------------------------------------------------------------
(***************************************************************************)
(* Operators.                                                              *)
(***************************************************************************)

(* What the interrupt handler makes of a state: never one in which a       *)
(* device is being configured or is up, and from RUNNING an early one.     *)
LEMMA ProbedState ==
  ASSUME NEW state \in States \cup {2, 5}, port \in Ports
  PROVE  /\ BusProbe(state) \in {ATTACHED, WAIT_RESET_COMPLETE, ILLEGAL,
                                WAIT_FOR_DEVICE, INITIALIZE}
         /\ BusProbe(state) = WAIT_RESET_COMPLETE => state = WAIT_RESET_COMPLETE
         /\ state = RUNNING => BusProbe(state) \in {ATTACHED, ILLEGAL, INITIALIZE}
<1>1. CASE port \in Devices
  BY <1>1, SMT DEF BusProbe, States, ATTACHED, WAIT_RESET_COMPLETE, RUNNING, Devices
<1>2. CASE port = "noise"
  BY <1>2 DEF BusProbe, Devices, ILLEGAL, WAIT_RESET_COMPLETE
<1>3. CASE port = "none"
  <2>1. BusProbe(state) = IF MainState(state) = DETACHED THEN WAIT_FOR_DEVICE
                          ELSE INITIALIZE
    BY <1>3 DEF BusProbe, Devices
  <2>2. MainState(RUNNING) # DETACHED
    BY DEF MainState, RUNNING, DETACHED
  <2>. QED
    BY <2>1, <2>2 DEF WAIT_FOR_DEVICE, INITIALIZE, WAIT_RESET_COMPLETE
<1>. QED
  BY <1>1, <1>2, <1>3 DEF Ports

(* An address that is free is a successor of those in use, and the last in *)
(* use is the greatest.                                                    *)
LEMMA FirstFree ==
  ASSUME NEW k \in 0 .. NumDevices - 1, Taken(k), Free # {}
  PROVE  Min(Free) = k + 1 /\ Min(Free) \in Addresses
<1>. USE HostAssumption
<1>1. Free = k + 1 .. NumDevices - 1
  BY DEF Free, Taken, Addresses
<1>2. k + 1 \in Free /\ \A a \in Free : k + 1 <= a
  BY <1>1
<1>3. Min(Free) \in Free /\ \A a \in Free : Min(Free) <= a
  BY <1>2 DEF Min
<1>4. Min(Free) \in Int
  BY <1>1, <1>3
<1>. QED
  BY <1>1, <1>2, <1>3, <1>4 DEF Addresses

LEMMA LastUsed ==
  ASSUME tmp_addr \in Addresses, Taken(tmp_addr)
  PROVE  LastClass = devtable[tmp_addr].devclass
<1>. USE HostAssumption
<1>. DEFINE used == Addresses \ Free
<1>1. used = 1 .. tmp_addr
  BY DEF Free, Taken, Addresses
<1>2. tmp_addr \in used /\ \A a \in used : tmp_addr >= a
  BY <1>1 DEF Addresses
<1>. DEFINE last == Max(used)
<1>3. last \in used /\ \A a \in used : last >= a
  BY <1>2 DEF Max
<1>. HIDE DEF last
<1>4. last = tmp_addr
  BY <1>1, <1>2, <1>3 DEF Addresses
<1>. QED
  BY <1>2, <1>4 DEF LastClass, last

----------------------------------------------------------------------------
(***************************************************************************)
(* Types.                                                                  *)
(***************************************************************************)

USE DEF DETACHED, INITIALIZE, WAIT_FOR_DEVICE, ILLEGAL, ATTACHED, SETTLE, RESET_DEVICE,
        WAIT_RESET_COMPLETE, WAIT_SOF, GET_DEVICE_DESCRIPTOR_SIZE, ADDRESSING,
        CONFIGURING, RUNNING, ERROR, HID_K, HID_M, NoDevice

LEMMA TypeParts == TypeOK <=> Values /\ Bits
<1>1. Bits <=> {runningdebugflag, condet, busevent, acked, busrst} \subseteq BOOLEAN
  BY Zenon DEF Bits
<1>. QED
  BY <1>1, Zenon DEF TypeOK, Values, Ports, Entries

LEMMA BitsInductive ==
  ASSUME Bits, [Next]_vars
  PROVE  Bits'
<1>. USE DEF Bits
<1>1. CASE HandleInterrupt
  BY <1>1, Zenon DEF HandleInterrupt, mainVars
<1>2. CASE Acknowledge
  BY <1>2, Zenon DEF Acknowledge, mainVars
<1>3. CASE InitController
  BY <1>3, Zenon DEF InitController, mainVars
<1>4. CASE FinishInit
  BY <1>4, Zenon DEF FinishInit, mainVars
<1>5. CASE UsbTask
  <2>1. CASE ResetDevice
    BY <1>5, <2>1, Zenon DEF UsbTask, ResetDevice, mainVars
  <2>2. ASSUME UNCHANGED chipVars PROVE Bits'
    BY <1>5, <2>2, Zenon DEF UsbTask, mainVars, chipVars
  <2>. QED
    BY <1>5, <2>1, <2>2, Zenon
       DEF UsbTask, Cleanup, Settling, GetDescriptor, SetAddress, Configure, Idle
<1>6. CASE Application
  <2>1. UNCHANGED chipVars
    BY <1>6, Zenon DEF Application
  <2>2. runningdebugflag' \in BOOLEAN
    BY <1>6, Zenon DEF Application, Report, Poll, mainVars
  <2>. QED
    BY <2>1, <2>2, Zenon DEF chipVars
<1>7. CASE ResetCompletes
  BY <1>7, Zenon DEF ResetCompletes, mainVars
<1>8. ASSUME NEW to, PortChanges(to) PROVE Bits'
  BY <1>8, Zenon DEF PortChanges, mainVars
<1>9. CASE UNCHANGED vars
  BY <1>9, Zenon DEF vars, mainVars, chipVars
<1>. QED
  BY <1>1, <1>2, <1>3, <1>4, <1>5, <1>6, <1>7, <1>8, <1>9, Zenon
     DEF Next, Firmware, Plug, Unplug, BadContact

LEMMA HandlerStates ==
  ASSUME Values
  PROVE  /\ BusProbe(usb_task_state) \in States
         /\ Advance(BusProbe(usb_task_state)) \in States \cup {2, 5}
<1>1. usb_task_state \in States \cup {2, 5} /\ port \in Ports
  BY DEF Values
<1>2. BusProbe(usb_task_state) \in {16, 19, 4, 3, 1}
  BY <1>1, ProbedState
<1>3. \A state \in {16, 19, 4, 3, 1} : Advance(state) = state + 1
  BY DEF Advance
<1>. QED
  BY <1>2, <1>3 DEF States

(* The handler never leaves a device in configuration or running. *)
LEMMA NotConfigured ==
  ASSUME Values
  PROVE  /\ BusProbe(usb_task_state) \notin {ADDRESSING, CONFIGURING, RUNNING, ERROR}
         /\ Advance(BusProbe(usb_task_state)) \notin {ADDRESSING, CONFIGURING, RUNNING, ERROR}
<1>1. BusProbe(usb_task_state) \in {16, 19, 4, 3, 1}
  BY ProbedState DEF Values
<1>. QED
  BY <1>1 DEF Advance

LEMMA CleanEntries == CleanTable \in [Addresses -> Entries]
  BY DEF CleanTable, Unused, Entries

(* Giving an address: the next one. *)
Gives(addr) ==
  /\ Taken(addr - 1)
  /\ devtable' = [devtable EXCEPT ![addr].epinfo = "dev0"]
  /\ Transfer(0, TRUE) \/ Transfer(0, FALSE)
  /\ dev_addr' \in {dev_addr, addr}
  /\ \/ tmp_addr' = addr /\ usb_task_state' = CONFIGURING
     \/ tmp_addr' = tmp_addr /\ usb_task_state' = ERROR

LEMMA NextAddress ==
  ASSUME GivenInOrder, SetAddress, Free # {}
  PROVE  \E addr \in Addresses : Gives(addr)
<1>1. PICK k \in 0 .. NumDevices - 1 : Taken(k)
  BY DEF GivenInOrder
<1>. DEFINE addr == Min(Free)
<1>2. addr \in Addresses /\ k = addr - 1
  BY <1>1, FirstFree
<1>3. Taken(addr - 1)
  BY <1>1, <1>2
<1>4. Gives(addr)
  BY <1>3, Zenon DEF SetAddress, Goto, Gives
<1>. HIDE DEF addr
<1>. QED
  BY <1>2, <1>4

LEMMA ValuesTask ==
  ASSUME Values, GivenInOrder, UsbTask
  PROVE  Values'
<1>. USE HostAssumption DEF Values, UsbTask
<1>1. CASE Cleanup
  BY <1>1, CleanEntries DEF Cleanup, Goto, States, mainVars, chipVars, history
<1>2. CASE Settling
  BY <1>2 DEF Settling, Goto, States, tableVars, mainVars, chipVars, history
<1>3. CASE ResetDevice
  BY <1>3 DEF ResetDevice, Goto, States, tableVars, mainVars, history
<1>4. CASE GetDescriptor
  BY <1>4 DEF GetDescriptor, Transfer, Goto, States, tableVars, mainVars, chipVars, history
<1>5. CASE SetAddress
  <2>1. UNCHANGED <<hid_addr, chipVars, changes>> /\ UNCHANGED <<mainVars, port, events>> /\ pc' = "app"
    BY <1>5 DEF SetAddress
  <2>2. CASE Free = {}
    BY <1>5, <2>2 DEF SetAddress, Goto, States, mainVars, chipVars, history
  <2>3. CASE Free # {}
    <3>1. PICK addr \in Addresses : Gives(addr)
      BY <1>5, <2>3, NextAddress
    <3>2. devtable' \in [Addresses -> Entries]
      BY <3>1 DEF Gives, Entries
    <3>3. trouble' \subseteq {"failed", "raced"}
      BY <3>1 DEF Gives, Transfer
    <3>4. tmp_addr' \in 0 .. NumDevices - 1 /\ dev_addr' \in 0 .. NumDevices - 1
      BY <3>1 DEF Gives, Addresses
    <3>5. usb_task_state' \in States
      BY <3>1 DEF Gives, States
    <3>. QED
      BY <2>1, <3>2, <3>3, <3>4, <3>5 DEF mainVars
  <2>. QED
    BY <2>2, <2>3
<1>6. CASE Configure
  <2>1. hid_addr' \in 0 .. NumDevices - 1
    BY <1>6 DEF Configure
  <2>2. devtable' \in [Addresses -> Entries]
    BY <1>6 DEF Configure, DriverOf, Entries
  <2>. QED
    BY <1>6, <2>1, <2>2 DEF Configure, Transfer, Goto, States, mainVars, chipVars, history
<1>7. CASE Idle
  BY <1>7 DEF Idle, tableVars, mainVars, chipVars, history
<1>. QED
  BY <1>1, <1>2, <1>3, <1>4, <1>5, <1>6, <1>7

LEMMA ValuesInductive ==
  ASSUME Values, GivenInOrder, [Next]_vars
  PROVE  Values'
<1>. USE HostAssumption DEF Values
<1>1. CASE HandleInterrupt
  BY <1>1, HandlerStates DEF HandleInterrupt, tableVars, mainVars, portVars, history
<1>2. CASE Acknowledge
  BY <1>2 DEF Acknowledge, tableVars, mainVars, portVars, history
<1>3. CASE InitController
  BY <1>3, HandlerStates DEF InitController, tableVars, mainVars, portVars, history
<1>4. CASE FinishInit
  BY <1>4, CleanEntries DEF FinishInit, mainVars, portVars, history
<1>5. CASE UsbTask
  BY <1>5, ValuesTask
<1>6. CASE Application
  <2>1. CASE usb_task_state = RUNNING
    <3>1. LastClass \in 0 .. 2
      <4>1. tmp_addr \in Addresses /\ Taken(tmp_addr)
        BY <2>1 DEF GivenInOrder
      <4>. QED
        BY <4>1, LastUsed DEF Entries
    <3>2. device' \in {NoDevice, 0, HID_K, HID_M} /\ keycode' \in Keycodes
      BY <1>6, <2>1, <3>1 DEF Application, Report, Poll
    <3>. QED
      BY <1>6, <2>1, <3>2 DEF Application, tableVars, chipVars, portVars, history
  <2>2. CASE usb_task_state # RUNNING
    BY <1>6, <2>2 DEF Application, tableVars, mainVars, chipVars, portVars, history
  <2>. QED
    BY <2>1, <2>2
<1>7. CASE ResetCompletes
  BY <1>7 DEF ResetCompletes, tableVars, mainVars, portVars, history
<1>8. ASSUME NEW to \in Ports, PortChanges(to) PROVE Values'
  BY <1>8 DEF PortChanges, tableVars, mainVars
<1>9. CASE UNCHANGED vars
  BY <1>9 DEF vars, tableVars, mainVars, chipVars, portVars, history
<1>. QED
  BY <1>1, <1>2, <1>3, <1>4, <1>5, <1>6, <1>7, <1>8, <1>9
     DEF Next, Firmware, Plug, Unplug, BadContact, Ports

----------------------------------------------------------------------------
(***************************************************************************)
(* The table and the addresses.                                            *)
(***************************************************************************)

LEMMA CleanTaken == devtable' = CleanTable => Taken(0)'
  BY DEF Taken, CleanTable, Unused, Addresses

(* As long as no device gets or loses an entry. *)
LEMMA OrderKept ==
  ASSUME GivenInOrder, UNCHANGED <<devtable, tmp_addr>>,
         usb_task_state' \in {CONFIGURING, RUNNING} => usb_task_state' = usb_task_state
  PROVE  GivenInOrder'
  BY DEF GivenInOrder, Taken

LEMMA OrderInductive ==
  ASSUME Values, GivenInOrder, NotUpDuringInit, [Next]_vars
  PROVE  GivenInOrder'
<1>. USE HostAssumption
<1>1. CASE HandleInterrupt
  <2>1. usb_task_state' = usb_task_state \/ usb_task_state' \notin {CONFIGURING, RUNNING}
    BY <1>1, NotConfigured DEF HandleInterrupt
  <2>. QED
    BY <1>1, <2>1, OrderKept DEF HandleInterrupt, tableVars
<1>3. CASE InitController
  <2>1. usb_task_state' \notin {CONFIGURING, RUNNING}
    BY <1>3, NotConfigured DEF InitController
  <2>. QED
    BY <1>3, <2>1, OrderKept DEF InitController, tableVars
<1>4. CASE FinishInit
  <2>1. Taken(0)'
    BY <1>4, CleanTaken DEF FinishInit
  <2>2. usb_task_state' \notin {CONFIGURING, RUNNING}
    BY <1>4 DEF FinishInit, NotUpDuringInit
  <2>. QED
    BY <2>1, <2>2 DEF GivenInOrder
<1>5. CASE UsbTask
  <2>1. CASE Cleanup
    <3>1. Taken(0)'
      BY <2>1, CleanTaken DEF Cleanup
    <3>. QED
      BY <2>1, <3>1 DEF Cleanup, Goto, GivenInOrder
  <2>2. CASE Settling
    BY <2>2, OrderKept DEF Settling, Goto, tableVars
  <2>3. CASE ResetDevice
    BY <2>3, OrderKept DEF ResetDevice, Goto, tableVars
  <2>4. CASE GetDescriptor
    BY <2>4, OrderKept DEF GetDescriptor, Goto, tableVars
  <2>5. CASE SetAddress /\ Free = {}
    BY <2>5, OrderKept DEF SetAddress, Goto
  <2>6. CASE SetAddress /\ Free # {}
    <3>1. PICK addr \in Addresses : Gives(addr)
      BY <2>6, NextAddress
    <3>2. Taken(addr)'
      BY <3>1 DEF Gives, Values, Entries, Taken, Addresses
    <3>3. usb_task_state' \in {CONFIGURING, RUNNING} => tmp_addr' = addr
      BY <3>1 DEF Gives
    <3>. QED
      BY <3>2, <3>3 DEF GivenInOrder, Addresses
  <2>7. CASE Configure
    <3>1. usb_task_state = CONFIGURING /\ tmp_addr' = tmp_addr
      BY <2>7 DEF Configure
    <3>2. tmp_addr \in Addresses /\ Taken(tmp_addr)
      BY <3>1 DEF GivenInOrder
    <3>3. \A a \in Addresses :
            devtable'[a].epinfo # "null" <=> devtable[a].epinfo # "null"
      BY <2>7, <3>2 DEF Configure, Values, Entries, Taken, Addresses
    <3>4. Taken(tmp_addr)'
      BY <3>1, <3>2, <3>3 DEF Taken
    <3>. QED
      BY <3>1, <3>2, <3>4 DEF GivenInOrder, Addresses
  <2>8. CASE Idle
    BY <2>8, OrderKept DEF Idle, tableVars
  <2>. QED
    BY <1>5, <2>1, <2>2, <2>3, <2>4, <2>5, <2>6, <2>7, <2>8 DEF UsbTask
<1>6. ASSUME UNCHANGED <<usb_task_state, tableVars>> PROVE GivenInOrder'
  BY <1>6, OrderKept DEF tableVars
<1>. QED
  BY <1>1, <1>3, <1>4, <1>5, <1>6
     DEF Next, Firmware, Acknowledge, Application, ResetCompletes, Plug, Unplug,
         BadContact, PortChanges, vars

----------------------------------------------------------------------------
(***************************************************************************)
(* What runs.                                                              *)
(***************************************************************************)

(* Which branch of USB_Task belongs to which state. *)
LEMMA Branches ==
  /\ Cleanup => usb_task_state = INITIALIZE /\ usb_task_state' = WAIT_FOR_DEVICE
  /\ Settling => /\ usb_task_state \in {ATTACHED, SETTLE, WAIT_RESET_COMPLETE, WAIT_SOF}
                 /\ UNCHANGED <<devtable, hid_addr>>
                 /\ usb_task_state \in {ATTACHED, SETTLE}
                      => usb_task_state' \in {SETTLE, RESET_DEVICE}
                 /\ usb_task_state' # RUNNING
  /\ ResetDevice => usb_task_state = RESET_DEVICE /\ usb_task_state' # RUNNING
  /\ GetDescriptor => /\ usb_task_state = GET_DEVICE_DESCRIPTOR_SIZE
                      /\ usb_task_state' # RUNNING
  /\ SetAddress => usb_task_state = ADDRESSING /\ usb_task_state' # RUNNING
  /\ Configure => usb_task_state = CONFIGURING
  /\ Idle => /\ usb_task_state \notin {INITIALIZE, ATTACHED, SETTLE}
             /\ UNCHANGED <<usb_task_state, tableVars, dev_addr>>
<1>1. /\ Cleanup => usb_task_state = INITIALIZE /\ usb_task_state' = WAIT_FOR_DEVICE
      /\ ResetDevice => usb_task_state = RESET_DEVICE /\ usb_task_state' # RUNNING
      /\ Configure => usb_task_state = CONFIGURING
  BY DEF Cleanup, ResetDevice, Configure, Goto
<1>2. GetDescriptor => /\ usb_task_state = GET_DEVICE_DESCRIPTOR_SIZE
                       /\ usb_task_state' # RUNNING
  BY DEF GetDescriptor, Goto
<1>3. SetAddress => usb_task_state = ADDRESSING /\ usb_task_state' # RUNNING
  <2>1. SetAddress => /\ usb_task_state = ADDRESSING
                      /\ usb_task_state' = ERROR \/ usb_task_state' = CONFIGURING
    BY Zenon DEF SetAddress, Goto
  <2>. QED
    BY <2>1
<1>4. Idle => /\ usb_task_state \notin {INITIALIZE, ATTACHED, SETTLE}
              /\ UNCHANGED <<usb_task_state, tableVars, dev_addr>>
  BY DEF Idle, Working
<1>5. Settling => /\ usb_task_state \in {ATTACHED, SETTLE, WAIT_RESET_COMPLETE, WAIT_SOF}
                  /\ UNCHANGED <<devtable, hid_addr>>
                  /\ usb_task_state \in {ATTACHED, SETTLE}
                       => usb_task_state' \in {SETTLE, RESET_DEVICE}
                  /\ usb_task_state' # RUNNING
  BY DEF Settling, Goto, tableVars
<1>. QED
  BY <1>1, <1>2, <1>3, <1>4, <1>5, Zenon

LEMMA InitInductive ==
  ASSUME Values, NotUpDuringInit, CopyIsCurrent, [Next]_vars
  PROVE  NotUpDuringInit'
<1>. USE DEF NotUpDuringInit
<1>1. CASE HandleInterrupt
  BY <1>1 DEF HandleInterrupt
<1>2. CASE Acknowledge
  BY <1>2 DEF Acknowledge
<1>3. CASE InitController
  BY <1>3, NotConfigured DEF InitController
<1>4. CASE FinishInit
  BY <1>4 DEF FinishInit
<1>5. CASE UsbTask
  BY <1>5 DEF UsbTask
<1>6. CASE Application
  <2>1. CASE pc' = "init"
    <3>1. runningdebugflag /\ usb_task_state # RUNNING /\ pc = "app"
      BY <1>6, <2>1, Zenon DEF Application
    <3>2. usb_task_state \in {RUNNING, SETTLE, RESET_DEVICE, ILLEGAL, 5,
                             WAIT_FOR_DEVICE, 2}
      BY <3>1 DEF CopyIsCurrent, Holding
    <3>. QED
      BY <1>6, <3>1, <3>2 DEF Application
  <2>2. CASE pc' = "irq"
    BY <2>2
  <2>. QED
    BY <1>6, <2>1, <2>2, Zenon DEF Application
<1>7. ASSUME UNCHANGED <<usb_task_state, pc>> PROVE NotUpDuringInit'
  BY <1>7
<1>. QED
  BY <1>1, <1>2, <1>3, <1>4, <1>5, <1>6, <1>7
     DEF Next, Firmware, ResetCompletes, Plug, Unplug, BadContact, PortChanges, vars

(* Nothing runs before it has been configured, and a device that has just  *)
(* come answers at no address but 0.                                       *)
LEMMA RunsInductive ==
  ASSUME Values, GivenInOrder, RunsWhatItConfigured, NotUpDuringInit, [Next]_vars
  PROVE  RunsWhatItConfigured'
<1>1. ASSUME usb_task_state' # RUNNING PROVE RunsWhatItConfigured'
  BY <1>1 DEF RunsWhatItConfigured
<1>2. ASSUME UNCHANGED <<usb_task_state, devtable, tmp_addr, hid_addr>>,
             dev_addr' = 0 \/ UNCHANGED <<port, dev_addr>>
      PROVE  RunsWhatItConfigured'
  BY <1>2 DEF RunsWhatItConfigured, DriverOf
<1>3. CASE HandleInterrupt
  <2>1. usb_task_state' # RUNNING \/ UNCHANGED usb_task_state
    BY <1>3, NotConfigured DEF HandleInterrupt
  <2>. QED
    BY <1>1, <1>2, <1>3, <2>1 DEF HandleInterrupt, tableVars, portVars
<1>4. CASE InitController
  BY <1>1, <1>4, NotConfigured DEF InitController
<1>5. CASE FinishInit
  BY <1>1, <1>5 DEF FinishInit, NotUpDuringInit
<1>6. CASE UsbTask
  <2>1. CASE Configure
    <3>1. ASSUME usb_task_state' = RUNNING
          PROVE  /\ port \in {"keyboard", "mouse"}
                 /\ devtable' = [devtable EXCEPT
                      ![tmp_addr] = [epinfo |-> "hid", devclass |-> DriverOf(port)]]
                 /\ hid_addr' = tmp_addr
      BY <2>1, <3>1 DEF Configure, Goto
    <3>2. tmp_addr \in Addresses
      BY <2>1, Branches DEF GivenInOrder
    <3>3. CASE usb_task_state' = RUNNING
      <4>1. devtable'[tmp_addr] = [epinfo |-> "hid", devclass |-> DriverOf(port)]
        BY <3>1, <3>2, <3>3 DEF Values
      <4>2. UNCHANGED <<port, tmp_addr>>
        BY <1>6, <2>1 DEF UsbTask, Configure
      <4>. QED
        BY <3>1, <3>3, <4>1, <4>2 DEF RunsWhatItConfigured, DriverOf
    <3>. QED
      BY <1>1, <3>3
  <2>2. CASE Idle
    BY <1>2, <1>6, <2>2, Branches DEF UsbTask, tableVars
  <2>3. ASSUME Cleanup \/ Settling \/ ResetDevice \/ GetDescriptor \/ SetAddress
        PROVE  usb_task_state' # RUNNING
    BY <2>3, Branches
  <2>. QED
    BY <1>1, <1>6, <2>1, <2>2, <2>3, Zenon DEF UsbTask
<1>7. ASSUME NEW to, PortChanges(to) PROVE RunsWhatItConfigured'
  BY <1>2, <1>7 DEF PortChanges, tableVars
<1>. QED
  BY <1>2, <1>3, <1>4, <1>5, <1>6, <1>7
     DEF Next, Firmware, Acknowledge, Application, ResetCompletes, Plug, Unplug,
         BadContact, vars, tableVars, portVars

(* main's copy is made in the first turn after the device came up, and     *)
(* given up before the next device can.                                    *)
LEMMA CopyInductive ==
  ASSUME Values, GivenInOrder, RunsWhatItConfigured, CopyIsCurrent, [Next]_vars
  PROVE  CopyIsCurrent'
<1>1. ASSUME ~runningdebugflag' PROVE CopyIsCurrent'
  BY <1>1, Zenon DEF CopyIsCurrent
<1>2. ASSUME runningdebugflag', UNCHANGED runningdebugflag
      PROVE  /\ usb_task_state \in Holding[pc]
             /\ usb_task_state = RUNNING => device = devtable[hid_addr].devclass
  BY <1>2, Zenon DEF CopyIsCurrent
<1>3. ASSUME usb_task_state' \in (Holding[pc])',
             UNCHANGED <<device, devtable, hid_addr>>,
             usb_task_state' = RUNNING => usb_task_state = RUNNING,
             runningdebugflag', UNCHANGED runningdebugflag
      PROVE  CopyIsCurrent'
  BY <1>2, <1>3, Zenon DEF CopyIsCurrent
<1>4. ASSUME HandleInterrupt, runningdebugflag' PROVE CopyIsCurrent'
  <2>1. UNCHANGED <<device, devtable, hid_addr, runningdebugflag>>
    BY <1>4 DEF HandleInterrupt, mainVars, tableVars
  <2>2. usb_task_state = RUNNING /\ pc = "irq"
    BY <1>2, <1>4, <2>1 DEF HandleInterrupt, Holding
  <2>3. BusProbe(RUNNING) \in {ATTACHED, ILLEGAL, INITIALIZE}
    BY <2>2, ProbedState DEF Values
  <2>4. \A state \in {16, 4, 1} : Advance(state) = state + 1
    BY DEF Advance
  <2>5. usb_task_state' \in {RUNNING, BusProbe(RUNNING), Advance(BusProbe(RUNNING))}
        /\ pc' \in {"ack", "usb"}
    BY <1>4, <2>2 DEF HandleInterrupt
  <2>6. /\ usb_task_state' \in {RUNNING, ATTACHED, SETTLE, ILLEGAL, 5, INITIALIZE, 2}
        /\ pc' \in {"ack", "usb"}
    BY <2>3, <2>4, <2>5
  <2>7. usb_task_state' \in (Holding[pc])'
    BY <2>6 DEF Holding
  <2>. QED
    BY <1>3, <1>4, <2>1, <2>2, <2>7, Zenon
<1>5. ASSUME Acknowledge, runningdebugflag' PROVE CopyIsCurrent'
  <2>1. UNCHANGED <<device, devtable, hid_addr, runningdebugflag, usb_task_state>>
    BY <1>5 DEF Acknowledge, mainVars, tableVars
  <2>2. pc = "ack" /\ pc' = "usb"
    BY <1>5 DEF Acknowledge
  <2>3. usb_task_state \in Holding["ack"]
    BY <1>2, <1>5, <2>1, <2>2
  <2>. QED
    BY <1>3, <1>5, <2>1, <2>2, <2>3 DEF Holding
<1>6. ASSUME InitController \/ FinishInit, runningdebugflag' PROVE CopyIsCurrent'
  <2>1. UNCHANGED runningdebugflag /\ pc \in {"init", "initack"}
    BY <1>6, Zenon DEF InitController, FinishInit, mainVars
  <2>2. usb_task_state \in Holding[pc]
    BY <1>2, <1>6, <2>1, Zenon
  <2>. QED
    BY <2>1, <2>2 DEF Holding
<1>7. ASSUME UsbTask, runningdebugflag' PROVE CopyIsCurrent'
  <2>1. UNCHANGED <<device, runningdebugflag>> /\ pc = "usb" /\ pc' = "app"
    BY <1>7 DEF UsbTask, mainVars
  <2>2. usb_task_state \in {RUNNING, ATTACHED, SETTLE, ILLEGAL, 5, INITIALIZE, 2}
    BY <1>2, <1>7, <2>1 DEF Holding
  <2>3. CASE usb_task_state = INITIALIZE
    <3>1. usb_task_state' = WAIT_FOR_DEVICE
      BY <1>7, <2>3, Branches DEF UsbTask
    <3>. QED
      BY <2>1, <3>1 DEF CopyIsCurrent, Holding
  <2>4. CASE usb_task_state # INITIALIZE
    <3>1. Settling \/ Idle
      BY <1>7, <2>2, <2>4, Branches DEF UsbTask
    <3>2. UNCHANGED <<devtable, hid_addr>>
      BY <3>1, Branches DEF tableVars
    <3>3. /\ usb_task_state' \in {RUNNING, SETTLE, RESET_DEVICE, ILLEGAL, 5, 2}
          /\ usb_task_state' = RUNNING => usb_task_state = RUNNING
      BY <2>2, <2>4, <3>1, Branches
    <3>. QED
      BY <1>3, <1>7, <2>1, <3>2, <3>3 DEF Holding
  <2>. QED
    BY <2>3, <2>4
<1>8. ASSUME Application, runningdebugflag' PROVE CopyIsCurrent'
  <2>1. usb_task_state = RUNNING \/ usb_task_state = ERROR
    BY <1>8, Zenon DEF Application
  <2>2. /\ pc = "app" /\ pc' = "irq"
        /\ UNCHANGED <<usb_task_state, devtable, hid_addr>>
    BY <1>8, <2>1, Zenon DEF Application, tableVars
  <2>3. CASE usb_task_state = ERROR
    <3>1. UNCHANGED <<device, runningdebugflag>>
      <4>1. usb_task_state # RUNNING
        BY <2>3
      <4>. QED
        BY <1>8, <2>3, <4>1, Zenon DEF Application, mainVars
    <3>2. usb_task_state \in Holding["app"]
      BY <1>2, <1>8, <2>2, <3>1
    <3>. QED
      BY <2>3, <3>2 DEF Holding
  <2>4. CASE usb_task_state = RUNNING
    <3>1. Report \/ Poll
      BY <1>8, <2>4 DEF Application
    <3>2. device' = devtable[hid_addr].devclass
      <4>1. CASE Report
        <5>1. tmp_addr \in Addresses /\ Taken(tmp_addr) /\ hid_addr = tmp_addr
          BY <2>4 DEF GivenInOrder, RunsWhatItConfigured
        <5>. QED
          BY <4>1, <5>1, LastUsed DEF Report
      <4>2. CASE Poll
        BY <1>2, <1>8, <2>4, <4>2 DEF Poll
      <4>. QED
        BY <3>1, <4>1, <4>2
    <3>. QED
      BY <2>2, <2>4, <3>2 DEF CopyIsCurrent, Holding
  <2>. QED
    BY <2>1, <2>3, <2>4
<1>9. ASSUME UNCHANGED <<usb_task_state, pc, device, devtable, hid_addr, runningdebugflag>>
      PROVE  CopyIsCurrent'
  BY <1>9, Zenon DEF CopyIsCurrent
<1>. QED
  BY <1>1, <1>4, <1>5, <1>6, <1>7, <1>8, <1>9
     DEF Next, Firmware, ResetCompletes, Plug, Unplug, BadContact, PortChanges, vars,
         mainVars, tableVars

----------------------------------------------------------------------------
(***************************************************************************)
(* What the addresses have cost.                                           *)
(***************************************************************************)

LEMMA Weights ==
  /\ UnderWay \in 0 .. 2 /\ UnderWay' \in 0 .. 2
  /\ PortWeight \in 1 .. 2 /\ PortWeight' \in 1 .. 2
  BY DEF UnderWay, PortWeight

(* A budget is kept by what costs no more than it brings in. *)
LEMMA Balance ==
  ASSUME NEW k \in Int, NEW under \in Int, NEW after \in Int, NEW had \in Int, NEW has \in Int,
         NEW weight \in Int, NEW later \in Int,
         2 * (k + under) <= had + weight,
         2 * after + had + weight <= 2 * under + has + later
  PROVE  2 * (k + after) <= has + later
  OBVIOUS

LEMMA OldBalance ==
  ASSUME NEW k \in Int, NEW had \in Int, NEW has \in Int, 2 * k <= had + 2, has >= had
  PROVE  2 * k <= has + 2
  OBVIOUS

LEMMA Lowered ==
  ASSUME NEW under \in Int, NEW after \in Int, after + 1 <= under
  PROVE  after <= under
  OBVIOUS

LEMMA EmptyBalance ==
  ASSUME NEW k, NEW after \in Int, NEW has, NEW later \in Int, k = 0, has = 0, 2 * after <= later
  PROVE  2 * k <= has + 2 /\ 2 * (k + after) <= has + later
  OBVIOUS

LEMMA OneChange ==
  ASSUME NEW under \in Int, NEW after \in Int, NEW had \in Int, NEW has, NEW weight \in Int,
         NEW later \in Int, has = had + 1, 2 * after + weight <= 2 * under + 1 + later
  PROVE  has >= had /\ 2 * after + had + weight <= 2 * under + has + later
  OBVIOUS

LEMMA Purchase ==
  ASSUME NEW k \in Int, NEW under \in Int, NEW after \in Int, NEW had \in Int, NEW weight \in 1 .. 2,
         2 * (k - 1 + under) <= had + weight, under >= 1, after + 1 <= under
  PROVE  2 * k <= had + 2 /\ 2 * (k + after) <= had + weight
  OBVIOUS

LEMMA NoChange ==
  ASSUME NEW under \in Int, NEW after \in Int, NEW had \in Int, NEW has, NEW weight \in Int,
         NEW later, has = had, later = weight, after <= under
  PROVE  2 * after + had + weight <= 2 * under + has + later
  OBVIOUS

(* A step that neither gives an address nor clears the table. *)
LEMMA SameTable ==
  ASSUME Values, Values', AddressesPaidFor,
         \A a \in Addresses : devtable'[a].epinfo # "null" <=> devtable[a].epinfo # "null",
         changes' >= changes,
         pc' \notin {"init", "initack"} =>
           /\ pc \notin {"init", "initack"}
           /\ 2 * UnderWay' + changes + PortWeight <= 2 * UnderWay + changes' + PortWeight'
  PROVE  AddressesPaidFor'
<1>. USE HostAssumption
<1>. SUFFICES ASSUME NEW k \in 0 .. NumDevices - 1, Taken(k)' PROVE PaidFor(k)'
  BY DEF AddressesPaidFor
<1>1. Taken(k)
  BY DEF Taken
<1>2. PaidFor(k)
  BY <1>1 DEF AddressesPaidFor
<1>3. changes \in Int /\ changes' \in Int /\ k \in Int
  BY DEF Values
<1>4. UnderWay \in Int /\ UnderWay' \in Int /\ PortWeight \in Int /\ PortWeight' \in Int
  BY Weights
<1>5. 2 * k <= changes' + 2
  <2>1. 2 * k <= changes + 2
    BY <1>2, Zenon DEF PaidFor
  <2>. QED
    BY <1>3, <2>1, OldBalance, Zenon
<1>6. ASSUME pc' \notin {"init", "initack"}
      PROVE  2 * (k + UnderWay') <= changes' + PortWeight'
  <2>1. 2 * (k + UnderWay) <= changes + PortWeight
    BY <1>2, <1>6, Zenon DEF PaidFor
  <2>2. 2 * UnderWay' + changes + PortWeight <= 2 * UnderWay + changes' + PortWeight'
    BY <1>6, Zenon
  <2>. QED
    BY <1>3, <1>4, <2>1, <2>2, Balance, Zenon
<1>. QED
  BY <1>5, <1>6, Zenon DEF PaidFor

(* A step after which nothing more is under way than before. *)
LEMMA NothingNew ==
  ASSUME Restarting' => Restarting,
         usb_task_state' = ADDRESSING => usb_task_state = ADDRESSING,
         port' \in Devices /\ usb_task_state' \in Early => port \in Devices /\ usb_task_state \in Early,
         pc' = "usb" /\ usb_task_state' = ADDRESSING => pc = "usb" \/ ~Restarting'
  PROVE  UnderWay' <= UnderWay
<1>1. CASE usb_task_state' = ADDRESSING
  BY <1>1 DEF UnderWay
<1>2. CASE usb_task_state' # ADDRESSING
  BY <1>2 DEF UnderWay
<1>. QED
  BY <1>1, <1>2

LEMMA NothingNewIsPaid ==
  ASSUME Values, Values', AddressesPaidFor, UnderWay' <= UnderWay,
         UNCHANGED <<port, changes>>,
         \A a \in Addresses : devtable'[a].epinfo # "null" <=> devtable[a].epinfo # "null",
         pc' \notin {"init", "initack"} => pc \notin {"init", "initack"}
  PROVE  AddressesPaidFor'
<1>1. PortWeight' = PortWeight /\ PortWeight \in Int /\ UnderWay \in Int /\ UnderWay' \in Int
  BY Weights DEF PortWeight
<1>2. changes \in Int /\ changes' = changes
  BY DEF Values
<1>3. changes' >= changes
  BY <1>2
<1>4. 2 * UnderWay' + changes + PortWeight <= 2 * UnderWay + changes' + PortWeight'
  BY <1>1, <1>2, NoChange, Zenon
<1>. QED
  BY <1>3, <1>4, SameTable, Zenon

(* With a clean table only a device that is there can be under way. *)
LEMMA CleanIsPaid ==
  ASSUME Values', devtable' = CleanTable, changes' = 0,
         pc' # "usb", usb_task_state' # ADDRESSING
  PROVE  AddressesPaidFor'
<1>. USE HostAssumption
<1>. SUFFICES ASSUME NEW k \in 0 .. NumDevices - 1, Taken(k)' PROVE PaidFor(k)'
  BY DEF AddressesPaidFor
<1>1. k = 0
  BY DEF Taken, CleanTable, Unused, Addresses
<1>2. 2 * UnderWay' <= PortWeight'
  <2>1. Restarting' => port' \in Devices
    BY DEF Restarting
  <2>. QED
    BY <2>1 DEF UnderWay, PortWeight
<1>3. UnderWay' \in Int /\ PortWeight' \in Int
  BY Weights
<1>4. 2 * k <= changes' + 2 /\ 2 * (k + UnderWay') <= changes' + PortWeight'
  BY <1>1, <1>2, <1>3, EmptyBalance, Zenon
<1>. QED
  BY <1>4, Zenon DEF PaidFor

LEMMA PaidHandler ==
  ASSUME Values, Values', AddressesPaidFor, HandleInterrupt
  PROVE  AddressesPaidFor'
<1>1. UNCHANGED <<port, changes, devtable>> /\ pc = "irq" /\ pc' \in {"usb", "ack"}
  BY DEF HandleInterrupt, tableVars, portVars, history
<1>2. CASE ~condet
  <2>1. ~Restarting' /\ UNCHANGED usb_task_state
    <3>1. ~condet' /\ UNCHANGED usb_task_state
      BY <1>2, Zenon DEF HandleInterrupt
    <3>. QED
      BY <3>1, Zenon DEF Restarting
  <2>2. UnderWay' <= UnderWay
    BY <1>1, <2>1, NothingNew
  <2>. QED
    BY <1>1, <2>2, NothingNewIsPaid
<1>3. CASE condet
  <2>1. /\ pc' = "ack" /\ usb_task_state' \in {BusProbe(usb_task_state),
                                               Advance(BusProbe(usb_task_state))}
    BY <1>3, Zenon DEF HandleInterrupt
  <2>2. usb_task_state' # ADDRESSING
    BY <2>1, NotConfigured
  <2>3. ~Restarting' /\ (port \in Devices => Restarting)
    BY <1>1, <1>3, <2>1, Zenon DEF Restarting
  <2>4. UnderWay' <= UnderWay
    BY <1>1, <2>1, <2>2, <2>3 DEF UnderWay
  <2>. QED
    BY <1>1, <2>4, NothingNewIsPaid
<1>. QED
  BY <1>2, <1>3

LEMMA PaidTask ==
  ASSUME Values, Values', GivenInOrder, AddressesPaidFor, UsbTask
  PROVE  AddressesPaidFor'
<1>. USE HostAssumption
<1>0. pc = "usb" /\ pc' = "app" /\ UNCHANGED port
  BY DEF UsbTask
<1>1. CASE Cleanup
  BY <1>0, <1>1, CleanIsPaid DEF Cleanup, Goto
<1>2. CASE Settling \/ Idle
  <2>1. UNCHANGED <<devtable, condet, changes>>
    BY <1>2 DEF Settling, Idle, tableVars, chipVars, history
  <2>2. Restarting' => Restarting
    BY <1>0, <2>1, Zenon DEF Restarting
  <2>3. /\ usb_task_state' \in Early => usb_task_state \in Early
        /\ usb_task_state' = ADDRESSING => usb_task_state = ADDRESSING
    BY <1>2 DEF Settling, Idle, Goto, Early
  <2>4. UnderWay' <= UnderWay
    BY <1>0, <2>2, <2>3, NothingNew
  <2>. QED
    BY <1>0, <2>1, <2>4, NothingNewIsPaid
<1>3. CASE ResetDevice
  <2>1. /\ usb_task_state = RESET_DEVICE /\ usb_task_state' = WAIT_RESET_COMPLETE
        /\ UNCHANGED <<devtable, changes>>
    BY <1>3, Zenon DEF ResetDevice, Goto, tableVars, history
  <2>2. Restarting' => port \in Devices
    BY <1>0 DEF Restarting
  <2>3. UnderWay' <= UnderWay
    BY <1>0, <2>1, <2>2 DEF UnderWay, Early
  <2>. QED
    BY <1>0, <2>1, <2>3, NothingNewIsPaid
<1>4. CASE GetDescriptor
  <2>1. /\ usb_task_state = GET_DEVICE_DESCRIPTOR_SIZE
        /\ usb_task_state' = ERROR \/ (usb_task_state' = ADDRESSING /\ port \in Devices)
        /\ UNCHANGED <<devtable, condet, changes>>
    BY <1>4, Zenon DEF GetDescriptor, Transfer, Answers, Goto, tableVars, chipVars
  <2>2. Restarting' => Restarting
    BY <1>0, <2>1, Zenon DEF Restarting
  <2>3. UnderWay' <= UnderWay
    BY <1>0, <2>1, <2>2 DEF UnderWay, Early
  <2>. QED
    BY <1>0, <2>1, <2>3, NothingNewIsPaid
<1>5. CASE SetAddress
  <2>1. /\ usb_task_state = ADDRESSING /\ usb_task_state' \in {ERROR, CONFIGURING}
        /\ UNCHANGED <<condet, changes>>
    BY <1>5, Zenon DEF SetAddress, Goto, chipVars
  <2>2. Restarting' <=> Restarting
    BY <1>0, <2>1, Zenon DEF Restarting
  <2>3. UnderWay >= 1 /\ UnderWay' + 1 <= UnderWay
    BY <1>0, <2>1, <2>2 DEF UnderWay, Early
  <2>4. CASE Free = {}
    <3>1. UNCHANGED devtable
      BY <1>5, <2>4 DEF SetAddress
    <3>2. UnderWay' <= UnderWay
      <4>1. UnderWay \in Int /\ UnderWay' \in Int
        BY Weights
      <4>. QED
        BY <2>3, <4>1, Lowered, Zenon
    <3>3. pc \notin {"init", "initack"}
      BY <1>0
    <3>. QED
      BY <1>0, <2>1, <3>1, <3>2, <3>3, NothingNewIsPaid, Zenon
  <2>5. CASE Free # {}
    <3>1. PICK addr \in Addresses : Gives(addr)
      BY <1>5, <2>5, NextAddress
    <3>2. addr \in 1 .. NumDevices - 1 /\ addr - 1 \in 0 .. NumDevices - 1 /\ Taken(addr - 1)
      BY <3>1 DEF Gives, Addresses
    <3>3. PaidFor(addr - 1)
      BY <3>2 DEF AddressesPaidFor
    <3>4. Taken(addr)'
      BY <3>1, <3>2 DEF Gives, Values, Entries, Taken, Addresses
    <3>. SUFFICES ASSUME NEW k \in 0 .. NumDevices - 1, Taken(k)' PROVE PaidFor(k)'
      BY DEF AddressesPaidFor
    <3>5. k = addr
      <4>1. \A p, q \in 0 .. NumDevices - 1 : Taken(p)' /\ Taken(q)' => p = q
        <5>. SUFFICES ASSUME NEW p \in 0 .. NumDevices - 1, NEW q \in 0 .. NumDevices - 1,
                             p < q, Taken(p)', Taken(q)'
                      PROVE  FALSE
          OBVIOUS
        <5>1. q \in Addresses
          BY DEF Addresses
        <5>. QED
          BY <5>1 DEF Taken
      <4>. QED
        BY <3>2, <3>4, <4>1
    <3>6. PortWeight' = PortWeight /\ changes' = changes /\ changes \in Int
      BY <1>0, <2>1 DEF PortWeight, Values
    <3>7. UnderWay \in Int /\ UnderWay' \in Int /\ PortWeight \in 1 .. 2 /\ addr \in Int
      BY <3>2, Weights
    <3>8. 2 * (addr - 1 + UnderWay) <= changes + PortWeight
      <4>1. pc \notin {"init", "initack"}
        BY <1>0
      <4>. QED
        BY <3>3, <4>1, Zenon DEF PaidFor
    <3>9. 2 * addr <= changes + 2 /\ 2 * (addr + UnderWay') <= changes + PortWeight
      BY <2>3, <3>6, <3>7, <3>8, Purchase, Zenon
    <3>. QED
      BY <3>5, <3>6, <3>9, Zenon DEF PaidFor
  <2>. QED
    BY <2>4, <2>5
<1>6. CASE Configure
  <2>1. /\ usb_task_state = CONFIGURING /\ usb_task_state' \in {ERROR, RUNNING}
        /\ UNCHANGED <<condet, changes>>
    BY <1>6, Zenon DEF Configure, Goto, chipVars
  <2>2. Restarting' => Restarting
    BY <1>0, <2>1, Zenon DEF Restarting
  <2>3. UnderWay' <= UnderWay
    BY <1>0, <2>1, <2>2 DEF UnderWay, Early
  <2>4. tmp_addr \in Addresses /\ Taken(tmp_addr)
    BY <2>1 DEF GivenInOrder
  <2>5. \A a \in Addresses : devtable'[a].epinfo # "null" <=> devtable[a].epinfo # "null"
    BY <1>6, <2>4 DEF Configure, Values, Entries, Taken, Addresses
  <2>. QED
    BY <1>0, <2>1, <2>3, <2>5, NothingNewIsPaid
<1>. QED
  BY <1>1, <1>2, <1>3, <1>4, <1>5, <1>6 DEF UsbTask

(* The port: what comes pays for itself, and so does what goes. *)
LEMMA PaidPort ==
  ASSUME Values, Values', AddressesPaidFor, NEW to, PortChanges(to),
         to \in Devices => port \notin Devices
  PROVE  AddressesPaidFor'
<1>1. /\ UNCHANGED <<usb_task_state, devtable, pc>> /\ port' = to /\ changes' = changes + 1
      /\ changes \in Int
  BY DEF PortChanges, tableVars, Values
<1>2. /\ Restarting' => port' \in Devices
      /\ Restarting => port \in Devices
  BY DEF Restarting
<1>3. 2 * UnderWay' + PortWeight <= 2 * UnderWay + 1 + PortWeight'
  <2>1. CASE to \in Devices
    BY <1>1, <1>2, <2>1 DEF UnderWay, PortWeight
  <2>2. CASE to \notin Devices
    BY <1>1, <1>2, <2>2 DEF UnderWay, PortWeight
  <2>. QED
    BY <2>1, <2>2
<1>4. UnderWay \in Int /\ UnderWay' \in Int /\ PortWeight \in Int /\ PortWeight' \in Int
  BY Weights
<1>5. /\ changes' >= changes
      /\ 2 * UnderWay' + changes + PortWeight <= 2 * UnderWay + changes' + PortWeight'
  BY <1>1, <1>3, <1>4, OneChange, Zenon
<1>. QED
  BY <1>1, <1>5, SameTable, Zenon

LEMMA PaidInductive ==
  ASSUME Values, Values', GivenInOrder, NotUpDuringInit, AddressesPaidFor, [Next]_vars
  PROVE  AddressesPaidFor'
<1>1. CASE HandleInterrupt
  BY <1>1, PaidHandler
<1>2. CASE Acknowledge
  <2>1. /\ UNCHANGED <<usb_task_state, devtable, port, changes>> /\ pc = "ack" /\ pc' = "usb"
    BY <1>2, Zenon DEF Acknowledge, tableVars, portVars, history
  <2>2. ~Restarting'
    BY <1>2, Zenon DEF Acknowledge, Restarting
  <2>3. UnderWay' <= UnderWay
    BY <2>1, <2>2, NothingNew
  <2>. QED
    BY <2>1, <2>3, NothingNewIsPaid
<1>3. CASE InitController
  <2>1. UNCHANGED <<devtable, changes>> /\ pc' = "initack" /\ changes \in Int
    BY <1>3 DEF InitController, tableVars, history, Values
  <2>. QED
    BY <2>1, SameTable
<1>4. CASE FinishInit
  BY <1>4, CleanIsPaid DEF FinishInit, NotUpDuringInit
<1>5. CASE UsbTask
  BY <1>5, PaidTask
<1>6. CASE Application \/ ResetCompletes \/ UNCHANGED vars
  <2>1. /\ UNCHANGED <<usb_task_state, devtable, condet, port, changes>>
        /\ pc' = pc \/ (pc = "app" /\ pc' \in {"irq", "init"})
    BY <1>6, Zenon
       DEF Application, ResetCompletes, vars, tableVars, chipVars, portVars, history
  <2>2. Restarting' => Restarting
    BY <2>1 DEF Restarting
  <2>3. UnderWay' <= UnderWay
    BY <2>1, <2>2, NothingNew
  <2>. QED
    BY <2>1, <2>3, NothingNewIsPaid
<1>7. CASE Plug \/ Unplug \/ BadContact
  <2>1. PICK to : PortChanges(to) /\ (to \in Devices => port \notin Devices)
    BY <1>7 DEF Plug, Unplug, BadContact, Devices
  <2>. QED
    BY <2>1, PaidPort
<1>. QED
  BY <1>1, <1>2, <1>3, <1>4, <1>5, <1>6, <1>7 DEF Next, Firmware

----------------------------------------------------------------------------

LEMMA InitInv == Init => Inv
<1>. SUFFICES ASSUME Init PROVE Inv
  OBVIOUS
<1>. USE HostAssumption
<1>1. Values
  BY CleanEntries DEF Init, Values, States, Ports, Devices
<1>2. Bits
  BY Zenon DEF Init, Bits
<1>3. Taken(0)
  BY DEF Init, Taken, CleanTable, Unused, Addresses
<1>4. GivenInOrder
  BY <1>3 DEF Init, GivenInOrder
<1>5. RunsWhatItConfigured /\ NotUpDuringInit
  BY DEF Init, RunsWhatItConfigured, NotUpDuringInit
<1>6. CopyIsCurrent
  BY Zenon DEF Init, CopyIsCurrent
<1>7. AddressesPaidFor
  BY DEF Init, AddressesPaidFor, PaidFor, Taken, CleanTable, Unused, Addresses
<1>. QED
  BY <1>1, <1>2, <1>4, <1>5, <1>6, <1>7 DEF Inv

LEMMA NextInv == Inv /\ [Next]_vars => Inv'
  BY BitsInductive, ValuesInductive, OrderInductive, RunsInductive,
     CopyInductive, InitInductive, PaidInductive DEF Inv

LEMMA AlwaysInv == Spec => []Inv
  BY InitInv, NextInv, PTL DEF Spec

(* Every variable keeps its type. *)
THEOREM TypeCorrect == Spec => []TypeOK
<1>1. Inv => TypeOK
  BY TypeParts DEF Inv
<1>. QED
  BY <1>1, AlwaysInv, PTL

(* kbdPoll and mousePoll never look up endpoints that are not there        *)
(* (HID.c:211, 219).                                                       *)
THEOREM PollsKnown == Spec => []PollsKnownDevice
<1>1. Inv => PollsKnownDevice
  BY DEF Inv, GivenInOrder, RunsWhatItConfigured, PollsKnownDevice
<1>. QED
  BY <1>1, AlwaysInv, PTL

(* main never uses the class of an earlier device (main.c: the copy is     *)
(* made once per run).                                                     *)
THEOREM DriverMatches == Spec => []DriverMatchesDevice
<1>1. Inv => DriverMatchesDevice
  BY DEF Inv, CopyIsCurrent, DriverMatchesDevice
<1>. QED
  BY <1>1, AlwaysInv, PTL

(* Addresses are not given back one by one, but each after the first has   *)
(* cost two changes of the port since the table was last cleared, however  *)
(* the changes fall between the steps of the firmware and whatever fails   *)
(* (transfer.c:337-339).                                                   *)
THEOREM AddressesPaid == Spec => []AddressesLast
<1>1. Inv => AddressesLast
  <2>. SUFFICES ASSUME Inv PROVE AddressesLast
    OBVIOUS
  <2>. USE HostAssumption
  <2>1. PICK k \in 0 .. NumDevices - 1 : Taken(k)
    BY DEF Inv, GivenInOrder
  <2>2. Addresses \ Free = 1 .. k
    BY <2>1 DEF Free, Taken, Addresses
  <2>3. Cardinality(1 .. k) = k
    BY FS_Interval
  <2>4. 2 * k <= changes + 2 /\ changes \in Nat
    BY <2>1 DEF Inv, AddressesPaidFor, PaidFor, Values
  <2>5. k <= 1 + changes \div 2
    BY <2>4, Z3T(30)
  <2>. QED
    BY <2>2, <2>3, <2>5 DEF AddressesLast
<1>. QED
  BY <1>1, AlwaysInv, PTL

(* Only a keyboard presses keys, whatever is plugged in and out while main *)
(* polls.                                                                  *)
THEOREM KeyboardsType == Spec => OnlyKeyboardsType
<1>1. Inv /\ [Next]_vars => [keycode' # keycode => port = "keyboard"]_vars
  <2>. SUFFICES ASSUME Inv, Next, keycode' # keycode PROVE port = "keyboard"
    OBVIOUS
  <2>1. Application
    BY DEF Next, Firmware, HandleInterrupt, Acknowledge, InitController, FinishInit,
           UsbTask, ResetCompletes, Plug, Unplug, BadContact, PortChanges, mainVars
  <2>2. usb_task_state = RUNNING /\ Poll
    BY <2>1 DEF Application, Report, mainVars
  <2>3. runningdebugflag /\ device = HID_K /\ Answers(hid_addr)
    BY <2>2 DEF Poll
  <2>4. hid_addr # 0 /\ devtable[hid_addr].devclass = HID_K
    BY <2>2, <2>3 DEF Inv, GivenInOrder, RunsWhatItConfigured, CopyIsCurrent, Addresses
  <2>. QED
    BY <2>2, <2>3, <2>4 DEF Inv, RunsWhatItConfigured, Answers, DriverOf
<1>. QED
  BY <1>1, AlwaysInv, PTL DEF Spec, OnlyKeyboardsType

=============================================================================
