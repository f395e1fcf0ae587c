------------------------------ MODULE HidProbe ------------------------------
(***************************************************************************)
(* How a device that has its address becomes one that is polled: USB_Task  *)
(* runs the probes of ClientDriverTable one after the other, a mouse's     *)
(* first (transfer.c:360-374); a probe reads the configuration, walks over *)
(* its descriptors to the first interface and, if that is its own, to the  *)
(* endpoint behind it, then configures the device (HID.c:19-201).  Every   *)
(* transfer on the way is UsbTransfer's, with all that can go wrong.       *)
(***************************************************************************)
EXTENDS UsbTransfer, FiniteSets

CONSTANTS
  ConfDescrLen,   (* CONF_DESCR_LEN, the head of a configuration           *)
  BigBuf          (* size of bigbuf, all that is read of a configuration   *)

(* shape.conf is the device's sequence of descriptors, [what, len] each;   *)
(* an interface is "mouse" or "keyboard" (boot subclass) or "interface".   *)
Descriptors == [what : STRING, len : Nat \ {0}]

(* Where each descriptor starts, and at the end where the last one ends.   *)
Offsets(conf) ==
  LET at[i \in 1 .. Len(conf) + 1] ==
        IF i = 1 THEN 0 ELSE at[i - 1] + conf[i - 1].len
  IN  at

(* The length a configuration says it has is that of its descriptors.      *)
ASSUME ProbeAssumption ==
  /\ {ConfDescrLen, BigBuf} \subseteq Nat \ {0}
  /\ \A d \in Devices : /\ d.conf \in Seq(Descriptors)
                        /\ d.total = Offsets(d.conf)[Len(d.conf) + 1]

VARIABLES
  step,      (* what the probe waits for, or where it is                   *)
  driver,    (* the entry of ClientDriverTable that is probing             *)
  ptr,       (* byte_ptr - bigbuf                                          *)
  clean      (* history: no transfer of a probe has failed                 *)

probeVars == <<step, driver, ptr, clean>>
allVars == <<vars, probeVars>>

(* The entries whose probes do anything. *)
ClientDriverTable == <<"mouse", "keyboard">>

Interfaces == {"mouse", "keyboard", "interface"}

ProbeInit == Init /\ step = "addressed" /\ driver = 0 /\ ptr = 0 /\ clean = TRUE

(* The next entry of the table; after the last one, USB_STATE_ERROR. *)
NextDriver ==
  \/ /\ driver < Len(ClientDriverTable)
     /\ driver' = driver + 1
     /\ Ask("read", ConfDescrLen)
     /\ step' = "head" /\ ptr' = 0
     /\ UNCHANGED rcvToggle
  \/ /\ driver = Len(ClientDriverTable)
     /\ step' = "error"
     /\ UNCHANGED <<vars, driver, ptr>>

(* total_length *)
Window_Whole == shape.total

Window == Least(shape.total, BigBuf)

(* The descriptor byte_ptr points to: those before it have ptr bytes. *)
Offset(i) == Offsets(shape.conf)[i]

Here == shape.conf[CHOOSE i \in 1 .. Len(shape.conf) : Offset(i) = ptr]

Skip == ptr' = ptr + Here.len

ReadWhole ==
  /\ step = "head" /\ rcode = "success"
  /\ Ask("read", Window)
  /\ step' = "whole"
  /\ UNCHANGED <<driver, ptr, clean, rcvToggle>>

StartWalk ==
  /\ step = "whole" /\ rcode = "success"
  /\ step' = "interface"
  /\ UNCHANGED <<vars, driver, ptr, clean>>

(* A descriptor that is not looked for is skipped. *)
SkipDescriptor ==
  /\ ptr < Window
  /\ \/ step = "interface" /\ Here.what \notin Interfaces
     \/ step = "endpoint" /\ Here.what # "endpoint"
  /\ Skip
  /\ UNCHANGED <<vars, step, driver, clean>>

TakeInterface_ToggleKept ==
  /\ step = "interface" /\ ptr < Window
  /\ Here.what = ClientDriverTable[driver]
  /\ Skip
  /\ step' = "endpoint"
  /\ UNCHANGED <<vars, driver, clean>>

(* HID_init resets the toggle of the interrupt endpoint, whatever a former *)
(* device has left there: once configured, this one begins with DATA0.     *)
TakeInterface ==
  /\ step = "interface" /\ ptr < Window
  /\ Here.what = ClientDriverTable[driver]
  /\ rcvToggle' = 0
  /\ Skip
  /\ step' = "endpoint"
  /\ UNCHANGED <<pc, kind, token, nbytes, xfrlen, buf, nak_count, retry_count, rcode,
                 chipVars, devVars, got, driver, clean>>

(* XferSetConf *)
TakeEndpoint ==
  /\ step = "endpoint" /\ ptr < Window
  /\ Here.what = "endpoint"
  /\ Ask("configure", 0)
  /\ step' = "configure"
  /\ UNCHANGED <<driver, ptr, clean, rcvToggle>>

(* XferSetProto *)
SetProtocol ==
  /\ step = "configure" /\ rcode = "success"
  /\ Ask("boot", 0)
  /\ step' = "boot"
  /\ UNCHANGED <<driver, ptr, clean, rcvToggle>>

(* return (TRUE) *)
Accept ==
  /\ step = "boot" /\ rcode = "success"
  /\ step' = "running"
  /\ UNCHANGED <<vars, driver, ptr, clean>>

(* A transfer that failed. *)
Failed == step \in {"head", "whole", "configure", "boot"} /\ rcode # "success"

(* Another's interface, or the end of what was read. *)
Foreign ==
  \/ step = "interface" /\ ptr < Window
     /\ Here.what \in Interfaces \ {ClientDriverTable[driver]}
  \/ step \in {"interface", "endpoint"} /\ ptr >= Window

Reject ==
  /\ step = "addressed" \/ Failed \/ Foreign
  /\ NextDriver
  /\ clean' = (clean /\ ~Failed)

(* "stay here if error" *)
Stay == step = "error" /\ UNCHANGED allVars

(* main polls in USB_STATE_RUNNING only. *)
KeepPolling == step = "running" /\ Poll /\ UNCHANGED probeVars

Caller ==
  /\ pc = "idle"
  /\ \/ Reject \/ ReadWhole \/ StartWalk \/ SkipDescriptor \/ TakeInterface
     \/ TakeEndpoint \/ SetProtocol \/ Accept \/ KeepPolling \/ Stay

ProbeNext == Caller \/ ((Transfer \/ Environment) /\ UNCHANGED probeVars)

(* A packet that is sent again and again, and its acknowledge, arrive some *)
(* day. *)
Arrival == OnTheBus /\ acked' # acked /\ UNCHANGED probeVars

(* The firmware never blocks and main polls for ever; the controller ends  *)
(* each packet, or is dead.                                                *)
ProbeSpec ==
  /\ ProbeInit /\ [][ProbeNext]_allVars
  /\ WF_allVars(Caller)
  /\ WF_allVars(Transfer /\ UNCHANGED probeVars)
  /\ WF_allVars(OnTheBus /\ UNCHANGED probeVars)
  /\ SF_allVars(Arrival)

----------------------------------------------------------------------------

(* What a probe is looking for, said of the whole configuration: its first *)
(* interface is the driver's, and an endpoint comes later, both within     *)
(* what is read of it.                                                     *)
Suits(name) ==
  LET seen == {i \in 1 .. Len(shape.conf) : Offset(i) < BigBuf}
  IN  \E i, j \in seen :
        /\ shape.conf[i].what = name
        /\ \A k \in 1 .. i - 1 : shape.conf[k].what \notin Interfaces
        /\ i < j /\ shape.conf[j].what = "endpoint"

(* A device is polled only by the driver it suits, configured and told to  *)
(* send boot reports; and a device that suits a driver is refused only     *)
(* after a transfer that failed (HID.c:56-108, 148-199).                   *)
ProbeVerdict ==
  /\ step = "running" => Suits(ClientDriverTable[driver]) /\ configured /\ boot
  /\ step = "error" /\ clean => \A name \in {"mouse", "keyboard"} : ~Suits(name)

(* Whatever the device does, and even if the controller no longer answers, *)
(* every transfer returns and the probes come to a decision.               *)
TransferEnds ==
  /\ pc # "idle" ~> pc = "idle"
  /\ step = "addressed" ~> step \in {"running", "error"}

(* As long as the controller works, no report of a device that is polled   *)
(* gets stuck, neither after errors nor after a lost acknowledge.          *)
EveryReportArrives ==
  \A n \in 1 .. MaxReports :
    step = "running" /\ made >= n ~> got >= n \/ chip = "dead"

=============================================================================
