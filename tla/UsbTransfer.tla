---------------------------- MODULE UsbTransfer ----------------------------
(***************************************************************************)
(* The transfers of transfer.c: a control request is a SETUP packet, an    *)
(* optional data stage and a status packet (XferCtrlReq); data comes in by *)
(* IN packets until one is short or enough has come (XferInTransfer); each *)
(* packet is sent again on NAK and on bus time-out, within limits          *)
(* (XferDispatchPkt).  HidProbe says which requests are made, and when     *)
(* main polls the interrupt endpoint (HID.c:208-222).                      *)
(*                                                                         *)
(* External: the controller MAX3421E sends one packet at a time, flips its *)
(* toggle with every packet received and acknowledges a packet with the    *)
(* wrong toggle without taking it; the device sends a packet again until   *)
(* it sees the acknowledge.  Packets and acknowledges get lost.            *)
(***************************************************************************)
EXTENDS Naturals, Sequences

CONSTANTS
  NakLimit,     (* USB_NAK_LIMIT                                           *)
  RetryLimit,   (* USB_RETRY_LIMIT                                         *)
  MaxPkt0,      (* packet size of endpoint 0                               *)
  PollLength,   (* 8, what the polls ask for                               *)
  Devices,      (* [total, ep, ...]: length of the configuration, and ep = *)
                (* [report, max], the sizes of a report and of a packet    *)
  MaxReports    (* bound on the reports a device makes                     *)

ASSUME TransferAssumption ==
  /\ {NakLimit, RetryLimit, MaxPkt0, PollLength, MaxReports} \subseteq Nat \ {0}
  /\ \A d \in Devices : /\ d.total \in Nat \ {0}
                        /\ d.ep \in [report : Nat \ {0}, max : Nat \ {0}]

(* A report ends its poll: it is short, or all that the poll asks for (as  *)
(* the eight bytes of a keyboard are).                                     *)
ASSUME ReportAssumption ==
  \A d \in Devices : d.ep.report < d.ep.max \/ d.ep.report >= PollLength

VARIABLES
  pc,            (* "idle", or where XferDispatchPkt is                    *)
  kind,          (* "poll", "read", "configure" or "boot": the request     *)
  token,         (* "SETUP", "IN", "OUTHS" or "INHS"                       *)
  nbytes, xfrlen, buf,
  nak_count, retry_count, rcode,
  rcvToggle,     (* saved toggle of the interrupt endpoint                 *)
  chip,          (* "ready", "busy", "done" (HXFRDNIRQ) or "dead"          *)
  hrsl,          (* result of the packet                                   *)
  fifo,          (* the received packet while RCVDAVIRQ, else NoPacket     *)
  chiptog,       (* RCVTOG: the toggle expected next                       *)
  configured,    (* device: whether it is configured                       *)
  boot,          (* device: whether it was told to use the boot protocol   *)
  pos, dtog0,    (* device: packets of the data stage acknowledged, toggle *)
  made, acked, dtog,  (* device: reports, those acknowledged, toggle       *)
  got,           (* history: reports main has got                          *)
  shape          (* what kind of device it is                              *)

hostVars == <<kind, token, nbytes, xfrlen, buf, nak_count, retry_count, rcode, rcvToggle>>
chipVars == <<chip, hrsl, fifo, chiptog>>
devVars == <<configured, boot, pos, dtog0, made, acked, dtog, shape>>
vars == <<pc, hostVars, chipVars, devVars, got>>

NoPacket == [id |-> 0, size |-> 0]

Least(a, b) == IF a < b THEN a ELSE b

(* hid_ep is zeroed at power-up only: the toggle may be one that the polls *)
(* of a former device have left there.                                     *)
Init ==
  /\ pc = "idle" /\ kind = "poll" /\ token = "SETUP"
  /\ nbytes = 0 /\ xfrlen = 0 /\ buf = <<>>
  /\ nak_count = 0 /\ retry_count = 0 /\ rcode = "success" /\ rcvToggle \in {0, 1}
  /\ chip = "ready" /\ hrsl = "success" /\ fifo = NoPacket /\ chiptog = 0
  /\ configured = FALSE /\ boot = FALSE /\ pos = 0 /\ dtog0 = 0
  /\ made = 0 /\ acked = 0 /\ dtog = 0 /\ got = 0
  /\ shape \in Devices

----------------------------------------------------------------------------
(* The device, and the controller as long as a packet is on the bus        *)

(* What the device has for an IN packet, <<packet, toggle>>.               *)
Packet ==
  IF kind = "poll" THEN <<[id |-> acked + 1, size |-> shape.ep.report], dtog>>
  ELSE <<[id |-> pos + 1,
          size |-> Least(MaxPkt0, Least(shape.total, nbytes) - pos * MaxPkt0)], dtog0>>

HasPacket ==
  IF kind = "poll" THEN acked < made ELSE pos * MaxPkt0 <= Least(shape.total, nbytes)

Ends(result) == chip' = "done" /\ hrsl' = result

(* Not now, not ever, or nothing heard. *)
Refused ==
  /\ \/ token # "SETUP" /\ Ends("NAK")
     \/ token # "SETUP" /\ kind = "read" /\ Ends("STALL")
     \/ Ends("TIMEOUT")
  /\ UNCHANGED <<fifo, chiptog, devVars>>

(* The device counts a packet as delivered when the acknowledge arrives.   *)
Deliver(arrives) ==
  IF ~arrives THEN UNCHANGED <<pos, dtog0, acked, dtog>>
  ELSE IF kind = "poll" THEN /\ acked' = acked + 1 /\ dtog' = 1 - dtog
                             /\ UNCHANGED <<pos, dtog0>>
  ELSE /\ pos' = pos + 1 /\ dtog0' = 1 - dtog0
       /\ UNCHANGED <<acked, dtog>>

Receive ==
  /\ token = "IN" /\ HasPacket
  /\ IF Packet[2] = chiptog
       THEN fifo' = Packet[1] /\ chiptog' = 1 - chiptog /\ Ends("success")
       ELSE /\ Ends("TOGERR") \/ Ends("success")        (* transfer.c:205 *)
            /\ UNCHANGED <<fifo, chiptog>>
  /\ \E arrives \in BOOLEAN : Deliver(arrives)
  /\ UNCHANGED <<configured, boot, made, shape>>

(* A SETUP that arrives starts the request anew, also if the host does not *)
(* hear of it; the status of a configuration makes it effective.           *)
Setup ==
  /\ token = "SETUP"
  /\ pos' = 0 /\ dtog0' = 1
  /\ Ends("success") \/ Ends("TIMEOUT")
  /\ UNCHANGED <<fifo, chiptog, configured, boot, made, acked, dtog, shape>>

Status ==
  /\ token \in {"OUTHS", "INHS"}
  /\ IF kind = "configure" THEN configured' = TRUE /\ dtog' = 0
     ELSE UNCHANGED <<configured, dtog>>
  /\ boot' = (boot \/ kind = "boot")
  /\ Ends("success")
  /\ UNCHANGED <<fifo, chiptog, pos, dtog0, made, acked, shape>>

OnTheBus ==
  /\ chip = "busy"
  /\ Refused \/ Receive \/ Setup \/ Status
  /\ UNCHANGED <<pc, hostVars, got>>

(* A configured device has something to report. *)
Make ==
  /\ configured /\ made < MaxReports
  /\ made' = made + 1
  /\ UNCHANGED <<pc, hostVars, chipVars, configured, boot, pos, dtog0, acked, dtog, shape, got>>

(* The controller is gone, or no longer listens. *)
Die ==
  /\ chip = "busy"
  /\ chip' = "dead"
  /\ UNCHANGED <<pc, hostVars, hrsl, fifo, chiptog, devVars, got>>

----------------------------------------------------------------------------
(* XferDispatchPkt                                                         *)

Dispatch(tok) ==
  /\ token' = tok
  /\ nak_count' = 0 /\ retry_count' = 0
  /\ pc' = "launch"

(* MAXreg_wr( rHXFR, ... ) *)
Launch ==
  /\ pc = "launch"
  /\ chip' = IF chip = "dead" THEN "dead" ELSE "busy"
  /\ pc' = "wait"
  /\ UNCHANGED <<hostVars, hrsl, fifo, chiptog, devVars, got>>

Counted_NakForEver ==
  /\ retry_count' = IF hrsl = "TIMEOUT" THEN retry_count + 1 ELSE retry_count
  /\ nak_count' = IF hrsl = "NAK" THEN (nak_count + 1) % NakLimit ELSE nak_count
  /\ IF retry_count' = RetryLimit \/ hrsl \notin {"NAK", "TIMEOUT"}
       THEN pc' = "return" ELSE pc' = "launch"

(* Again, unless the limit is reached. *)
Counted ==
  /\ nak_count' = IF hrsl = "NAK" THEN nak_count + 1 ELSE nak_count
  /\ retry_count' = IF hrsl = "TIMEOUT" THEN retry_count + 1 ELSE retry_count
  /\ pc' = IF \/ hrsl = "NAK" /\ nak_count' # NakLimit
              \/ hrsl = "TIMEOUT" /\ retry_count' # RetryLimit
           THEN "launch" ELSE "return"

Answered ==
  /\ pc = "wait" /\ chip = "done"
  /\ chip' = "ready"
  /\ rcode' = hrsl
  /\ Counted
  /\ UNCHANGED <<kind, token, nbytes, xfrlen, buf, rcvToggle, hrsl, fifo, chiptog, devVars, got>>

(* USB_XFER_TIMEOUT, 5 s, is beyond what the controller ever takes. *)
GiveUp ==
  /\ pc = "wait" /\ chip = "dead"
  /\ rcode' = "0xff"
  /\ pc' = "return"
  /\ UNCHANGED <<kind, token, nbytes, xfrlen, buf, nak_count, retry_count, rcvToggle,
                 chipVars, devVars, got>>

----------------------------------------------------------------------------
(* XferInTransfer and XferCtrlReq                                          *)

(* MAXreg_wr( rHCTL, ...rcvToggle ); tokIN *)
InTransfer(toggle) ==
  /\ chiptog' = toggle
  /\ xfrlen' = 0
  /\ Dispatch("IN")

Finish ==
  /\ pc' = "idle"
  /\ UNCHANGED <<token, nak_count, retry_count>>

(* The whole of a poll is one report only if the last packet was the first. *)
HandOver ==
  got' = IF kind = "poll" THEN buf'[Len(buf')] ELSE got

SaveToggle == rcvToggle' = IF kind = "poll" THEN chiptog ELSE rcvToggle

MaxPktSize == IF kind = "poll" THEN shape.ep.max ELSE MaxPkt0

LastPacket_FullToo == fifo.size <= MaxPktSize \/ xfrlen' >= nbytes

LastPacket == fifo.size < MaxPktSize \/ xfrlen' >= nbytes

(* RCVDAVIRQ: the packet is read and the buffer freed. *)
TakePacket ==
  /\ buf' = Append(buf, fifo.id)
  /\ xfrlen' = xfrlen + fifo.size
  /\ fifo' = NoPacket
  /\ IF ~LastPacket
       THEN Dispatch("IN") /\ UNCHANGED <<rcvToggle, got>>
       ELSE /\ SaveToggle
            /\ HandOver
            /\ IF kind = "poll" THEN Finish ELSE Dispatch("OUTHS")

Continue ==
  /\ pc = "return"
  /\ \/ /\ rcode # "success" \/ token \in {"OUTHS", "INHS"}
        /\ Finish
        /\ UNCHANGED <<rcode, xfrlen, buf, rcvToggle, fifo, chiptog, got>>
     \/ /\ rcode = "success" /\ token = "SETUP"
        /\ IF kind = "read" THEN InTransfer(1)
           ELSE Dispatch("INHS") /\ UNCHANGED <<xfrlen, chiptog>>
        /\ UNCHANGED <<rcode, buf, rcvToggle, fifo, got>>
     \/ /\ rcode = "success" /\ token = "IN" /\ fifo = NoPacket
        /\ rcode' = "0xf0"
        /\ Finish
        /\ UNCHANGED <<xfrlen, buf, rcvToggle, fifo, chiptog, got>>
     \/ /\ rcode = "success" /\ token = "IN" /\ fifo # NoPacket
        /\ TakePacket
        /\ UNCHANGED <<rcode, chiptog>>
  /\ UNCHANGED <<kind, nbytes, chip, hrsl, devVars>>

(* XferCtrlReq *)
Ask(what, n) ==
  /\ kind' = what /\ nbytes' = n
  /\ buf' = <<>> /\ xfrlen' = 0
  /\ Dispatch("SETUP")
  /\ UNCHANGED <<rcode, chipVars, devVars, got>>

Poll_NoToggle ==
  /\ kind' = "poll" /\ nbytes' = PollLength /\ buf' = <<>>
  /\ xfrlen' = 0 /\ Dispatch("IN")
  /\ UNCHANGED <<rcode, rcvToggle, chipVars, devVars, got>>

(* kbdPoll, mousePoll *)
Poll ==
  /\ kind' = "poll" /\ nbytes' = PollLength /\ buf' = <<>>
  /\ InTransfer(rcvToggle)
  /\ UNCHANGED <<rcode, rcvToggle, chip, hrsl, fifo, devVars, got>>

Transfer == Launch \/ Answered \/ GiveUp \/ Continue

Environment == OnTheBus \/ Make \/ Die

----------------------------------------------------------------------------

(* Through lost packets, lost acknowledges, NAKs and failed polls, main    *)
(* gets every report once and in order.                                    *)
Pipe == INSTANCE ReportPipe
ImplementsPipe == Pipe!Spec

(* A descriptor that is read with success is complete: no packet of it is  *)
(* left out or taken twice (transfer.c:217).                               *)
ReadIsWhole ==
  pc = "idle" /\ kind = "read" /\ rcode = "success"
    => /\ buf = [i \in 1 .. Len(buf) |-> i]
       /\ xfrlen = Least(shape.total, nbytes)

=============================================================================
