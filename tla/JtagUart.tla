------------------------------ MODULE JtagUart ------------------------------
(***************************************************************************)
(* The interrupt-driven driver of the JTAG UART, through which every       *)
(* printf of the firmware goes (altera_avalon_jtag_uart_init.c, _write.c,  *)
(* _read.c): two rings between the program and the interrupt handler, the  *)
(* interrupt enable bits that start and stop the handler, and a timer that *)
(* notices when the host at the other end of the cable is gone.            *)
(*                                                                         *)
(* The program is interrupted between any two of its accesses to shared    *)
(* state and stands still while the handler runs; the host puts and takes  *)
(* characters at any time.  External: the FIFOs, the interrupt line, and a *)
(* host that takes what is there whenever it looks.                        *)
(***************************************************************************)
EXTENDS Naturals, Sequences

CONSTANTS
  BufLen,       (* ALTERA_AVALON_JTAG_UART_BUF_LEN                         *)
  FifoDepth,    (* size of the FIFOs of the device                         *)
  Timeout,      (* seconds without the host: sp->timeout                   *)
  MaxCount,     (* bound on the characters of one call                     *)
  K             (* characters are numbered modulo K                        *)

ASSUME UartAssumption ==
  /\ {BufLen, FifoDepth, Timeout, MaxCount, K} \subseteq Nat \ {0}
  /\ BufLen >= 2 /\ K >= BufLen

VARIABLES
  tx_in, tx_out, tx_buf,
  rx_in, rx_out, rx_buf,
  irq_enable,             (* subset of {"RE", "WE"}                        *)
  host_inactive,
  wfifo, rfifo, AC,       (* the device                                    *)
  isr,                    (* where the handler is, "off" if it is not      *)
  pending,                (* control as the handler read it: WI and space  *)
  call, pc, nonblock,     (* what the program does                         *)
  count, n, seen,         (* its locals: left to do, chunk, out or in      *)
  moved,                  (* ptr # start                                   *)
  rc,                     (* what the last call returned                   *)
  fed, got, said, heard   (* history: last character of each party         *)

txVars == <<tx_in, tx_out, tx_buf>>
rxVars == <<rx_in, rx_out, rx_buf>>
devVars == <<wfifo, rfifo, AC>>
isrVars == <<isr, pending>>
mainVars == <<call, pc, nonblock, count, n, seen, moved, rc>>
history == <<fed, got, said, heard>>
vars == <<txVars, rxVars, irq_enable, host_inactive, devVars, isrVars, mainVars, history>>

Slots == 0 .. BufLen - 1

Smaller(a, b) == IF a < b THEN a ELSE b

(* Characters in a ring. *)
Used(in, out) == (in + BufLen - out) % BufLen
Contents(buf, in, out) == [i \in 1 .. Used(in, out) |-> buf[(out + i - 1) % BufLen]]

NothingRead == [WI |-> FALSE, space |-> 0]

Init ==
  /\ tx_in = 0 /\ tx_out = 0 /\ tx_buf = [s \in Slots |-> 0]
  /\ rx_in = 0 /\ rx_out = 0 /\ rx_buf = [s \in Slots |-> 0]
  /\ irq_enable = {"RE"} /\ host_inactive = 0
  /\ wfifo = <<>> /\ rfifo = <<>> /\ AC = FALSE
  /\ isr = "off" /\ pending = NothingRead
  /\ call = "none" /\ pc = "idle" /\ nonblock = FALSE
  /\ count = 0 /\ n = 0 /\ seen = 0 /\ moved = FALSE /\ rc = "ok"
  /\ fed = 0 /\ got = 0 /\ said = 0 /\ heard = 0

----------------------------------------------------------------------------
(* The device and the host                                                 *)

RI == "RE" \in irq_enable /\ rfifo # <<>>
WI == "WE" \in irq_enable /\ Len(wfifo) < FifoDepth

HostTakes ==
  /\ wfifo # <<>>
  /\ heard' = Head(wfifo) /\ wfifo' = Tail(wfifo) /\ AC' = TRUE
  /\ UNCHANGED <<rfifo, fed, got, said>>

HostSays ==
  /\ Len(rfifo) < FifoDepth
  /\ said' = (said + 1) % K /\ rfifo' = Append(rfifo, said') /\ AC' = TRUE
  /\ UNCHANGED <<wfifo, fed, got, heard>>

HostLooks == wfifo = <<>> /\ AC' = TRUE /\ UNCHANGED <<wfifo, rfifo, history>>

Host ==
  /\ HostTakes \/ HostSays \/ HostLooks
  /\ UNCHANGED <<txVars, rxVars, irq_enable, host_inactive, isrVars, mainVars>>

----------------------------------------------------------------------------
(* Interrupt level                                                         *)

IsrEnter ==
  /\ isr = "off" /\ (RI \/ WI)
  /\ isr' = "control"
  /\ UNCHANGED <<txVars, rxVars, irq_enable, host_inactive, devVars, pending, mainVars, history>>

(* The top of the handler's loop. *)
IsrControl ==
  /\ isr = "control"
  /\ pending' = IF WI THEN [WI |-> TRUE, space |-> FifoDepth - Len(wfifo)] ELSE NothingRead
  /\ isr' = IF RI THEN "read" ELSE IF WI THEN "write" ELSE "off"
  /\ UNCHANGED <<txVars, rxVars, irq_enable, host_inactive, devVars, mainVars, history>>

Free(in, out) == BufLen - 1 - Used(in, out)

(* As much as the ring has room for; if that was not all, silence. *)
IsrRead ==
  /\ isr = "read"
  /\ LET k == Smaller(Free(rx_in, rx_out), Len(rfifo))
     IN  /\ rx_buf' = [s \in Slots |->
              IF \E i \in 1 .. k : s = (rx_in + i - 1) % BufLen
                THEN rfifo[((s + BufLen - rx_in) % BufLen) + 1] ELSE rx_buf[s]]
         /\ rx_in' = (rx_in + k) % BufLen
         /\ rfifo' = SubSeq(rfifo, k + 1, Len(rfifo))
  /\ irq_enable' = IF rfifo' # <<>> THEN irq_enable \ {"RE"} ELSE irq_enable
  /\ IF pending.WI THEN isr' = "write" /\ UNCHANGED pending
     ELSE isr' = "control" /\ pending' = NothingRead
  /\ UNCHANGED <<txVars, rx_out, host_inactive, wfifo, AC, mainVars, history>>

Exhausted(k) == k < pending.space

(* As much as the FIFO has room for; if that was all, silence. *)
IsrWrite ==
  /\ isr = "write"
  /\ LET k == Smaller(pending.space, Used(tx_in, tx_out))
     IN  /\ wfifo' = wfifo \o SubSeq(Contents(tx_buf, tx_in, tx_out), 1, k)
         /\ tx_out' = (tx_out + k) % BufLen
         /\ irq_enable' = IF Exhausted(k) THEN irq_enable \ {"WE"} ELSE irq_enable
  /\ isr' = "control" /\ pending' = NothingRead
  /\ UNCHANGED <<tx_in, tx_buf, rxVars, host_inactive, rfifo, AC, mainVars, history>>

Isr == IsrEnter \/ IsrControl \/ IsrRead \/ IsrWrite

(* altera_avalon_jtag_uart_timeout, called by alt_tick every second; the   *)
(* UART's own interrupt goes first.  Nothing depends on how far the count  *)
(* goes past Timeout.                                                      *)
Second ==
  /\ isr = "off" /\ ~RI /\ ~WI
  /\ AC' = FALSE
  /\ host_inactive' = IF AC THEN 0 ELSE Smaller(host_inactive + 1, Timeout)
  /\ UNCHANGED <<txVars, rxVars, irq_enable, wfifo, rfifo, isrVars, mainVars, history>>

----------------------------------------------------------------------------
(* The program                                                             *)

TimedOut == host_inactive >= Timeout

(* The locals die with the call. *)
Return(code) ==
  /\ pc' = "idle" /\ rc' = code
  /\ call' = "none" /\ nonblock' = FALSE
  /\ count' = 0 /\ n' = 0 /\ seen' = 0 /\ moved' = FALSE

Moved(error) == Return(IF moved THEN "ok" ELSE error)

Goto(next) == pc' = next /\ UNCHANGED <<call, nonblock, count, n, seen, moved, rc>>

Call(routine, first) ==
  /\ pc = "idle"
  /\ call' = routine /\ pc' = first
  /\ nonblock' \in BOOLEAN /\ count' \in 1 .. MaxCount /\ rc' = "ok"
  /\ UNCHANGED <<n, seen, moved, txVars, rxVars, irq_enable, fed, got>>

Start == Call("write", "load") \/ Call("read", "rload") \/ Call("close", "drain")

Room_OffByOne(in, out) ==
  IF in < out THEN out - 1 - in ELSE BufLen - in

(* Room for one memcpy: up to the end of the array or the last free slot. *)
Room(in, out) ==
  CASE in < out              -> out - 1 - in
    [] in >= out /\ out > 0 -> BufLen - in
    [] in >= out /\ out = 0 -> BufLen - 1 - in

(* The handler may take more between the look at tx_out and the copy. *)
Load ==
  /\ pc = "load"
  /\ seen' = IF count > 0 THEN tx_out ELSE seen
  /\ n' = Smaller(Room(tx_in, tx_out), count)
  /\ pc' = IF n' = 0 THEN "kick" ELSE "copy"
  /\ UNCHANGED <<call, nonblock, count, moved, rc, txVars, rxVars, irq_enable, fed, got>>

(* The memcpy: the ring has the characters, but the handler does not see   *)
(* them.                                                                   *)
Copy ==
  /\ pc = "copy" /\ Goto("publish")
  /\ tx_buf' = [s \in Slots |-> IF s \in tx_in .. tx_in + n - 1
                                  THEN (fed + 1 + s - tx_in) % K ELSE tx_buf[s]]
  /\ fed' = (fed + n) % K
  /\ UNCHANGED <<tx_in, tx_out, rxVars, irq_enable, got>>

(* With the assignment of tx_in they are the handler's. *)
Publish ==
  /\ pc = "publish"
  /\ tx_in' = (tx_in + n) % BufLen
  /\ count' = count - n /\ n' = 0 /\ moved' = TRUE
  /\ pc' = "load"
  /\ UNCHANGED <<call, nonblock, seen, rc, tx_out, tx_buf, rxVars, irq_enable, fed, got>>

Enable_OnlyIfLeft ==
  irq_enable' = IF count > 0 THEN irq_enable \cup {"WE"} ELSE irq_enable

Enable == irq_enable' = irq_enable \cup {"WE"}

(* With interrupts disabled: kick the interrupt routine every time. *)
Kick ==
  /\ pc = "kick"
  /\ Enable
  /\ IF count = 0 \/ nonblock THEN Moved("EWOULDBLOCK") ELSE Goto("spin")
  /\ UNCHANGED <<txVars, rxVars, fed, got>>

Spin_NoTimeout ==
  /\ pc = "spin" /\ seen # tx_out
  /\ Goto("check")
  /\ UNCHANGED <<txVars, rxVars, irq_enable, fed, got>>

Spin ==
  /\ pc = "spin" /\ (seen # tx_out \/ TimedOut)
  /\ Goto("check")
  /\ UNCHANGED <<txVars, rxVars, irq_enable, fed, got>>

Check ==
  /\ pc = "check"
  /\ IF host_inactive > 0 THEN Moved("EIO") ELSE Goto("load")
  /\ UNCHANGED <<txVars, rxVars, irq_enable, fed, got>>

ReadLoad ==
  /\ pc = "rload"
  /\ LET chunk == Smaller(IF rx_in >= rx_out THEN rx_in - rx_out ELSE BufLen - rx_out,
                          count)
     IN  \/ /\ chunk > 0
            /\ n' = chunk /\ pc' = "rcopy"
            /\ UNCHANGED <<call, nonblock, count, seen, moved, rc>>
         \/ chunk = 0 /\ moved /\ Goto("enable")
         \/ chunk = 0 /\ ~moved /\ nonblock /\ Return("EWOULDBLOCK")
         \/ /\ chunk = 0 /\ ~moved /\ ~nonblock
            /\ seen' = rx_in /\ pc' = "rspin"
            /\ UNCHANGED <<call, nonblock, count, n, moved, rc>>
  /\ UNCHANGED <<txVars, rxVars, irq_enable, fed, got>>

(* The memcpy: the program has the characters, but their slots are not     *)
(* free.                                                                   *)
ReadCopy ==
  /\ pc = "rcopy" /\ Goto("release")
  /\ got' = rx_buf[rx_out + n - 1]
  /\ UNCHANGED <<txVars, rxVars, irq_enable, fed>>

(* With the assignment of rx_out the handler may use the slots again. *)
ReadRelease ==
  /\ pc = "release"
  /\ rx_out' = (rx_out + n) % BufLen
  /\ count' = count - n /\ n' = 0 /\ moved' = TRUE
  /\ pc' = IF count' = 0 THEN "enable" ELSE "rload"
  /\ UNCHANGED <<call, nonblock, seen, rc, txVars, rx_in, rx_buf, irq_enable, fed, got>>

ReadSpin ==
  /\ pc = "rspin" /\ (seen # rx_in \/ TimedOut)
  /\ Goto("rcheck")
  /\ UNCHANGED <<txVars, rxVars, irq_enable, fed, got>>

ReadCheck ==
  /\ pc = "rcheck"
  /\ IF seen = rx_in THEN Return("EIO") ELSE Goto("rload")
  /\ UNCHANGED <<txVars, rxVars, irq_enable, fed, got>>

(* There is space in the buffer now. *)
ReadEnable ==
  /\ pc = "enable"
  /\ irq_enable' = irq_enable \cup {"RE"}
  /\ Return("ok")
  /\ UNCHANGED <<txVars, rxVars, fed, got>>

Drain ==
  /\ pc = "drain"
  /\ \/ (tx_in = tx_out \/ TimedOut) /\ Return("ok")
     \/ tx_in # tx_out /\ ~TimedOut /\ nonblock /\ Return("EWOULDBLOCK")
  /\ UNCHANGED <<txVars, rxVars, irq_enable, fed, got>>

InCall ==
  /\ isr = "off"
  /\ \/ Load \/ Copy \/ Publish \/ Kick \/ Spin \/ Check
     \/ ReadLoad \/ ReadCopy \/ ReadRelease \/ ReadSpin \/ ReadCheck \/ ReadEnable
     \/ Drain
  /\ UNCHANGED <<host_inactive, devVars, isrVars, said, heard>>

Begin ==
  /\ isr = "off"
  /\ Start
  /\ UNCHANGED <<host_inactive, devVars, isrVars, said, heard>>

Next == Host \/ Isr \/ Second \/ InCall \/ Begin

(* Processor and timer go on; the host may do nothing for ever. *)
Spec == Init /\ [][Next]_vars /\ WF_vars(Isr) /\ WF_vars(Second) /\ WF_vars(InCall)

----------------------------------------------------------------------------

(* Where the characters that the program has copied into the ring end, and *)
(* where those it has not copied out of the ring begin.                    *)
Filled == IF pc = "publish" THEN (tx_in + n) % BufLen ELSE tx_in
Emptied == IF pc = "release" THEN (rx_out + n) % BufLen ELSE rx_out

(* What is written comes out at the host, what the host says is read, in   *)
(* order, each character once, although handler and program share the      *)
(* rings without a lock (the comment in altera_avalon_jtag_uart.h:105) and *)
(* the handler may come in between a copy and the index that tells of it.  *)
Out == INSTANCE ByteStream
         WITH q <- wfifo \o Contents(tx_buf, Filled, tx_out)

In == INSTANCE ByteStream
        WITH fed <- said, q <- Contents(rx_buf, rx_in, Emptied) \o rfifo, heard <- got
InOrder == Out!Spec /\ In!Spec

(* The handler is never left asleep with work to do: characters wait for   *)
(* the host only while the write interrupt is on or about to be, and the   *)
(* read interrupt is off only while there is something to read.            *)
NothingStuck ==
  /\ tx_in # tx_out => "WE" \in irq_enable \/ pc \in {"load", "copy", "publish", "kick"}
  /\ "RE" \notin irq_enable => rx_in # rx_out \/ pc \in {"rload", "enable"}

(* Nothing hangs: the handler returns however fast the host talks, writing *)
(* and closing return in the end whether or not there is a host, reading   *)
(* returns if the host is gone.                                            *)
CallsReturn ==
  /\ isr # "off" ~> isr = "off"
  /\ pc # "idle" /\ call # "read" ~> pc = "idle"
  /\ <>[]~AC => []<>(pc = "idle")

=============================================================================
