--------------------------- MODULE JtagUartProofs ---------------------------
(***************************************************************************)
(* Proofs about the UART driver, for rings and FIFOs of any size, any      *)
(* time-out and calls of any length: the interrupt handler is never left   *)
(* asleep with work to do, and both directions are lossless streams.       *)
(***************************************************************************)
EXTENDS JtagUart, SequenceTheorems, TLAPS

----------------------------------------------------------------------------
(* The inductive invariant                                                 *)

Char == 0 .. K - 1

Flags == AC \in BOOLEAN /\ nonblock \in BOOLEAN /\ moved \in BOOLEAN

Rings ==
  /\ tx_in \in Slots /\ tx_out \in Slots /\ tx_buf \in [Slots -> Char]
  /\ rx_in \in Slots /\ rx_out \in Slots /\ rx_buf \in [Slots -> Char]

Device ==
  /\ wfifo \in Seq(Char) /\ rfifo \in Seq(Char)
  /\ irq_enable \subseteq {"RE", "WE"}

Handler ==
  /\ isr \in {"off", "control", "read", "write"}
  /\ pending.space \in Nat

Program ==
  /\ pc \in {"idle", "load", "copy", "publish", "kick", "spin", "check",
             "rload", "rcopy", "release", "rspin", "rcheck", "enable", "drain"}
  /\ count \in Nat /\ n \in Nat

Parties == fed \in Char /\ got \in Char /\ said \in Char /\ heard \in Char

(* What the program copies fits into the ring, or is in it, in one piece,  *)
(* whatever the handler has done since the program looked.                 *)
Chunks ==
  /\ pc \in {"copy", "publish"} =>
       /\ n > 0 /\ n <= count
       /\ n + Used(tx_in, tx_out) <= BufLen - 1 /\ tx_in + n <= BufLen
  /\ pc \in {"rload", "rspin", "rcheck"} => count > 0
  /\ pc \in {"rcopy", "release"} =>
       /\ n > 0 /\ n <= count
       /\ n <= Used(rx_in, rx_out) /\ rx_out + n <= BufLen

WriteAwake ==
  tx_in # tx_out => "WE" \in irq_enable \/ pc \in {"load", "copy", "publish", "kick"}

(* With nothing read so far the read interrupt is off only if there is     *)
(* something to read.                                                      *)
ReadAwake ==
  "RE" \notin irq_enable =>
    rx_in # rx_out \/ pc = "enable" \/ (pc = "rload" /\ moved)

Inv ==
  /\ Flags /\ Rings /\ Device /\ Handler /\ Program /\ Parties
  /\ Chunks /\ WriteAwake /\ ReadAwake

----------------------------------------------------------------------------
(* The constants, and arithmetic modulo the size of a ring                 *)

LEMMA Sizes ==
  /\ BufLen \in Nat /\ BufLen >= 2
  /\ FifoDepth \in Nat \ {0} /\ Timeout \in Nat \ {0} /\ MaxCount \in Nat \ {0}
  /\ K \in Nat /\ K >= BufLen
<1>1. /\ BufLen \in Nat \ {0} /\ FifoDepth \in Nat \ {0} /\ Timeout \in Nat \ {0}
      /\ MaxCount \in Nat \ {0} /\ K \in Nat \ {0}
  BY UartAssumption
<1>2. QED  BY <1>1, UartAssumption

LEMMA Modulus ==
  ASSUME NEW x \in Nat, NEW m \in Nat, m > 0, x < 2 * m
  PROVE  x % m = IF x < m THEN x ELSE x - m
<1>1. CASE x < m  BY <1>1
<1>2. CASE x >= m
  <2>1. x = (x - m) + m /\ x - m \in 0 .. m - 1  BY <1>2
  <2>2. x % m = x - m  BY <2>1
  <2>3. QED  BY <1>2, <2>2
<1>3. QED  BY <1>1, <1>2

(* The i-th slot from b. *)
LEMMA At ==
  ASSUME NEW b \in Slots, NEW i \in 1 .. BufLen
  PROVE  /\ (b + i - 1) % BufLen = IF b + i - 1 < BufLen THEN b + i - 1
                                   ELSE b + i - 1 - BufLen
         /\ (b + i - 1) % BufLen \in Slots
<1> DEFINE x == b + i - 1
<1>1. x \in Nat /\ x < 2 * BufLen /\ BufLen \in Nat /\ BufLen > 0
  BY Sizes DEF Slots
<1> HIDE DEF x
<1>2. x % BufLen = IF x < BufLen THEN x ELSE x - BufLen
  BY <1>1, Modulus
<1>3. x % BufLen \in Slots  BY <1>1, <1>2 DEF Slots
<1>4. QED  BY <1>1, <1>2, <1>3 DEF x, Slots

(* The slot k after b. *)
LEMMA Onward ==
  ASSUME NEW b \in Slots, NEW k \in 0 .. BufLen
  PROVE  /\ (b + k) % BufLen = IF b + k < BufLen THEN b + k ELSE b + k - BufLen
         /\ (b + k) % BufLen \in Slots
<1> DEFINE x == b + k
<1>1. x \in Nat /\ x < 2 * BufLen /\ BufLen \in Nat /\ BufLen > 0
  BY Sizes DEF Slots
<1> HIDE DEF x
<1>2. x % BufLen = IF x < BufLen THEN x ELSE x - BufLen
  BY <1>1, Modulus
<1>3. x % BufLen \in Slots  BY <1>1, <1>2 DEF Slots
<1>4. QED  BY <1>1, <1>2, <1>3 DEF x, Slots

LEMMA UsedIs ==
  ASSUME NEW a \in Slots, NEW b \in Slots
  PROVE  /\ Used(a, b) = IF a >= b THEN a - b ELSE a + BufLen - b
         /\ Used(a, b) \in 0 .. BufLen - 1
         /\ Used(a, b) = 0 <=> a = b
<1> DEFINE x == a + BufLen - b
<1>1. x \in Nat /\ x < 2 * BufLen /\ BufLen \in Nat /\ BufLen > 0
  BY Sizes DEF Slots
<1> HIDE DEF x
<1>2. x % BufLen = IF x < BufLen THEN x ELSE x - BufLen  BY <1>1, Modulus
<1>3. Used(a, b) = IF a + BufLen - b < BufLen THEN a + BufLen - b
                   ELSE a + BufLen - b - BufLen
  BY <1>1, <1>2 DEF x, Used, Slots
<1>4. QED  BY <1>1, <1>3 DEF Slots

LEMMA Put ==
  ASSUME NEW a \in Slots, NEW b \in Slots, NEW k \in Nat,
         k + Used(a, b) <= BufLen - 1
  PROVE  /\ (a + k) % BufLen \in Slots
         /\ Used((a + k) % BufLen, b) = Used(a, b) + k
<1> DEFINE c == (a + k) % BufLen
<1>1. BufLen \in Nat /\ k \in 0 .. BufLen  BY Sizes, UsedIs
<1>2. c \in Slots /\ c = IF a + k < BufLen THEN a + k ELSE a + k - BufLen
  BY <1>1, Onward
<1> HIDE DEF c
<1>3. Used(c, b) = IF c >= b THEN c - b ELSE c + BufLen - b  BY <1>2, UsedIs
<1>4. Used(a, b) = IF a >= b THEN a - b ELSE a + BufLen - b  BY UsedIs
<1>5. Used(c, b) = Used(a, b) + k  BY <1>1, <1>2, <1>3, <1>4 DEF Slots
<1>6. QED  BY <1>2, <1>5 DEF c

LEMMA Take ==
  ASSUME NEW a \in Slots, NEW b \in Slots, NEW k \in Nat, k <= Used(a, b)
  PROVE  /\ (b + k) % BufLen \in Slots
         /\ Used(a, (b + k) % BufLen) = Used(a, b) - k
<1> DEFINE c == (b + k) % BufLen
<1>1. BufLen \in Nat /\ k \in 0 .. BufLen  BY Sizes, UsedIs
<1>2. c \in Slots /\ c = IF b + k < BufLen THEN b + k ELSE b + k - BufLen
  BY <1>1, Onward
<1> HIDE DEF c
<1>3. Used(a, c) = IF a >= c THEN a - c ELSE a + BufLen - c  BY <1>2, UsedIs
<1>4. Used(a, b) = IF a >= b THEN a - b ELSE a + BufLen - b  BY UsedIs
<1>5. Used(a, c) = Used(a, b) - k  BY <1>1, <1>2, <1>3, <1>4 DEF Slots
<1>6. QED  BY <1>2, <1>5 DEF c

(* How far a slot is from where the ring was. *)
LEMMA Offset ==
  ASSUME NEW a \in Slots, NEW i \in 1 .. BufLen, NEW s, s = (a + i - 1) % BufLen
  PROVE  (s + BufLen - a) % BufLen = i - 1
<1> DEFINE x == s + BufLen - a
<1>1. s \in Slots /\ s = IF a + i - 1 < BufLen THEN a + i - 1 ELSE a + i - 1 - BufLen
  BY At
<1>2. BufLen \in Nat /\ BufLen > 0  BY Sizes
<1>3. x \in Nat /\ x < 2 * BufLen  BY <1>1, <1>2 DEF Slots
<1>4. x = IF a + i - 1 < BufLen THEN i - 1 + BufLen ELSE i - 1
  BY <1>1, <1>2 DEF Slots
<1> HIDE DEF x
<1>5. x % BufLen = IF x < BufLen THEN x ELSE x - BufLen  BY <1>2, <1>3, Modulus
<1>6. x % BufLen = i - 1  BY <1>1, <1>2, <1>4, <1>5 DEF Slots
<1>7. QED  BY <1>6 DEF x

LEMMA SmallerIs ==
  ASSUME NEW a \in Nat, NEW b \in Nat
  PROVE  /\ Smaller(a, b) \in Nat /\ Smaller(a, b) <= a /\ Smaller(a, b) <= b
         /\ Smaller(a, b) \in {a, b}
BY DEF Smaller

LEMMA NextChar ==
  ASSUME NEW c \in Nat
  PROVE  c % K \in Char
BY Sizes DEF Char

----------------------------------------------------------------------------
(* Each action keeps the invariant: the host and the interrupt handler     *)

LEMMA HostKeeps ==
  ASSUME Inv, Host
  PROVE  Inv'
<1>1. UNCHANGED <<tx_in, tx_out, tx_buf, rx_in, rx_out, rx_buf, irq_enable, isr, pending,
                  pc, nonblock, count, n, moved>>
  BY DEF Host, txVars, rxVars, isrVars, mainVars
<1>2. /\ AC' = TRUE \/ AC' = FALSE
      /\ wfifo' \in Seq(Char) /\ rfifo' \in Seq(Char)
      /\ fed' = fed /\ got' = got /\ said' \in Char /\ heard' \in Char
  <2>1. CASE HostTakes
    <3>1. AC' = TRUE /\ UNCHANGED <<rfifo, fed, got, said>>  BY <2>1 DEF HostTakes
    <3>2. wfifo \in Seq(Char) /\ wfifo # <<>> /\ heard' = Head(wfifo) /\ wfifo' = Tail(wfifo)
      BY <2>1 DEF HostTakes, Inv, Device
    <3>3. heard' \in Char /\ wfifo' \in Seq(Char)  BY <3>2
    <3>4. QED  BY <3>1, <3>3 DEF Inv, Device, Parties
  <2>2. CASE HostSays
    <3>1. AC' = TRUE /\ UNCHANGED <<wfifo, fed, got, heard>>
          /\ said' = (said + 1) % K /\ rfifo' = Append(rfifo, said')
      BY <2>2 DEF HostSays
    <3>2. said + 1 \in Nat  BY Sizes DEF Inv, Parties, Char
    <3>3. said' \in Char  BY <3>1, <3>2, NextChar
    <3>4. rfifo' \in Seq(Char)  BY <3>1, <3>3 DEF Inv, Device
    <3>5. QED  BY <3>1, <3>3, <3>4 DEF Inv, Device, Parties
  <2>3. CASE HostLooks
    <3>1. AC' = TRUE /\ UNCHANGED <<wfifo, rfifo, fed, got, said, heard>>
      BY <2>3 DEF HostLooks, history
    <3>2. QED  BY <3>1 DEF Inv, Device, Parties
  <2>4. QED  BY <2>1, <2>2, <2>3 DEF Host
<1>3. Flags'  BY <1>1, <1>2, Zenon DEF Inv, Flags
<1>4. Rings'  BY <1>1 DEF Inv, Rings
<1>5. Device'  BY <1>1, <1>2 DEF Inv, Device
<1>6. Handler' /\ Program'  BY <1>1, Zenon DEF Inv, Handler, Program
<1>7. Parties'  BY <1>2 DEF Inv, Parties
<1>8. Chunks'  BY <1>1, Zenon DEF Inv, Chunks, Used
<1>9. WriteAwake' /\ ReadAwake'  BY <1>1, Zenon DEF Inv, WriteAwake, ReadAwake
<1>10. QED  BY <1>3, <1>4, <1>5, <1>6, <1>7, <1>8, <1>9 DEF Inv

LEMMA EnterKeeps ==
  ASSUME Inv, IsrEnter \/ IsrControl
  PROVE  Inv'
<1>1. UNCHANGED <<tx_in, tx_out, tx_buf, rx_in, rx_out, rx_buf, irq_enable, wfifo, rfifo, AC,
                  pc, nonblock, count, n, moved, fed, got, said, heard>>
  BY DEF IsrEnter, IsrControl, txVars, rxVars, devVars, mainVars, history
<1>2. isr' \in {"off", "control", "read", "write"} /\ pending'.space \in Nat
  <2>1. CASE IsrEnter
    BY <2>1 DEF IsrEnter, Inv, Handler
  <2>2. CASE IsrControl
    <3>1. FifoDepth - Len(wfifo) \in Nat \/ ~WI
      BY Sizes DEF WI, Inv, Device
    <3>2. isr' \in {"off", "control", "read", "write"}  BY <2>2 DEF IsrControl
    <3>3. CASE WI
      <4>1. pending' = [WI |-> TRUE, space |-> FifoDepth - Len(wfifo)]
        BY <2>2, <3>3 DEF IsrControl
      <4>2. QED  BY <3>1, <3>2, <3>3, <4>1
    <3>4. CASE ~WI
      <4>1. pending' = NothingRead  BY <2>2, <3>4 DEF IsrControl
      <4>2. QED  BY <3>2, <4>1 DEF NothingRead
    <3>5. QED  BY <3>3, <3>4
  <2>3. QED  BY <2>1, <2>2
<1>3. Flags'  BY <1>1, Zenon DEF Inv, Flags
<1>4. Rings' /\ Device' /\ Program' /\ Parties'
  BY <1>1, Zenon DEF Inv, Rings, Device, Program, Parties
<1>5. Handler'  BY <1>2 DEF Handler
<1>6. Chunks'  BY <1>1, Zenon DEF Inv, Chunks, Used
<1>7. WriteAwake' /\ ReadAwake'  BY <1>1, Zenon DEF Inv, WriteAwake, ReadAwake
<1>8. QED  BY <1>3, <1>4, <1>5, <1>6, <1>7 DEF Inv

LEMMA SecondKeeps ==
  ASSUME Inv, Second
  PROVE  Inv'
<1>1. UNCHANGED <<tx_in, tx_out, tx_buf, rx_in, rx_out, rx_buf, irq_enable, wfifo, rfifo,
                  isr, pending, pc, nonblock, count, n, moved, fed, got, said, heard>>
      /\ AC' = FALSE
  BY DEF Second, txVars, rxVars, isrVars, mainVars, history
<1>2. Flags'  BY <1>1, Zenon DEF Inv, Flags
<1>3. Rings' /\ Device' /\ Handler' /\ Program' /\ Parties'
  BY <1>1, Zenon DEF Inv, Rings, Device, Handler, Program, Parties
<1>4. Chunks'  BY <1>1, Zenon DEF Inv, Chunks, Used
<1>5. WriteAwake' /\ ReadAwake'  BY <1>1, Zenon DEF Inv, WriteAwake, ReadAwake
<1>6. QED  BY <1>2, <1>3, <1>4, <1>5 DEF Inv

(* What the handler takes from the FIFO goes into free slots. *)
LEMMA ReadFacts ==
  ASSUME Inv, IsrRead
  PROVE  \E k \in Nat :
           /\ k + Used(rx_in, rx_out) <= BufLen - 1 /\ k <= Len(rfifo)
           /\ k = Len(rfifo) \/ k + Used(rx_in, rx_out) = BufLen - 1
           /\ rx_in' = (rx_in + k) % BufLen
           /\ rfifo' = SubSeq(rfifo, k + 1, Len(rfifo))
           /\ rx_buf' \in [Slots -> Char]
           /\ \A s \in Slots : (\A i \in 1 .. k : s # (rx_in + i - 1) % BufLen)
                                 => rx_buf'[s] = rx_buf[s]
           /\ \A i \in 1 .. k : rx_buf'[(rx_in + i - 1) % BufLen] = rfifo[i]
<1> DEFINE k == Smaller(Free(rx_in, rx_out), Len(rfifo))
<1>1. /\ rx_buf' = [s \in Slots |->
              IF \E i \in 1 .. k : s = (rx_in + i - 1) % BufLen
                THEN rfifo[((s + BufLen - rx_in) % BufLen) + 1] ELSE rx_buf[s]]
      /\ rx_in' = (rx_in + k) % BufLen
      /\ rfifo' = SubSeq(rfifo, k + 1, Len(rfifo))
  BY DEF IsrRead
<1>2. rx_in \in Slots /\ rx_out \in Slots /\ rx_buf \in [Slots -> Char] /\ rfifo \in Seq(Char)
  BY DEF Inv, Rings, Device
<1>3. Len(rfifo) \in Nat  BY <1>2
<1>4. /\ k \in Nat /\ k + Used(rx_in, rx_out) <= BufLen - 1 /\ k <= Len(rfifo)
      /\ k = Len(rfifo) \/ k + Used(rx_in, rx_out) = BufLen - 1
  <2>1. Used(rx_in, rx_out) \in 0 .. BufLen - 1  BY <1>2, UsedIs
  <2>2. Free(rx_in, rx_out) \in Nat
        /\ Free(rx_in, rx_out) + Used(rx_in, rx_out) = BufLen - 1
    BY <2>1, Sizes DEF Free
  <2>3. k \in Nat /\ k <= Free(rx_in, rx_out) /\ k <= Len(rfifo)
        /\ k \in {Free(rx_in, rx_out), Len(rfifo)}
    BY <1>3, <2>2, SmallerIs
  <2> HIDE DEF k
  <2>4. QED  BY <1>3, <2>1, <2>2, <2>3, Sizes
<1> HIDE DEF k
<1>5. \A i \in 1 .. k : i \in 1 .. BufLen /\ i \in 1 .. Len(rfifo)
  <2>1. Used(rx_in, rx_out) \in 0 .. BufLen - 1  BY <1>2, UsedIs
  <2>2. QED  BY <1>3, <1>4, <2>1, Sizes
<1>6. ASSUME NEW i \in 1 .. k
      PROVE  /\ (rx_in + i - 1) % BufLen \in Slots
             /\ rfifo[((((rx_in + i - 1) % BufLen) + BufLen - rx_in) % BufLen) + 1] = rfifo[i]
             /\ rfifo[i] \in Char
  <2> DEFINE s == (rx_in + i - 1) % BufLen
  <2>1. i \in 1 .. BufLen /\ i \in 1 .. Len(rfifo)  BY <1>5
  <2>2. s \in Slots  BY <1>2, <2>1, At
  <2>3. (s + BufLen - rx_in) % BufLen = i - 1  BY <1>2, <2>1, Offset
  <2> HIDE DEF s
  <2>4. i - 1 + 1 = i  BY <2>1
  <2>5. rfifo[((s + BufLen - rx_in) % BufLen) + 1] = rfifo[i]  BY <2>3, <2>4, Zenon
  <2>6. rfifo[i] \in Char  BY <1>2, <2>1
  <2>7. QED  BY <2>2, <2>5, <2>6 DEF s
<1>7. rx_buf' \in [Slots -> Char]
  <2>1. SUFFICES ASSUME NEW s \in Slots
                 PROVE  (IF \E i \in 1 .. k : s = (rx_in + i - 1) % BufLen
                           THEN rfifo[((s + BufLen - rx_in) % BufLen) + 1]
                           ELSE rx_buf[s]) \in Char
    BY <1>1
  <2>2. CASE \E i \in 1 .. k : s = (rx_in + i - 1) % BufLen
    BY <1>6, <2>2, Zenon
  <2>3. CASE ~ \E i \in 1 .. k : s = (rx_in + i - 1) % BufLen
    BY <1>2, <2>3, Zenon
  <2>4. QED  BY <2>2, <2>3
<1>8. \A s \in Slots : (\A i \in 1 .. k : s # (rx_in + i - 1) % BufLen)
                         => rx_buf'[s] = rx_buf[s]
  BY <1>1, Zenon
<1>9. ASSUME NEW i \in 1 .. k
      PROVE  rx_buf'[(rx_in + i - 1) % BufLen] = rfifo[i]
  BY <1>1, <1>6, Zenon
<1>10. QED  BY <1>1, <1>4, <1>7, <1>8, <1>9

LEMMA IsrReadKeeps ==
  ASSUME Inv, IsrRead
  PROVE  Inv'
<1>1. PICK k \in Nat :
           /\ k + Used(rx_in, rx_out) <= BufLen - 1 /\ k <= Len(rfifo)
           /\ k = Len(rfifo) \/ k + Used(rx_in, rx_out) = BufLen - 1
           /\ rx_in' = (rx_in + k) % BufLen
           /\ rfifo' = SubSeq(rfifo, k + 1, Len(rfifo))
           /\ rx_buf' \in [Slots -> Char]
  BY ReadFacts, Zenon
<1>2. /\ UNCHANGED <<tx_in, tx_out, tx_buf, rx_out, wfifo, AC,
                     pc, nonblock, count, n, moved, fed, got, said, heard>>
      /\ irq_enable' = IF rfifo' # <<>> THEN irq_enable \ {"RE"} ELSE irq_enable
      /\ isr' \in {"write", "control"}
      /\ pending' = pending \/ pending' = NothingRead
  BY DEF IsrRead, txVars, mainVars, history
<1>3. rx_in \in Slots /\ rx_out \in Slots /\ rfifo \in Seq(Char)
  BY DEF Inv, Rings, Device
<1>4. rx_in' \in Slots /\ Used(rx_in', rx_out) = Used(rx_in, rx_out) + k
  BY <1>1, <1>3, Put
<1>5. Flags'  BY <1>2, Zenon DEF Inv, Flags
<1>6. Rings'  BY <1>1, <1>2, <1>4 DEF Inv, Rings
<1>7. rfifo' \in Seq(Char)
  <2>1. Len(rfifo) \in Nat  BY <1>3
  <2>2. \A i \in k + 1 .. Len(rfifo) : rfifo[i] \in Char  BY <1>3
  <2>3. QED  BY <1>1, <1>3, <2>1, <2>2
<1>8. Device'  BY <1>2, <1>7 DEF Inv, Device
<1>9. Handler'  BY <1>2 DEF Inv, Handler, NothingRead
<1>10. Program' /\ Parties'  BY <1>2, Zenon DEF Inv, Program, Parties
<1>11. Chunks'
  <2>1. pc \in {"rcopy", "release"} => /\ n > 0 /\ n <= count /\ rx_out + n <= BufLen
                                       /\ n <= Used(rx_in, rx_out)
    BY DEF Inv, Chunks
  <2>2. pc \in {"rcopy", "release"} => n <= Used(rx_in', rx_out)
    <3>1. Used(rx_in, rx_out) \in 0 .. BufLen - 1  BY <1>3, UsedIs
    <3>2. QED  BY <1>4, <2>1, <3>1, Sizes DEF Inv, Program
  <2>3. Used(tx_in, tx_out)' = Used(tx_in, tx_out)  BY <1>2, Zenon DEF Used
  <2>4. Used(rx_in, rx_out)' = Used(rx_in', rx_out)  BY <1>2, Zenon DEF Used
  <2>5. QED  BY <1>2, <2>1, <2>2, <2>3, <2>4, Zenon DEF Inv, Chunks
<1>12. WriteAwake'
  <2>1. "WE" \in irq_enable => "WE" \in irq_enable'  BY <1>2
  <2>2. QED  BY <1>2, <2>1, Zenon DEF Inv, WriteAwake
<1>13. ReadAwake'
  <2>1. CASE rx_in' # rx_out  BY <1>2, <2>1 DEF ReadAwake
  <2>2. CASE rx_in' = rx_out
    <3>1. Used(rx_in, rx_out) + k = 0 /\ Used(rx_in, rx_out) \in Nat
      BY <1>3, <1>4, <2>2, UsedIs
    <3>2. k = 0 /\ Used(rx_in, rx_out) = 0  BY <3>1
    <3>3. k = Len(rfifo) \/ BufLen - 1 = 0  BY <1>1, <3>2, Sizes
    <3>4. k = Len(rfifo)  BY <3>3, Sizes
    <3>5. rfifo' = <<>>  BY <1>1, <1>3, <3>2, <3>4
    <3>6. irq_enable' = irq_enable  BY <1>2, <3>5
    <3>7. rx_in = rx_out  BY <1>3, <3>2, UsedIs
    <3>8. QED  BY <1>2, <2>2, <3>6, <3>7, Zenon DEF Inv, ReadAwake
  <2>3. QED  BY <2>1, <2>2
<1>14. QED  BY <1>5, <1>6, <1>8, <1>9, <1>10, <1>11, <1>12, <1>13 DEF Inv

(* What the handler puts into the FIFO was in the ring. *)
LEMMA WriteFacts ==
  ASSUME Inv, IsrWrite
  PROVE  \E k \in Nat :
           /\ k <= Used(tx_in, tx_out)
           /\ wfifo' = wfifo \o SubSeq(Contents(tx_buf, tx_in, tx_out), 1, k)
           /\ tx_out' = (tx_out + k) % BufLen
           /\ k < Used(tx_in, tx_out) => irq_enable' = irq_enable
           /\ irq_enable' \in {irq_enable, irq_enable \ {"WE"}}
<1> DEFINE k == Smaller(pending.space, Used(tx_in, tx_out))
<1>1. /\ wfifo' = wfifo \o SubSeq(Contents(tx_buf, tx_in, tx_out), 1, k)
      /\ tx_out' = (tx_out + k) % BufLen
      /\ irq_enable' = IF Exhausted(k) THEN irq_enable \ {"WE"} ELSE irq_enable
  BY DEF IsrWrite
<1>2. tx_in \in Slots /\ tx_out \in Slots /\ pending.space \in Nat
  BY DEF Inv, Rings, Handler
<1>3. Used(tx_in, tx_out) \in Nat  BY <1>2, UsedIs
<1>4. k \in Nat /\ k <= Used(tx_in, tx_out) /\ k \in {pending.space, Used(tx_in, tx_out)}
  BY <1>2, <1>3, SmallerIs
<1> HIDE DEF k
<1>5. k < Used(tx_in, tx_out) => ~Exhausted(k)
  BY <1>2, <1>3, <1>4 DEF Exhausted
<1>6. irq_enable' \in {irq_enable, irq_enable \ {"WE"}}  BY <1>1
<1>7. QED  BY <1>1, <1>4, <1>5, <1>6

LEMMA ContentsType ==
  ASSUME NEW buf \in [Slots -> Char], NEW a \in Slots, NEW b \in Slots
  PROVE  /\ Contents(buf, a, b) \in Seq(Char)
         /\ Len(Contents(buf, a, b)) = Used(a, b)
<1>1. Used(a, b) \in 0 .. BufLen - 1 /\ BufLen \in Nat  BY UsedIs, Sizes
<1>2. \A i \in 1 .. Used(a, b) : buf[(b + i - 1) % BufLen] \in Char
  <2>1. TAKE i \in 1 .. Used(a, b)
  <2>2. i \in 1 .. BufLen  BY <1>1
  <2>3. QED  BY <2>2, At
<1>3. QED  BY <1>1, <1>2 DEF Contents

LEMMA IsrWriteKeeps ==
  ASSUME Inv, IsrWrite
  PROVE  Inv'
<1>1. PICK k \in Nat :
           /\ k <= Used(tx_in, tx_out)
           /\ wfifo' = wfifo \o SubSeq(Contents(tx_buf, tx_in, tx_out), 1, k)
           /\ tx_out' = (tx_out + k) % BufLen
           /\ k < Used(tx_in, tx_out) => irq_enable' = irq_enable
           /\ irq_enable' \in {irq_enable, irq_enable \ {"WE"}}
  BY WriteFacts, Zenon
<1>2. /\ UNCHANGED <<tx_in, tx_buf, rx_in, rx_out, rx_buf, rfifo, AC,
                     pc, nonblock, count, n, moved, fed, got, said, heard>>
      /\ isr' = "control" /\ pending' = NothingRead
  BY DEF IsrWrite, rxVars, mainVars, history
<1>3. tx_in \in Slots /\ tx_out \in Slots /\ tx_buf \in [Slots -> Char] /\ wfifo \in Seq(Char)
  BY DEF Inv, Rings, Device
<1>4. Used(tx_in, tx_out) \in 0 .. BufLen - 1  BY <1>3, UsedIs
<1>5. tx_out' \in Slots /\ Used(tx_in, tx_out') = Used(tx_in, tx_out) - k
  BY <1>1, <1>3, Take
<1>6. Flags'  BY <1>2, Zenon DEF Inv, Flags
<1>7. Rings'  BY <1>2, <1>5 DEF Inv, Rings
<1>8. wfifo' \in Seq(Char)
  <2> DEFINE c == Contents(tx_buf, tx_in, tx_out)
  <2>1. c \in Seq(Char) /\ Len(c) = Used(tx_in, tx_out)  BY <1>3, ContentsType
  <2> HIDE DEF c
  <2>2. \A i \in 1 .. k : c[i] \in Char  BY <1>1, <1>4, <2>1
  <2>3. SubSeq(c, 1, k) \in Seq(Char)  BY <1>1, <1>4, <2>1, <2>2
  <2>4. wfifo' = wfifo \o SubSeq(c, 1, k)  BY <1>1 DEF c
  <2>5. QED  BY <1>3, <2>3, <2>4
<1>9. Device'  BY <1>1, <1>2, <1>8 DEF Inv, Device
<1>10. Handler'  BY <1>2 DEF Inv, Handler, NothingRead
<1>11. Program' /\ Parties'  BY <1>2, Zenon DEF Inv, Program, Parties
<1>12. Chunks'
  <2>1. pc \in {"copy", "publish"} => n + Used(tx_in, tx_out') <= BufLen - 1
    BY <1>1, <1>4, <1>5, Sizes DEF Inv, Chunks, Program
  <2>2. Used(tx_in, tx_out)' = Used(tx_in, tx_out')  BY <1>2, Zenon DEF Used
  <2>3. Used(rx_in, rx_out)' = Used(rx_in, rx_out)  BY <1>2, Zenon DEF Used
  <2>4. QED  BY <1>2, <2>1, <2>2, <2>3, Zenon DEF Inv, Chunks
<1>13. WriteAwake'
  <2>1. CASE tx_in = tx_out'  BY <1>2, <2>1 DEF WriteAwake
  <2>2. CASE tx_in # tx_out'
    <3>1. Used(tx_in, tx_out) - k # 0  BY <1>3, <1>5, <2>2, UsedIs
    <3>2. k < Used(tx_in, tx_out)  BY <1>1, <1>4, <3>1
    <3>3. irq_enable' = irq_enable  BY <1>1, <3>2
    <3>4. tx_in # tx_out  BY <1>1, <1>3, <3>2, UsedIs
    <3>5. QED  BY <1>2, <3>3, <3>4, Zenon DEF Inv, WriteAwake
  <2>3. QED  BY <2>1, <2>2
<1>14. ReadAwake'
  <2>1. "RE" \in irq_enable => "RE" \in irq_enable'  BY <1>1
  <2>2. QED  BY <1>2, <2>1, Zenon DEF Inv, ReadAwake
<1>15. QED  BY <1>6, <1>7, <1>9, <1>10, <1>11, <1>12, <1>13, <1>14 DEF Inv

----------------------------------------------------------------------------
(* Each action keeps the invariant: the program                            *)

(* A step of the program that moves no character, given what it does to    *)
(* the program's own registers.                                            *)
LEMMA ControlKeeps ==
  ASSUME Inv,
         UNCHANGED <<txVars, rxVars, fed, got>>,
         UNCHANGED <<host_inactive, devVars, isrVars, said, heard>>,
         irq_enable \subseteq irq_enable', irq_enable' \subseteq {"RE", "WE"},
         nonblock' \in BOOLEAN, moved' \in BOOLEAN,
         Program', Chunks',
         pc \in {"load", "copy", "publish", "kick"} =>
           pc' \in {"load", "copy", "publish", "kick"} \/ "WE" \in irq_enable',
         pc = "enable" => "RE" \in irq_enable',
         pc = "rload" /\ moved => rx_in # rx_out \/ pc' = "enable" \/ (pc' = "rload" /\ moved')
  PROVE  Inv'
<1>1. UNCHANGED <<tx_in, tx_out, tx_buf, rx_in, rx_out, rx_buf, wfifo, rfifo, AC, isr, pending,
                  fed, got, said, heard>>
  BY DEF txVars, rxVars, devVars, isrVars
<1>2. Flags'  BY <1>1, Zenon DEF Inv, Flags
<1>3. Rings' /\ Handler' /\ Parties'  BY <1>1, Zenon DEF Inv, Rings, Handler, Parties
<1>4. Device'  BY <1>1, Zenon DEF Inv, Device
<1>5. WriteAwake'  BY <1>1, Zenon DEF Inv, WriteAwake
<1>6. ReadAwake'  BY <1>1, Zenon DEF Inv, ReadAwake
<1>7. QED  BY <1>2, <1>3, <1>4, <1>5, <1>6, Zenon DEF Inv

LEMMA NoChunk ==
  ASSUME pc' \notin {"copy", "publish", "rload", "rcopy", "release", "rspin", "rcheck"}
  PROVE  Chunks'
BY DEF Chunks

(* What a return, and a jump, do to the registers. *)
LEMMA Returning ==
  ASSUME NEW code, Return(code)
  PROVE  pc' = "idle" /\ nonblock' \in BOOLEAN /\ moved' \in BOOLEAN /\ Program' /\ Chunks'
<1>1. pc' = "idle" /\ nonblock' = FALSE /\ moved' = FALSE /\ count' = 0 /\ n' = 0
  BY DEF Return
<1>2. Program'  BY <1>1 DEF Program
<1>3. Chunks'  BY <1>1, NoChunk
<1>4. QED  BY <1>1, <1>2, <1>3, Zenon

LEMMA Jumping ==
  ASSUME Inv, NEW next \in {"spin", "check", "load", "rcheck", "rload", "enable"},
         Goto(next), next \in {"rload", "rcheck"} => count > 0
  PROVE  /\ pc' = next /\ nonblock' \in BOOLEAN /\ moved' = moved /\ moved' \in BOOLEAN
         /\ Program' /\ Chunks'
<1>1. pc' = next /\ UNCHANGED <<nonblock, count, n, moved>>  BY DEF Goto
<1>2. nonblock' \in BOOLEAN /\ moved' \in BOOLEAN  BY <1>1, Zenon DEF Inv, Flags
<1>3. Program'  BY <1>1 DEF Inv, Program
<1>4. Chunks'  BY <1>1 DEF Chunks
<1>5. QED  BY <1>1, <1>2, <1>3, <1>4, Zenon

LEMMA BeginKeeps ==
  ASSUME Inv, Begin
  PROVE  Inv'
<1>1. /\ pc = "idle" /\ pc' \in {"load", "rload", "drain"}
      /\ nonblock' \in BOOLEAN /\ count' \in 1 .. MaxCount /\ n' = n /\ moved' = moved
      /\ UNCHANGED <<txVars, rxVars, irq_enable, fed, got>>
      /\ UNCHANGED <<host_inactive, devVars, isrVars, said, heard>>
  BY Zenon DEF Begin, Start, Call
<1>2. count' \in Nat /\ count' > 0  BY <1>1, Sizes
<1>3. Program'  BY <1>1, <1>2 DEF Inv, Program
<1>4. Chunks'  BY <1>1, <1>2 DEF Chunks
<1>5. moved' \in BOOLEAN  BY <1>1, Zenon DEF Inv, Flags
<1>6. irq_enable \subseteq irq_enable' /\ irq_enable' \subseteq {"RE", "WE"}
  BY <1>1, Zenon DEF Inv, Device
<1>7. pc \notin {"load", "copy", "publish", "kick", "enable", "rload"}  BY <1>1
<1>8. QED  BY <1>1, <1>3, <1>4, <1>5, <1>6, <1>7, ControlKeeps, Zenon

(* One memcpy stays inside the array and inside the free slots. *)
LEMMA RoomIs ==
  ASSUME NEW a \in Slots, NEW b \in Slots
  PROVE  /\ Room(a, b) \in Nat
         /\ Room(a, b) + Used(a, b) <= BufLen - 1 /\ a + Room(a, b) <= BufLen
<1>1. Used(a, b) = IF a >= b THEN a - b ELSE a + BufLen - b  BY UsedIs
<1>2. a \in Nat /\ b \in Nat /\ a < BufLen /\ b < BufLen /\ BufLen \in Nat
  BY Sizes DEF Slots
<1>3. CASE a < b
  <2>1. Room(a, b) = b - 1 - a  BY <1>2, <1>3 DEF Room
  <2>2. QED  BY <1>1, <1>2, <1>3, <2>1
<1>4. CASE a >= b /\ b > 0
  <2>1. Room(a, b) = BufLen - a  BY <1>2, <1>4 DEF Room
  <2>2. QED  BY <1>1, <1>2, <1>4, <2>1
<1>5. CASE a >= b /\ b = 0
  <2>1. Room(a, b) = BufLen - 1 - a  BY <1>2, <1>5 DEF Room
  <2>2. QED  BY <1>1, <1>2, <1>5, <2>1
<1>6. QED  BY <1>2, <1>3, <1>4, <1>5

LEMMA Fits ==
  ASSUME NEW l \in Nat, NEW a \in Nat, NEW u \in Nat, NEW r \in Nat, NEW k \in Nat,
         r + u <= l - 1, a + r <= l, k <= r
  PROVE  k + u <= l - 1 /\ a + k <= l
OBVIOUS

LEMMA LoadKeeps ==
  ASSUME Inv, Load, UNCHANGED <<host_inactive, devVars, isrVars, said, heard>>
  PROVE  Inv'
<1>1. /\ pc = "load" /\ pc' = IF n' = 0 THEN "kick" ELSE "copy"
      /\ n' = Smaller(Room(tx_in, tx_out), count)
      /\ UNCHANGED <<nonblock, count, moved, irq_enable>>
      /\ UNCHANGED <<txVars, rxVars, fed, got>>
  BY DEF Load
<1>2. tx_in \in Slots /\ tx_out \in Slots /\ count \in Nat  BY DEF Inv, Rings, Program
<1>3. /\ Room(tx_in, tx_out) \in Nat
      /\ Room(tx_in, tx_out) + Used(tx_in, tx_out) <= BufLen - 1
      /\ tx_in + Room(tx_in, tx_out) <= BufLen
  BY <1>2, RoomIs
<1>4. n' \in Nat /\ n' <= count /\ n' <= Room(tx_in, tx_out)
  BY <1>1, <1>2, <1>3, SmallerIs
<1>5. Program'  BY <1>1, <1>2, <1>4 DEF Program
<1>6. Chunks'
  <2>1. UNCHANGED <<tx_in, tx_out>>  BY <1>1 DEF txVars
  <2>2. Used(tx_in, tx_out) \in 0 .. BufLen - 1  BY <1>2, UsedIs
  <2>3. n' + Used(tx_in, tx_out) <= BufLen - 1 /\ tx_in + n' <= BufLen
    <3>1. Used(tx_in, tx_out) \in Nat /\ tx_in \in Nat /\ BufLen \in Nat
      BY <1>2, <2>2, Sizes DEF Slots
    <3>2. QED  BY <1>3, <1>4, <3>1, Fits
  <2>4. Used(tx_in, tx_out)' = Used(tx_in, tx_out)  BY <2>1, Zenon DEF Used
  <2>5. pc' \in {"copy", "publish"} => n' > 0  BY <1>1, <1>4
  <2>6. pc' \notin {"rload", "rspin", "rcheck", "rcopy", "release"}  BY <1>1
  <2>7. n' <= count'  BY <1>1, <1>4
  <2>8. QED  BY <2>1, <2>3, <2>4, <2>5, <2>6, <2>7, Zenon DEF Chunks
<1>7. nonblock' \in BOOLEAN /\ moved' \in BOOLEAN  BY <1>1, Zenon DEF Inv, Flags
<1>8. irq_enable \subseteq irq_enable' /\ irq_enable' \subseteq {"RE", "WE"}
  BY <1>1, Zenon DEF Inv, Device
<1>9. pc # "enable" /\ pc # "rload" /\ pc' \in {"load", "copy", "publish", "kick"}  BY <1>1
<1>10. QED  BY <1>1, <1>5, <1>6, <1>7, <1>8, <1>9, ControlKeeps, Zenon

LEMMA KickKeeps ==
  ASSUME Inv, Kick, UNCHANGED <<host_inactive, devVars, isrVars, said, heard>>
  PROVE  Inv'
<1>1. /\ pc = "kick" /\ irq_enable' = irq_enable \cup {"WE"}
      /\ UNCHANGED <<txVars, rxVars, fed, got>>
      /\ (\E code : Return(code)) \/ Goto("spin")
  BY DEF Kick, Enable, Moved
<1>2. nonblock' \in BOOLEAN /\ moved' \in BOOLEAN /\ Program' /\ Chunks'
  BY <1>1, Returning, Jumping
<1>3. "WE" \in irq_enable' /\ irq_enable \subseteq irq_enable' /\ irq_enable' \subseteq {"RE", "WE"}
  BY <1>1 DEF Inv, Device
<1>4. pc # "enable" /\ pc # "rload"  BY <1>1
<1>5. QED  BY <1>1, <1>2, <1>3, <1>4, ControlKeeps, Zenon

(* The spins, the checks after them, and draining. *)
LEMMA WaitKeeps ==
  ASSUME Inv, Spin \/ Check \/ ReadSpin \/ ReadCheck \/ Drain,
         UNCHANGED <<host_inactive, devVars, isrVars, said, heard>>
  PROVE  Inv'
<1>1. /\ pc \in {"spin", "check", "rspin", "rcheck", "drain"}
      /\ UNCHANGED <<txVars, rxVars, fed, got>> /\ irq_enable' = irq_enable
      /\ (\E code : Return(code)) \/ Goto("check") \/ Goto("load") \/ (Goto("rcheck") /\ pc = "rspin")
         \/ (Goto("rload") /\ pc = "rcheck")
  BY DEF Spin, Check, ReadSpin, ReadCheck, Drain, Moved
<1>2. pc \in {"rspin", "rcheck"} => count > 0
  BY <1>1 DEF Inv, Chunks
<1>3. nonblock' \in BOOLEAN /\ moved' \in BOOLEAN /\ Program' /\ Chunks'
  BY <1>1, <1>2, Returning, Jumping
<1>4. irq_enable \subseteq irq_enable' /\ irq_enable' \subseteq {"RE", "WE"}
  BY <1>1, Zenon DEF Inv, Device
<1>5. pc \notin {"load", "copy", "publish", "kick", "enable", "rload"}  BY <1>1
<1>6. QED  BY <1>1, <1>3, <1>4, <1>5, ControlKeeps, Zenon

(* The piece of the ring that one memcpy of the reader can take. *)
LEMMA RunIs ==
  ASSUME NEW a \in Slots, NEW b \in Slots, NEW r, r = IF a >= b THEN a - b ELSE BufLen - b
  PROVE  r \in Nat /\ r <= Used(a, b) /\ b + r <= BufLen /\ (r = 0 <=> a = b)
<1>1. Used(a, b) = IF a >= b THEN a - b ELSE a + BufLen - b  BY UsedIs
<1>2. a \in Nat /\ b \in Nat /\ a < BufLen /\ b < BufLen /\ BufLen \in Nat
  BY Sizes DEF Slots
<1>3. CASE a >= b  BY <1>1, <1>2, <1>3
<1>4. CASE a < b  BY <1>1, <1>2, <1>4
<1>5. QED  BY <1>2, <1>3, <1>4

LEMMA ReadLoadKeeps ==
  ASSUME Inv, ReadLoad, UNCHANGED <<host_inactive, devVars, isrVars, said, heard>>
  PROVE  Inv'
<1> DEFINE r == IF rx_in >= rx_out THEN rx_in - rx_out ELSE BufLen - rx_out
           k == Smaller(r, count)
<1>1. /\ pc = "rload" /\ UNCHANGED <<txVars, rxVars, fed, got>> /\ irq_enable' = irq_enable
      /\ \/ /\ k > 0 /\ n' = k /\ pc' = "rcopy"
            /\ UNCHANGED <<nonblock, count, moved>>
         \/ k = 0 /\ moved /\ Goto("enable")
         \/ k = 0 /\ ~moved /\ \E code : Return(code)
         \/ /\ k = 0 /\ ~moved /\ pc' = "rspin"
            /\ UNCHANGED <<nonblock, count, n, moved>>
  BY DEF ReadLoad
<1>2. rx_in \in Slots /\ rx_out \in Slots /\ count \in Nat /\ n \in Nat
  BY DEF Inv, Rings, Program
<1>3. r \in Nat /\ r <= Used(rx_in, rx_out) /\ rx_out + r <= BufLen /\ (r = 0 <=> rx_in = rx_out)
  BY <1>2, RunIs
<1> HIDE DEF r
<1>4. k \in Nat /\ k <= r /\ k <= count /\ k \in {r, count}
  BY <1>2, <1>3, SmallerIs
<1> HIDE DEF k
<1>5. count > 0  BY <1>1 DEF Inv, Chunks
<1>6. UNCHANGED <<rx_in, rx_out>>  BY <1>1 DEF rxVars
<1>7. irq_enable \subseteq irq_enable' /\ irq_enable' \subseteq {"RE", "WE"}
  BY <1>1, Zenon DEF Inv, Device
<1>8. pc \notin {"load", "copy", "publish", "kick", "enable"}  BY <1>1
<1>9. /\ nonblock' \in BOOLEAN /\ moved' \in BOOLEAN /\ Program' /\ Chunks'
      /\ moved => rx_in # rx_out \/ pc' = "enable"
  <2>1. CASE k > 0 /\ n' = k /\ pc' = "rcopy" /\ UNCHANGED <<nonblock, count, moved>>
    <3>1. Used(rx_in, rx_out) \in Nat  BY <1>2, UsedIs
    <3>2. rx_out \in Nat /\ BufLen \in Nat  BY <1>2, Sizes DEF Slots
    <3>3. n' > 0 /\ n' <= count' /\ n' <= Used(rx_in, rx_out) /\ rx_out + n' <= BufLen
      BY <1>2, <1>3, <1>4, <2>1, <3>1, <3>2
    <3>4. Used(rx_in, rx_out)' = Used(rx_in, rx_out)  BY <1>6, Zenon DEF Used
    <3>5. pc' \notin {"copy", "publish", "rload", "rspin", "rcheck"}  BY <2>1
    <3>6. Chunks'  BY <1>6, <3>3, <3>4, <3>5, Zenon DEF Chunks
    <3>7. Program'  BY <1>2, <1>4, <2>1 DEF Program
    <3>8. nonblock' \in BOOLEAN /\ moved' \in BOOLEAN  BY <2>1, Zenon DEF Inv, Flags
    <3>9. rx_in # rx_out  BY <1>3, <1>4, <2>1
    <3>10. QED  BY <3>6, <3>7, <3>8, <3>9, Zenon
  <2>2. CASE k = 0 /\ moved /\ Goto("enable")
    BY <2>2, Jumping
  <2>3. CASE k = 0 /\ ~moved /\ \E code : Return(code)
    BY <2>3, Returning
  <2>4. CASE k = 0 /\ ~moved /\ pc' = "rspin" /\ UNCHANGED <<nonblock, count, n, moved>>
    <3>1. Chunks'  BY <1>5, <2>4 DEF Chunks
    <3>2. Program'  BY <1>2, <2>4 DEF Program
    <3>3. nonblock' \in BOOLEAN /\ moved' \in BOOLEAN  BY <2>4, Zenon DEF Inv, Flags
    <3>4. QED  BY <2>4, <3>1, <3>2, <3>3, Zenon
  <2>5. QED  BY <1>1, <2>1, <2>2, <2>3, <2>4, Zenon
<1>10. QED  BY <1>1, <1>7, <1>8, <1>9, ControlKeeps, Zenon

LEMMA ReadEnableKeeps ==
  ASSUME Inv, ReadEnable, UNCHANGED <<host_inactive, devVars, isrVars, said, heard>>
  PROVE  Inv'
<1>1. /\ pc = "enable" /\ irq_enable' = irq_enable \cup {"RE"} /\ Return("ok")
      /\ UNCHANGED <<txVars, rxVars, fed, got>>
  BY DEF ReadEnable
<1>2. nonblock' \in BOOLEAN /\ moved' \in BOOLEAN /\ Program' /\ Chunks'
  BY <1>1, Returning
<1>3. "RE" \in irq_enable' /\ irq_enable \subseteq irq_enable' /\ irq_enable' \subseteq {"RE", "WE"}
  BY <1>1 DEF Inv, Device
<1>4. pc \notin {"load", "copy", "publish", "kick", "rload"}  BY <1>1
<1>5. QED  BY <1>1, <1>2, <1>3, <1>4, ControlKeeps, Zenon

LEMMA ReadCopyKeeps ==
  ASSUME Inv, ReadCopy, UNCHANGED <<host_inactive, devVars, isrVars, said, heard>>
  PROVE  Inv'
<1>1. /\ pc = "rcopy" /\ pc' = "release" /\ got' = rx_buf[rx_out + n - 1]
      /\ UNCHANGED <<tx_in, tx_out, tx_buf, rx_in, rx_out, rx_buf, irq_enable, wfifo, rfifo, AC,
                     isr, pending, nonblock, count, n, moved, fed, said, heard>>
  BY DEF ReadCopy, Goto, txVars, rxVars, devVars, isrVars
<1>2. /\ rx_in \in Slots /\ rx_out \in Slots /\ rx_buf \in [Slots -> Char]
      /\ n \in Nat /\ n > 0 /\ n <= Used(rx_in, rx_out) /\ rx_out + n <= BufLen
  BY <1>1 DEF Inv, Rings, Program, Chunks
<1>3. got' \in Char
  <2>1. rx_out + n - 1 \in Slots  BY <1>2, Sizes DEF Slots
  <2>2. QED  BY <1>1, <1>2, <2>1
<1>4. Flags'  BY <1>1, Zenon DEF Inv, Flags
<1>5. Rings'  BY <1>1, Zenon DEF Inv, Rings
<1>6. Device' /\ Handler'  BY <1>1, Zenon DEF Inv, Device, Handler
<1>7. Program'  BY <1>1 DEF Inv, Program
<1>8. Parties'  BY <1>1, <1>3 DEF Inv, Parties
<1>9. Chunks'
  <2>1. Used(rx_in, rx_out)' = Used(rx_in, rx_out)  BY <1>1, Zenon DEF Used
  <2>2. pc' \notin {"copy", "publish", "rload", "rspin", "rcheck"}  BY <1>1
  <2>3. pc \in {"rcopy", "release"}  BY <1>1
  <2>4. QED  BY <1>1, <2>1, <2>2, <2>3, Zenon DEF Inv, Chunks
<1>10. WriteAwake'  BY <1>1 DEF Inv, WriteAwake
<1>11. ReadAwake'
  <2>1. rx_in # rx_out
    <3>1. Used(rx_in, rx_out) \in Nat  BY <1>2, UsedIs
    <3>2. Used(rx_in, rx_out) # 0  BY <1>2, <3>1
    <3>3. QED  BY <1>2, <3>2, UsedIs
  <2>2. QED  BY <1>1, <2>1 DEF ReadAwake
<1>12. QED  BY <1>4, <1>5, <1>6, <1>7, <1>8, <1>9, <1>10, <1>11 DEF Inv

LEMMA ReadReleaseKeeps ==
  ASSUME Inv, ReadRelease, UNCHANGED <<host_inactive, devVars, isrVars, said, heard>>
  PROVE  Inv'
<1>1. /\ pc = "release" /\ rx_out' = (rx_out + n) % BufLen
      /\ count' = count - n /\ n' = 0 /\ moved' = TRUE
      /\ pc' = IF count' = 0 THEN "enable" ELSE "rload"
      /\ UNCHANGED <<tx_in, tx_out, tx_buf, rx_in, rx_buf, irq_enable, wfifo, rfifo, AC, isr,
                     pending, nonblock, fed, got, said, heard>>
  BY DEF ReadRelease, txVars, devVars, isrVars
<1>2. /\ rx_in \in Slots /\ rx_out \in Slots /\ rx_buf \in [Slots -> Char]
      /\ count \in Nat /\ n \in Nat
      /\ n > 0 /\ n <= count /\ n <= Used(rx_in, rx_out) /\ rx_out + n <= BufLen
  BY <1>1 DEF Inv, Rings, Program, Chunks
<1>3. rx_out' \in Slots  BY <1>1, <1>2, Take
<1>4. count' \in Nat /\ (count' = 0 \/ count' > 0)  BY <1>1, <1>2
<1>5. Flags'  BY <1>1, Zenon DEF Inv, Flags
<1>6. Rings'  BY <1>1, <1>3 DEF Inv, Rings
<1>7. Device' /\ Handler'  BY <1>1, Zenon DEF Inv, Device, Handler
<1>8. Program'  BY <1>1, <1>4 DEF Program
<1>9. Parties'  BY <1>1, Zenon DEF Inv, Parties
<1>10. Chunks'  BY <1>1, <1>4 DEF Chunks
<1>11. WriteAwake'  BY <1>1 DEF Inv, WriteAwake
<1>12. ReadAwake'  BY <1>1 DEF ReadAwake
<1>13. QED  BY <1>5, <1>6, <1>7, <1>8, <1>9, <1>10, <1>11, <1>12 DEF Inv

(* What the program puts into the ring goes into free slots. *)
LEMMA CopyFacts ==
  ASSUME Inv, Copy
  PROVE  /\ n \in Nat /\ n > 0 /\ n + Used(tx_in, tx_out) <= BufLen - 1
         /\ tx_buf' \in [Slots -> Char]
         /\ \A s \in Slots : (\A i \in 1 .. n : s # (tx_in + i - 1) % BufLen)
                               => tx_buf'[s] = tx_buf[s]
         /\ \A i \in 1 .. n : tx_buf'[(tx_in + i - 1) % BufLen] = (fed + i) % K
<1>1. /\ pc = "copy"
      /\ tx_buf' = [s \in Slots |-> IF s \in tx_in .. tx_in + n - 1
                                      THEN (fed + 1 + s - tx_in) % K ELSE tx_buf[s]]
  BY DEF Copy
<1>2. /\ tx_in \in Slots /\ tx_out \in Slots /\ tx_buf \in [Slots -> Char]
      /\ count \in Nat /\ n \in Nat
      /\ n > 0 /\ n <= count /\ n + Used(tx_in, tx_out) <= BufLen - 1 /\ tx_in + n <= BufLen
  BY <1>1 DEF Inv, Rings, Program, Chunks
<1>3. tx_in \in Nat /\ BufLen \in Nat  BY <1>2, Sizes DEF Slots
<1>4. fed \in Nat  BY Sizes DEF Inv, Parties, Char
<1>5. \A i \in 1 .. n : /\ (tx_in + i - 1) % BufLen = tx_in + i - 1
                        /\ tx_in + i - 1 \in Slots
                        /\ tx_in + i - 1 \in tx_in .. tx_in + n - 1
                        /\ fed + 1 + (tx_in + i - 1) - tx_in = fed + i
  <2>1. TAKE i \in 1 .. n
  <2>2. i \in 1 .. BufLen /\ tx_in + i - 1 < BufLen  BY <1>2, <1>3
  <2>3. (tx_in + i - 1) % BufLen = tx_in + i - 1  BY <1>2, <2>2, At
  <2>4. QED  BY <1>2, <1>3, <1>4, <2>2, <2>3 DEF Slots
<1>6. tx_buf' \in [Slots -> Char]
  <2>1. SUFFICES ASSUME NEW s \in Slots
                 PROVE  (IF s \in tx_in .. tx_in + n - 1
                           THEN (fed + 1 + s - tx_in) % K ELSE tx_buf[s]) \in Char
    BY <1>1
  <2>2. CASE s \in tx_in .. tx_in + n - 1
    <3>1. fed + 1 + s - tx_in \in Nat  BY <1>2, <1>3, <1>4, <2>2
    <3>2. (fed + 1 + s - tx_in) % K \in Char  BY <3>1, NextChar
    <3>3. QED  BY <2>2, <3>2
  <2>3. CASE s \notin tx_in .. tx_in + n - 1
    BY <1>2, <2>3
  <2>4. QED  BY <2>2, <2>3
<1>7. ASSUME NEW s \in Slots, \A i \in 1 .. n : s # (tx_in + i - 1) % BufLen
      PROVE  tx_buf'[s] = tx_buf[s]
  <2>1. s \notin tx_in .. tx_in + n - 1
    <3>1. SUFFICES ASSUME s \in tx_in .. tx_in + n - 1  PROVE  FALSE  OBVIOUS
    <3>2. s - tx_in + 1 \in 1 .. n /\ tx_in + (s - tx_in + 1) - 1 = s
      BY <1>2, <1>3, <3>1
    <3>3. QED  BY <1>5, <1>7, <3>2
  <2>2. QED  BY <1>1, <2>1
<1>8. ASSUME NEW i \in 1 .. n
      PROVE  tx_buf'[(tx_in + i - 1) % BufLen] = (fed + i) % K
  BY <1>1, <1>5
<1>9. QED  BY <1>1, <1>2, <1>6, <1>7, <1>8

LEMMA CopyKeeps ==
  ASSUME Inv, Copy, UNCHANGED <<host_inactive, devVars, isrVars, said, heard>>
  PROVE  Inv'
<1>1. /\ pc = "copy" /\ pc' = "publish" /\ fed' = (fed + n) % K
      /\ UNCHANGED <<tx_in, tx_out, rx_in, rx_out, rx_buf, irq_enable, wfifo, rfifo, AC, isr,
                     pending, nonblock, count, n, moved, got, said, heard>>
  BY DEF Copy, Goto, rxVars, devVars, isrVars
<1>2. n \in Nat /\ tx_buf' \in [Slots -> Char]  BY CopyFacts
<1>3. fed' \in Char
  <2>1. fed + n \in Nat  BY <1>2, Sizes DEF Inv, Parties, Char
  <2>2. QED  BY <1>1, <2>1, NextChar
<1>4. Flags'  BY <1>1, Zenon DEF Inv, Flags
<1>5. Rings'  BY <1>1, <1>2 DEF Inv, Rings
<1>6. Device' /\ Handler'  BY <1>1, Zenon DEF Inv, Device, Handler
<1>7. Program'  BY <1>1 DEF Inv, Program
<1>8. Parties'  BY <1>1, <1>3 DEF Inv, Parties
<1>9. Chunks'
  <2>1. Used(tx_in, tx_out)' = Used(tx_in, tx_out)  BY <1>1, Zenon DEF Used
  <2>2. pc' \notin {"rload", "rspin", "rcheck", "rcopy", "release"}  BY <1>1
  <2>3. pc \in {"copy", "publish"}  BY <1>1
  <2>4. QED  BY <1>1, <2>1, <2>2, <2>3, Zenon DEF Inv, Chunks
<1>10. WriteAwake' /\ ReadAwake'  BY <1>1 DEF Inv, WriteAwake, ReadAwake
<1>11. QED  BY <1>4, <1>5, <1>6, <1>7, <1>8, <1>9, <1>10 DEF Inv

LEMMA PublishKeeps ==
  ASSUME Inv, Publish, UNCHANGED <<host_inactive, devVars, isrVars, said, heard>>
  PROVE  Inv'
<1>1. /\ pc = "publish" /\ pc' = "load" /\ tx_in' = (tx_in + n) % BufLen
      /\ count' = count - n /\ n' = 0 /\ moved' = TRUE
      /\ UNCHANGED <<tx_out, tx_buf, rx_in, rx_out, rx_buf, irq_enable, wfifo, rfifo, AC, isr,
                     pending, nonblock, fed, got, said, heard>>
  BY DEF Publish, rxVars, devVars, isrVars
<1>2. /\ n \in Nat /\ n <= count /\ n + Used(tx_in, tx_out) <= BufLen - 1
      /\ tx_in \in Slots /\ tx_out \in Slots /\ count \in Nat
  BY <1>1 DEF Inv, Rings, Program, Chunks
<1>3. tx_in' \in Slots  BY <1>1, <1>2, Put
<1>4. count' \in Nat  BY <1>1, <1>2
<1>5. Flags'  BY <1>1, Zenon DEF Inv, Flags
<1>6. Rings'  BY <1>1, <1>3 DEF Inv, Rings
<1>7. Device' /\ Handler'  BY <1>1, Zenon DEF Inv, Device, Handler
<1>8. Program'  BY <1>1, <1>4 DEF Program
<1>9. Parties'  BY <1>1, Zenon DEF Inv, Parties
<1>10. Chunks'  BY <1>1 DEF Chunks
<1>11. WriteAwake' /\ ReadAwake'  BY <1>1 DEF Inv, WriteAwake, ReadAwake
<1>12. QED  BY <1>5, <1>6, <1>7, <1>8, <1>9, <1>10, <1>11 DEF Inv

----------------------------------------------------------------------------
(* The invariant, and what it says of the interrupt handler                *)

LEMMA InitInv ==
  ASSUME Init
  PROVE  Inv
<1>1. 0 \in Slots /\ 0 \in Char  BY Sizes DEF Slots, Char
<1>2. Flags  BY DEF Init, Flags
<1>3. Rings  BY <1>1 DEF Init, Rings
<1>4. Device  BY DEF Init, Device
<1>5. Handler  BY DEF Init, Handler, NothingRead
<1>6. Program  BY DEF Init, Program
<1>7. Parties  BY <1>1 DEF Init, Parties
<1>8. Chunks  BY DEF Init, Chunks
<1>9. WriteAwake /\ ReadAwake  BY DEF Init, WriteAwake, ReadAwake
<1>10. QED  BY <1>2, <1>3, <1>4, <1>5, <1>6, <1>7, <1>8, <1>9 DEF Inv

LEMMA StillKeeps ==
  ASSUME Inv, UNCHANGED vars
  PROVE  Inv'
<1>1. UNCHANGED <<tx_in, tx_out, tx_buf, rx_in, rx_out, rx_buf, irq_enable, wfifo, rfifo, AC,
                  isr, pending, pc, nonblock, count, n, moved, fed, got, said, heard>>
  BY DEF vars, txVars, rxVars, devVars, isrVars, mainVars, history
<1>2. Flags'  BY <1>1, Zenon DEF Inv, Flags
<1>3. Rings' /\ Device' /\ Handler'  BY <1>1, Zenon DEF Inv, Rings, Device, Handler
<1>4. Program' /\ Parties'  BY <1>1, Zenon DEF Inv, Program, Parties
<1>5. Chunks'  BY <1>1, Zenon DEF Inv, Chunks, Used
<1>6. WriteAwake' /\ ReadAwake'  BY <1>1, Zenon DEF Inv, WriteAwake, ReadAwake
<1>7. QED  BY <1>2, <1>3, <1>4, <1>5, <1>6 DEF Inv

LEMMA NextInv ==
  ASSUME Inv, [Next]_vars
  PROVE  Inv'
<1>1. CASE Host  BY <1>1, HostKeeps
<1>2. CASE Isr  BY <1>2, EnterKeeps, IsrReadKeeps, IsrWriteKeeps DEF Isr
<1>3. CASE Second  BY <1>3, SecondKeeps
<1>4. CASE InCall
  BY <1>4, LoadKeeps, CopyKeeps, PublishKeeps, KickKeeps, WaitKeeps, ReadLoadKeeps,
     ReadCopyKeeps, ReadReleaseKeeps, ReadEnableKeeps, Zenon DEF InCall
<1>5. CASE Begin  BY <1>5, BeginKeeps
<1>6. CASE UNCHANGED vars  BY <1>6, StillKeeps
<1>7. QED  BY <1>1, <1>2, <1>3, <1>4, <1>5, <1>6 DEF Next

(* The rings, the two FIFOs and the program's locals are what the code     *)
(* takes them to be whenever the handler may interrupt the program.        *)
THEOREM Invariant == Spec => []Inv
<1>1. Init => Inv  BY InitInv
<1>2. Inv /\ [Next]_vars => Inv'  BY NextInv
<1>3. QED  BY <1>1, <1>2, PTL DEF Spec

(* For a ring of any size: characters wait for the host only while the     *)
(* write interrupt is on or about to be, and the read interrupt is off     *)
(* only while there is something to read, however the handler and the two  *)
(* routines interleave (altera_avalon_jtag_uart_write.c, _read.c, _init.c) *)
THEOREM HandlerAwake == Spec => []NothingStuck
<1>1. Inv => NothingStuck
  BY Zenon DEF Inv, WriteAwake, ReadAwake, NothingStuck
<1>2. QED  BY <1>1, Invariant, PTL

----------------------------------------------------------------------------
(* What a ring holds when characters are put in or taken out               *)

LEMMA Split ==
  ASSUME NEW S, NEW s \in Seq(S), NEW k \in 0 .. Len(s)
  PROVE  /\ SubSeq(s, 1, k) \in Seq(S) /\ SubSeq(s, k + 1, Len(s)) \in Seq(S)
         /\ SubSeq(s, 1, k) \o SubSeq(s, k + 1, Len(s)) = s
<1>1. Len(s) \in Nat /\ k \in Nat /\ k <= Len(s)  OBVIOUS
<1>2. (\A i \in 1 .. k : s[i] \in S) /\ (\A i \in k + 1 .. Len(s) : s[i] \in S)
  BY <1>1
<1>3. SubSeq(s, 1, k) \in Seq(S) /\ SubSeq(s, k + 1, Len(s)) \in Seq(S)
  BY <1>1, <1>2, SubSeqProperties
<1>4. 1 \in 1 .. Len(s) + 1 /\ k \in 1 - 1 .. Len(s) /\ Len(s) \in k .. Len(s)  BY <1>1
<1>5. SubSeq(s, 1, k) \o SubSeq(s, k + 1, Len(s)) = SubSeq(s, 1, Len(s))
  BY <1>4, ConcatAdjacentSubSeq
<1>6. QED  BY <1>3, <1>5, SubSeqFull

(* What is left when k elements are dropped. *)
LEMMA Dropped ==
  ASSUME NEW S, NEW s \in Seq(S), NEW k \in 0 .. Len(s)
  PROVE  /\ SubSeq(s, k + 1, Len(s)) \in Seq(S)
         /\ Len(SubSeq(s, k + 1, Len(s))) = Len(s) - k
         /\ \A i \in 1 .. Len(s) - k : SubSeq(s, k + 1, Len(s))[i] = s[k + i]
<1> DEFINE m == Len(s)
           d == SubSeq(s, k + 1, m)
<1>1. m \in Nat /\ k \in Nat /\ k <= m  OBVIOUS
<1>2. \A i \in k + 1 .. m : s[i] \in S  BY <1>1
<1> HIDE DEF m
<1>3. /\ d \in Seq(S) /\ Len(d) = IF k + 1 <= m THEN m - (k + 1) + 1 ELSE 0
      /\ \A i \in 1 .. m - (k + 1) + 1 : d[i] = s[(k + 1) + i - 1]
  BY <1>1, <1>2, SubSeqProperties
<1> HIDE DEF d
<1>4. Len(d) = m - k
  <2>1. CASE k + 1 <= m
    <3>1. Len(d) = m - (k + 1) + 1  BY <1>3, <2>1
    <3>2. m - (k + 1) + 1 = m - k  BY <1>1
    <3>3. QED  BY <3>1, <3>2
  <2>2. CASE ~(k + 1 <= m)
    <3>1. Len(d) = 0  BY <1>3, <2>2
    <3>2. m - k = 0  BY <1>1, <2>2
    <3>3. QED  BY <3>1, <3>2
  <2>3. QED  BY <2>1, <2>2
<1>5. ASSUME NEW i \in 1 .. m - k
      PROVE  d[i] = s[k + i]
  <2>1. i \in 1 .. m - (k + 1) + 1 /\ (k + 1) + i - 1 = k + i  BY <1>1
  <2>2. d[i] = s[(k + 1) + i - 1]  BY <1>3, <2>1, Zenon
  <2>3. QED  BY <2>1, <2>2, Zenon
<1>6. d \in Seq(S) /\ Len(d) = m - k /\ \A i \in 1 .. m - k : d[i] = s[k + i]
  BY <1>3, <1>4, <1>5, Zenon
<1>7. QED  BY <1>6, Zenon DEF d, m

(* Dropping from the front of two streams is dropping from the first. *)
LEMMA DropConcat ==
  ASSUME NEW S, NEW s \in Seq(S), NEW t \in Seq(S), NEW k \in 0 .. Len(s)
  PROVE  SubSeq(s, k + 1, Len(s)) \o t = SubSeq(s \o t, k + 1, Len(s \o t))
<1> DEFINE l == SubSeq(s, k + 1, Len(s))
           st == s \o t
           r == SubSeq(st, k + 1, Len(st))
           m == Len(s)
<1>1. m \in Nat /\ Len(t) \in Nat /\ k \in Nat /\ k <= m  OBVIOUS
<1>2. /\ st \in Seq(S) /\ Len(st) = m + Len(t)
      /\ \A i \in 1 .. m + Len(t) : st[i] = IF i <= m THEN s[i] ELSE t[i - m]
  BY ConcatProperties
<1> HIDE DEF st, m
<1>3. l \in Seq(S) /\ Len(l) = m - k /\ \A i \in 1 .. m - k : l[i] = s[k + i]
  BY Dropped DEF m
<1>4. /\ r \in Seq(S) /\ Len(r) = m + Len(t) - k
      /\ \A i \in 1 .. m + Len(t) - k : r[i] = st[k + i]
  <2>1. k \in 0 .. Len(st)  BY <1>1, <1>2
  <2>2. /\ r \in Seq(S) /\ Len(r) = Len(st) - k
        /\ \A i \in 1 .. Len(st) - k : r[i] = st[k + i]
    BY <1>2, <2>1, Dropped
  <2> HIDE DEF r
  <2>3. Len(st) - k = m + Len(t) - k  BY <1>1, <1>2
  <2>4. QED  BY <2>2, <2>3, Zenon
<1> HIDE DEF l, r
<1>5. /\ l \o t \in Seq(S) /\ Len(l \o t) = Len(l) + Len(t)
      /\ \A i \in 1 .. Len(l) + Len(t) : (l \o t)[i] = IF i <= Len(l) THEN l[i] ELSE t[i - Len(l)]
  BY <1>3, ConcatProperties
<1>6. ASSUME NEW i \in 1 .. m + Len(t) - k
      PROVE  (l \o t)[i] = r[i]
  <2>1. (l \o t)[i] = IF i <= m - k THEN l[i] ELSE t[i - (m - k)]
    <3>1. i \in 1 .. Len(l) + Len(t)  BY <1>1, <1>3
    <3>2. (l \o t)[i] = IF i <= Len(l) THEN l[i] ELSE t[i - Len(l)]  BY <1>5, <3>1, Zenon
    <3>3. Len(l) = m - k  BY <1>3
    <3>4. QED  BY <3>2, <3>3, Zenon
  <2>2. k + i \in 1 .. m + Len(t)  BY <1>1
  <2>3. r[i] = IF k + i <= m THEN s[k + i] ELSE t[k + i - m]
    <3>1. r[i] = st[k + i]  BY <1>4
    <3>2. st[k + i] = IF k + i <= m THEN s[k + i] ELSE t[k + i - m]  BY <1>1, <1>2, <2>2
    <3>3. QED  BY <3>1, <3>2, Zenon
  <2>4. CASE i <= m - k
    <3>1. k + i <= m /\ i \in 1 .. m - k  BY <1>1, <2>4
    <3>2. QED  BY <1>3, <2>1, <2>3, <2>4, <3>1, Zenon
  <2>5. CASE ~(i <= m - k)
    <3>1. i - (m - k) = k + i - m /\ ~(k + i <= m)  BY <1>1, <2>5
    <3>2. QED  BY <2>1, <2>3, <2>5, <3>1, Zenon
  <2>6. QED  BY <2>4, <2>5
<1>7. Len(l \o t) = Len(r) /\ Len(r) = m + Len(t) - k  BY <1>1, <1>3, <1>4, <1>5
<1>8. l \o t = r  BY <1>4, <1>5, <1>6, <1>7, SeqEqual
<1>9. QED  BY <1>8 DEF l, r, st, m

(* The slots in use and the slots that are filled next are apart, and the  *)
(* latter follow the former.                                               *)
LEMMA Apart ==
  ASSUME NEW a \in Slots, NEW b \in Slots, NEW k \in Nat, k + Used(a, b) <= BufLen - 1,
         NEW i \in 1 .. Used(a, b), NEW j \in 1 .. k
  PROVE  (b + i - 1) % BufLen # (a + j - 1) % BufLen
<1>1. Used(a, b) = (IF a >= b THEN a - b ELSE a + BufLen - b) /\ Used(a, b) \in 0 .. BufLen - 1
  BY UsedIs
<1>2. BufLen \in Nat /\ i \in 1 .. BufLen /\ j \in 1 .. BufLen  BY <1>1, Sizes
<1>3. (b + i - 1) % BufLen = IF b + i - 1 < BufLen THEN b + i - 1 ELSE b + i - 1 - BufLen
  BY <1>2, At
<1>4. (a + j - 1) % BufLen = IF a + j - 1 < BufLen THEN a + j - 1 ELSE a + j - 1 - BufLen
  BY <1>2, At
<1>5. a \in Nat /\ a < BufLen /\ b \in Nat /\ b < BufLen  BY <1>2 DEF Slots
<1>6. CASE a >= b  BY <1>1, <1>2, <1>3, <1>4, <1>5, <1>6
<1>7. CASE a < b  BY <1>1, <1>2, <1>3, <1>4, <1>5, <1>7
<1>8. QED  BY <1>5, <1>6, <1>7

LEMMA Beyond ==
  ASSUME NEW a \in Slots, NEW b \in Slots, NEW k \in Nat, k + Used(a, b) <= BufLen - 1,
         NEW i \in 1 .. k
  PROVE  (b + (Used(a, b) + i) - 1) % BufLen = (a + i - 1) % BufLen
<1> DEFINE j == Used(a, b) + i
<1>1. Used(a, b) = (IF a >= b THEN a - b ELSE a + BufLen - b) /\ Used(a, b) \in 0 .. BufLen - 1
  BY UsedIs
<1>2. BufLen \in Nat /\ i \in 1 .. BufLen /\ j \in 1 .. BufLen  BY <1>1, Sizes
<1>3. a \in Nat /\ a < BufLen /\ b \in Nat /\ b < BufLen  BY <1>2 DEF Slots
<1>4. j = i + (IF a >= b THEN a - b ELSE a + BufLen - b)  BY <1>1, <1>2, <1>3
<1> HIDE DEF j
<1>5. (b + j - 1) % BufLen = IF b + j - 1 < BufLen THEN b + j - 1 ELSE b + j - 1 - BufLen
  BY <1>2, At
<1>6. (a + i - 1) % BufLen = IF a + i - 1 < BufLen THEN a + i - 1 ELSE a + i - 1 - BufLen
  BY <1>2, At
<1>7. (b + j - 1) % BufLen = (a + i - 1) % BufLen
  <2>1. CASE a >= b  BY <1>2, <1>3, <1>4, <1>5, <1>6, <2>1
  <2>2. CASE a < b  BY <1>2, <1>3, <1>4, <1>5, <1>6, <2>2
  <2>3. QED  BY <1>3, <2>1, <2>2
<1>8. QED  BY <1>7 DEF j

LEMMA Skip ==
  ASSUME NEW b \in Slots, NEW k \in Nat, NEW i \in Nat \ {0}, k + i <= BufLen
  PROVE  (((b + k) % BufLen) + i - 1) % BufLen = (b + (k + i) - 1) % BufLen
<1> DEFINE c == (b + k) % BufLen
           j == k + i
<1>1. BufLen \in Nat /\ k \in 0 .. BufLen /\ i \in 1 .. BufLen /\ j \in 1 .. BufLen  BY Sizes
<1>2. b \in Nat /\ b < BufLen  BY <1>1 DEF Slots
<1>3. c \in Slots /\ c = IF b + k < BufLen THEN b + k ELSE b + k - BufLen
  BY <1>1, Onward
<1>4. j = k + i  OBVIOUS
<1> HIDE DEF c, j
<1>5. (c + i - 1) % BufLen = IF c + i - 1 < BufLen THEN c + i - 1 ELSE c + i - 1 - BufLen
  BY <1>1, <1>3, At
<1>6. (b + j - 1) % BufLen = IF b + j - 1 < BufLen THEN b + j - 1 ELSE b + j - 1 - BufLen
  BY <1>1, At
<1>7. (c + i - 1) % BufLen = (b + j - 1) % BufLen
  <2>1. CASE b + k < BufLen  BY <1>1, <1>2, <1>3, <1>4, <1>5, <1>6, <2>1
  <2>2. CASE b + k >= BufLen  BY <1>1, <1>2, <1>3, <1>4, <1>5, <1>6, <2>2
  <2>3. QED  BY <1>1, <1>2, <2>1, <2>2
<1>8. QED  BY <1>7 DEF c, j

LEMMA ContentsAt ==
  ASSUME NEW buf, NEW a, NEW b, NEW i \in 1 .. Used(a, b)
  PROVE  Contents(buf, a, b)[i] = buf[(b + i - 1) % BufLen]
BY DEF Contents

(* Putting characters into free slots appends them to what the ring holds. *)
LEMMA PutContents ==
  ASSUME NEW buf \in [Slots -> Char], NEW buf2 \in [Slots -> Char],
         NEW a \in Slots, NEW b \in Slots,
         NEW new \in Seq(Char), Len(new) + Used(a, b) <= BufLen - 1,
         \A s \in Slots : (\A i \in 1 .. Len(new) : s # (a + i - 1) % BufLen) => buf2[s] = buf[s],
         \A i \in 1 .. Len(new) : buf2[(a + i - 1) % BufLen] = new[i]
  PROVE  Contents(buf2, (a + Len(new)) % BufLen, b) = Contents(buf, a, b) \o new
<1> DEFINE k == Len(new)
           u == Used(a, b)
           a2 == (a + k) % BufLen
           c == Contents(buf, a, b)
           c2 == Contents(buf2, a2, b)
<1>1. k \in Nat /\ BufLen \in Nat /\ u \in 0 .. BufLen - 1  BY Sizes, UsedIs
<1>2. a2 \in Slots /\ Used(a2, b) = u + k  BY <1>1, Put
<1>3. c \in Seq(Char) /\ Len(c) = u  BY ContentsType
<1>4. c2 \in Seq(Char) /\ Len(c2) = u + k  BY <1>2, ContentsType
<1>5. /\ c \o new \in Seq(Char) /\ Len(c \o new) = u + k
      /\ \A i \in 1 .. u + k : (c \o new)[i] = IF i <= u THEN c[i] ELSE new[i - u]
  BY <1>3, ConcatProperties
<1>6. ASSUME NEW i \in 1 .. u + k
      PROVE  c2[i] = (c \o new)[i]
  <2>1. c2[i] = buf2[(b + i - 1) % BufLen]  BY <1>2, ContentsAt
  <2>2. CASE i <= u
    <3>1. i \in 1 .. u /\ i \in 1 .. BufLen  BY <1>1, <2>2
    <3>2. (b + i - 1) % BufLen \in Slots  BY <3>1, At
    <3>3. \A j \in 1 .. k : (b + i - 1) % BufLen # (a + j - 1) % BufLen
      BY <1>1, <3>1, Apart
    <3>4. buf2[(b + i - 1) % BufLen] = buf[(b + i - 1) % BufLen]  BY <3>2, <3>3
    <3>5. c[i] = buf[(b + i - 1) % BufLen]  BY <3>1, ContentsAt
    <3>6. QED  BY <1>5, <2>1, <2>2, <3>4, <3>5
  <2>3. CASE i > u
    <3>1. i - u \in 1 .. k /\ u + (i - u) = i  BY <1>1, <2>3
    <3>2. (b + (u + (i - u)) - 1) % BufLen = (a + (i - u) - 1) % BufLen
      BY <1>1, <3>1, Beyond
    <3>3. buf2[(b + i - 1) % BufLen] = new[i - u]  BY <3>1, <3>2
    <3>4. QED  BY <1>1, <1>5, <2>1, <2>3, <3>3
  <2>4. u \in Nat /\ i \in Nat  BY <1>1
  <2> HIDE DEF u
  <2>5. i <= u \/ i > u  BY <2>4
  <2>6. QED  BY <2>2, <2>3, <2>5, Zenon
<1> HIDE DEF c, c2, u, k
<1>7. c2 = c \o new  BY <1>4, <1>5, <1>6, SeqEqual
<1>8. QED  BY <1>7 DEF c, c2, k

(* Taking characters out leaves the rest of what the ring held. *)
LEMMA TakeContents ==
  ASSUME NEW buf \in [Slots -> Char], NEW a \in Slots, NEW b \in Slots,
         NEW k \in Nat, k <= Used(a, b)
  PROVE  Contents(buf, a, (b + k) % BufLen)
           = SubSeq(Contents(buf, a, b), k + 1, Len(Contents(buf, a, b)))
<1> DEFINE u == Used(a, b)
           b2 == (b + k) % BufLen
           c == Contents(buf, a, b)
           c2 == Contents(buf, a, b2)
           d == SubSeq(c, k + 1, Len(c))
<1>1. BufLen \in Nat /\ u \in 0 .. BufLen - 1 /\ k <= u  BY Sizes, UsedIs
<1>2. b2 \in Slots /\ Used(a, b2) = u - k  BY Take
<1>3. c \in Seq(Char) /\ Len(c) = u  BY ContentsType
<1>4. c2 \in Seq(Char) /\ Len(c2) = u - k  BY <1>2, ContentsType
<1>5. d \in Seq(Char) /\ Len(d) = u - k /\ \A i \in 1 .. u - k : d[i] = c[k + i]
  <2> HIDE DEF c, u
  <2>1. k \in 0 .. Len(c)  BY <1>1, <1>3
  <2>2. d \in Seq(Char) /\ Len(d) = Len(c) - k /\ \A i \in 1 .. Len(c) - k : d[i] = c[k + i]
    BY <1>3, <2>1, Dropped
  <2> HIDE DEF d
  <2>3. QED  BY <1>3, <2>2, Zenon
<1>6. ASSUME NEW i \in 1 .. u - k
      PROVE  c2[i] = d[i]
  <2>1. c2[i] = buf[(b2 + i - 1) % BufLen]  BY <1>2, ContentsAt
  <2>2. k + i \in 1 .. u /\ i \in Nat \ {0} /\ k + i <= BufLen  BY <1>1
  <2>3. c[k + i] = buf[(b + (k + i) - 1) % BufLen]  BY <2>2, ContentsAt
  <2>4. (b2 + i - 1) % BufLen = (b + (k + i) - 1) % BufLen  BY <2>2, Skip
  <2>5. d[i] = c[k + i]  BY <1>5
  <2>6. QED  BY <2>1, <2>3, <2>4, <2>5, Zenon
<1> HIDE DEF c2, d, u
<1>7. c2 = d  BY <1>4, <1>5, <1>6, SeqEqual
<1>8. QED  BY <1>7 DEF c2, d

----------------------------------------------------------------------------
(* Each step is a step, or no step, of the two streams                     *)

OutQ == wfifo \o Contents(tx_buf, Filled, tx_out)
InQ == Contents(rx_buf, rx_in, Emptied) \o rfifo

OutStep == [Out!Next]_(Out!vars)
InStep == [In!Next]_(In!vars)

LEMMA OutStill ==
  ASSUME fed' = fed, heard' = heard, OutQ' = OutQ
  PROVE  OutStep
BY DEF OutStep, Out!vars, OutQ

LEMMA InStill ==
  ASSUME said' = said, got' = got, InQ' = InQ
  PROVE  InStep
BY DEF InStep, In!vars, InQ

LEMMA OutFeeds ==
  ASSUME NEW k \in 1 .. K - 1, fed' = (fed + k) % K, heard' = heard,
         OutQ' = OutQ \o [i \in 1 .. k |-> (fed + i) % K]
  PROVE  OutStep
<1>1. Out!Feed  BY DEF Out!Feed, OutQ
<1>2. QED  BY <1>1 DEF OutStep, Out!Next

LEMMA InFeeds ==
  ASSUME NEW k \in 1 .. K - 1, said' = (said + k) % K, got' = got,
         InQ' = InQ \o [i \in 1 .. k |-> (said + i) % K]
  PROVE  InStep
<1>1. In!Feed  BY DEF In!Feed, InQ
<1>2. QED  BY <1>1 DEF InStep, In!Next

LEMMA OutHears ==
  ASSUME NEW k \in 1 .. Len(OutQ), heard' = OutQ[k], fed' = fed,
         OutQ' = SubSeq(OutQ, k + 1, Len(OutQ))
  PROVE  OutStep
<1>1. Out!Hear  BY DEF Out!Hear, OutQ
<1>2. QED  BY <1>1 DEF OutStep, Out!Next

LEMMA InHears ==
  ASSUME NEW k \in 1 .. Len(InQ), got' = InQ[k], said' = said,
         InQ' = SubSeq(InQ, k + 1, Len(InQ))
  PROVE  InStep
<1>1. In!Hear  BY DEF In!Hear, InQ
<1>2. QED  BY <1>1 DEF InStep, In!Next

(* The characters the program has copied but not yet told of are in free   *)
(* slots, those it has taken but not yet released in occupied ones.        *)
LEMMA Marks ==
  ASSUME Inv
  PROVE  /\ Filled \in Slots /\ Used(tx_in, tx_out) <= Used(Filled, tx_out)
         /\ Emptied \in Slots /\ Used(rx_in, Emptied) <= Used(rx_in, rx_out)
<1>1. /\ tx_in \in Slots /\ tx_out \in Slots /\ rx_in \in Slots /\ rx_out \in Slots
      /\ n \in Nat
  BY DEF Inv, Rings, Program
<1>2. Used(tx_in, tx_out) \in Nat /\ Used(rx_in, rx_out) \in Nat  BY <1>1, UsedIs
<1>3. Filled \in Slots /\ Used(tx_in, tx_out) <= Used(Filled, tx_out)
  <2>1. CASE pc = "publish"
    <3>1. n + Used(tx_in, tx_out) <= BufLen - 1  BY <2>1 DEF Inv, Chunks
    <3>2. /\ (tx_in + n) % BufLen \in Slots
          /\ Used((tx_in + n) % BufLen, tx_out) = Used(tx_in, tx_out) + n
      BY <1>1, <3>1, Put
    <3>3. Filled = (tx_in + n) % BufLen  BY <2>1 DEF Filled
    <3>4. Used(Filled, tx_out) = Used(tx_in, tx_out) + n  BY <3>2, <3>3, Zenon
    <3>5. QED  BY <1>1, <1>2, <3>2, <3>3, <3>4
  <2>2. CASE pc # "publish"
    <3>1. Filled = tx_in  BY <2>2 DEF Filled
    <3>2. QED  BY <1>1, <1>2, <3>1
  <2>3. QED  BY <2>1, <2>2
<1>4. Emptied \in Slots /\ Used(rx_in, Emptied) <= Used(rx_in, rx_out)
  <2>1. CASE pc = "release"
    <3>1. n <= Used(rx_in, rx_out)  BY <2>1 DEF Inv, Chunks
    <3>2. /\ (rx_out + n) % BufLen \in Slots
          /\ Used(rx_in, (rx_out + n) % BufLen) = Used(rx_in, rx_out) - n
      BY <1>1, <3>1, Take
    <3>3. Emptied = (rx_out + n) % BufLen  BY <2>1 DEF Emptied
    <3>4. Used(rx_in, Emptied) = Used(rx_in, rx_out) - n  BY <3>2, <3>3, Zenon
    <3>5. QED  BY <1>1, <1>2, <3>2, <3>3, <3>4
  <2>2. CASE pc # "release"
    <3>1. Emptied = rx_out  BY <2>2 DEF Emptied
    <3>2. QED  BY <1>1, <1>2, <3>1
  <2>3. QED  BY <2>1, <2>2
<1>5. QED  BY <1>3, <1>4

(* What the streams hold, in terms of their two parts. *)
LEMMA Parts ==
  ASSUME Inv
  PROVE  /\ wfifo \in Seq(Char) /\ rfifo \in Seq(Char)
         /\ Contents(tx_buf, Filled, tx_out) \in Seq(Char)
         /\ Contents(rx_buf, rx_in, Emptied) \in Seq(Char)
         /\ OutQ \in Seq(Char) /\ InQ \in Seq(Char)
<1>1. wfifo \in Seq(Char) /\ rfifo \in Seq(Char)  BY DEF Inv, Device
<1>2. /\ Filled \in Slots /\ tx_out \in Slots /\ tx_buf \in [Slots -> Char]
      /\ rx_in \in Slots /\ Emptied \in Slots /\ rx_buf \in [Slots -> Char]
  BY Marks DEF Inv, Rings
<1>3. Contents(tx_buf, Filled, tx_out) \in Seq(Char)  BY <1>2, ContentsType
<1>4. Contents(rx_buf, rx_in, Emptied) \in Seq(Char)  BY <1>2, ContentsType
<1>5. OutQ \in Seq(Char)  BY <1>1, <1>3, ConcatProperties DEF OutQ
<1>6. InQ \in Seq(Char)  BY <1>1, <1>4, ConcatProperties DEF InQ
<1>7. QED  BY <1>1, <1>3, <1>4, <1>5, <1>6

(* Steps that leave the two marks alone. *)
LEMMA SameMarks ==
  ASSUME UNCHANGED <<tx_in, rx_out>>,
         \/ UNCHANGED <<pc, n>>
         \/ pc \notin {"publish", "release"} /\ pc' \notin {"publish", "release"}
  PROVE  Filled' = Filled /\ Emptied' = Emptied
<1>1. CASE UNCHANGED <<pc, n>>  BY <1>1, Zenon DEF Filled, Emptied
<1>2. CASE pc \notin {"publish", "release"} /\ pc' \notin {"publish", "release"}
  <2>1. pc # "publish" /\ pc # "release" /\ pc' # "publish" /\ pc' # "release"  BY <1>2
  <2>2. Filled = tx_in /\ Emptied = rx_out  BY <2>1 DEF Filled, Emptied
  <2>3. Filled' = tx_in' /\ Emptied' = rx_out'  BY <2>1 DEF Filled, Emptied
  <2>4. QED  BY <2>2, <2>3, Zenon
<1>3. QED  BY <1>1, <1>2

LEMMA SameOut ==
  ASSUME UNCHANGED <<wfifo, tx_buf, tx_out>>, Filled' = Filled
  PROVE  OutQ' = OutQ
BY Zenon DEF OutQ, Contents, Used

LEMMA SameIn ==
  ASSUME UNCHANGED <<rfifo, rx_buf, rx_in>>, Emptied' = Emptied
  PROVE  InQ' = InQ
BY Zenon DEF InQ, Contents, Used

(* A step that moves no character. *)
LEMMA NothingMoves ==
  ASSUME UNCHANGED <<wfifo, tx_buf, tx_in, tx_out, rfifo, rx_buf, rx_in, rx_out>>,
         UNCHANGED <<fed, heard, said, got>>,
         \/ UNCHANGED <<pc, n>>
         \/ pc \notin {"publish", "release"} /\ pc' \notin {"publish", "release"}
  PROVE  OutStep /\ InStep
<1>1. Filled' = Filled /\ Emptied' = Emptied  BY SameMarks
<1>2. OutQ' = OutQ /\ InQ' = InQ  BY <1>1, SameOut, SameIn
<1>3. QED  BY <1>2, OutStill, InStill

(* The host takes the front of what is under way to it. *)
LEMMA HostTakesStep ==
  ASSUME Inv, HostTakes, UNCHANGED <<txVars, rxVars, mainVars>>
  PROVE  OutStep /\ InStep
<1> DEFINE c == Contents(tx_buf, Filled, tx_out)
<1>1. /\ wfifo # <<>> /\ heard' = Head(wfifo) /\ wfifo' = Tail(wfifo)
      /\ UNCHANGED <<tx_in, tx_out, tx_buf, rx_in, rx_out, rx_buf, rfifo, pc, n, fed, got, said>>
  BY DEF HostTakes, txVars, rxVars, mainVars
<1>0. Filled' = Filled /\ Emptied' = Emptied  BY <1>1, SameMarks
<1>2. wfifo \in Seq(Char) /\ c \in Seq(Char) /\ OutQ = wfifo \o c  BY Parts DEF OutQ
<1>3. c' = c  BY <1>0, <1>1, Zenon DEF Contents, Used
<1> HIDE DEF c
<1>4. 1 \in 0 .. Len(wfifo) /\ 1 \in 1 .. Len(wfifo) /\ Len(wfifo) \in Nat  BY <1>1, <1>2
<1>5. Len(OutQ) = Len(wfifo) + Len(c) /\ Len(c) \in Nat /\ OutQ[1] = wfifo[1]
  BY <1>2, <1>4, ConcatProperties
<1>6. wfifo' = SubSeq(wfifo, 1 + 1, Len(wfifo))  BY <1>1, <1>2, TailIsSubSeq
<1>7. SubSeq(wfifo, 1 + 1, Len(wfifo)) \o c = SubSeq(OutQ, 1 + 1, Len(OutQ))
  BY <1>2, <1>4, DropConcat
<1>8. OutQ' = wfifo' \o c  BY <1>3 DEF OutQ, c
<1>9. OutQ' = SubSeq(OutQ, 1 + 1, Len(OutQ))  BY <1>6, <1>7, <1>8, Zenon
<1>10. heard' = OutQ[1]  BY <1>1, <1>2, <1>5
<1>11. 1 \in 1 .. Len(OutQ)  BY <1>4, <1>5
<1>12. OutStep  BY <1>1, <1>9, <1>10, <1>11, OutHears
<1>13. InStep  BY <1>0, <1>1, SameIn, InStill
<1>14. QED  BY <1>12, <1>13

(* What the host says joins the end of what is under way to the program. *)
LEMMA HostSaysStep ==
  ASSUME Inv, HostSays, UNCHANGED <<txVars, rxVars, mainVars>>
  PROVE  OutStep /\ InStep
<1> DEFINE c == Contents(rx_buf, rx_in, Emptied)
<1>1. /\ said' = (said + 1) % K /\ rfifo' = Append(rfifo, said')
      /\ UNCHANGED <<tx_in, tx_out, tx_buf, rx_in, rx_out, rx_buf, wfifo, pc, n, fed, got, heard>>
  BY DEF HostSays, txVars, rxVars, mainVars
<1>0. Filled' = Filled /\ Emptied' = Emptied  BY <1>1, SameMarks
<1>2. rfifo \in Seq(Char) /\ c \in Seq(Char) /\ InQ = c \o rfifo  BY Parts DEF InQ
<1>3. c' = c  BY <1>0, <1>1, Zenon DEF Contents, Used
<1> HIDE DEF c
<1>4. said' \in Char
  <2>1. said + 1 \in Nat  BY Sizes DEF Inv, Parties, Char
  <2>2. QED  BY <1>1, <2>1, NextChar
<1>5. rfifo' = rfifo \o <<said'>> /\ <<said'>> \in Seq(Char)
  BY <1>1, <1>2, <1>4, AppendIsConcat
<1>6. InQ' = c \o rfifo'  BY <1>3 DEF InQ, c
<1>7. InQ' = InQ \o <<said'>>  BY <1>2, <1>5, <1>6, ConcatAssociative
<1>8. <<said'>> = [i \in 1 .. 1 |-> (said + i) % K]  BY <1>1
<1>9. 1 \in 1 .. K - 1  BY Sizes
<1>10. InQ' = InQ \o [i \in 1 .. 1 |-> (said + i) % K]  BY <1>7, <1>8, Zenon
<1>11. InStep  BY <1>1, <1>9, <1>10, InFeeds
<1>12. OutStep  BY <1>0, <1>1, SameOut, OutStill
<1>13. QED  BY <1>11, <1>12

(* The handler moves characters from the FIFO into the ring, in order. *)
LEMMA IsrReadStep ==
  ASSUME Inv, IsrRead
  PROVE  OutStep /\ InStep
<1>1. PICK k \in Nat :
           /\ k + Used(rx_in, rx_out) <= BufLen - 1 /\ k <= Len(rfifo)
           /\ rx_in' = (rx_in + k) % BufLen
           /\ rfifo' = SubSeq(rfifo, k + 1, Len(rfifo))
           /\ rx_buf' \in [Slots -> Char]
           /\ \A s \in Slots : (\A i \in 1 .. k : s # (rx_in + i - 1) % BufLen)
                                 => rx_buf'[s] = rx_buf[s]
           /\ \A i \in 1 .. k : rx_buf'[(rx_in + i - 1) % BufLen] = rfifo[i]
  BY ReadFacts, Zenon
<1>2. UNCHANGED <<tx_in, tx_out, tx_buf, rx_out, wfifo, pc, n, fed, got, said, heard>>
  BY DEF IsrRead, txVars, mainVars, history
<1>0. Filled' = Filled /\ Emptied' = Emptied  BY <1>2, SameMarks
<1>3. /\ rfifo \in Seq(Char) /\ rx_buf \in [Slots -> Char]
      /\ rx_in \in Slots /\ rx_out \in Slots /\ Emptied \in Slots
      /\ Used(rx_in, Emptied) <= Used(rx_in, rx_out)
  BY Marks DEF Inv, Device, Rings
<1> DEFINE c == Contents(rx_buf, rx_in, Emptied)
           new == SubSeq(rfifo, 1, k)
           rest == SubSeq(rfifo, k + 1, Len(rfifo))
<1>4. k \in 0 .. Len(rfifo) /\ \A i \in 1 .. k : rfifo[i] \in Char  BY <1>1, <1>3
<1>5. new \in Seq(Char) /\ rest \in Seq(Char) /\ new \o rest = rfifo  BY <1>3, <1>4, Split
<1>6. Len(new) = k /\ \A i \in 1 .. k : new[i] = rfifo[i]  BY <1>1, <1>3, <1>4
<1> HIDE DEF new, rest
<1>7. Contents(rx_buf', (rx_in + Len(new)) % BufLen, Emptied) = c \o new
  <2>1. Len(new) + Used(rx_in, Emptied) <= BufLen - 1
    <3>1. Used(rx_in, rx_out) \in Nat /\ Used(rx_in, Emptied) \in Nat  BY <1>3, UsedIs
    <3>2. QED  BY <1>1, <1>3, <1>6, <3>1, Sizes
  <2>2. /\ \A s \in Slots : (\A i \in 1 .. Len(new) : s # (rx_in + i - 1) % BufLen)
                              => rx_buf'[s] = rx_buf[s]
        /\ \A i \in 1 .. Len(new) : rx_buf'[(rx_in + i - 1) % BufLen] = new[i]
    BY <1>1, <1>6, Zenon
  <2>3. /\ rx_buf \in [Slots -> Char] /\ rx_buf' \in [Slots -> Char]
        /\ rx_in \in Slots /\ Emptied \in Slots /\ new \in Seq(Char)
    BY <1>1, <1>3, <1>5, Zenon
  <2>4. QED  BY <2>1, <2>2, <2>3, PutContents, Zenon
<1>8. c' = c \o new
  <2>1. c' = Contents(rx_buf', rx_in', Emptied)  BY <1>0, Zenon DEF Contents, Used
  <2>2. rx_in' = (rx_in + Len(new)) % BufLen  BY <1>1, <1>6, Zenon
  <2>3. QED  BY <1>7, <2>1, <2>2, Zenon
<1>9. c \in Seq(Char)  BY <1>3, ContentsType
<1>10. InQ' = (c \o new) \o rest
  <2>1. InQ' = c' \o rfifo'  BY DEF InQ
  <2>2. rfifo' = rest  BY <1>1 DEF rest
  <2>3. QED  BY <1>8, <2>1, <2>2, Zenon
<1> HIDE DEF c
<1>11. (c \o new) \o rest = c \o rfifo
  <2>1. new \in Seq(Char) /\ rest \in Seq(Char)  BY <1>5
  <2>2. (c \o new) \o rest = c \o (new \o rest)  BY <1>9, <2>1, ConcatAssociative
  <2>3. QED  BY <1>5, <2>2, Zenon
<1>12. InQ' = InQ  BY <1>10, <1>11 DEF InQ, c
<1>13. InStep  BY <1>2, <1>12, InStill
<1>14. OutStep  BY <1>0, <1>2, SameOut, OutStill
<1>15. QED  BY <1>13, <1>14

(* The handler takes from the front, where the characters that were told   *)
(* of before are.                                                          *)
LEMMA Prefix ==
  ASSUME NEW buf \in [Slots -> Char], NEW a \in Slots, NEW a2 \in Slots, NEW b \in Slots,
         NEW k \in Nat, k <= Used(a, b), Used(a, b) <= Used(a2, b)
  PROVE  SubSeq(Contents(buf, a, b), 1, k) = SubSeq(Contents(buf, a2, b), 1, k)
<1> DEFINE c == Contents(buf, a, b)
           c2 == Contents(buf, a2, b)
<1>1. Used(a, b) \in Nat /\ Used(a2, b) \in Nat  BY UsedIs
<1>2. /\ c \in Seq(Char) /\ Len(c) = Used(a, b)
      /\ c2 \in Seq(Char) /\ Len(c2) = Used(a2, b)
  BY ContentsType
<1>3. \A i \in 1 .. k : c[i] = c2[i]
  <2>1. TAKE i \in 1 .. k
  <2>2. i \in 1 .. Used(a, b) /\ i \in 1 .. Used(a2, b)  BY <1>1
  <2>3. QED  BY <2>2, ContentsAt
<1> HIDE DEF c, c2
<1>4. k <= Len(c) /\ k <= Len(c2)  BY <1>1, <1>2
<1>5. SubSeq(c, 1, k) = SubSeq(c2, 1, k)  BY <1>2, <1>3, <1>4
<1>6. QED  BY <1>5 DEF c, c2

(* The handler moves characters from the ring into the FIFO, in order. *)
LEMMA IsrWriteStep ==
  ASSUME Inv, IsrWrite
  PROVE  OutStep /\ InStep
<1> DEFINE c == Contents(tx_buf, Filled, tx_out)
<1>1. PICK k \in Nat :
           /\ k <= Used(tx_in, tx_out)
           /\ wfifo' = wfifo \o SubSeq(Contents(tx_buf, tx_in, tx_out), 1, k)
           /\ tx_out' = (tx_out + k) % BufLen
  BY WriteFacts, Zenon
<1>2. UNCHANGED <<tx_in, tx_buf, rx_in, rx_out, rx_buf, rfifo, pc, n, fed, got, said, heard>>
  BY DEF IsrWrite, rxVars, mainVars, history
<1>0. Filled' = Filled /\ Emptied' = Emptied  BY <1>2, SameMarks
<1>3. /\ wfifo \in Seq(Char) /\ tx_buf \in [Slots -> Char]
      /\ tx_in \in Slots /\ tx_out \in Slots /\ Filled \in Slots
      /\ Used(tx_in, tx_out) <= Used(Filled, tx_out)
  BY Marks DEF Inv, Device, Rings
<1>4. c \in Seq(Char) /\ Len(c) = Used(Filled, tx_out)  BY <1>3, ContentsType
<1>7. /\ Used(tx_in, tx_out) \in Nat /\ Used(Filled, tx_out) \in Nat
      /\ k <= Used(Filled, tx_out)
  BY <1>1, <1>3, UsedIs
<1>5. Contents(tx_buf, Filled, (tx_out + k) % BufLen) = SubSeq(c, k + 1, Len(c))
  BY <1>3, <1>7, TakeContents
<1>6. c' = SubSeq(c, k + 1, Len(c))
  <2>1. c' = Contents(tx_buf, Filled, tx_out')  BY <1>0, <1>2, Zenon DEF Contents, Used
  <2>2. QED  BY <1>1, <1>5, <2>1, Zenon
<1>17. wfifo' = wfifo \o SubSeq(c, 1, k)
  <2>1. SubSeq(Contents(tx_buf, tx_in, tx_out), 1, k) = SubSeq(c, 1, k)
    BY <1>1, <1>3, Prefix
  <2>2. QED  BY <1>1, <2>1, Zenon
<1>8. OutQ' = wfifo' \o c'  BY DEF OutQ
<1>9. OutQ = wfifo \o c  BY DEF OutQ
<1> HIDE DEF c
<1>10. k \in 0 .. Len(c)  BY <1>4, <1>7
<1>11. /\ SubSeq(c, 1, k) \in Seq(Char) /\ SubSeq(c, k + 1, Len(c)) \in Seq(Char)
       /\ SubSeq(c, 1, k) \o SubSeq(c, k + 1, Len(c)) = c
  BY <1>4, <1>10, Split
<1>12. (wfifo \o SubSeq(c, 1, k)) \o SubSeq(c, k + 1, Len(c)) = wfifo \o c
  <2> DEFINE l == SubSeq(c, 1, k)
             r == SubSeq(c, k + 1, Len(c))
  <2>1. l \in Seq(Char) /\ r \in Seq(Char)  BY <1>11
  <2>2. l \o r = c  BY <1>11
  <2> HIDE DEF l, r
  <2>3. (wfifo \o l) \o r = wfifo \o (l \o r)  BY <1>3, <2>1, ConcatAssociative
  <2>4. (wfifo \o l) \o r = wfifo \o c  BY <2>2, <2>3, Zenon
  <2>5. QED  BY <2>4 DEF l, r
<1>13. OutQ' = OutQ  BY <1>6, <1>8, <1>9, <1>12, <1>17, Zenon
<1>14. OutStep  BY <1>2, <1>13, OutStill
<1>15. InStep  BY <1>0, <1>2, SameIn, InStill
<1>16. QED  BY <1>14, <1>15

(* The program's memcpy into the ring. *)
LEMMA CopyStep ==
  ASSUME Inv, Copy, UNCHANGED <<host_inactive, devVars, isrVars, said, heard>>
  PROVE  OutStep /\ InStep
<1> DEFINE c == Contents(tx_buf, tx_in, tx_out)
           new == [i \in 1 .. n |-> (fed + i) % K]
<1>1. /\ n \in Nat /\ n > 0 /\ n + Used(tx_in, tx_out) <= BufLen - 1
      /\ tx_buf' \in [Slots -> Char]
      /\ \A s \in Slots : (\A i \in 1 .. n : s # (tx_in + i - 1) % BufLen)
                            => tx_buf'[s] = tx_buf[s]
      /\ \A i \in 1 .. n : tx_buf'[(tx_in + i - 1) % BufLen] = (fed + i) % K
  BY CopyFacts
<1>2. /\ fed' = (fed + n) % K /\ pc = "copy" /\ pc' = "publish"
      /\ UNCHANGED <<tx_in, tx_out, rx_in, rx_out, rx_buf, wfifo, rfifo, n, got, said, heard>>
  BY DEF Copy, Goto, rxVars, devVars
<1>0. /\ Filled = tx_in /\ Filled' = (tx_in + n) % BufLen
      /\ Emptied' = Emptied
  <2>1. Filled = tx_in /\ Emptied = rx_out  BY <1>2 DEF Filled, Emptied
  <2>2. Filled' = (tx_in' + n') % BufLen /\ Emptied' = rx_out'  BY <1>2 DEF Filled, Emptied
  <2>3. QED  BY <1>2, <2>1, <2>2, Zenon
<1>3. /\ wfifo \in Seq(Char) /\ tx_buf \in [Slots -> Char]
      /\ tx_in \in Slots /\ tx_out \in Slots /\ fed \in Nat
  BY Sizes DEF Inv, Device, Rings, Parties, Char
<1>4. new \in Seq(Char) /\ Len(new) = n
  <2>1. \A i \in 1 .. n : (fed + i) % K \in Char
    <3>1. TAKE i \in 1 .. n
    <3>2. fed + i \in Nat  BY <1>3
    <3>3. QED  BY <3>2, NextChar
  <2>2. QED  BY <1>1, <2>1
<1>5. \A i \in 1 .. n : new[i] = (fed + i) % K  OBVIOUS
<1>6. c \in Seq(Char)  BY <1>3, ContentsType
<1>7. OutQ' = wfifo \o Contents(tx_buf', (tx_in + n) % BufLen, tx_out)
  BY <1>0, <1>2, Zenon DEF OutQ, Contents, Used
<1>8. OutQ = wfifo \o c  BY <1>0, Zenon DEF OutQ
<1> HIDE DEF new
<1>10. Contents(tx_buf', (tx_in + Len(new)) % BufLen, tx_out) = c \o new
  <2>1. Len(new) + Used(tx_in, tx_out) <= BufLen - 1  BY <1>1, <1>4
  <2>2. /\ \A s \in Slots : (\A i \in 1 .. Len(new) : s # (tx_in + i - 1) % BufLen)
                              => tx_buf'[s] = tx_buf[s]
        /\ \A i \in 1 .. Len(new) : tx_buf'[(tx_in + i - 1) % BufLen] = new[i]
    BY <1>1, <1>4, <1>5, Zenon
  <2>3. QED  BY <1>1, <1>3, <1>4, <2>1, <2>2, PutContents
<1>11. Contents(tx_buf', (tx_in + n) % BufLen, tx_out) = c \o new
  BY <1>4, <1>10, Zenon
<1> HIDE DEF c
<1>12. OutQ' = OutQ \o new
  <2>1. wfifo \o (c \o new) = (wfifo \o c) \o new  BY <1>3, <1>4, <1>6, ConcatAssociative
  <2>2. QED  BY <1>7, <1>8, <1>11, <2>1, Zenon
<1>13. n \in 1 .. K - 1
  <2>1. Used(tx_in, tx_out) \in Nat  BY <1>3, UsedIs
  <2>2. QED  BY <1>1, <2>1, Sizes
<1>14. OutQ' = OutQ \o [i \in 1 .. n |-> (fed + i) % K]  BY <1>12 DEF new
<1>15. OutStep  BY <1>2, <1>13, <1>14, OutFeeds
<1>16. InStep  BY <1>0, <1>2, SameIn, InStill
<1>17. QED  BY <1>15, <1>16

(* Telling of them moves no character. *)
LEMMA PublishStep ==
  ASSUME Inv, Publish, UNCHANGED <<host_inactive, devVars, isrVars, said, heard>>
  PROVE  OutStep /\ InStep
<1>1. /\ pc = "publish" /\ pc' = "load" /\ tx_in' = (tx_in + n) % BufLen
      /\ UNCHANGED <<tx_out, tx_buf, rx_in, rx_out, rx_buf, wfifo, rfifo, fed, got, said, heard>>
  BY DEF Publish, rxVars, devVars
<1>2. Filled = (tx_in + n) % BufLen /\ Emptied = rx_out  BY <1>1 DEF Filled, Emptied
<1>3. Filled' = tx_in' /\ Emptied' = rx_out'  BY <1>1 DEF Filled, Emptied
<1>4. Filled' = Filled /\ Emptied' = Emptied  BY <1>1, <1>2, <1>3, Zenon
<1>5. OutStep  BY <1>1, <1>4, SameOut, OutStill
<1>6. InStep  BY <1>1, <1>4, SameIn, InStill
<1>7. QED  BY <1>5, <1>6

(* The program's memcpy out of the ring. *)
LEMMA ReadCopyStep ==
  ASSUME Inv, ReadCopy, UNCHANGED <<host_inactive, devVars, isrVars, said, heard>>
  PROVE  OutStep /\ InStep
<1> DEFINE c == Contents(rx_buf, rx_in, rx_out)
<1>1. /\ pc = "rcopy" /\ pc' = "release" /\ got' = rx_buf[rx_out + n - 1]
      /\ UNCHANGED <<tx_in, tx_out, tx_buf, rx_in, rx_out, rx_buf, wfifo, rfifo, n, fed, said,
                     heard>>
  BY DEF ReadCopy, Goto, txVars, rxVars, devVars
<1>0. /\ Emptied = rx_out /\ Emptied' = (rx_out + n) % BufLen
      /\ Filled' = Filled
  <2>1. Filled = tx_in /\ Emptied = rx_out  BY <1>1 DEF Filled, Emptied
  <2>2. Emptied' = (rx_out' + n') % BufLen /\ Filled' = tx_in'  BY <1>1 DEF Filled, Emptied
  <2>3. QED  BY <1>1, <2>1, <2>2, Zenon
<1>2. /\ n \in Nat /\ n > 0 /\ n <= Used(rx_in, rx_out) /\ rx_out + n <= BufLen
      /\ rfifo \in Seq(Char) /\ rx_buf \in [Slots -> Char]
      /\ rx_in \in Slots /\ rx_out \in Slots
  BY <1>1 DEF Inv, Device, Rings, Program, Chunks
<1>3. c \in Seq(Char) /\ Len(c) = Used(rx_in, rx_out)  BY <1>2, ContentsType
<1>4. Used(rx_in, rx_out) \in 0 .. BufLen - 1 /\ BufLen \in Nat  BY <1>2, UsedIs, Sizes
<1>5. Contents(rx_buf, rx_in, (rx_out + n) % BufLen) = SubSeq(c, n + 1, Len(c))
  BY <1>2, TakeContents
<1>7. InQ' = Contents(rx_buf, rx_in, (rx_out + n) % BufLen) \o rfifo
  BY <1>0, <1>1, Zenon DEF InQ, Contents, Used
<1>8. InQ = c \o rfifo  BY <1>0, Zenon DEF InQ
<1>9. c[n] = rx_buf[rx_out + n - 1]
  <2>1. n \in 1 .. Used(rx_in, rx_out) /\ n \in 1 .. BufLen  BY <1>2, <1>4
  <2>2. c[n] = rx_buf[(rx_out + n - 1) % BufLen]  BY <2>1, ContentsAt
  <2>3. rx_out \in Nat  BY <1>2, <1>4 DEF Slots
  <2>4. rx_out + n - 1 < BufLen  BY <1>2, <1>4, <2>3
  <2>5. (rx_out + n - 1) % BufLen = rx_out + n - 1  BY <1>2, <2>1, <2>4, At
  <2>6. QED  BY <2>2, <2>5, Zenon
<1> HIDE DEF c
<1>10. n \in 0 .. Len(c) /\ n \in 1 .. Len(c) /\ Len(c) \in Nat  BY <1>2, <1>3, <1>4
<1>11. SubSeq(c, n + 1, Len(c)) \o rfifo = SubSeq(c \o rfifo, n + 1, Len(c \o rfifo))
  BY <1>2, <1>3, <1>10, DropConcat
<1>12. InQ' = SubSeq(InQ, n + 1, Len(InQ))  BY <1>5, <1>7, <1>8, <1>11, Zenon
<1>13. Len(InQ) = Len(c) + Len(rfifo) /\ InQ[n] = c[n] /\ Len(rfifo) \in Nat
  <2>1. Len(rfifo) \in Nat  BY <1>2
  <2>2. /\ Len(InQ) = Len(c) + Len(rfifo)
        /\ \A i \in 1 .. Len(c) + Len(rfifo) : InQ[i] = IF i <= Len(c) THEN c[i]
                                                       ELSE rfifo[i - Len(c)]
    BY <1>2, <1>3, <1>8, ConcatProperties, Zenon
  <2>3. n \in 1 .. Len(c) + Len(rfifo) /\ n <= Len(c)  BY <1>10, <2>1
  <2>4. InQ[n] = c[n]  BY <2>2, <2>3, Zenon
  <2>5. QED  BY <2>1, <2>2, <2>4, Zenon
<1>14. n \in 1 .. Len(InQ)  BY <1>10, <1>13
<1>15. got' = InQ[n]  BY <1>1, <1>9, <1>13, Zenon
<1>16. InStep  BY <1>1, <1>12, <1>14, <1>15, InHears
<1>17. OutStep  BY <1>0, <1>1, SameOut, OutStill
<1>18. QED  BY <1>16, <1>17

(* Releasing their slots moves no character. *)
LEMMA ReadReleaseStep ==
  ASSUME Inv, ReadRelease, UNCHANGED <<host_inactive, devVars, isrVars, said, heard>>
  PROVE  OutStep /\ InStep
<1>1. /\ pc = "release" /\ pc' \in {"enable", "rload"} /\ rx_out' = (rx_out + n) % BufLen
      /\ UNCHANGED <<tx_in, tx_out, tx_buf, rx_in, rx_buf, wfifo, rfifo, fed, got, said, heard>>
  BY DEF ReadRelease, txVars, devVars
<1>2. Filled = tx_in /\ Emptied = (rx_out + n) % BufLen  BY <1>1 DEF Filled, Emptied
<1>3. pc' # "publish" /\ pc' # "release"  BY <1>1
<1>4. Filled' = tx_in' /\ Emptied' = rx_out'  BY <1>3 DEF Filled, Emptied
<1>5. Filled' = Filled /\ Emptied' = Emptied  BY <1>1, <1>2, <1>4, Zenon
<1>6. OutStep  BY <1>1, <1>5, SameOut, OutStill
<1>7. InStep  BY <1>1, <1>5, SameIn, InStill
<1>8. QED  BY <1>6, <1>7

LEMMA NextSteps ==
  ASSUME Inv, [Next]_vars
  PROVE  OutStep /\ InStep
<1>1. CASE Host
  <2>1. CASE HostTakes  BY <1>1, <2>1, HostTakesStep DEF Host
  <2>2. CASE HostSays  BY <1>1, <2>2, HostSaysStep DEF Host
  <2>3. CASE HostLooks
    BY <1>1, <2>3, NothingMoves DEF Host, HostLooks, txVars, rxVars, mainVars, history
  <2>4. QED  BY <1>1, <2>1, <2>2, <2>3 DEF Host
<1>2. CASE Isr
  <2>1. CASE IsrEnter \/ IsrControl
    BY <2>1, NothingMoves DEF IsrEnter, IsrControl, txVars, rxVars, devVars, mainVars, history
  <2>2. QED  BY <1>2, <2>1, IsrReadStep, IsrWriteStep DEF Isr
<1>3. CASE Second
  BY <1>3, NothingMoves DEF Second, txVars, rxVars, mainVars, history
<1>4. CASE InCall
  <2>1. UNCHANGED <<host_inactive, devVars, isrVars, said, heard>>  BY <1>4 DEF InCall
  <2>2. CASE Copy \/ Publish  BY <2>1, <2>2, CopyStep, PublishStep
  <2>3. CASE ReadCopy \/ ReadRelease  BY <2>1, <2>3, ReadCopyStep, ReadReleaseStep
  <2>4. CASE Load \/ Kick \/ Spin \/ Check \/ ReadLoad \/ ReadSpin \/ ReadCheck \/ ReadEnable
             \/ Drain
    <3>1. UNCHANGED <<txVars, rxVars, fed, got>>
      BY <2>4, Zenon DEF Load, Kick, Spin, Check, ReadLoad, ReadSpin, ReadCheck, ReadEnable, Drain
    <3>2. pc \notin {"publish", "release"} /\ pc' \notin {"publish", "release"}
      BY <2>4 DEF Load, Kick, Spin, Check, ReadLoad, ReadSpin, ReadCheck, ReadEnable, Drain,
                  Goto, Moved, Return
    <3>3. QED  BY <2>1, <3>1, <3>2, NothingMoves DEF txVars, rxVars, devVars
  <2>5. QED  BY <1>4, <2>2, <2>3, <2>4, Zenon DEF InCall
<1>5. CASE Begin
  <2>1. UNCHANGED <<txVars, rxVars, fed, got, devVars, said, heard>>
    BY <1>5, Zenon DEF Begin, Start, Call
  <2>2. pc \notin {"publish", "release"} /\ pc' \notin {"publish", "release"}
    BY <1>5 DEF Begin, Start, Call
  <2>3. QED  BY <2>1, <2>2, NothingMoves DEF txVars, rxVars, devVars
<1>6. CASE UNCHANGED vars
  BY <1>6, NothingMoves DEF vars, txVars, rxVars, devVars, mainVars, history
<1>7. QED  BY <1>1, <1>2, <1>3, <1>4, <1>5, <1>6 DEF Next

LEMMA InitStreams ==
  ASSUME Init
  PROVE  Out!Init /\ In!Init
<1>1. /\ tx_in = 0 /\ tx_out = 0 /\ rx_in = 0 /\ rx_out = 0
      /\ wfifo = <<>> /\ rfifo = <<>>
      /\ fed = 0 /\ got = 0 /\ said = 0 /\ heard = 0
      /\ tx_buf = [s \in Slots |-> 0] /\ rx_buf = [s \in Slots |-> 0]
  BY DEF Init
<1>2. Used(0, 0) = 0
  <2>1. 0 \in Slots  BY Sizes DEF Slots
  <2>2. QED  BY <2>1, UsedIs
<1>0. Filled = 0 /\ Emptied = 0  BY DEF Init, Filled, Emptied
<1>3. Contents(tx_buf, Filled, tx_out) = <<>> /\ Contents(rx_buf, rx_in, Emptied) = <<>>
  BY <1>0, <1>1, <1>2 DEF Contents
<1>4. <<>> \o <<>> = <<>>  OBVIOUS
<1>5. QED  BY <1>1, <1>3, <1>4 DEF Out!Init, In!Init

(* For a ring of any size, both directions are streams that lose, repeat   *)
(* and reorder nothing, although handler and program share the rings       *)
(* without a lock (the comment in altera_avalon_jtag_uart.h:105).          *)
THEOREM StreamsInOrder == Spec => InOrder
<1>1. Init => Out!Init /\ In!Init  BY InitStreams
<1>2. Inv /\ [Next]_vars => [Out!Next]_(Out!vars) /\ [In!Next]_(In!vars)
  BY NextSteps DEF OutStep, InStep
<1>3. QED  BY <1>1, <1>2, Invariant, PTL DEF Spec, InOrder, Out!Spec, In!Spec
=============================================================================
