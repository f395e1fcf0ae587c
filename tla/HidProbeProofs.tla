--------------------------- MODULE HidProbeProofs ---------------------------
(***************************************************************************)
(* Proofs about the transfers and the probes, for every device that        *)
(* satisfies ProbeAssumption and ReportAssumption, every packet size and   *)
(* every limit: what is read is whole, what a probe decides is right, and  *)
(* every report is handed over once and in order.                          *)
(***************************************************************************)
EXTENDS HidProbe, NaturalsInduction, WellFoundedInduction, TLAPS

----------------------------------------------------------------------------
(***************************************************************************)
(* Where the descriptors of a configuration start.  Offsets is defined by  *)
(* recursion, so it must be shown to exist: a least number of descriptors  *)
(* for which it did not would contradict the one before.                   *)
(***************************************************************************)

LEMMA Smallest ==
  ASSUME NEW T \in SUBSET Nat, T # {}
  PROVE  \E m \in T : \A n \in T : m <= n
<1>1. PICK m \in T : \A y \in T : ~(<<y, m>> \in OpToRel(<, Nat))
  BY WFMin, NatLessThanWellFounded
<1>2. \A y \in T : ~(y < m)
  BY <1>1 DEF OpToRel
<1> QED BY <1>2

(* The starts of the first n descriptors.                                  *)
Starts(conf, n, f) ==
  /\ f \in [1 .. n -> Nat]
  /\ \A i \in 1 .. n : f[i] = IF i = 1 THEN 0 ELSE f[i - 1] + conf[i - 1].len

LEMMA DescriptorLength ==
  ASSUME NEW conf \in Seq(Descriptors), NEW i \in 1 .. Len(conf)
  PROVE  conf[i].len \in Nat /\ conf[i].len > 0
<1>1. conf[i] \in Descriptors
  OBVIOUS
<1> QED BY <1>1 DEF Descriptors

LEMMA StartsExist ==
  ASSUME NEW conf \in Seq(Descriptors)
  PROVE  \A n \in 0 .. Len(conf) + 1 : \E f : Starts(conf, n, f)
<1> DEFINE Missing == {n \in 0 .. Len(conf) + 1 : ~\E f : Starts(conf, n, f)}
<1> SUFFICES ASSUME Missing # {} PROVE FALSE
  OBVIOUS
<1>1. Missing \in SUBSET Nat
  OBVIOUS
<1> HIDE DEF Missing
<1>2. PICK m \in Missing : \A n \in Missing : m <= n
  BY <1>1, Smallest
<1>3. m \in 0 .. Len(conf) + 1 /\ ~\E f : Starts(conf, m, f)
  BY <1>2 DEF Missing
<1>4. m # 0
  <2>1. Starts(conf, 0, <<>>)
    BY DEF Starts
  <2> QED BY <1>3, <2>1
<1>5. PICK f : Starts(conf, m - 1, f)
  <2>1. m - 1 \in 0 .. Len(conf) + 1 /\ m - 1 \notin Missing
    BY <1>1, <1>2, <1>3, <1>4
  <2> QED BY <2>1 DEF Missing
<1> DEFINE next == IF m = 1 THEN 0 ELSE f[m - 1] + conf[m - 1].len
           g == [i \in 1 .. m |-> IF i = m THEN next ELSE f[i]]
<1>6. next \in Nat
  <2>1. CASE m # 1
    <3>1. m - 1 \in 1 .. m - 1 /\ m - 1 \in 1 .. Len(conf)
      BY <1>3, <1>4, <2>1
    <3>2. f[m - 1] \in Nat
      BY <1>5, <3>1 DEF Starts
    <3>3. conf[m - 1].len \in Nat
      BY <3>1, DescriptorLength
    <3> QED BY <3>2, <3>3
  <2> QED BY <2>1
<1>7. Starts(conf, m, g)
  BY <1>3, <1>4, <1>5, <1>6 DEF Starts
<1> QED BY <1>3, <1>7

LEMMA OffsetsAreStarts ==
  ASSUME NEW conf \in Seq(Descriptors)
  PROVE  \A i \in 1 .. Len(conf) + 1 :
           Offsets(conf)[i] = IF i = 1 THEN 0 ELSE Offsets(conf)[i - 1] + conf[i - 1].len
<1> DEFINE last == Len(conf) + 1
           Body(f) == [i \in 1 .. last |-> IF i = 1 THEN 0 ELSE f[i - 1] + conf[i - 1].len]
<1>1. PICK f : Starts(conf, last, f)
  <2>1. last \in 0 .. last
    OBVIOUS
  <2> QED BY <2>1, StartsExist
<1>2. f = Body(f)
  BY <1>1 DEF Starts
<1>3. Offsets(conf) = CHOOSE h : h = Body(h)
  BY DEF Offsets
<1> HIDE DEF Body
<1>4. Offsets(conf) = Body(Offsets(conf))
  BY <1>2, <1>3
<1>5. ASSUME NEW i \in 1 .. last PROVE Body(Offsets(conf))[i] = IF i = 1 THEN 0 ELSE Offsets(conf)[i - 1] + conf[i - 1].len
  BY DEF Body
<1> QED BY <1>4, <1>5

(* Each descriptor starts where the one before it ends, and they are not   *)
(* empty.                                                                  *)
LEMMA OffsetsNat ==
  ASSUME NEW conf \in Seq(Descriptors)
  PROVE  \A i \in 1 .. Len(conf) + 1 : Offsets(conf)[i] \in Nat
<1> DEFINE Odd == {i \in 1 .. Len(conf) + 1 : Offsets(conf)[i] \notin Nat}
<1> SUFFICES ASSUME Odd # {} PROVE FALSE
  OBVIOUS
<1>1. Odd \in SUBSET Nat
  OBVIOUS
<1> HIDE DEF Odd
<1>2. PICK m \in Odd : \A i \in Odd : m <= i
  BY <1>1, Smallest
<1>3. m \in 1 .. Len(conf) + 1 /\ Offsets(conf)[m] \notin Nat
  BY <1>2 DEF Odd
<1>4. m # 1
  BY <1>3, OffsetsAreStarts
<1>5. m - 1 \in 1 .. Len(conf) /\ m - 1 \in 1 .. Len(conf) + 1 /\ m - 1 \notin Odd
  BY <1>1, <1>2, <1>3, <1>4
<1>6. Offsets(conf)[m - 1] \in Nat
  BY <1>5 DEF Odd
<1>7. conf[m - 1].len \in Nat
  BY <1>5, DescriptorLength
<1>8. Offsets(conf)[m] = Offsets(conf)[m - 1] + conf[m - 1].len
  BY <1>3, <1>4, OffsetsAreStarts
<1> QED BY <1>3, <1>6, <1>7, <1>8

LEMMA OffsetsIncrease ==
  ASSUME NEW conf \in Seq(Descriptors)
  PROVE  \A j \in 1 .. Len(conf) + 1 : \A i \in 1 .. j - 1 :
           Offsets(conf)[i] < Offsets(conf)[j]
<1> DEFINE at(i) == Offsets(conf)[i]
           Odd == {j \in 1 .. Len(conf) + 1 : \E i \in 1 .. j - 1 : ~(at(i) < at(j))}
<1> SUFFICES ASSUME Odd # {} PROVE FALSE
  OBVIOUS
<1>1. Odd \in SUBSET Nat
  OBVIOUS
<1>2. \A i \in 1 .. Len(conf) + 1 : at(i) \in Nat
  BY OffsetsNat
<1>3. ASSUME NEW i \in 1 .. Len(conf) PROVE at(i) < at(i + 1)
  <2>1. at(i + 1) = at(i) + conf[i].len
    BY OffsetsAreStarts
  <2>2. conf[i].len \in Nat /\ conf[i].len > 0 /\ at(i) \in Nat
    BY <1>2, DescriptorLength
  <2> QED BY <2>1, <2>2
<1> HIDE DEF Odd, at
<1>4. PICK m \in Odd : \A j \in Odd : m <= j
  BY <1>1, Smallest
<1>5. PICK i \in 1 .. m - 1 : ~(at(i) < at(m))
  BY <1>4 DEF Odd
<1>6. m \in 1 .. Len(conf) + 1
  BY <1>4 DEF Odd
<1>7. m - 1 \in 1 .. Len(conf) /\ m - 1 \notin Odd
  <2>1. m - 1 \in 1 .. Len(conf)
    BY <1>5, <1>6
  <2>2. ~(m <= m - 1)
    BY <1>6
  <2> QED BY <1>4, <2>1, <2>2
<1>8. at(m - 1) < at(m)
  <2>1. (m - 1) + 1 = m
    BY <1>6
  <2>2. at(m - 1) < at((m - 1) + 1)
    BY <1>3, <1>7
  <2> QED BY <2>1, <2>2
<1>9. i = m - 1 \/ at(i) < at(m - 1)
  <2>1. i = m - 1 \/ i \in 1 .. (m - 1) - 1
    BY <1>5, <1>6
  <2> QED BY <1>7, <2>1 DEF Odd
<1>10. at(i) \in Nat /\ at(m - 1) \in Nat /\ at(m) \in Nat
  BY <1>2, <1>5, <1>6, <1>7
<1> QED BY <1>5, <1>8, <1>9, <1>10

----------------------------------------------------------------------------
(* The inductive invariant                                                 *)

Bit == {0, 1}
Results == {"success", "NAK", "STALL", "TIMEOUT", "TOGERR"}

Steps == {"addressed", "head", "whole", "interface", "endpoint", "configure", "boot",
          "running", "error"}

Flags == configured \in BOOLEAN /\ boot \in BOOLEAN /\ clean \in BOOLEAN

Names ==
  /\ pc \in {"idle", "launch", "wait", "return"}
  /\ kind \in {"poll", "read", "configure", "boot"}
  /\ token \in {"SETUP", "IN", "OUTHS", "INHS"}
  /\ chip \in {"ready", "busy", "done", "dead"}
  /\ hrsl \in Results
  /\ step \in Steps

Numbers ==
  /\ nbytes \in Nat /\ xfrlen \in Nat /\ buf \in Seq(Nat)
  /\ fifo \in [id : Nat, size : Nat]
  /\ rcvToggle \in Bit /\ chiptog \in Bit /\ dtog \in Bit /\ dtog0 \in Bit
  /\ pos \in Nat /\ made \in Nat /\ acked \in Nat /\ got \in Nat
  /\ shape \in Devices
  /\ driver \in 0 .. Len(ClientDriverTable) /\ ptr \in Nat

(* A packet that ended well: the controller says so, or the caller knows.  *)
Succeeded ==
  \/ pc = "wait" /\ chip = "done" /\ hrsl = "success"
  \/ pc \in {"return", "idle"} /\ rcode = "success"

(* The controller is at work only while XferDispatchPkt waits for it.      *)
Turns ==
  /\ chip \in {"busy", "done"} => pc = "wait"
  /\ chip = "ready" => pc # "wait"

(* A packet sits in the controller only between its arrival and the read   *)
(* of RCVFIFO.                                                             *)
Received ==
  fifo # NoPacket => /\ token = "IN" /\ pc # "idle"
                     /\ Succeeded /\ fifo.id > 0

(* The stages of each request.                                             *)
Stages ==
  /\ kind = "read" => token \in {"SETUP", "IN", "OUTHS"}
  /\ kind \in {"configure", "boot"} => token \in {"SETUP", "INHS"}
  /\ kind = "poll" /\ pc # "idle" => token = "IN"
  /\ pc = "idle" /\ rcode = "success" /\ kind = "read" => token = "OUTHS"
  /\ pc = "idle" /\ rcode = "success" /\ kind \in {"configure", "boot"} => token = "INHS"

(* Which request each step of a probe is waiting for.                      *)
Requests ==
  /\ step \in {"head", "whole"} => kind = "read"
  /\ step \in {"configure", "boot"} => kind = step
  /\ step = "running" /\ pc # "idle" => kind = "poll"
  /\ step = "addressed" => pc = "idle"
  /\ step \in {"interface", "endpoint", "error"} => pc = "idle"

(* The device agrees with a request whose last stage ended well.           *)
Agreed ==
  /\ step = "configure" /\ token = "INHS" /\ Succeeded => configured
  /\ step \in {"boot", "running"} => configured
  /\ step = "boot" /\ token = "INHS" /\ Succeeded => boot
  /\ step = "running" => boot

----------------------------------------------------------------------------
(* The data stage of a control read: the toggles tell whether the device   *)
(* has seen the acknowledge of the last packet the controller took.        *)

Want == Least(shape.total, nbytes)

Taken == Len(buf) + (IF fifo = NoPacket THEN 0 ELSE 1)

InOrderSoFar == \A i \in 1 .. Len(buf) : buf[i] = i

Fresh ==
  kind = "read" /\ token = "SETUP" /\ pc # "idle" =>
    /\ buf = <<>> /\ xfrlen = 0 /\ nbytes > 0
    /\ Succeeded => pos = 0 /\ dtog0 = 1

DataStage ==
  kind = "read" /\ token = "IN" /\ pc # "idle" =>
    /\ InOrderSoFar
    /\ xfrlen = Len(buf) * MaxPkt0 /\ xfrlen < nbytes /\ xfrlen <= Want
    /\ IF dtog0 = chiptog THEN pos = Taken ELSE pos + 1 = Taken
    /\ fifo # NoPacket => /\ fifo.id = Len(buf) + 1
                          /\ fifo.size = Least(MaxPkt0, Want - xfrlen)

Whole == kind = "read" /\ token = "OUTHS" => InOrderSoFar /\ xfrlen = Want

----------------------------------------------------------------------------
(* The reports: the toggles of the interrupt endpoint tell whether the     *)
(* device knows that the last report was taken.                            *)

(* The saved toggle may be another device's until the probe takes the      *)
(* interface; from then on it is that of a device just configured.         *)
Unpolled ==
  /\ step # "running" => /\ acked = 0 /\ got = 0 /\ dtog = 0
                         /\ pc # "idle" => kind # "poll"
  /\ step \in {"endpoint", "configure", "boot"} => rcvToggle = 0

Between ==
  step = "running" /\ pc = "idle"
    => /\ IF dtog = rcvToggle THEN acked = got ELSE acked + 1 = got
       /\ got <= made

Polling ==
  kind = "poll" /\ pc # "idle" =>
    /\ buf = <<>> /\ xfrlen = 0 /\ nbytes = PollLength
    /\ got <= made
    /\ IF fifo = NoPacket
         THEN /\ chiptog = rcvToggle
              /\ IF dtog = chiptog THEN acked = got ELSE acked + 1 = got
         ELSE /\ chiptog # rcvToggle
              /\ IF dtog = chiptog THEN acked = got + 1 ELSE acked = got
              /\ fifo.id = got + 1 /\ fifo.size = shape.ep.report /\ got < made

----------------------------------------------------------------------------
(* The walk                                                                *)

Conf == shape.conf
IsEndpoint(i) == Conf[i].what = "endpoint"
Belongs(i) == Conf[i].what \in Interfaces

(* Interface i is the first and belongs to the driver.                     *)
Found(i) ==
  /\ i \in 1 .. Len(Conf) /\ Offset(i) < BigBuf
  /\ Conf[i].what = ClientDriverTable[driver]
  /\ \A k \in 1 .. i - 1 : ~Belongs(k)

Walk ==
  /\ step = "addressed" <=> driver = 0
  /\ step \in {"head", "whole"} => ptr = 0
  /\ step = "interface" =>
       \E i \in 1 .. Len(Conf) + 1 : ptr = Offset(i) /\ \A k \in 1 .. i - 1 : ~Belongs(k)
  /\ step = "endpoint" =>
       \E i \in 1 .. Len(Conf), j \in 1 .. Len(Conf) + 1 :
         /\ Found(i) /\ i < j /\ ptr = Offset(j)
         /\ \A k \in i + 1 .. j - 1 : ~IsEndpoint(k)
  /\ step \in {"configure", "boot", "running"} => Suits(ClientDriverTable[driver])

(* Those that were refused before, unless a transfer failed.               *)
Refusals ==
  clean => /\ \A d \in 1 .. driver - 1 : ~Suits(ClientDriverTable[d])
           /\ step = "error" => \A d \in {1, 2} : ~Suits(ClientDriverTable[d])

TransferInv ==
  Turns /\ Received /\ Stages /\ Fresh /\ DataStage /\ Whole

PipeInv == Unpolled /\ Between /\ Polling

ProbeInv == Requests /\ Agreed /\ Walk /\ Refusals

Inv == Flags /\ Names /\ Numbers /\ TransferInv /\ PipeInv /\ ProbeInv

----------------------------------------------------------------------------
(* Constants                                                               *)

LEMMA Sizes ==
  /\ NakLimit \in Nat /\ RetryLimit \in Nat
  /\ MaxPkt0 \in Nat /\ MaxPkt0 > 0 /\ PollLength \in Nat /\ PollLength > 0
  /\ MaxReports \in Nat
  /\ ConfDescrLen \in Nat /\ ConfDescrLen > 0 /\ BigBuf \in Nat /\ BigBuf > 0
BY TransferAssumption, ProbeAssumption

LEMMA Device ==
  ASSUME Numbers
  PROVE  /\ shape.total \in Nat /\ shape.total > 0
         /\ shape.ep.report \in Nat /\ shape.ep.max \in Nat
         /\ shape.ep.report < shape.ep.max \/ shape.ep.report >= PollLength
         /\ shape.conf \in Seq(Descriptors)
         /\ shape.total = Offset(Len(shape.conf) + 1)
BY TransferAssumption, ReportAssumption, ProbeAssumption DEF Numbers, Offset

(* The walk depends on the device and on the probe alone.                  *)
LEMMA SuitsStays ==
  ASSUME shape' = shape, NEW name
  PROVE  Suits(name)' <=> Suits(name)
<1>1. \A i : Offset(i)' = Offset(i)
  BY Zenon DEF Offset
<1> QED BY <1>1, Zenon DEF Suits, Offset

LEMMA WalkStays ==
  ASSUME Walk, Refusals, UNCHANGED <<shape, probeVars>>
  PROVE  Walk' /\ Refusals'
<1>1. UNCHANGED <<shape, step, driver, ptr, clean>>
  BY DEF probeVars
<1>2. Walk'
  BY <1>1, Zenon DEF Walk, Found, Belongs, IsEndpoint, Conf, Offset, Suits
<1>3. Refusals'
  BY <1>1, Zenon DEF Refusals, Offset, Suits
<1> QED BY <1>2, <1>3

----------------------------------------------------------------------------
(* The steps of a transfer                                                 *)

LEMMA LaunchStep ==
  ASSUME Inv, Launch, UNCHANGED probeVars
  PROVE  Inv'
<1>1. /\ pc = "launch" /\ pc' = "wait" /\ chip' \in {"busy", "dead"}
      /\ UNCHANGED <<kind, token, nbytes, xfrlen, buf, rcode, rcvToggle, hrsl, fifo, chiptog,
                     configured, boot, pos, dtog0, made, acked, dtog, shape, got,
                     step, driver, ptr, clean>>
  BY DEF Launch, hostVars, devVars, probeVars
<1>2. Flags' /\ Numbers'
  BY <1>1, Zenon DEF Inv, Flags, Numbers
<1>3. Names'
  BY <1>1 DEF Inv, Names
<1>4. fifo = NoPacket
  BY <1>1 DEF Inv, TransferInv, Received, Succeeded
<1>5. Turns' /\ Received' /\ Stages' /\ Fresh' /\ Whole'
  BY <1>1, <1>4 DEF Inv, TransferInv, Turns, Received, Stages, Fresh, Whole, Succeeded, InOrderSoFar, Want
<1>6. DataStage'
  BY <1>1, <1>4 DEF Inv, TransferInv, DataStage, InOrderSoFar, Want, Taken
<1>7. PipeInv'
  BY <1>1, <1>4 DEF Inv, PipeInv, Unpolled, Between, Polling
<1>8. Requests' /\ Agreed'
  BY <1>1 DEF Inv, ProbeInv, Requests, Agreed, Succeeded
<1>9. Walk' /\ Refusals'
  BY <1>1, WalkStays DEF Inv, ProbeInv, probeVars
<1> QED BY <1>2, <1>3, <1>5, <1>6, <1>7, <1>8, <1>9 DEF Inv, TransferInv, ProbeInv

LEMMA AnsweredStep ==
  ASSUME Inv, Answered, UNCHANGED probeVars
  PROVE  Inv'
<1>1. /\ pc = "wait" /\ chip = "done" /\ chip' = "ready" /\ rcode' = hrsl
      /\ UNCHANGED <<kind, token, nbytes, xfrlen, buf, rcvToggle, hrsl, fifo, chiptog,
                     configured, boot, pos, dtog0, made, acked, dtog, shape, got,
                     step, driver, ptr, clean>>
  BY DEF Answered, devVars, probeVars
<1>2. pc' \in {"launch", "return"} /\ (hrsl = "success" => pc' = "return")
  BY DEF Answered, Counted
<1>3. Succeeded' <=> Succeeded
  BY <1>1, <1>2 DEF Succeeded
<1>4. Flags' /\ Numbers'
  BY <1>1, Zenon DEF Inv, Flags, Numbers
<1>5. Names'
  BY <1>1, <1>2 DEF Inv, Names
<1>6. Turns' /\ Received' /\ Stages' /\ Fresh' /\ Whole'
  BY <1>1, <1>2, <1>3
  DEF Inv, TransferInv, Turns, Received, Stages, Fresh, Whole, InOrderSoFar, Want
<1>7. DataStage'
  BY <1>1, <1>2 DEF Inv, TransferInv, DataStage, InOrderSoFar, Want, Taken
<1>8. PipeInv'
  BY <1>1, <1>2 DEF Inv, PipeInv, Unpolled, Between, Polling
<1>9. Requests' /\ Agreed'
  BY <1>1, <1>2, <1>3 DEF Inv, ProbeInv, Requests, Agreed
<1>10. Walk' /\ Refusals'
  BY <1>1, WalkStays DEF Inv, ProbeInv, probeVars
<1> QED BY <1>4, <1>5, <1>6, <1>7, <1>8, <1>9, <1>10 DEF Inv, TransferInv, ProbeInv

LEMMA GiveUpStep ==
  ASSUME Inv, GiveUp, UNCHANGED probeVars
  PROVE  Inv'
<1>1. /\ pc = "wait" /\ chip = "dead" /\ rcode' = "0xff" /\ pc' = "return"
      /\ UNCHANGED <<kind, token, nbytes, xfrlen, buf, rcvToggle, chip, hrsl, fifo, chiptog,
                     configured, boot, pos, dtog0, made, acked, dtog, shape, got,
                     step, driver, ptr, clean>>
  BY DEF GiveUp, chipVars, devVars, probeVars
<1>2. ~Succeeded /\ ~Succeeded'
  BY <1>1 DEF Succeeded
<1>3. fifo = NoPacket
  BY <1>2 DEF Inv, TransferInv, Received
<1>4. Flags' /\ Numbers'
  BY <1>1, Zenon DEF Inv, Flags, Numbers
<1>5. Names'
  BY <1>1 DEF Inv, Names
<1>6. Turns' /\ Received' /\ Stages' /\ Fresh' /\ Whole'
  BY <1>1, <1>2, <1>3
  DEF Inv, TransferInv, Turns, Received, Stages, Fresh, Whole, InOrderSoFar, Want
<1>7. DataStage'
  BY <1>1 DEF Inv, TransferInv, DataStage, InOrderSoFar, Want, Taken
<1>8. PipeInv'
  BY <1>1 DEF Inv, PipeInv, Unpolled, Between, Polling
<1>9. Requests' /\ Agreed'
  BY <1>1, <1>2 DEF Inv, ProbeInv, Requests, Agreed
<1>10. Walk' /\ Refusals'
  BY <1>1, WalkStays DEF Inv, ProbeInv, probeVars
<1> QED BY <1>4, <1>5, <1>6, <1>7, <1>8, <1>9, <1>10 DEF Inv, TransferInv, ProbeInv

(* A device that makes a report, and a controller that dies.               *)
LEMMA MakeStep ==
  ASSUME Inv, Make, UNCHANGED probeVars
  PROVE  Inv'
<1>1. /\ made' = made + 1
      /\ UNCHANGED <<pc, kind, token, nbytes, xfrlen, buf, rcode, rcvToggle, chip, hrsl, fifo,
                     chiptog, configured, boot, pos, dtog0, acked, dtog, shape, got,
                     step, driver, ptr, clean>>
  BY DEF Make, hostVars, chipVars, probeVars
<1>2. made \in Nat /\ made' \in Nat /\ got \in Nat
  BY <1>1 DEF Inv, Numbers
<1>3. (Succeeded' <=> Succeeded) /\ (Flags' <=> Flags) /\ (Names' <=> Names)
  BY <1>1, Zenon DEF Succeeded, Flags, Names
<1>4. Numbers'
  BY <1>1, <1>2, Zenon DEF Inv, Numbers
<1>5. TransferInv'
  BY <1>1, <1>3, Zenon DEF Inv, TransferInv, Turns, Received, Stages, Fresh, DataStage, Whole,
                           InOrderSoFar, Want, Taken
<1>6. PipeInv'
  <2>1. Unpolled'
    BY <1>1 DEF Inv, PipeInv, Unpolled
  <2>2. Between'
    BY <1>1, <1>2 DEF Inv, PipeInv, Between
  <2>3. Polling'
    BY <1>1, <1>2 DEF Inv, PipeInv, Polling
  <2> QED BY <2>1, <2>2, <2>3 DEF PipeInv
<1>7. Requests' /\ Agreed'
  BY <1>1, <1>3, Zenon DEF Inv, ProbeInv, Requests, Agreed
<1>8. Walk' /\ Refusals'
  BY <1>1, WalkStays DEF Inv, ProbeInv, probeVars
<1> QED BY <1>3, <1>4, <1>5, <1>6, <1>7, <1>8 DEF Inv, ProbeInv

LEMMA DieStep ==
  ASSUME Inv, Die, UNCHANGED probeVars
  PROVE  Inv'
<1>1. /\ chip = "busy" /\ chip' = "dead"
      /\ UNCHANGED <<pc, kind, token, nbytes, xfrlen, buf, rcode, rcvToggle, hrsl, fifo,
                     chiptog, configured, boot, pos, dtog0, made, acked, dtog, shape, got,
                     step, driver, ptr, clean>>
  BY DEF Die, hostVars, devVars, probeVars
<1>2. pc = "wait"
  BY <1>1 DEF Inv, TransferInv, Turns
<1>3. ~Succeeded /\ ~Succeeded'
  BY <1>1, <1>2 DEF Succeeded
<1>4. Flags' /\ Numbers'
  BY <1>1, Zenon DEF Inv, Flags, Numbers
<1>5. Names'
  BY <1>1 DEF Inv, Names
<1>6. Turns'
  BY <1>1, <1>2 DEF Turns
<1>7. Received' /\ Stages' /\ Fresh' /\ DataStage' /\ Whole'
  BY <1>1, <1>3, Zenon DEF Inv, TransferInv, Received, Stages, Fresh, DataStage, Whole,
                           InOrderSoFar, Want, Taken
<1>8. PipeInv'
  BY <1>1, Zenon DEF Inv, PipeInv, Unpolled, Between, Polling
<1>9. Requests' /\ Agreed'
  BY <1>1, <1>3, Zenon DEF Inv, ProbeInv, Requests, Agreed
<1>10. Walk' /\ Refusals'
  BY <1>1, WalkStays DEF Inv, ProbeInv, probeVars
<1> QED BY <1>4, <1>5, <1>6, <1>7, <1>8, <1>9, <1>10 DEF Inv, TransferInv, ProbeInv

(* The bus: what all packets have in common.                               *)
LEMMA OnTheBusFacts ==
  ASSUME Inv, OnTheBus, UNCHANGED probeVars
  PROVE  /\ chip = "busy" /\ chip' = "done" /\ pc = "wait" /\ pc' = "wait"
         /\ hrsl' \in Results
         /\ fifo = NoPacket
         /\ ~Succeeded /\ (Succeeded' <=> hrsl' = "success")
         /\ UNCHANGED <<kind, token, nbytes, xfrlen, buf, rcode, rcvToggle, made, shape, got,
                        step, driver, ptr, clean>>
<1>1. /\ chip = "busy" /\ chip' = "done" /\ hrsl' \in Results
      /\ made' = made /\ shape' = shape
  BY DEF OnTheBus, Refused, Receive, Setup, Status, Ends, Results, devVars
<1>2. UNCHANGED <<pc, kind, token, nbytes, xfrlen, buf, rcode, rcvToggle, got,
                  step, driver, ptr, clean>>
  BY DEF OnTheBus, hostVars, probeVars
<1>3. pc = "wait"
  BY <1>1 DEF Inv, TransferInv, Turns
<1>4. ~Succeeded /\ (Succeeded' <=> hrsl' = "success")
  BY <1>1, <1>2, <1>3 DEF Succeeded
<1>5. fifo = NoPacket
  BY <1>4 DEF Inv, TransferInv, Received
<1> QED BY <1>1, <1>2, <1>3, <1>4, <1>5

(* What a packet on the bus changes is, at most, the packet, the toggles   *)
(* and the device: the rest of the invariant is kept by all of them.       *)
LEMMA OnTheBusFrame ==
  ASSUME Inv, OnTheBus, UNCHANGED probeVars
  PROVE  /\ Names' /\ Turns' /\ Stages' /\ Whole' /\ Requests' /\ Walk' /\ Refusals'
<1>1. Names'
  BY OnTheBusFacts DEF Inv, Names
<1>2. Turns' /\ Stages' /\ Whole'
  BY OnTheBusFacts DEF Inv, TransferInv, Turns, Stages, Whole, InOrderSoFar, Want
<1>3. Requests'
  BY OnTheBusFacts DEF Inv, ProbeInv, Requests
<1>4. Walk' /\ Refusals'
  BY OnTheBusFacts, WalkStays DEF Inv, ProbeInv
<1> QED BY <1>1, <1>2, <1>3, <1>4

LEMMA RefusedStep ==
  ASSUME Inv, OnTheBus, Refused, UNCHANGED probeVars
  PROVE  Inv'
<1>1. /\ hrsl' # "success"
      /\ UNCHANGED <<fifo, chiptog, configured, boot, pos, dtog0, made, acked, dtog, shape>>
  BY DEF Refused, Ends, devVars
<1>2. Flags' /\ Numbers'
  BY <1>1, OnTheBusFacts, Zenon DEF Inv, Flags, Numbers
<1>3. Received' /\ Fresh'
  BY <1>1, OnTheBusFacts DEF Inv, TransferInv, Received, Fresh
<1>4. DataStage'
  BY <1>1, OnTheBusFacts DEF Inv, TransferInv, DataStage, InOrderSoFar, Want, Taken
<1>5. PipeInv'
  BY <1>1, OnTheBusFacts DEF Inv, PipeInv, Unpolled, Between, Polling
<1>6. Agreed'
  BY <1>1, OnTheBusFacts, Zenon DEF Inv, ProbeInv, Agreed
<1> QED BY <1>2, <1>3, <1>4, <1>5, <1>6, OnTheBusFrame DEF Inv, TransferInv, ProbeInv

LEMMA SetupStep ==
  ASSUME Inv, OnTheBus, Setup, UNCHANGED probeVars
  PROVE  Inv'
<1>1. /\ token = "SETUP" /\ pos' = 0 /\ dtog0' = 1
      /\ UNCHANGED <<fifo, chiptog, configured, boot, made, acked, dtog, shape>>
  BY DEF Setup
<1>2. Flags' /\ Numbers'
  <2>1. Flags'
    BY <1>1, OnTheBusFacts, Zenon DEF Inv, Flags
  <2>2. pos' \in Nat /\ dtog0' \in Bit
    BY <1>1 DEF Bit
  <2>3. Numbers'
    BY <1>1, <2>2, OnTheBusFacts, Zenon DEF Inv, Numbers
  <2> QED BY <2>1, <2>3
<1>3. Received' /\ Fresh'
  BY <1>1, OnTheBusFacts DEF Inv, TransferInv, Received, Fresh
<1>4. DataStage'
  BY <1>1, OnTheBusFacts DEF DataStage
<1>5. PipeInv'
  BY <1>1, OnTheBusFacts DEF Inv, PipeInv, Unpolled, Between, Polling
<1>6. Agreed'
  BY <1>1, OnTheBusFacts DEF Inv, ProbeInv, Agreed
<1> QED BY <1>2, <1>3, <1>4, <1>5, <1>6, OnTheBusFrame DEF Inv, TransferInv, ProbeInv

LEMMA StatusStep ==
  ASSUME Inv, OnTheBus, Status, UNCHANGED probeVars
  PROVE  Inv'
<1>1. /\ token \in {"OUTHS", "INHS"}
      /\ UNCHANGED <<fifo, chiptog, pos, dtog0, made, acked, shape>>
  BY DEF Status
<1>2. /\ kind = "configure" => configured' = TRUE /\ dtog' = 0
      /\ kind # "configure" => configured' = configured /\ dtog' = dtog
      /\ boot' = (boot \/ kind = "boot")
  BY DEF Status
<1>3. kind # "poll"
  BY <1>1, OnTheBusFacts DEF Inv, TransferInv, Stages
<1>4. step # "running"
  BY <1>3, OnTheBusFacts DEF Inv, ProbeInv, Requests
<1>5. dtog' = 0
  BY <1>2, <1>4 DEF Inv, PipeInv, Unpolled
<1>6. Flags'
  BY <1>2, OnTheBusFacts, Zenon DEF Inv, Flags
<1>7. Numbers'
  <2>1. dtog' \in Bit
    BY <1>5 DEF Bit
  <2> QED BY <1>1, <2>1, OnTheBusFacts, Zenon DEF Inv, Numbers
<1>8. Received' /\ Fresh' /\ DataStage'
  BY <1>1, OnTheBusFacts DEF Inv, TransferInv, Received, Fresh, DataStage
<1>9. PipeInv'
  BY <1>1, <1>3, <1>4, <1>5, OnTheBusFacts DEF Inv, PipeInv, Unpolled, Between, Polling
<1>10. Agreed'
  <2>1. configured => configured'
    BY <1>2, Zenon
  <2>2. step = "configure" => configured'
    BY <1>2, Zenon DEF Inv, ProbeInv, Requests
  <2>3. step = "boot" => boot'
    BY <1>2, Zenon DEF Inv, ProbeInv, Requests
  <2>4. step' = step
    BY OnTheBusFacts
  <2> QED BY <1>4, <2>1, <2>2, <2>3, <2>4, Zenon DEF Inv, ProbeInv, Agreed
<1> QED BY <1>6, <1>7, <1>8, <1>9, <1>10, OnTheBusFrame DEF Inv, TransferInv, ProbeInv

LEMMA Flip ==
  ASSUME NEW d \in Bit, NEW c \in Bit, d # c
  PROVE  1 - d = c
BY DEF Bit

(* A packet of a control read.                                             *)
LEMMA ReceiveData ==
  ASSUME Inv, OnTheBus, Receive, UNCHANGED probeVars, kind = "read"
  PROVE  Inv'
<1>1. /\ token = "IN" /\ pos * MaxPkt0 <= Want
      /\ UNCHANGED <<configured, boot, made, shape, acked, dtog>>
      /\ \/ pos' = pos /\ dtog0' = dtog0
         \/ pos' = pos + 1 /\ dtog0' = 1 - dtog0
  BY DEF Receive, HasPacket, Deliver, Want
<1> DEFINE packet == [id |-> pos + 1, size |-> Least(MaxPkt0, Want - pos * MaxPkt0)]
<1>2. \/ dtog0 = chiptog /\ fifo' = packet /\ chiptog' = 1 - chiptog /\ hrsl' = "success"
      \/ dtog0 # chiptog /\ fifo' = fifo /\ chiptog' = chiptog
  BY DEF Receive, Packet, Ends, Want
<1>3. /\ pos \in Nat /\ pos' \in Nat /\ dtog0 \in Bit /\ dtog0' \in Bit
      /\ chiptog \in Bit /\ chiptog' \in Bit /\ Len(buf) \in Nat
  BY <1>1, <1>2 DEF Inv, Numbers, Bit
<1>4. Want \in Nat
  BY Device DEF Inv, Numbers, Want, Least
<1>5. pos * MaxPkt0 \in Nat
  BY <1>3, Sizes
<1>6. packet \in [id : Nat, size : Nat] /\ packet # NoPacket
  <2>1. Least(MaxPkt0, Want - pos * MaxPkt0) \in Nat
    BY <1>1, <1>4, <1>5, Sizes DEF Least
  <2>2. pos + 1 \in Nat /\ pos + 1 # 0
    BY <1>3
  <2> QED BY <2>1, <2>2 DEF NoPacket
<1> HIDE DEF packet
<1>7. Flags'
  BY <1>1, OnTheBusFacts, Zenon DEF Inv, Flags
<1>8. Numbers'
  <2>1. fifo' \in [id : Nat, size : Nat]
    BY <1>2, <1>6 DEF Inv, Numbers
  <2> QED BY <1>1, <1>3, <2>1, OnTheBusFacts, Zenon DEF Inv, Numbers
<1>9. /\ InOrderSoFar /\ xfrlen = Len(buf) * MaxPkt0 /\ xfrlen < nbytes /\ xfrlen <= Want
      /\ IF dtog0 = chiptog THEN pos = Len(buf) ELSE pos + 1 = Len(buf)
  BY <1>1, <1>3, OnTheBusFacts DEF Inv, TransferInv, DataStage, Taken
<1>10. UNCHANGED <<buf, xfrlen, nbytes, Want, InOrderSoFar>>
  BY <1>1, OnTheBusFacts DEF Want, InOrderSoFar
<1>11. Received' /\ DataStage'
  <2>1. CASE dtog0 = chiptog
    <3>1. fifo' = packet /\ chiptog' = 1 - chiptog /\ hrsl' = "success"
      BY <1>2, <2>1
    <3>2. Taken' = Len(buf) + 1
      BY <1>6, <1>10, <3>1 DEF Taken
    <3>3. IF dtog0' = chiptog' THEN pos' = Taken' ELSE pos' + 1 = Taken'
      BY <1>1, <1>3, <1>9, <2>1, <3>1, <3>2 DEF Bit
    <3>4. fifo'.id = Len(buf) + 1 /\ fifo'.size = Least(MaxPkt0, Want - xfrlen)
      BY <1>9, <2>1, <3>1 DEF packet
    <3>5. fifo'.id > 0
      BY <1>3, <3>4
    <3>6. Received'
      BY <1>1, <3>1, <3>5, OnTheBusFacts DEF Received
    <3> QED BY <1>9, <1>10, <3>3, <3>4, <3>6 DEF DataStage, Least
  <2>2. CASE dtog0 # chiptog
    <3>1. fifo' = NoPacket /\ chiptog' = chiptog
      BY <1>2, <2>2, OnTheBusFacts
    <3>2. Taken' = Len(buf)
      BY <1>3, <1>10, <3>1 DEF Taken
    <3>3. IF dtog0' = chiptog' THEN pos' = Taken' ELSE pos' + 1 = Taken'
      <4>1. pos + 1 = Len(buf)
        BY <1>9, <2>2
      <4>2. 1 - dtog0 = chiptog
        BY <1>3, <2>2, Flip
      <4>3. CASE pos' = pos /\ dtog0' = dtog0
        BY <2>2, <3>1, <3>2, <4>1, <4>3
      <4>4. CASE pos' = pos + 1 /\ dtog0' = 1 - dtog0
        BY <3>1, <3>2, <4>1, <4>2, <4>4
      <4> QED BY <1>1, <4>3, <4>4
    <3>4. Received'
      BY <3>1 DEF Received, NoPacket
    <3> QED BY <1>9, <1>10, <3>1, <3>3, <3>4 DEF DataStage, NoPacket
  <2> QED BY <2>1, <2>2
<1>12. Fresh'
  BY <1>1, OnTheBusFacts DEF Fresh
<1>13. PipeInv'
  BY <1>1, OnTheBusFacts DEF Inv, PipeInv, Unpolled, Between, Polling
<1>14. Agreed'
  BY <1>1, OnTheBusFacts, Zenon DEF Inv, ProbeInv, Agreed, Requests
<1> QED BY <1>7, <1>8, <1>11, <1>12, <1>13, <1>14, OnTheBusFrame DEF Inv, TransferInv, ProbeInv

(* A packet of a poll: a report.                                           *)
LEMMA ReceiveReport ==
  ASSUME Inv, OnTheBus, Receive, UNCHANGED probeVars, kind # "read"
  PROVE  Inv'
<1>1. token = "IN" /\ UNCHANGED <<configured, boot, made, shape>>
  BY DEF Receive
<1>2. kind = "poll" /\ step = "running"
  BY <1>1, OnTheBusFacts
  DEF Inv, Names, TransferInv, PipeInv, Stages, Unpolled
<1>3. /\ acked < made
      /\ UNCHANGED <<pos, dtog0>>
      /\ \/ acked' = acked /\ dtog' = dtog
         \/ acked' = acked + 1 /\ dtog' = 1 - dtog
  BY <1>2 DEF Receive, HasPacket, Deliver
<1> DEFINE packet == [id |-> acked + 1, size |-> shape.ep.report]
<1>4. \/ dtog = chiptog /\ fifo' = packet /\ chiptog' = 1 - chiptog /\ hrsl' = "success"
      \/ dtog # chiptog /\ fifo' = fifo /\ chiptog' = chiptog
  BY <1>2 DEF Receive, Packet, Ends
<1>5. /\ acked \in Nat /\ acked' \in Nat /\ dtog \in Bit /\ dtog' \in Bit /\ got \in Nat
      /\ chiptog \in Bit /\ chiptog' \in Bit /\ rcvToggle \in Bit /\ made \in Nat
  BY <1>3, <1>4 DEF Inv, Numbers, Bit
<1>6. packet \in [id : Nat, size : Nat] /\ packet # NoPacket
  <2>1. shape.ep.report \in Nat
    BY Device DEF Inv
  <2>2. acked + 1 \in Nat /\ acked + 1 # 0
    BY <1>5
  <2> QED BY <2>1, <2>2 DEF NoPacket
<1>7. packet.id = acked + 1 /\ packet.size = shape.ep.report
  OBVIOUS
<1> HIDE DEF packet
<1>8. Flags'
  BY <1>1, OnTheBusFacts, Zenon DEF Inv, Flags
<1>9. Numbers'
  <2>1. fifo' \in [id : Nat, size : Nat]
    BY <1>4, <1>6 DEF Inv, Numbers
  <2> QED BY <1>1, <1>3, <1>5, <2>1, OnTheBusFacts, Zenon DEF Inv, Numbers
<1>10. /\ buf = <<>> /\ xfrlen = 0 /\ nbytes = PollLength /\ got <= made
       /\ chiptog = rcvToggle
       /\ IF dtog = chiptog THEN acked = got ELSE acked + 1 = got
  BY <1>2, OnTheBusFacts DEF Inv, PipeInv, Polling
<1>11. Received' /\ Polling'
  <2>1. CASE dtog = chiptog
    <3>1. fifo' = packet /\ chiptog' = 1 - chiptog /\ hrsl' = "success"
      BY <1>4, <2>1
    <3>2. fifo' # NoPacket /\ fifo'.id = got + 1 /\ fifo'.size = shape.ep.report /\ got < made
      BY <1>3, <1>6, <1>7, <1>10, <2>1, <3>1
    <3>3. chiptog' # rcvToggle /\ (IF dtog' = chiptog' THEN acked' = got + 1 ELSE acked' = got)
      BY <1>3, <1>5, <1>10, <2>1, <3>1 DEF Bit
    <3>4. Received'
      BY <1>1, <1>5, <3>1, <3>2, OnTheBusFacts DEF Received
    <3>5. Polling'
      BY <1>1, <1>10, <3>2, <3>3, OnTheBusFacts DEF Polling
    <3> QED BY <3>4, <3>5
  <2>2. CASE dtog # chiptog
    <3>1. fifo' = NoPacket /\ chiptog' = chiptog
      BY <1>4, <2>2, OnTheBusFacts
    <3>2. IF dtog' = chiptog' THEN acked' = got ELSE acked' + 1 = got
      <4>1. acked + 1 = got
        BY <1>10, <2>2
      <4>2. 1 - dtog = chiptog
        BY <1>5, <2>2, Flip
      <4>3. CASE acked' = acked /\ dtog' = dtog
        BY <2>2, <3>1, <4>1, <4>3
      <4>4. CASE acked' = acked + 1 /\ dtog' = 1 - dtog
        BY <3>1, <4>1, <4>2, <4>4
      <4> QED BY <1>3, <4>3, <4>4
    <3>3. Received'
      BY <3>1 DEF Received, NoPacket
    <3>4. Polling'
      BY <1>1, <1>10, <3>1, <3>2, OnTheBusFacts DEF Polling, NoPacket
    <3> QED BY <3>3, <3>4
  <2> QED BY <2>1, <2>2
<1>12. Fresh' /\ DataStage'
  BY <1>2, OnTheBusFacts DEF Fresh, DataStage
<1>13. Unpolled' /\ Between'
  BY <1>2, OnTheBusFacts DEF Unpolled, Between
<1>14. Agreed'
  BY <1>1, <1>2, OnTheBusFacts, Zenon DEF Inv, ProbeInv, Agreed
<1> QED BY <1>8, <1>9, <1>11, <1>12, <1>13, <1>14, OnTheBusFrame
        DEF Inv, TransferInv, PipeInv, ProbeInv

LEMMA EnvironmentStep ==
  ASSUME Inv, Environment, UNCHANGED probeVars
  PROVE  Inv'
<1>1. CASE OnTheBus
  <2>1. Refused \/ Receive \/ Setup \/ Status
    BY <1>1 DEF OnTheBus
  <2> QED BY <1>1, <2>1, RefusedStep, ReceiveData, ReceiveReport, SetupStep, StatusStep
<1> QED BY <1>1, MakeStep, DieStep DEF Environment

(* What XferDispatchPkt reports to its caller, who goes on with the next   *)
(* stage or returns.                                                       *)
LEMMA ContinueFacts ==
  ASSUME Inv, Continue, UNCHANGED probeVars
  PROVE  /\ pc = "return" /\ pc' \in {"idle", "launch"}
         /\ UNCHANGED <<kind, nbytes, chip, hrsl, configured, boot, pos, dtog0, made, acked,
                        dtog, shape, step, driver, ptr, clean>>
         /\ chip \in {"ready", "dead"}
<1>1. /\ pc = "return"
      /\ UNCHANGED <<kind, nbytes, chip, hrsl, configured, boot, pos, dtog0, made, acked,
                     dtog, shape, step, driver, ptr, clean>>
  BY DEF Continue, devVars, probeVars
<1>2. pc' \in {"idle", "launch"}
  BY DEF Continue, Finish, Dispatch, InTransfer, TakePacket
<1>3. chip \in {"ready", "dead"}
  BY <1>1 DEF Inv, Names, TransferInv, Turns
<1> QED BY <1>1, <1>2, <1>3

(* ... without a packet to read: the request is over, or its SETUP is.     *)
LEMMA ReturnStep ==
  ASSUME Inv, Continue, UNCHANGED probeVars,
         Finish, UNCHANGED <<xfrlen, buf, rcvToggle, fifo, chiptog, got>>,
         \/ rcode' = rcode /\ (rcode # "success" \/ token \in {"OUTHS", "INHS"})
         \/ rcode' = "0xf0" /\ fifo = NoPacket
  PROVE  Inv'
<1>1. /\ pc = "return" /\ pc' = "idle" /\ token' = token
      /\ chip \in {"ready", "dead"}
      /\ UNCHANGED <<kind, nbytes, xfrlen, buf, rcvToggle, chip, hrsl, fifo, chiptog,
                     configured, boot, pos, dtog0, made, acked, dtog, shape, got,
                     step, driver, ptr, clean>>
  BY ContinueFacts DEF Finish
<1>2. fifo = NoPacket
  BY <1>1 DEF Inv, TransferInv, Received, Succeeded
<1>3. Succeeded' => Succeeded /\ token \in {"OUTHS", "INHS"}
  BY <1>1 DEF Succeeded
<1>4. Flags' /\ Numbers'
  BY <1>1, Zenon DEF Inv, Flags, Numbers
<1>5. Names'
  BY <1>1 DEF Inv, Names
<1>6. Turns' /\ Received' /\ Fresh' /\ DataStage'
  BY <1>1, <1>2 DEF Turns, Received, Fresh, DataStage, NoPacket
<1>7. Stages'
  BY <1>1, <1>3 DEF Inv, TransferInv, Stages, Succeeded
<1>8. Whole'
  BY <1>1 DEF Inv, TransferInv, Whole, InOrderSoFar, Want
<1>9. Unpolled' /\ Polling'
  BY <1>1 DEF Inv, PipeInv, Unpolled, Polling
<1>10. Between'
  BY <1>1, <1>2 DEF Inv, PipeInv, ProbeInv, Between, Polling, Requests
<1>11. Requests' /\ Agreed'
  <2>1. Requests'
    BY <1>1 DEF Inv, ProbeInv, Requests
  <2>2. Agreed'
    BY <1>1, <1>3, Zenon DEF Inv, ProbeInv, Agreed
  <2> QED BY <2>1, <2>2
<1>12. Walk' /\ Refusals'
  BY <1>1, WalkStays DEF Inv, ProbeInv, probeVars
<1> QED BY <1>4, <1>5, <1>6, <1>7, <1>8, <1>9, <1>10, <1>11, <1>12
        DEF Inv, TransferInv, PipeInv, ProbeInv

(* ... the next stage of a request whose SETUP was taken.                  *)
LEMMA StageStep ==
  ASSUME Inv, Continue, UNCHANGED probeVars, rcode = "success", token = "SETUP",
         IF kind = "read" THEN InTransfer(1) ELSE Dispatch("INHS") /\ UNCHANGED <<xfrlen, chiptog>>,
         UNCHANGED <<rcode, buf, rcvToggle, fifo, got>>
  PROVE  Inv'
<1>1. /\ pc = "return" /\ pc' = "launch" /\ token = "SETUP" /\ rcode = "success"
      /\ chip \in {"ready", "dead"}
      /\ UNCHANGED <<kind, nbytes, buf, rcvToggle, chip, hrsl, fifo,
                     configured, boot, pos, dtog0, made, acked, dtog, shape, got,
                     step, driver, ptr, clean>>
  BY ContinueFacts DEF InTransfer, Dispatch
<1>2. /\ kind = "read" => token' = "IN" /\ chiptog' = 1 /\ xfrlen' = 0
      /\ kind # "read" => token' = "INHS" /\ chiptog' = chiptog /\ xfrlen' = xfrlen
  BY DEF InTransfer, Dispatch
<1>3. fifo = NoPacket /\ kind # "poll" /\ ~Succeeded'
  BY <1>1 DEF Inv, TransferInv, Received, Stages, Succeeded
<1>4. Flags'
  BY <1>1, Zenon DEF Inv, Flags
<1>5. Numbers'
  <2>1. xfrlen' \in Nat /\ chiptog' \in Bit
    BY <1>2 DEF Inv, Numbers, Bit
  <2> QED BY <1>1, <2>1, Zenon DEF Inv, Numbers
<1>6. Names'
  BY <1>1, <1>2 DEF Inv, Names
<1>7. Turns' /\ Received' /\ Stages' /\ Fresh' /\ Whole'
  BY <1>1, <1>2, <1>3 DEF Inv, Names, Turns, Received, Stages, Fresh, Whole, NoPacket
<1>8. DataStage'
  <2> SUFFICES ASSUME kind = "read" PROVE DataStage'
    BY <1>1 DEF DataStage
  <2>1. buf = <<>> /\ nbytes > 0 /\ pos = 0 /\ dtog0 = 1
    BY <1>1 DEF Inv, TransferInv, Fresh, Succeeded
  <2>2. Want' >= 0
    BY <1>1, <2>1, Device DEF Inv, Numbers, Want, Least
  <2>3. Taken' = 0 /\ InOrderSoFar' /\ Len(buf') * MaxPkt0 = 0
    BY <1>1, <1>3, <2>1, Sizes DEF Taken, InOrderSoFar
  <2> QED BY <1>1, <1>2, <1>3, <2>1, <2>2, <2>3 DEF DataStage, NoPacket
<1>9. PipeInv'
  BY <1>1, <1>3 DEF Inv, PipeInv, Unpolled, Between, Polling
<1>10. Requests' /\ Agreed'
  <2>1. Requests'
    BY <1>1 DEF Inv, ProbeInv, Requests
  <2>2. Agreed'
    BY <1>1, <1>3, Zenon DEF Inv, ProbeInv, Agreed
  <2> QED BY <2>1, <2>2
<1>11. Walk' /\ Refusals'
  BY <1>1, WalkStays DEF Inv, ProbeInv, probeVars
<1> QED BY <1>4, <1>5, <1>6, <1>7, <1>8, <1>9, <1>10, <1>11 DEF Inv, TransferInv, ProbeInv

(* ... a packet is read: what the sizes come to.                           *)
LEMMA DataPacket ==
  ASSUME NEW p \in Nat, NEW x \in Nat, NEW w \in Nat, NEW nb \in Nat,
         p > 0, x <= w, w <= nb
  PROVE  /\ Least(p, w - x) \in Nat
         /\ ~(Least(p, w - x) < p \/ x + Least(p, w - x) >= nb)
              => /\ Least(p, w - x) = p
                 /\ x + Least(p, w - x) < nb /\ x + Least(p, w - x) <= w
         /\ Least(p, w - x) < p \/ x + Least(p, w - x) >= nb
              => x + Least(p, w - x) = w
BY DEF Least

LEMMA TakeData ==
  ASSUME Inv, Continue, UNCHANGED probeVars, rcode = "success", token = "IN",
         fifo # NoPacket, TakePacket, UNCHANGED <<rcode, chiptog>>, kind = "read"
  PROVE  Inv'
<1>1. /\ pc = "return" /\ chip \in {"ready", "dead"} /\ fifo' = NoPacket
      /\ buf' = Append(buf, fifo.id) /\ xfrlen' = xfrlen + fifo.size
      /\ UNCHANGED <<kind, nbytes, rcvToggle, chip, hrsl, chiptog, rcode,
                     configured, boot, pos, dtog0, made, acked, dtog, shape, got,
                     step, driver, ptr, clean>>
  BY ContinueFacts DEF TakePacket, SaveToggle, HandOver
<1>2. /\ InOrderSoFar
      /\ xfrlen = Len(buf) * MaxPkt0 /\ xfrlen < nbytes /\ xfrlen <= Want
      /\ IF dtog0 = chiptog THEN pos = Len(buf) + 1 ELSE pos + 1 = Len(buf) + 1
      /\ fifo.id = Len(buf) + 1 /\ fifo.size = Least(MaxPkt0, Want - xfrlen)
  BY <1>1 DEF Inv, TransferInv, DataStage, Taken
<1>3. /\ buf \in Seq(Nat) /\ Len(buf) \in Nat /\ xfrlen \in Nat /\ nbytes \in Nat
      /\ MaxPkt0 \in Nat /\ MaxPkt0 > 0 /\ fifo.id \in Nat
  BY <1>2, Sizes DEF Inv, Numbers
<1>4. Want \in Nat /\ Want <= nbytes /\ Want' = Want
  BY <1>1, <1>3, Device DEF Inv, Want, Least
<1>5. /\ fifo.size \in Nat
      /\ ~(fifo.size < MaxPkt0 \/ xfrlen' >= nbytes)
           => xfrlen' = (Len(buf) + 1) * MaxPkt0 /\ xfrlen' < nbytes /\ xfrlen' <= Want
      /\ fifo.size < MaxPkt0 \/ xfrlen' >= nbytes => xfrlen' = Want
  <2> DEFINE size == Least(MaxPkt0, Want - xfrlen)
  <2>1. /\ size \in Nat
        /\ ~(size < MaxPkt0 \/ xfrlen + size >= nbytes)
             => /\ size = MaxPkt0
                /\ xfrlen + size < nbytes /\ xfrlen + size <= Want
        /\ size < MaxPkt0 \/ xfrlen + size >= nbytes => xfrlen + size = Want
    BY <1>2, <1>3, <1>4, DataPacket
  <2>2. (Len(buf) + 1) * MaxPkt0 = Len(buf) * MaxPkt0 + MaxPkt0
    BY <1>3
  <2>3. fifo.size = size /\ xfrlen' = xfrlen + size
    BY <1>1, <1>2
  <2> HIDE DEF size
  <2> QED BY <1>2, <2>1, <2>2, <2>3
<1>6. /\ pc' = "launch"
      /\ IF fifo.size < MaxPkt0 \/ xfrlen' >= nbytes THEN token' = "OUTHS" ELSE token' = "IN"
  BY DEF TakePacket, LastPacket, MaxPktSize, Dispatch
<1>7. Len(buf') = Len(buf) + 1 /\ InOrderSoFar' /\ buf' \in Seq(Nat)
  <2>1. Len(buf') = Len(buf) + 1 /\ buf' \in Seq(Nat)
    BY <1>1, <1>3
  <2>2. ASSUME NEW i \in 1 .. Len(buf) + 1 PROVE buf'[i] = i
    BY <1>1, <1>2, <1>3, <2>2 DEF InOrderSoFar
  <2> QED BY <2>1, <2>2 DEF InOrderSoFar
<1>8. Flags'
  BY <1>1, Zenon DEF Inv, Flags
<1>9. Numbers'
  <2>1. xfrlen' \in Nat /\ fifo' \in [id : Nat, size : Nat]
    BY <1>1, <1>3, <1>5 DEF NoPacket
  <2> QED BY <1>1, <1>7, <2>1, Zenon DEF Inv, Numbers
<1>10. Names'
  BY <1>1, <1>6 DEF Inv, Names
<1>11. Turns' /\ Received' /\ Stages' /\ Fresh'
  BY <1>1, <1>6 DEF Turns, Received, Stages, Fresh
<1>12. DataStage'
  <2> SUFFICES ASSUME ~(fifo.size < MaxPkt0 \/ xfrlen' >= nbytes) PROVE DataStage'
    BY <1>6 DEF DataStage
  <2>1. Taken' = Len(buf) + 1
    BY <1>1, <1>3, <1>7 DEF Taken
  <2>2. IF dtog0' = chiptog' THEN pos' = Taken' ELSE pos' + 1 = Taken'
    BY <1>1, <1>2, <2>1
  <2> QED BY <1>1, <1>4, <1>5, <1>7, <2>2 DEF DataStage
<1>13. Whole'
  BY <1>4, <1>5, <1>6, <1>7 DEF Whole
<1>14. PipeInv'
  BY <1>1, <1>6 DEF Inv, PipeInv, Unpolled, Between, Polling
<1>15. Requests' /\ Agreed'
  <2>1. Requests'
    BY <1>1, <1>6 DEF Inv, ProbeInv, Requests
  <2>2. Agreed'
    BY <1>1, <1>6, Zenon DEF Inv, ProbeInv, Agreed, Requests
  <2> QED BY <2>1, <2>2
<1>16. Walk' /\ Refusals'
  BY <1>1, WalkStays DEF Inv, ProbeInv, probeVars
<1> QED BY <1>8, <1>9, <1>10, <1>11, <1>12, <1>13, <1>14, <1>15, <1>16
        DEF Inv, TransferInv, ProbeInv

(* A poll ends with its first packet, which is handed over.                *)
LEMMA TakeReportFacts ==
  ASSUME Inv, Continue, UNCHANGED probeVars, rcode = "success", token = "IN",
         fifo # NoPacket, TakePacket, UNCHANGED <<rcode, chiptog>>, kind # "read"
  PROVE  /\ kind = "poll" /\ step = "running"
         /\ pc' = "idle" /\ token' = token /\ rcvToggle' = chiptog
         /\ fifo' = NoPacket /\ buf' \in Seq(Nat) /\ xfrlen' \in Nat
         /\ got < made /\ got' = got + 1
         /\ IF dtog = chiptog THEN acked = got + 1 ELSE acked = got
<1>1. /\ pc = "return" /\ chip \in {"ready", "dead"} /\ fifo' = NoPacket
      /\ buf' = Append(buf, fifo.id) /\ xfrlen' = xfrlen + fifo.size
      /\ step' = step
  BY ContinueFacts DEF TakePacket
<1>2. kind = "poll" /\ step = "running"
  BY <1>1 DEF Inv, Names, TransferInv, PipeInv, Stages, Unpolled
<1>3. /\ buf = <<>> /\ xfrlen = 0 /\ nbytes = PollLength
      /\ IF dtog = chiptog THEN acked = got + 1 ELSE acked = got
      /\ fifo.id = got + 1 /\ fifo.size = shape.ep.report /\ got < made
  BY <1>1, <1>2 DEF Inv, PipeInv, Polling
<1>4. /\ got \in Nat /\ shape.ep.report \in Nat
      /\ shape.ep.report < shape.ep.max \/ shape.ep.report >= PollLength
  BY Device DEF Inv, Numbers
<1>5. xfrlen' = shape.ep.report
  BY <1>1, <1>3, <1>4
<1>6. LastPacket
  BY <1>2, <1>3, <1>4, <1>5 DEF LastPacket, MaxPktSize
<1>7. SaveToggle /\ HandOver /\ Finish
  BY <1>2, <1>6 DEF TakePacket
<1>8. buf' = <<got + 1>>
  BY <1>1, <1>3
<1>9. got' = got + 1
  BY <1>2, <1>7, <1>8 DEF HandOver
<1>10. buf' \in Seq(Nat)
  BY <1>4, <1>8
<1> QED BY <1>1, <1>2, <1>3, <1>4, <1>5, <1>7, <1>9, <1>10 DEF SaveToggle, Finish

LEMMA TakeReport ==
  ASSUME Inv, Continue, UNCHANGED probeVars, rcode = "success", token = "IN",
         fifo # NoPacket, TakePacket, UNCHANGED <<rcode, chiptog>>, kind # "read"
  PROVE  Inv'
<1>1. /\ kind = "poll" /\ step = "running"
      /\ pc' = "idle" /\ token' = token /\ rcvToggle' = chiptog
      /\ fifo' = NoPacket /\ buf' \in Seq(Nat) /\ xfrlen' \in Nat
      /\ got < made /\ got' = got + 1
      /\ IF dtog = chiptog THEN acked = got + 1 ELSE acked = got
  BY TakeReportFacts
<1>2. /\ pc = "return" /\ chip \in {"ready", "dead"}
      /\ UNCHANGED <<kind, nbytes, chip, hrsl, chiptog, rcode,
                     configured, boot, pos, dtog0, made, acked, dtog, shape,
                     step, driver, ptr, clean>>
  BY ContinueFacts
<1>3. got \in Nat /\ made \in Nat /\ acked \in Nat /\ chiptog \in Bit
  BY DEF Inv, Numbers
<1>4. Flags'
  BY <1>2, Zenon DEF Inv, Flags
<1>5. Numbers'
  <2>1. fifo' \in [id : Nat, size : Nat] /\ got' \in Nat
    BY <1>1, <1>3 DEF NoPacket
  <2> QED BY <1>1, <1>2, <1>3, <2>1, Zenon DEF Inv, Numbers
<1>6. Names'
  BY <1>1, <1>2 DEF Inv, Names
<1>7. Turns' /\ Received' /\ Stages' /\ Fresh' /\ DataStage' /\ Whole'
  BY <1>1, <1>2 DEF Turns, Received, Stages, Fresh, DataStage, Whole
<1>8. Between'
  <2>1. IF dtog' = rcvToggle' THEN acked' = got' ELSE acked' + 1 = got'
    BY <1>1, <1>2, <1>3
  <2> QED BY <1>1, <1>2, <1>3, <2>1 DEF Between
<1>9. Unpolled' /\ Polling'
  BY <1>1, <1>2 DEF Unpolled, Polling
<1>10. Requests' /\ Agreed'
  <2>1. Requests'
    BY <1>1, <1>2 DEF Requests
  <2>2. Agreed'
    BY <1>1, <1>2, Zenon DEF Inv, ProbeInv, Agreed
  <2> QED BY <2>1, <2>2
<1>11. Walk' /\ Refusals'
  BY <1>2, WalkStays DEF Inv, ProbeInv, probeVars
<1> QED BY <1>4, <1>5, <1>6, <1>7, <1>8, <1>9, <1>10, <1>11
        DEF Inv, TransferInv, PipeInv, ProbeInv

LEMMA TransferStep ==
  ASSUME Inv, Transfer, UNCHANGED probeVars
  PROVE  Inv'
<1>1. CASE Continue
  <2>1. CASE /\ rcode # "success" \/ token \in {"OUTHS", "INHS"}
             /\ Finish
             /\ UNCHANGED <<rcode, xfrlen, buf, rcvToggle, fifo, chiptog, got>>
    BY <1>1, <2>1, ReturnStep
  <2>2. CASE /\ rcode = "success" /\ token = "SETUP"
             /\ IF kind = "read" THEN InTransfer(1)
                ELSE Dispatch("INHS") /\ UNCHANGED <<xfrlen, chiptog>>
             /\ UNCHANGED <<rcode, buf, rcvToggle, fifo, got>>
    BY <1>1, <2>2, StageStep
  <2>3. CASE /\ rcode = "success" /\ token = "IN" /\ fifo = NoPacket
             /\ rcode' = "0xf0"
             /\ Finish
             /\ UNCHANGED <<xfrlen, buf, rcvToggle, fifo, chiptog, got>>
    BY <1>1, <2>3, ReturnStep
  <2>4. CASE /\ rcode = "success" /\ token = "IN" /\ fifo # NoPacket
             /\ TakePacket
             /\ UNCHANGED <<rcode, chiptog>>
    BY <1>1, <2>4, TakeData, TakeReport
  <2> QED BY <1>1, <2>1, <2>2, <2>3, <2>4, Zenon DEF Continue
<1> QED BY <1>1, LaunchStep, AnsweredStep, GiveUpStep DEF Transfer

----------------------------------------------------------------------------
(* The walk: where its steps lead, and what they tell of the device.       *)

LEMMA Table ==
  /\ Len(ClientDriverTable) = 2
  /\ \A d \in 1 .. 2 : /\ ClientDriverTable[d] \in {"mouse", "keyboard"}
                       /\ ClientDriverTable[d] \in Interfaces
  /\ ClientDriverTable[1] = "mouse" /\ ClientDriverTable[2] = "keyboard"
BY DEF ClientDriverTable, Interfaces

LEMMA Ascending ==
  ASSUME Numbers
  PROVE  /\ Len(Conf) \in Nat
         /\ \A i \in 1 .. Len(Conf) + 1 : Offset(i) \in Nat
         /\ \A i, j \in 1 .. Len(Conf) + 1 : i < j => Offset(i) < Offset(j)
         /\ \A i \in 1 .. Len(Conf) : Offset(i + 1) = Offset(i) + Conf[i].len
         /\ shape.total = Offset(Len(Conf) + 1)
<1>1. Conf \in Seq(Descriptors) /\ Len(Conf) \in Nat
  BY Device DEF Conf
<1>2. \A i \in 1 .. Len(Conf) + 1 : Offset(i) \in Nat
  BY <1>1, OffsetsNat DEF Offset, Conf
<1>3. ASSUME NEW i \in 1 .. Len(Conf) + 1, NEW j \in 1 .. Len(Conf) + 1, i < j
      PROVE  Offset(i) < Offset(j)
  <2>1. i \in 1 .. j - 1
    BY <1>1, <1>3
  <2> QED BY <1>1, <2>1, OffsetsIncrease DEF Offset, Conf
<1>4. ASSUME NEW i \in 1 .. Len(Conf)
      PROVE  Offset(i + 1) = Offset(i) + Conf[i].len
  <2>1. i + 1 \in 1 .. Len(Conf) + 1 /\ i + 1 # 1 /\ (i + 1) - 1 = i
    BY <1>1
  <2> QED BY <1>1, <2>1, OffsetsAreStarts DEF Offset, Conf
<1>5. shape.total = Offset(Len(Conf) + 1)
  BY Device DEF Conf
<1> QED BY <1>1, <1>2, <1>3, <1>4, <1>5

(* byte_ptr points to a single descriptor, within what was read.           *)
LEMMA HereIs ==
  ASSUME Numbers, NEW i \in 1 .. Len(Conf) + 1, ptr = Offset(i), ptr < Window
  PROVE  /\ i \in 1 .. Len(Conf) /\ Here = Conf[i] /\ Offset(i) < BigBuf
         /\ i + 1 \in 1 .. Len(Conf) + 1
         /\ ptr + Here.len = Offset(i + 1) /\ ptr + Here.len \in Nat
<1>1. Offset(i) < BigBuf /\ Offset(i) < shape.total
  BY Ascending, Sizes DEF Window, Least
<1>2. i \in 1 .. Len(Conf)
  BY <1>1, Ascending
<1>3. \A k \in 1 .. Len(Conf) : Offset(k) = ptr => k = i
  <2> SUFFICES ASSUME NEW k \in 1 .. Len(Conf), Offset(k) = ptr, k # i PROVE FALSE
    OBVIOUS
  <2>1. k < i \/ i < k
    BY <1>2, Ascending
  <2> QED BY <1>2, <2>1, Ascending
<1>4. Here = Conf[i]
  BY <1>2, <1>3 DEF Here, Conf
<1> QED BY <1>1, <1>2, <1>4, Ascending

(* What a descriptor of the device that a probe could use is within what   *)
(* is read.                                                                *)
LEMMA Seen ==
  ASSUME Numbers, NEW i \in 1 .. Len(Conf) + 1, ptr = Offset(i), ptr >= Window,
         NEW k \in 1 .. Len(Conf), Offset(k) < BigBuf
  PROVE  k < i
<1>1. Offset(k) < shape.total
  BY Ascending
<1>2. Offset(k) < Offset(i)
  BY <1>1, Ascending, Sizes DEF Window, Least
<1> QED BY <1>2, Ascending

LEMMA SuitsMeans ==
  ASSUME NEW name
  PROVE  Suits(name) <=>
           \E i, j \in 1 .. Len(Conf) :
             /\ Offset(i) < BigBuf /\ Offset(j) < BigBuf
             /\ Conf[i].what = name
             /\ \A k \in 1 .. i - 1 : ~Belongs(k)
             /\ i < j /\ IsEndpoint(j)
BY DEF Suits, Conf, Belongs, IsEndpoint

(* A probe that finds another's interface, or nothing, is right to refuse. *)
LEMMA ForeignIsRefused ==
  ASSUME Numbers, Walk, Foreign
  PROVE  ~Suits(ClientDriverTable[driver])
<1> DEFINE name == ClientDriverTable[driver]
<1>1. driver \in 1 .. 2
  <2>1. step # "addressed" /\ driver \in 0 .. 2
    BY Table DEF Foreign, Numbers
  <2> QED BY <2>1 DEF Walk
<1>2. name \in Interfaces
  BY <1>1, Table
<1> SUFFICES ASSUME NEW i \in 1 .. Len(Conf), NEW j \in 1 .. Len(Conf),
                    Offset(i) < BigBuf, Offset(j) < BigBuf,
                    Conf[i].what = name,
                    \A k \in 1 .. i - 1 : ~Belongs(k),
                    i < j, IsEndpoint(j)
             PROVE  FALSE
  BY SuitsMeans
<1>3. Belongs(i)
  BY <1>2 DEF Belongs
<1> HIDE DEF name
<1>4. CASE step = "interface"
  <2>1. PICK p \in 1 .. Len(Conf) + 1 : ptr = Offset(p) /\ \A k \in 1 .. p - 1 : ~Belongs(k)
    BY <1>4 DEF Walk
  <2>2. p <= i
    BY <1>3, <2>1, Ascending
  <2>3. CASE ptr >= Window
    BY <2>1, <2>2, <2>3, Ascending, Seen
  <2>4. CASE ptr < Window /\ Here.what \in Interfaces \ {name}
    <3>1. p \in 1 .. Len(Conf) /\ Here = Conf[p]
      BY <2>1, <2>4, HereIs
    <3>2. Belongs(p) /\ p # i
      BY <2>4, <3>1 DEF Belongs
    <3> QED BY <2>2, <3>1, <3>2, Ascending
  <2> QED BY <1>4, <2>3, <2>4 DEF Foreign, name
<1>5. CASE step = "endpoint"
  <2>1. PICK f \in 1 .. Len(Conf), p \in 1 .. Len(Conf) + 1 :
          /\ Found(f) /\ f < p /\ ptr = Offset(p)
          /\ \A k \in f + 1 .. p - 1 : ~IsEndpoint(k)
    BY <1>5, Zenon DEF Walk
  <2>2. Belongs(f) /\ \A k \in 1 .. f - 1 : ~Belongs(k)
    BY <1>2, <2>1 DEF Found, Belongs, name
  <2>3. f = i
    <3>1. ~(f < i) /\ ~(i < f)
      BY <1>3, <2>2, Ascending
    <3> QED BY <3>1, Ascending
  <2>4. ptr >= Window
    BY <1>5 DEF Foreign
  <2>5. j < p
    BY <2>1, <2>4, Seen
  <2> QED BY <2>1, <2>3, <2>5, Ascending
<1> QED BY <1>4, <1>5 DEF Foreign

----------------------------------------------------------------------------
(* The steps of USB_Task and of the probes                                 *)

LEMMA Idle ==
  ASSUME Inv, pc = "idle"
  PROVE  chip \in {"ready", "dead"} /\ fifo = NoPacket
BY DEF Inv, Names, TransferInv, Turns, Received

(* A request that is started.                                              *)
LEMMA AskStep ==
  ASSUME Inv, pc = "idle", step # "running", step' \in Steps \ {"running"},
         driver' \in 0 .. Len(ClientDriverTable), ptr' \in Nat,
         NEW what \in {"read", "configure", "boot"}, NEW n \in Nat, what = "read" => n > 0,
         Ask(what, n), UNCHANGED rcvToggle,
         step' \in {"endpoint", "configure", "boot"} => rcvToggle = 0
  PROVE  /\ pc' = "launch" /\ kind' = what /\ token' = "SETUP" /\ ~Succeeded'
         /\ UNCHANGED <<configured, boot, shape>>
         /\ Names' /\ Numbers' /\ TransferInv' /\ PipeInv'
<1>1. /\ pc' = "launch" /\ kind' = what /\ token' = "SETUP" /\ nbytes' = n
      /\ buf' = <<>> /\ xfrlen' = 0
      /\ UNCHANGED <<rcvToggle, chip, hrsl, fifo, chiptog, configured, boot, pos, dtog0,
                     made, acked, dtog, shape, got>>
  BY DEF Ask, Dispatch, chipVars, devVars
<1>2. chip \in {"ready", "dead"} /\ fifo = NoPacket
  BY Idle
<1>3. ~Succeeded'
  BY <1>1 DEF Succeeded
<1>4. Names'
  BY <1>1 DEF Inv, Names
<1>5. Numbers'
  <2>1. buf' \in Seq(Nat) /\ xfrlen' \in Nat /\ nbytes' \in Nat
    BY <1>1
  <2> QED BY <1>1, <2>1, Zenon DEF Inv, Numbers
<1>6. TransferInv'
  BY <1>1, <1>2, <1>3
  DEF TransferInv, Turns, Received, Stages, Fresh, DataStage, Whole, NoPacket
<1>7. PipeInv'
  BY <1>1 DEF Inv, PipeInv, Unpolled, Between, Polling
<1> QED BY <1>1, <1>3, <1>4, <1>5, <1>6, <1>7

(* A step without a transfer.                                              *)
LEMMA QuietStep ==
  ASSUME Inv, pc = "idle", step' \in Steps, driver' \in 0 .. Len(ClientDriverTable),
         ptr' \in Nat, rcvToggle' \in Bit,
         UNCHANGED <<pc, kind, token, nbytes, xfrlen, buf, rcode, chip, hrsl, fifo, chiptog,
                     configured, boot, pos, dtog0, made, acked, dtog, shape, got>>
  PROVE  /\ Names' /\ Numbers' /\ TransferInv' /\ Polling'
         /\ Succeeded' <=> Succeeded
<1>1. Succeeded' <=> Succeeded
  BY DEF Succeeded
<1>2. Names'
  BY DEF Inv, Names
<1>3. Numbers'
  BY Zenon DEF Inv, Numbers
<1>4. TransferInv'
  BY Idle, <1>1 DEF Inv, TransferInv, Turns, Received, Stages, Fresh, DataStage, Whole, Want, InOrderSoFar
<1>5. Polling'
  BY DEF Polling
<1> QED BY <1>1, <1>2, <1>3, <1>4, <1>5

(* The next probe: those before it have refused the device.                *)
LEMMA RejectStep ==
  ASSUME Inv, pc = "idle", Reject
  PROVE  Inv'
<1>1. step \in Steps \ {"running", "error"} /\ clean' = (clean /\ ~Failed)
  BY DEF Inv, Names, Reject, Failed, Foreign, Steps
<1>2. Flags'
  <2>1. clean' \in BOOLEAN
    BY <1>1
  <2>2. UNCHANGED <<configured, boot>>
    BY DEF Reject, NextDriver, Ask, devVars, vars
  <2> QED BY <2>1, <2>2, Zenon DEF Inv, Flags
<1>3. shape' = shape
  BY DEF Reject, NextDriver, Ask, devVars, vars
<1>4. driver \in 0 .. 2 /\ (step = "addressed" => driver = 0)
  BY Table DEF Inv, Numbers, ProbeInv, Walk
<1>5. clean' => \A d \in 1 .. driver : ~Suits(ClientDriverTable[d])
  <2> SUFFICES ASSUME clean' PROVE \A d \in 1 .. driver : ~Suits(ClientDriverTable[d])
    OBVIOUS
  <2>1. clean /\ (step = "addressed" \/ Foreign)
    BY <1>1 DEF Reject
  <2>2. \A d \in 1 .. driver - 1 : ~Suits(ClientDriverTable[d])
    BY <2>1 DEF Inv, ProbeInv, Refusals
  <2>3. driver \in 1 .. driver => ~Suits(ClientDriverTable[driver])
    BY <1>4, <2>1, ForeignIsRefused DEF Inv, ProbeInv
  <2>4. \A d \in 1 .. driver : d = driver \/ d \in 1 .. driver - 1
    BY <1>4
  <2> QED BY <2>2, <2>3, <2>4
<1>6. \A d : Suits(ClientDriverTable[d])' <=> Suits(ClientDriverTable[d])
  <2>1. ClientDriverTable' = ClientDriverTable
    BY DEF ClientDriverTable
  <2> QED BY <1>3, <2>1, SuitsStays
<1>7. CASE /\ driver < Len(ClientDriverTable)
           /\ driver' = driver + 1
           /\ Ask("read", ConfDescrLen)
           /\ step' = "head" /\ ptr' = 0
           /\ UNCHANGED rcvToggle
  <2>1. driver < 2 /\ driver' \in 0 .. Len(ClientDriverTable) /\ driver' # 0
    BY <1>4, <1>7, Table
  <2>2. /\ pc' = "launch" /\ kind' = "read"
        /\ Names' /\ Numbers' /\ TransferInv' /\ PipeInv'
    BY <1>1, <1>7, <2>1, AskStep, Sizes DEF Steps
  <2>3. Requests' /\ Agreed'
    BY <1>7, <2>2 DEF Requests, Agreed
  <2>4. Walk'
    BY <1>7, <2>1 DEF Walk
  <2>5. Refusals'
    <3>1. \A d \in 1 .. driver' - 1 : d \in 1 .. driver
      BY <1>4, <1>7
    <3> QED BY <1>5, <1>6, <1>7, <3>1 DEF Refusals
  <2> QED BY <1>2, <2>2, <2>3, <2>4, <2>5 DEF Inv, ProbeInv
<1>8. CASE /\ driver = Len(ClientDriverTable)
           /\ step' = "error"
           /\ UNCHANGED <<vars, driver, ptr>>
  <2>1. driver = 2 /\ driver' = 2 /\ driver' \in 0 .. Len(ClientDriverTable) /\ ptr' \in Nat
    BY <1>8, Table DEF Inv, Numbers
  <2>2. UNCHANGED <<pc, kind, token, nbytes, xfrlen, buf, rcode, rcvToggle, chip, hrsl, fifo, chiptog,
                    configured, boot, pos, dtog0, made, acked, dtog, shape, got>>
    BY <1>8 DEF vars, hostVars, chipVars, devVars
  <2>3. Names' /\ Numbers' /\ TransferInv' /\ Polling'
    <3>1. rcvToggle' \in Bit
      BY <2>2 DEF Inv, Numbers
    <3> QED BY <1>8, <2>1, <2>2, <3>1, QuietStep DEF Steps
  <2>4. Unpolled' /\ Between'
    BY <1>1, <1>8, <2>2 DEF Inv, PipeInv, Unpolled, Between
  <2>5. Requests' /\ Agreed'
    BY <1>8, <2>2 DEF Requests, Agreed
  <2>6. Walk'
    BY <1>8, <2>1 DEF Walk
  <2>7. Refusals'
    BY <1>5, <1>6, <1>8, <2>1 DEF Refusals
  <2> QED BY <1>2, <2>3, <2>4, <2>5, <2>6, <2>7 DEF Inv, PipeInv, ProbeInv
<1> QED BY <1>7, <1>8 DEF Reject, NextDriver

(* A verdict that is not touched.                                          *)
LEMMA RefusalsStay ==
  ASSUME Inv, UNCHANGED <<shape, driver, clean>>, step' = "error" => step = "error"
  PROVE  Refusals'
<1>1. ClientDriverTable' = ClientDriverTable
  BY DEF ClientDriverTable
<1>2. \A d : Suits(ClientDriverTable[d])' <=> Suits(ClientDriverTable[d])
  BY <1>1, SuitsStays
<1> QED BY <1>2 DEF Inv, ProbeInv, Refusals

LEMMA WalkIsStable ==
  ASSUME Numbers, UNCHANGED <<shape, driver>>
  PROVE  /\ Conf' = Conf /\ \A i : Offset(i)' = Offset(i)
         /\ \A i : (Found(i)' <=> Found(i)) /\ (Belongs(i)' <=> Belongs(i))
                   /\ (IsEndpoint(i)' <=> IsEndpoint(i))
         /\ Suits(ClientDriverTable[driver])' <=> Suits(ClientDriverTable[driver])
<1>1. Conf' = Conf
  BY DEF Conf
<1>2. \A i : Offset(i)' = Offset(i)
  BY Zenon DEF Offset
<1>3. \A i : (Belongs(i)' <=> Belongs(i)) /\ (IsEndpoint(i)' <=> IsEndpoint(i))
  BY <1>1, Zenon DEF Belongs, IsEndpoint
<1>4. \A i : Found(i)' <=> Found(i)
  BY <1>1, <1>2, <1>3, Zenon DEF Found
<1>5. Suits(ClientDriverTable[driver])' <=> Suits(ClientDriverTable[driver])
  BY Zenon DEF Suits, Offset
<1> QED BY <1>1, <1>2, <1>3, <1>4, <1>5

LEMMA ReadWholeStep ==
  ASSUME Inv, pc = "idle", ReadWhole
  PROVE  Inv'
<1>1. /\ step = "head" /\ step' = "whole" /\ Ask("read", Window)
      /\ UNCHANGED <<driver, ptr, clean, rcvToggle>>
  BY DEF ReadWhole
<1>2. Window \in Nat /\ Window > 0
  BY Device, Sizes DEF Inv, Window, Least
<1>3. /\ pc' = "launch" /\ kind' = "read" /\ UNCHANGED <<configured, boot, shape>>
      /\ Names' /\ Numbers' /\ TransferInv' /\ PipeInv'
  BY <1>1, <1>2, AskStep DEF Inv, Numbers, Steps
<1>4. Flags'
  BY <1>1, <1>3, Zenon DEF Inv, Flags
<1>5. Requests' /\ Agreed'
  BY <1>1, <1>3 DEF Requests, Agreed
<1>6. Walk' /\ Refusals'
  BY <1>1, <1>3, RefusalsStay DEF Inv, ProbeInv, Walk
<1> QED BY <1>3, <1>4, <1>5, <1>6 DEF Inv, ProbeInv

LEMMA TakeEndpointStep ==
  ASSUME Inv, pc = "idle", TakeEndpoint
  PROVE  Inv'
<1>1. /\ step = "endpoint" /\ step' = "configure" /\ Ask("configure", 0)
      /\ ptr < Window /\ Here.what = "endpoint"
      /\ UNCHANGED <<driver, ptr, clean, rcvToggle>>
  BY DEF TakeEndpoint
<1>2. /\ pc' = "launch" /\ kind' = "configure" /\ token' = "SETUP"
      /\ UNCHANGED <<configured, boot, shape>>
      /\ Names' /\ Numbers' /\ TransferInv' /\ PipeInv'
  BY <1>1, AskStep DEF Inv, Numbers, PipeInv, Unpolled, Steps
<1>3. Flags'
  BY <1>1, <1>2, Zenon DEF Inv, Flags
<1>4. Requests' /\ Agreed'
  BY <1>1, <1>2 DEF Requests, Agreed
<1>5. Suits(ClientDriverTable[driver])
  <2>1. PICK f \in 1 .. Len(Conf), p \in 1 .. Len(Conf) + 1 :
          /\ Found(f) /\ f < p /\ ptr = Offset(p)
          /\ \A k \in f + 1 .. p - 1 : ~IsEndpoint(k)
    BY <1>1, Zenon DEF Inv, ProbeInv, Walk
  <2>2. p \in 1 .. Len(Conf) /\ Here = Conf[p] /\ Offset(p) < BigBuf
    BY <1>1, <2>1, HereIs DEF Inv
  <2>3. IsEndpoint(p)
    BY <1>1, <2>2 DEF IsEndpoint
  <2> QED BY <2>1, <2>2, <2>3, SuitsMeans DEF Found
<1>6. Walk'
  <2>1. Suits(ClientDriverTable[driver])'
    BY <1>1, <1>2, <1>5, WalkIsStable DEF Inv
  <2> QED BY <1>1, <2>1 DEF Inv, ProbeInv, Walk
<1>7. Refusals'
  BY <1>1, <1>2, RefusalsStay
<1> QED BY <1>2, <1>3, <1>4, <1>6, <1>7 DEF Inv, ProbeInv

LEMMA SetProtocolStep ==
  ASSUME Inv, pc = "idle", SetProtocol
  PROVE  Inv'
<1>1. /\ step = "configure" /\ step' = "boot" /\ Ask("boot", 0) /\ rcode = "success"
      /\ UNCHANGED <<driver, ptr, clean, rcvToggle>>
  BY DEF SetProtocol
<1>2. /\ pc' = "launch" /\ kind' = "boot" /\ token' = "SETUP"
      /\ UNCHANGED <<configured, boot, shape>>
      /\ Names' /\ Numbers' /\ TransferInv' /\ PipeInv'
  BY <1>1, AskStep DEF Inv, Numbers, PipeInv, Unpolled, Steps
<1>3. Flags'
  BY <1>1, <1>2, Zenon DEF Inv, Flags
<1>4. configured
  <2>1. token = "INHS" /\ Succeeded
    BY <1>1 DEF Inv, TransferInv, ProbeInv, Stages, Requests, Succeeded
  <2> QED BY <1>1, <2>1 DEF Inv, ProbeInv, Agreed
<1>5. Requests' /\ Agreed'
  <2>1. Requests'
    BY <1>1, <1>2 DEF Requests
  <2>2. configured'
    BY <1>2, <1>4, Zenon
  <2> QED BY <1>1, <1>2, <2>1, <2>2 DEF Agreed
<1>6. Walk'
  <2>1. Suits(ClientDriverTable[driver])'
    BY <1>1, <1>2, WalkIsStable DEF Inv, ProbeInv, Walk
  <2> QED BY <1>1, <2>1 DEF Inv, ProbeInv, Walk
<1>7. Refusals'
  BY <1>1, <1>2, RefusalsStay
<1> QED BY <1>2, <1>3, <1>5, <1>6, <1>7 DEF Inv, ProbeInv

LEMMA StartWalkStep ==
  ASSUME Inv, pc = "idle", StartWalk
  PROVE  Inv'
<1>1. /\ step = "whole" /\ step' = "interface" /\ UNCHANGED <<driver, ptr, clean>>
      /\ UNCHANGED <<pc, kind, token, nbytes, xfrlen, buf, rcode, rcvToggle, chip, hrsl, fifo,
                     chiptog, configured, boot, pos, dtog0, made, acked, dtog, shape, got>>
  BY DEF StartWalk, vars, hostVars, chipVars, devVars
<1>2. Names' /\ Numbers' /\ TransferInv' /\ Polling'
  BY <1>1, QuietStep DEF Inv, Numbers, Steps
<1>3. Flags'
  BY <1>1, Zenon DEF Inv, Flags
<1>4. Unpolled' /\ Between'
  BY <1>1 DEF Inv, PipeInv, Unpolled, Between
<1>5. Requests' /\ Agreed'
  BY <1>1 DEF Requests, Agreed
<1>6. Walk'
  <2>1. ptr' = Offset(1)' /\ 1 \in 1 .. Len(Conf') + 1
    <3>1. ptr = 0
      BY <1>1 DEF Inv, ProbeInv, Walk
    <3>2. Offset(1) = 0 /\ Len(Conf) \in Nat
      <4>1. Conf \in Seq(Descriptors) /\ Len(Conf) \in Nat
        BY Device DEF Inv, Conf
      <4> QED BY <4>1, OffsetsAreStarts DEF Offset, Conf
    <3> QED BY <1>1, <3>1, <3>2, WalkIsStable DEF Inv
  <2>2. \A k \in 1 .. 1 - 1 : ~Belongs(k)'
    OBVIOUS
  <2> QED BY <1>1, <2>1, <2>2 DEF Inv, ProbeInv, Walk
<1>7. Refusals'
  BY <1>1, RefusalsStay
<1> QED BY <1>2, <1>3, <1>4, <1>5, <1>6, <1>7 DEF Inv, PipeInv, ProbeInv

LEMMA SkipDescriptorStep ==
  ASSUME Inv, pc = "idle", SkipDescriptor
  PROVE  Inv'
<1>1. /\ ptr < Window /\ ptr' = ptr + Here.len
      /\ \/ step = "interface" /\ Here.what \notin Interfaces
         \/ step = "endpoint" /\ Here.what # "endpoint"
      /\ UNCHANGED <<step, driver, clean>>
      /\ UNCHANGED <<pc, kind, token, nbytes, xfrlen, buf, rcode, rcvToggle, chip, hrsl, fifo,
                     chiptog, configured, boot, pos, dtog0, made, acked, dtog, shape, got>>
  BY DEF SkipDescriptor, Skip, vars, hostVars, chipVars, devVars
<1>2. ptr' \in Nat /\ Walk'
  <2>1. CASE step = "interface"
    <3>1. PICK p \in 1 .. Len(Conf) + 1 :
            ptr = Offset(p) /\ \A k \in 1 .. p - 1 : ~Belongs(k)
      BY <2>1 DEF Inv, ProbeInv, Walk
    <3>2. /\ p \in 1 .. Len(Conf) /\ Here = Conf[p] /\ p + 1 \in 1 .. Len(Conf) + 1
          /\ ptr' = Offset(p + 1) /\ ptr' \in Nat
      BY <1>1, <3>1, HereIs DEF Inv
    <3>3. ~Belongs(p)
      BY <1>1, <2>1, <3>2 DEF Belongs
    <3>4. \A k \in 1 .. (p + 1) - 1 : ~Belongs(k)
      <4>1. \A k \in 1 .. (p + 1) - 1 : k = p \/ k \in 1 .. p - 1
        BY <3>2, Ascending DEF Inv
      <4> QED BY <3>1, <3>3, <4>1
    <3>5. /\ p + 1 \in 1 .. Len(Conf') + 1 /\ ptr' = Offset(p + 1)'
          /\ \A k \in 1 .. (p + 1) - 1 : ~Belongs(k)'
      BY <1>1, <3>2, <3>4, WalkIsStable DEF Inv
    <3> QED BY <1>1, <2>1, <3>2, <3>5 DEF Inv, ProbeInv, Walk
  <2>2. CASE step = "endpoint"
    <3>1. PICK f \in 1 .. Len(Conf), p \in 1 .. Len(Conf) + 1 :
            /\ Found(f) /\ f < p /\ ptr = Offset(p)
            /\ \A k \in f + 1 .. p - 1 : ~IsEndpoint(k)
      BY <2>2, Zenon DEF Inv, ProbeInv, Walk
    <3>2. /\ p \in 1 .. Len(Conf) /\ Here = Conf[p] /\ p + 1 \in 1 .. Len(Conf) + 1
          /\ ptr' = Offset(p + 1) /\ ptr' \in Nat
      BY <1>1, <3>1, HereIs DEF Inv
    <3>3. ~IsEndpoint(p)
      BY <1>1, <2>2, <3>2 DEF IsEndpoint
    <3>4. \A k \in f + 1 .. (p + 1) - 1 : ~IsEndpoint(k)
      <4>1. \A k \in f + 1 .. (p + 1) - 1 : k = p \/ k \in f + 1 .. p - 1
        BY <3>2, Ascending DEF Inv
      <4> QED BY <3>1, <3>3, <4>1
    <3>5. f < p + 1
      BY <3>1, Ascending DEF Inv
    <3>6. /\ f \in 1 .. Len(Conf') /\ p + 1 \in 1 .. Len(Conf') + 1
          /\ Found(f)' /\ f < p + 1 /\ ptr' = Offset(p + 1)'
          /\ \A k \in f + 1 .. (p + 1) - 1 : ~IsEndpoint(k)'
      BY <1>1, <3>1, <3>2, <3>4, <3>5, WalkIsStable DEF Inv
    <3> QED BY <1>1, <2>2, <3>2, <3>6 DEF Inv, ProbeInv, Walk
  <2> QED BY <1>1, <2>1, <2>2
<1>3. Names' /\ Numbers' /\ TransferInv' /\ Polling' /\ (Succeeded' <=> Succeeded)
  BY <1>1, <1>2, QuietStep DEF Inv, Names, Numbers
<1>4. Flags'
  BY <1>1, Zenon DEF Inv, Flags
<1>5. Unpolled' /\ Between'
  BY <1>1 DEF Inv, PipeInv, Unpolled, Between
<1>6. Requests' /\ Agreed'
  BY <1>1 DEF Inv, ProbeInv, Requests, Agreed
<1>7. Refusals'
  BY <1>1, RefusalsStay
<1> QED BY <1>2, <1>3, <1>4, <1>5, <1>6, <1>7 DEF Inv, PipeInv, ProbeInv

LEMMA TakeInterfaceStep ==
  ASSUME Inv, pc = "idle", TakeInterface
  PROVE  Inv'
<1>1. /\ step = "interface" /\ step' = "endpoint" /\ ptr < Window
      /\ ptr' = ptr + Here.len /\ rcvToggle' = 0
      /\ Here.what = ClientDriverTable[driver]
      /\ UNCHANGED <<driver, clean>>
      /\ UNCHANGED <<pc, kind, token, nbytes, xfrlen, buf, rcode, chip, hrsl, fifo,
                     chiptog, configured, boot, pos, dtog0, made, acked, dtog, shape, got>>
  BY DEF TakeInterface, Skip, chipVars, devVars
<1>2. ptr' \in Nat /\ Walk'
  <2>1. PICK p \in 1 .. Len(Conf) + 1 :
          ptr = Offset(p) /\ \A k \in 1 .. p - 1 : ~Belongs(k)
    BY <1>1 DEF Inv, ProbeInv, Walk
  <2>2. /\ p \in 1 .. Len(Conf) /\ Here = Conf[p] /\ p + 1 \in 1 .. Len(Conf) + 1
        /\ Offset(p) < BigBuf /\ ptr' = Offset(p + 1) /\ ptr' \in Nat
    BY <1>1, <2>1, HereIs DEF Inv
  <2>3. Found(p)
    BY <1>1, <2>1, <2>2 DEF Found
  <2>4. p < p + 1 /\ p + 1 .. (p + 1) - 1 = {}
    BY <2>2, Ascending DEF Inv
  <2>5. /\ p \in 1 .. Len(Conf') /\ p + 1 \in 1 .. Len(Conf') + 1
        /\ Found(p)' /\ p < p + 1 /\ ptr' = Offset(p + 1)'
        /\ \A k \in p + 1 .. (p + 1) - 1 : ~IsEndpoint(k)'
    BY <1>1, <2>2, <2>3, <2>4, WalkIsStable DEF Inv
  <2> QED BY <1>1, <2>2, <2>5 DEF Inv, ProbeInv, Walk
<1>3. Names' /\ Numbers' /\ TransferInv' /\ Polling'
  <2>1. rcvToggle' \in Bit
    BY <1>1 DEF Bit
  <2> QED BY <1>1, <1>2, <2>1, QuietStep DEF Inv, Numbers, Steps
<1>4. Flags'
  BY <1>1, Zenon DEF Inv, Flags
<1>5. Unpolled' /\ Between'
  BY <1>1 DEF Inv, PipeInv, Unpolled, Between
<1>6. Requests' /\ Agreed'
  BY <1>1 DEF Requests, Agreed
<1>7. Refusals'
  BY <1>1, RefusalsStay
<1> QED BY <1>2, <1>3, <1>4, <1>5, <1>6, <1>7 DEF Inv, PipeInv, ProbeInv

LEMMA AcceptStep ==
  ASSUME Inv, pc = "idle", Accept
  PROVE  Inv'
<1>1. /\ step = "boot" /\ step' = "running" /\ rcode = "success" /\ UNCHANGED <<driver, ptr, clean>>
      /\ UNCHANGED <<pc, kind, token, nbytes, xfrlen, buf, rcode, rcvToggle, chip, hrsl, fifo,
                     chiptog, configured, boot, pos, dtog0, made, acked, dtog, shape, got>>
  BY DEF Accept, vars, hostVars, chipVars, devVars
<1>2. Names' /\ Numbers' /\ TransferInv' /\ Polling'
  BY <1>1, QuietStep DEF Inv, Numbers, Steps
<1>3. Flags'
  BY <1>1, Zenon DEF Inv, Flags
<1>4. Unpolled' /\ Between'
  BY <1>1 DEF Inv, Numbers, PipeInv, Unpolled, Between
<1>5. configured /\ boot
  <2>1. token = "INHS" /\ Succeeded
    BY <1>1 DEF Inv, TransferInv, ProbeInv, Stages, Requests, Succeeded
  <2> QED BY <1>1, <2>1 DEF Inv, ProbeInv, Agreed
<1>6. Requests' /\ Agreed'
  <2>1. Requests'
    BY <1>1 DEF Requests
  <2>2. configured' /\ boot'
    BY <1>1, <1>5, Zenon
  <2> QED BY <1>1, <2>1, <2>2 DEF Agreed
<1>7. Walk'
  <2>1. Suits(ClientDriverTable[driver])'
    BY <1>1, WalkIsStable DEF Inv, ProbeInv, Walk
  <2> QED BY <1>1, <2>1 DEF Inv, ProbeInv, Walk
<1>8. Refusals'
  BY <1>1, RefusalsStay
<1> QED BY <1>2, <1>3, <1>4, <1>6, <1>7, <1>8 DEF Inv, PipeInv, ProbeInv

LEMMA KeepPollingStep ==
  ASSUME Inv, pc = "idle", KeepPolling
  PROVE  Inv'
<1>1. /\ step = "running" /\ kind' = "poll" /\ nbytes' = PollLength /\ buf' = <<>>
      /\ chiptog' = rcvToggle /\ xfrlen' = 0 /\ token' = "IN" /\ pc' = "launch"
      /\ UNCHANGED <<rcvToggle, chip, hrsl, fifo, configured, boot, pos, dtog0, made, acked,
                     dtog, shape, got, step, driver, ptr, clean>>
  BY DEF KeepPolling, Poll, InTransfer, Dispatch, devVars, probeVars
<1>2. chip \in {"ready", "dead"} /\ fifo = NoPacket
  BY Idle
<1>3. Flags'
  BY <1>1, Zenon DEF Inv, Flags
<1>4. Names'
  BY <1>1 DEF Inv, Names
<1>5. Numbers'
  <2>1. buf' \in Seq(Nat) /\ xfrlen' \in Nat /\ nbytes' \in Nat /\ chiptog' \in Bit
    BY <1>1, Sizes DEF Inv, Numbers
  <2> QED BY <1>1, <2>1, Zenon DEF Inv, Numbers
<1>6. TransferInv'
  BY <1>1, <1>2 DEF TransferInv, Turns, Received, Stages, Fresh, DataStage, Whole, NoPacket
<1>7. PipeInv'
  BY <1>1, <1>2 DEF Inv, PipeInv, Unpolled, Between, Polling
<1>8. Requests' /\ Agreed'
  <2>1. Requests'
    BY <1>1 DEF Requests
  <2>2. Agreed'
    BY <1>1, Zenon DEF Inv, ProbeInv, Agreed
  <2> QED BY <2>1, <2>2
<1>9. Walk' /\ Refusals'
  BY <1>1, WalkStays DEF Inv, ProbeInv, probeVars
<1> QED BY <1>3, <1>4, <1>5, <1>6, <1>7, <1>8, <1>9 DEF Inv, ProbeInv

LEMMA StutterStep ==
  ASSUME Inv, UNCHANGED allVars
  PROVE  Inv'
<1>1. /\ UNCHANGED <<pc, kind, token, nbytes, xfrlen, buf, rcode, rcvToggle, chip, hrsl, fifo,
                     chiptog, configured, boot, pos, dtog0, made, acked, dtog, shape, got,
                     step, driver, ptr, clean>>
  BY DEF allVars, vars, hostVars, chipVars, devVars, probeVars
<1>2. Succeeded' <=> Succeeded
  BY <1>1, Zenon DEF Succeeded
<1>3. Flags' /\ Names' /\ Numbers'
  BY <1>1, Zenon DEF Inv, Flags, Names, Numbers
<1>4. TransferInv'
  BY <1>1, <1>2, Zenon DEF Inv, TransferInv, Turns, Received, Stages, Fresh, DataStage, Whole,
                           InOrderSoFar, Want, Taken
<1>5. PipeInv'
  BY <1>1, Zenon DEF Inv, PipeInv, Unpolled, Between, Polling
<1>6. Requests' /\ Agreed'
  BY <1>1, <1>2, Zenon DEF Inv, ProbeInv, Requests, Agreed
<1>7. Walk' /\ Refusals'
  BY <1>1, WalkStays DEF Inv, ProbeInv, probeVars
<1> QED BY <1>3, <1>4, <1>5, <1>6, <1>7 DEF Inv, ProbeInv

LEMMA CallerStep ==
  ASSUME Inv, Caller
  PROVE  Inv'
<1>1. pc = "idle"
  BY DEF Caller
<1>2. CASE Stay
  BY <1>2, StutterStep DEF Stay
<1> QED BY <1>1, <1>2, RejectStep, ReadWholeStep, StartWalkStep, SkipDescriptorStep,
           TakeInterfaceStep, TakeEndpointStep, SetProtocolStep, AcceptStep, KeepPollingStep
        DEF Caller

LEMMA InitInv ==
  ASSUME ProbeInit
  PROVE  Inv
<1>1. /\ pc = "idle" /\ kind = "poll" /\ token = "SETUP"
      /\ nbytes = 0 /\ xfrlen = 0 /\ buf = <<>> /\ rcode = "success" /\ rcvToggle \in {0, 1}
      /\ chip = "ready" /\ hrsl = "success" /\ fifo = NoPacket /\ chiptog = 0
      /\ pos = 0 /\ dtog0 = 0 /\ made = 0 /\ acked = 0 /\ dtog = 0 /\ got = 0
      /\ shape \in Devices /\ step = "addressed" /\ driver = 0 /\ ptr = 0
  BY DEF ProbeInit, Init
<1>2. Flags
  BY DEF ProbeInit, Init, Flags
<1>3. Names
  BY <1>1 DEF Names, Results, Steps
<1>4. Numbers
  BY <1>1, Table DEF Numbers, Bit, NoPacket
<1>5. TransferInv
  BY <1>1 DEF TransferInv, Turns, Received, Stages, Fresh, DataStage, Whole
<1>6. PipeInv
  BY <1>1 DEF PipeInv, Unpolled, Between, Polling
<1>7. Requests /\ Agreed
  BY <1>1 DEF Requests, Agreed
<1>8. Walk /\ Refusals
  BY <1>1 DEF Walk, Refusals
<1> QED BY <1>2, <1>3, <1>4, <1>5, <1>6, <1>7, <1>8 DEF Inv, ProbeInv

(* Inv is an invariant: of the transfers, of the pipe and of the probe.    *)
THEOREM Invariant == ProbeSpec => []Inv
<1>1. ProbeInit => Inv
  BY InitInv
<1>2. Inv /\ [ProbeNext]_allVars => Inv'
  BY CallerStep, TransferStep, EnvironmentStep, StutterStep DEF ProbeNext
<1> QED BY <1>1, <1>2, PTL DEF ProbeSpec

----------------------------------------------------------------------------
(* What follows                                                            *)

(* A descriptor read with success is whole, in the order of its packets    *)
(* (XferInTransfer), whatever was lost and sent again on the way.          *)
THEOREM ReadsWhole == ProbeSpec => []ReadIsWhole
<1>1. Inv => ReadIsWhole
  <2> SUFFICES ASSUME Inv, pc = "idle", kind = "read", rcode = "success"
               PROVE  /\ buf = [i \in 1 .. Len(buf) |-> i]
                      /\ xfrlen = Least(shape.total, nbytes)
    BY DEF ReadIsWhole
  <2>1. token = "OUTHS"
    BY DEF Inv, TransferInv, Stages
  <2>2. InOrderSoFar /\ xfrlen = Want
    BY <2>1 DEF Inv, TransferInv, Whole
  <2>3. buf = [i \in 1 .. Len(buf) |-> buf[i]]
    BY DEF Inv, Numbers
  <2>4. buf = [i \in 1 .. Len(buf) |-> i]
    BY <2>2, <2>3 DEF InOrderSoFar
  <2> QED BY <2>2, <2>4 DEF Want
<1> QED BY <1>1, Invariant, PTL

(* A device is polled only by a driver it suits, configured and told to    *)
(* use the boot protocol, and refused only if it suits none or a transfer  *)
(* has failed (HID.c:56-108, 148-199).                                     *)
THEOREM VerdictRight == ProbeSpec => []ProbeVerdict
<1>1. Inv => ProbeVerdict
  <2> SUFFICES ASSUME Inv PROVE ProbeVerdict
    OBVIOUS
  <2>1. step = "running" => Suits(ClientDriverTable[driver]) /\ configured /\ boot
    <3>1. step = "running" => Suits(ClientDriverTable[driver])
      BY DEF Inv, ProbeInv, Walk
    <3> QED BY <3>1, Zenon DEF Inv, ProbeInv, Agreed
  <2>2. step = "error" /\ clean => \A name \in {"mouse", "keyboard"} : ~Suits(name)
    <3> SUFFICES ASSUME step = "error", clean PROVE ~Suits("mouse") /\ ~Suits("keyboard")
      OBVIOUS
    <3>1. \A d \in {1, 2} : ~Suits(ClientDriverTable[d])
      BY DEF Inv, ProbeInv, Refusals
    <3> QED BY <3>1, Table
  <2> QED BY <2>1, <2>2 DEF ProbeVerdict
<1> QED BY <1>1, Invariant, PTL

LEMMA CallerKeepsReports ==
  ASSUME Caller
  PROVE  UNCHANGED <<made, got>>
<1>1. ASSUME NEW what, NEW n, Ask(what, n) PROVE UNCHANGED <<made, got>>
  BY <1>1 DEF Ask, devVars
<1>2. UNCHANGED vars => UNCHANGED <<made, got>>
  BY DEF vars, devVars
<1>3. Reject => UNCHANGED <<made, got>>
  BY <1>1, <1>2 DEF Reject, NextDriver
<1>4. ReadWhole \/ TakeEndpoint \/ SetProtocol => UNCHANGED <<made, got>>
  BY <1>1 DEF ReadWhole, TakeEndpoint, SetProtocol
<1>5. StartWalk \/ SkipDescriptor \/ Accept \/ Stay => UNCHANGED <<made, got>>
  BY <1>2 DEF StartWalk, SkipDescriptor, Accept, Stay, allVars
<1>6. TakeInterface \/ KeepPolling => UNCHANGED <<made, got>>
  BY DEF TakeInterface, KeepPolling, Poll, devVars
<1> QED BY <1>3, <1>4, <1>5, <1>6 DEF Caller

(* A step of the detailed specification hands over the next report, makes  *)
(* one, or does not show.                                                  *)
LEMMA PipeStep ==
  ASSUME Inv, [ProbeNext]_allVars
  PROVE  [Pipe!Next]_(Pipe!vars)
<1> USE DEF Pipe!vars, Pipe!Next, Pipe!Make, Pipe!HandOver
<1>1. CASE UNCHANGED allVars
  BY <1>1 DEF allVars, vars, devVars
<1>2. CASE Caller
  BY <1>2, CallerKeepsReports
<1>3. CASE Environment /\ UNCHANGED probeVars
  <2>1. CASE OnTheBus
    BY <1>3, <2>1, OnTheBusFacts
  <2>2. CASE Make
    BY <2>2 DEF Make
  <2>3. CASE Die
    BY <2>3 DEF Die, devVars
  <2> QED BY <1>3, <2>1, <2>2, <2>3 DEF Environment
<1>4. CASE Transfer /\ UNCHANGED probeVars
  <2>1. CASE Launch \/ Answered \/ GiveUp
    BY <2>1 DEF Launch, Answered, GiveUp, devVars
  <2>2. CASE Continue
    <3>1. made' = made
      BY <1>4, <2>2, ContinueFacts
    <3>2. CASE got' = got
      BY <3>1, <3>2
    <3>3. CASE got' # got
      <4>1. /\ rcode = "success" /\ token = "IN" /\ fifo # NoPacket
            /\ TakePacket /\ UNCHANGED <<rcode, chiptog>>
        BY <2>2, <3>3, Zenon DEF Continue
      <4>2. kind # "read"
        BY <3>3, <4>1 DEF TakePacket, HandOver
      <4>3. got < made /\ got' = got + 1
        BY <1>4, <2>2, <4>1, <4>2, TakeReportFacts
      <4> QED BY <3>1, <4>3
    <3> QED BY <3>2, <3>3
  <2> QED BY <1>4, <2>1, <2>2 DEF Transfer
<1> QED BY <1>1, <1>2, <1>3, <1>4 DEF ProbeNext

(* Through lost packets, lost acknowledges, NAKs and failed polls, main    *)
(* gets the reports once and in order: the transfers implement the pipe.   *)
THEOREM ImplementsReports == ProbeSpec => ImplementsPipe
<1>1. ProbeInit => Pipe!Init
  BY DEF ProbeInit, Init, Pipe!Init
<1>2. Inv /\ [ProbeNext]_allVars => [Pipe!Next]_(Pipe!vars)
  BY PipeStep
<1> QED BY <1>1, <1>2, Invariant, PTL DEF ProbeSpec, ImplementsPipe, Pipe!Spec

=============================================================================
