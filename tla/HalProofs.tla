------------------------------ MODULE HalProofs ------------------------------
(***************************************************************************)
(* The parts of the HAL, and the waits of the USB host on its clock.  For  *)
(* any number of descriptors and any devices: no descriptor is lost        *)
(* wherever an open fails, and a locked device is given to nobody else.    *)
(* For every width of the tick counter, every set of alarms, every delay   *)
(* and every period: the alarms on their list are called in the very tick  *)
(* in which they are due, AltTick implements AltAlarm, which implements    *)
(* AlarmClock.  For every clock on which no deadline overflows: no wait of *)
(* the host ends too early.                                                *)
(***************************************************************************)
EXTENDS AltFd, HostTimers, TLAPS

----------------------------------------------------------------------------
(* File descriptors: the inductive invariant                               *)

FdTypeOK ==
  /\ alt_fd_list \in [Fds -> [dev : Devices \cup {NoDev}, fd_flags : SUBSET {"EXCL", "DEV"}]]
  /\ alt_max_fd \in -1 .. MaxFd - 1
  /\ redirected \in 0 .. 3
  /\ pc \in {"idle", "claimed", "opened", "failed"}
  /\ index \in Fds \cup {-1, -EMFILE}
  /\ owned \subseteq Fds

(* What open holds and has not returned. *)
Claimed == {index} \cap Fds

(* Whatever open holds is accounted for, in the middle of it as well. *)
InUse ==
  /\ Fds \ Free = Reserved \cup owned \cup Claimed
  /\ owned \cap Reserved = {} /\ Claimed \cap (owned \cup Reserved) = {}

ClaimFollowsPc ==
  /\ pc = "idle" => index = -1
  /\ pc \in {"claimed", "opened"} => index \in Fds

(* The high-water mark is above every descriptor in use. *)
Marked == \A fd \in owned \cup Claimed : fd <= alt_max_fd

(* Before main nothing is locked, and open is called for the console only, *)
(* which has nothing to fail on.                                           *)
BeforeMain ==
  redirected < 3 =>
    /\ owned = {} /\ pc # "failed"
    /\ pc # "idle" => alt_fd_list[index].dev = Console
    /\ \A fd \in Fds : ~Excl(fd)

Redirected == \A n \in 0 .. 2 : n < redirected => alt_fd_list[Standard[n]].dev = Console

LockedInUse == \A fd \in Fds : Excl(fd) => fd \notin Free \cup Claimed

(* The descriptor open is about to return is of a device nobody has locked. *)
Admitted ==
  pc = "opened" => \A fd \in Fds : Excl(fd) => alt_fd_list[fd].dev # alt_fd_list[index].dev

FdInv ==
  /\ FdTypeOK /\ ClaimFollowsPc /\ Marked /\ BeforeMain /\ Redirected
  /\ InUse /\ LockedInUse /\ Admitted

----------------------------------------------------------------------------

LEMMA Parameters ==
  /\ MaxFd \in Nat /\ MaxFd > 3
  /\ 3 \in Fds /\ Reserved \subseteq Fds /\ \A fd \in Fds : fd \in Int /\ fd >= 0 /\ fd < MaxFd
  /\ DevNull \in Devices /\ Console \in Devices /\ Console \notin Refusing /\ NoDev \notin Devices
  /\ -1 \notin Fds /\ -EMFILE \notin Fds /\ -EMFILE \in Int /\ -EMFILE < 0
  BY FdAssumption DEF Fds, Reserved, EMFILE

LEMMA StandardReserved ==
  /\ \A n \in 0 .. 2 : Standard[n] \in Reserved
  /\ \A fd \in Reserved : \E n \in 0 .. 2 : Standard[n] = fd
  /\ \A n, p \in 0 .. 2 : Standard[n] = Standard[p] => n = p
<1>1. Standard[0] = 1 /\ Standard[1] = 0 /\ Standard[2] = 2
  BY DEF Standard
<1>2. \A n \in 0 .. 2 : n = 0 \/ n = 1 \/ n = 2
  OBVIOUS
<1>. QED
  BY <1>1, <1>2 DEF Reserved

LEMMA FdInitInv == FdInit => FdInv
<1>. SUFFICES ASSUME FdInit PROVE FdInv
  OBVIOUS
<1>. USE Parameters
<1>1. FdTypeOK
  BY DEF FdInit, FdTypeOK, Unallocated
<1>2. Free = Fds \ Reserved
  BY DEF FdInit, Free, Unallocated, Fds, Reserved
<1>3. \A fd \in Fds : ~Excl(fd)
  BY DEF FdInit, Excl, Unallocated
<1>4. index = -1 /\ pc = "idle" /\ redirected = 0 /\ owned = {} /\ Claimed = {}
  BY DEF FdInit, Claimed
<1>. QED
  BY <1>1, <1>2, <1>3, <1>4
     DEF FdInv, ClaimFollowsPc, Marked, BeforeMain, Redirected, InUse, LockedInUse, Admitted

----------------------------------------------------------------------------
(* A descriptor is given back: those before and after it are as they were. *)

LEMMA ReleasedFacts ==
  ASSUME NEW list \in [Fds -> [dev : Devices \cup {NoDev}, fd_flags : SUBSET {"EXCL", "DEV"}]],
         NEW fd \in Fds \cup {-1, -EMFILE}
  PROVE  /\ Released(list, fd) \in
              [Fds -> [dev : Devices \cup {NoDev}, fd_flags : SUBSET {"EXCL", "DEV"}]]
         /\ \A other \in Fds \ {fd} : Released(list, fd)[other] = list[other]
         /\ fd \in Fds \ Reserved => Released(list, fd)[fd] = Unallocated
         /\ fd \notin Fds \ Reserved => Released(list, fd) = list
<1>. USE Parameters
<1>1. Unallocated \in [dev : Devices \cup {NoDev}, fd_flags : SUBSET {"EXCL", "DEV"}]
  BY DEF Unallocated
<1>2. fd \in Fds \ Reserved <=> fd > 2
  BY DEF Fds, Reserved
<1>3. CASE fd > 2
  BY <1>1, <1>2, <1>3 DEF Released
<1>4. CASE ~(fd > 2)
  BY <1>2, <1>4 DEF Released
<1>. QED
  BY <1>3, <1>4

(* open takes a descriptor that was free, or none. *)

LEMMA OpenInv ==
  ASSUME FdInv, NEW dev \in Devices \cup {Unknown}, Open(dev)
  PROVE  FdInv'
<1>. USE Parameters
<1>1. /\ pc = "idle" /\ index = -1 /\ Claimed = {} /\ (redirected < 3 => dev = Console)
      /\ redirected' = redirected /\ owned' = owned
  BY DEF Open, FdInv, ClaimFollowsPc, Claimed
<1>2. CASE UNCHANGED <<alt_fd_list, alt_max_fd>> /\ pc' = "failed" /\ index' \in {-1, -EMFILE}
           /\ ~(redirected < 3)
  <2>1. Claimed' = {} /\ Free' = Free /\ \A fd \in Fds : Excl(fd)' <=> Excl(fd)
    BY <1>2 DEF Claimed, Free, Excl
  <2>2. FdTypeOK' /\ ClaimFollowsPc' /\ BeforeMain' /\ Redirected' /\ Admitted'
    BY <1>1, <1>2 DEF FdInv, FdTypeOK, ClaimFollowsPc, BeforeMain, Redirected, Admitted
  <2>3. Marked' /\ InUse' /\ LockedInUse'
    BY <1>1, <1>2, <2>1 DEF FdInv, Marked, InUse, LockedInUse
  <2>. QED
    BY <2>2, <2>3 DEF FdInv
<1>3. CASE \E fd \in Free : /\ dev \in Devices
                            /\ alt_fd_list' = [alt_fd_list EXCEPT ![fd] = [dev |-> dev, fd_flags |-> {}]]
                            /\ alt_max_fd' = IF fd > alt_max_fd THEN fd ELSE alt_max_fd
                            /\ index' = fd /\ pc' = "claimed"
  <2>1. PICK fd \in Free : /\ dev \in Devices
                           /\ alt_fd_list' = [alt_fd_list EXCEPT ![fd] = [dev |-> dev, fd_flags |-> {}]]
                           /\ alt_max_fd' = IF fd > alt_max_fd THEN fd ELSE alt_max_fd
                           /\ index' = fd /\ pc' = "claimed"
    BY <1>3
  <2>2. fd \in Fds /\ fd \notin Reserved /\ fd \notin owned
    BY DEF Free, FdInv, InUse
  <2>3. [dev |-> dev, fd_flags |-> {}] \in [dev : Devices \cup {NoDev}, fd_flags : SUBSET {"EXCL", "DEV"}]
    BY <2>1
  <2>4. FdTypeOK'
    BY <1>1, <2>1, <2>2, <2>3 DEF FdInv, FdTypeOK
  <2>5. /\ alt_fd_list'[fd].dev = dev /\ ~Excl(fd)'
        /\ \A other \in Fds \ {fd} : /\ alt_fd_list'[other] = alt_fd_list[other]
                                     /\ Excl(other)' <=> Excl(other)
    BY <2>1, <2>2, <2>3 DEF FdInv, FdTypeOK, Excl
  <2>6. Claimed' = {fd} /\ Free' = Free \ {fd}
    BY <2>1, <2>2, <2>5 DEF Claimed, Free
  <2>7. alt_max_fd' \in Int /\ alt_max_fd' >= alt_max_fd /\ alt_max_fd' >= fd
    BY <2>1, <2>2 DEF FdInv, FdTypeOK
  <2>8. Marked'
    <3>. SUFFICES ASSUME NEW x \in owned \cup {fd} PROVE x <= alt_max_fd'
      BY <1>1, <2>6 DEF Marked
    <3>1. x \in Int /\ (x = fd \/ x <= alt_max_fd)
      BY <2>2 DEF FdInv, FdTypeOK, Marked
    <3>. QED
      BY <2>2, <2>7, <3>1 DEF FdInv, FdTypeOK
  <2>9. ClaimFollowsPc' /\ Admitted'
    BY <2>1, <2>2 DEF ClaimFollowsPc, Admitted
  <2>10. BeforeMain'
    BY <1>1, <2>1, <2>2, <2>5 DEF FdInv, BeforeMain
  <2>11. Redirected'
    <3>1. \A n \in 0 .. 2 : Standard[n] \in Fds \ {fd}
      BY <2>2, StandardReserved
    <3>. QED
      BY <1>1, <2>5, <3>1 DEF FdInv, Redirected
  <2>12. InUse'
    BY <1>1, <2>1, <2>2, <2>6 DEF FdInv, InUse
  <2>13. LockedInUse'
    BY <1>1, <2>5, <2>6 DEF FdInv, LockedInUse
  <2>. QED
    BY <2>4, <2>8, <2>9, <2>10, <2>11, <2>12, <2>13 DEF FdInv
<1>4. ASSUME redirected < 3 PROVE 3 \in Free
  BY <1>1, <1>4 DEF FdInv, InUse, BeforeMain, Reserved
<1>. QED
  BY <1>1, <1>2, <1>3, <1>4 DEF Open, GetFd

(* The test for a lock finds every lock: the mark is high enough. *)

LEMMA AdmitInv == FdInv /\ Admit => FdInv'
<1>. SUFFICES ASSUME FdInv, Admit PROVE FdInv'
  OBVIOUS
<1>. USE Parameters
<1>. DEFINE dev == alt_fd_list[index].dev
<1>1. /\ pc = "claimed" /\ index \in Fds
      /\ UNCHANGED <<alt_max_fd, redirected, index, owned>>
      /\ alt_fd_list' = [alt_fd_list EXCEPT ![index].fd_flags = @ \cup {"DEV"}]
      /\ pc' \in {"opened", "failed"}
      /\ pc' = "opened" => ~Locked(dev, index)
      /\ pc' = "failed" => Locked(dev, index) \/ dev \in Refusing
  BY DEF Admit, FdInv, ClaimFollowsPc
<1>2. /\ FdTypeOK'
      /\ \A fd \in Fds : alt_fd_list'[fd].dev = alt_fd_list[fd].dev /\ (Excl(fd)' <=> Excl(fd))
  BY <1>1 DEF FdInv, FdTypeOK, Excl
<1>3. Claimed' = Claimed /\ Free' = Free
  BY <1>1, <1>2 DEF Claimed, Free
<1>4. ASSUME pc' = "opened", NEW fd \in Fds, Excl(fd) PROVE alt_fd_list[fd].dev # dev
  <2>1. fd \in Reserved \cup owned /\ fd # index
    BY <1>1, <1>4 DEF FdInv, LockedInUse, InUse, Claimed
  <2>2. index > 2 /\ index <= alt_max_fd
    BY <1>1 DEF FdInv, InUse, Marked, Claimed, Reserved
  <2>3. fd \in 0 .. alt_max_fd
    BY <1>1, <2>1, <2>2 DEF FdInv, Marked, FdTypeOK, Reserved
  <2>. QED
    BY <1>1, <1>4, <2>1, <2>3 DEF Locked
<1>5. ASSUME redirected < 3 PROVE pc' = "opened" /\ dev = Console
  BY <1>1, <1>5 DEF FdInv, BeforeMain, FdTypeOK, Locked, Fds
<1>6. ClaimFollowsPc' /\ Marked' /\ InUse' /\ LockedInUse'
  BY <1>1, <1>2, <1>3 DEF FdInv, ClaimFollowsPc, Marked, InUse, LockedInUse
<1>7. BeforeMain' /\ Admitted'
  BY <1>1, <1>2, <1>4, <1>5 DEF FdInv, BeforeMain, Admitted
<1>8. Redirected'
  BY <1>1, <1>2, StandardReserved DEF FdInv, Redirected
<1>. QED
  BY <1>2, <1>6, <1>7, <1>8 DEF FdInv

LEMMA ReturnInv == FdInv /\ Return => FdInv'
<1>. SUFFICES ASSUME FdInv, Return PROVE FdInv'
  OBVIOUS
<1>. USE Parameters
<1>1. /\ pc = "opened" /\ index \in Fds /\ redirected = 3 /\ pc' = "idle" /\ index' = -1
      /\ owned' = owned \cup {index}
      /\ UNCHANGED <<alt_fd_list, alt_max_fd, redirected>>
  BY DEF Return, BackInMain, FdInv, ClaimFollowsPc
<1>2. Claimed = {index} /\ Claimed' = {} /\ Free' = Free /\ \A fd \in Fds : Excl(fd)' <=> Excl(fd)
  BY <1>1 DEF Claimed, Free, Excl
<1>3. FdTypeOK' /\ ClaimFollowsPc' /\ BeforeMain' /\ Redirected' /\ Admitted'
  BY <1>1 DEF FdInv, FdTypeOK, ClaimFollowsPc, BeforeMain, Redirected, Admitted
<1>4. Marked' /\ InUse' /\ LockedInUse'
  BY <1>1, <1>2 DEF FdInv, Marked, InUse, LockedInUse
<1>. QED
  BY <1>3, <1>4 DEF FdInv

LEMMA RedirectInv == FdInv /\ Redirect => FdInv'
<1>. SUFFICES ASSUME FdInv, Redirect PROVE FdInv'
  OBVIOUS
<1>. USE Parameters
<1>. DEFINE fd == Standard[redirected]
            copied == [alt_fd_list EXCEPT ![fd] = alt_fd_list[index]]
            D == [dev : Devices \cup {NoDev}, fd_flags : SUBSET {"EXCL", "DEV"}]
<1>1. /\ pc = "opened" /\ index \in Fds /\ redirected \in 0 .. 2 /\ pc' = "idle" /\ index' = -1
      /\ redirected' = redirected + 1 /\ alt_fd_list' = Released(copied, index)
      /\ UNCHANGED <<alt_max_fd, owned>>
  BY DEF Redirect, BackInMain, FdInv, ClaimFollowsPc, FdTypeOK
<1>2. fd \in Reserved /\ fd \in Fds /\ index \notin Reserved /\ index \notin owned /\ owned = {}
  BY <1>1, StandardReserved DEF FdInv, InUse, Claimed, BeforeMain
<1>3. copied \in [Fds -> D] /\ copied[fd] = alt_fd_list[index]
      /\ \A other \in Fds \ {fd} : copied[other] = alt_fd_list[other]
  BY <1>1, <1>2 DEF FdInv, FdTypeOK
<1>. HIDE DEF copied, fd
<1>4. /\ alt_fd_list' \in [Fds -> D] /\ alt_fd_list'[fd] = alt_fd_list[index]
      /\ alt_fd_list'[index] = Unallocated
      /\ \A other \in Fds \ {fd, index} : alt_fd_list'[other] = alt_fd_list[other]
  BY <1>1, <1>2, <1>3, ReleasedFacts
<1>5. alt_fd_list[index].dev = Console /\ \A other \in Fds : ~Excl(other)
  BY <1>1 DEF FdInv, BeforeMain
<1>6. \A other \in Fds : ~Excl(other)'
  <2>. SUFFICES ASSUME NEW other \in Fds PROVE ~Excl(other)'
    OBVIOUS
  <2>1. CASE other = index
    BY <2>1, <1>4 DEF Excl, Unallocated
  <2>2. CASE other = fd
    BY <2>2, <1>1, <1>4, <1>5 DEF Excl
  <2>3. CASE other \notin {fd, index}
    BY <2>3, <1>4, <1>5 DEF Excl
  <2>. QED
    BY <2>1, <2>2, <2>3
<1>7. FdTypeOK'
  BY <1>1, <1>4 DEF FdInv, FdTypeOK
<1>8. Redirected'
  <2>. SUFFICES ASSUME NEW n \in 0 .. 2, n < redirected'
                PROVE  alt_fd_list'[Standard[n]].dev = Console
    BY DEF Redirected
  <2>1. CASE n = redirected
    BY <2>1, <1>4, <1>5 DEF fd
  <2>2. CASE n < redirected
    <3>1. Standard[n] \in Reserved /\ Standard[n] # fd
      BY <1>1, <2>2, StandardReserved DEF fd
    <3>2. Standard[n] \in Fds \ {fd, index}
      BY <1>2, <3>1
    <3>. QED
      BY <1>4, <2>2, <3>2 DEF FdInv, Redirected
  <2>. QED
    BY <1>1, <2>1, <2>2
<1>9. Claimed = {index} /\ Claimed' = {} /\ Free' = Free \cup {index}
  <2>1. fd \notin Free
    BY <1>2 DEF FdInv, InUse
  <2>2. Unallocated.dev = NoDev
    BY DEF Unallocated
  <2>3. Free' = Free \cup {index}
    BY <1>1, <1>4, <1>5, <2>1, <2>2 DEF Free
  <2>. QED
    BY <1>1, <2>3 DEF Claimed
<1>10. InUse'
  BY <1>1, <1>2, <1>9 DEF FdInv, InUse
<1>. QED
  BY <1>1, <1>2, <1>6, <1>7, <1>8, <1>9, <1>10
     DEF FdInv, ClaimFollowsPc, Marked, BeforeMain, LockedInUse, Admitted

(* After a failure: what was claimed is free again, and nothing else. *)

LEMMA CleanUpInv == FdInv /\ CleanUp => FdInv'
<1>. SUFFICES ASSUME FdInv, CleanUp PROVE FdInv'
  OBVIOUS
<1>. USE Parameters
<1>1. /\ pc = "failed" /\ redirected = 3 /\ redirected' = 3 /\ pc' = "idle" /\ index' = -1
      /\ alt_fd_list' = Released(alt_fd_list, index)
      /\ UNCHANGED <<alt_max_fd, owned>>
  BY DEF CleanUp, BackInMain, Proceeds, FdInv, BeforeMain, FdTypeOK
<1>2. FdTypeOK' /\ Claimed' = {}
  BY <1>1, ReleasedFacts DEF FdInv, FdTypeOK, Claimed
<1>3. /\ \A fd \in Fds \ Claimed : alt_fd_list'[fd] = alt_fd_list[fd] /\ (Excl(fd)' <=> Excl(fd))
      /\ \A fd \in Claimed : alt_fd_list'[fd] = Unallocated /\ ~Excl(fd)'
  <2>1. index \in Fds => index \in Fds \ Reserved
    BY DEF FdInv, InUse, Claimed
  <2>2. /\ \A fd \in Fds \ {index} : alt_fd_list'[fd] = alt_fd_list[fd]
        /\ index \in Fds => alt_fd_list'[index] = Unallocated
    BY <1>1, <2>1, ReleasedFacts DEF FdInv, FdTypeOK
  <2>. QED
    BY <2>2 DEF Claimed, Excl, Unallocated
<1>4. Free' = Free \cup Claimed
  <2>1. Unallocated.dev = NoDev
    BY DEF Unallocated
  <2>. QED
    BY <1>3, <2>1 DEF Free, Claimed
<1>5. Marked' /\ InUse'
  BY <1>1, <1>2, <1>4 DEF FdInv, Marked, InUse, Free
<1>6. LockedInUse'
  BY <1>2, <1>3, <1>4 DEF FdInv, LockedInUse
<1>7. Redirected'
  <2>1. \A n \in 0 .. 2 : Standard[n] \in Fds \ Claimed
    BY StandardReserved DEF FdInv, InUse
  <2>. QED
    BY <1>1, <1>3, <2>1 DEF FdInv, Redirected
<1>. QED
  BY <1>1, <1>2, <1>5, <1>6, <1>7 DEF FdInv, ClaimFollowsPc, BeforeMain, Admitted

----------------------------------------------------------------------------
(* The calls that are one step *)

LEMMA CloseInv ==
  ASSUME FdInv, NEW fd \in Fds, Close(fd)
  PROVE  FdInv'
<1>. USE Parameters
<1>1. /\ redirected = 3 /\ pc = "idle" /\ UNCHANGED <<alt_max_fd, redirected, pc, index>>
      /\ Claimed = {} /\ Claimed' = {} /\ fd \notin Free
      /\ alt_fd_list' = Released(alt_fd_list, fd) /\ owned' = owned \ {fd}
  BY DEF Close, InMain, Free, FdInv, ClaimFollowsPc, Claimed
<1>2. FdTypeOK' /\ ClaimFollowsPc' /\ BeforeMain' /\ Admitted' /\ Marked'
  <2>1. FdTypeOK'
    BY <1>1, ReleasedFacts DEF FdInv, FdTypeOK
  <2>. QED
    BY <1>1, <2>1 DEF FdInv, ClaimFollowsPc, BeforeMain, Admitted, Marked
<1>3. CASE fd \in Reserved
  <2>1. alt_fd_list' = alt_fd_list /\ owned' = owned
    BY <1>1, <1>3, ReleasedFacts DEF FdInv, FdTypeOK, InUse
  <2>2. Redirected' /\ InUse' /\ LockedInUse'
    BY <1>1, <2>1 DEF FdInv, Redirected, InUse, LockedInUse, Free, Excl
  <2>. QED
    BY <1>2, <2>2 DEF FdInv
<1>4. CASE fd \notin Reserved
  <2>1. alt_fd_list'[fd] = Unallocated
        /\ \A other \in Fds \ {fd} : alt_fd_list'[other] = alt_fd_list[other]
    BY <1>1, <1>4, ReleasedFacts DEF FdInv, FdTypeOK
  <2>2. ~Excl(fd)' /\ \A other \in Fds \ {fd} : Excl(other)' <=> Excl(other)
    BY <2>1 DEF Excl, Unallocated
  <2>3. Free' = Free \cup {fd}
    BY <2>1 DEF Free, Unallocated
  <2>4. Redirected'
    <3>1. \A n \in 0 .. 2 : Standard[n] \in Fds \ {fd}
      BY <1>4, StandardReserved
    <3>. QED
      BY <1>1, <2>1, <3>1 DEF FdInv, Redirected
  <2>5. InUse' /\ LockedInUse'
    BY <1>1, <1>4, <2>2, <2>3 DEF FdInv, InUse, LockedInUse
  <2>. QED
    BY <1>2, <2>4, <2>5 DEF FdInv
<1>. QED
  BY <1>3, <1>4

(* Locks change nothing but the flags. *)
LEMMA FlagsInv ==
  ASSUME FdInv, InMain, UNCHANGED owned, FdTypeOK',
         \A fd \in Fds : alt_fd_list'[fd].dev = alt_fd_list[fd].dev,
         \A fd \in Fds : Excl(fd)' => fd \notin Free
  PROVE  FdInv'
<1>. USE Parameters
<1>1. redirected = 3 /\ pc = "idle" /\ UNCHANGED <<alt_max_fd, redirected, pc, index, owned>>
  BY DEF InMain
<1>2. Free' = Free /\ Claimed = {} /\ Claimed' = {}
  BY <1>1 DEF Free, Claimed, FdInv, ClaimFollowsPc
<1>3. ClaimFollowsPc' /\ Marked' /\ BeforeMain' /\ InUse' /\ LockedInUse' /\ Admitted'
  BY <1>1, <1>2 DEF FdInv, ClaimFollowsPc, Marked, BeforeMain, InUse, LockedInUse, Admitted
<1>4. Redirected'
  BY <1>1, StandardReserved DEF FdInv, Redirected
<1>. QED
  BY <1>3, <1>4 DEF FdInv

LEMMA LockInv ==
  ASSUME FdInv, NEW fd \in Fds, Lock(fd)
  PROVE  FdInv'
<1>. USE Parameters
<1>1. InMain /\ UNCHANGED owned /\ fd \notin Free
  BY DEF Lock, Free
<1>2. alt_fd_list' = alt_fd_list
      \/ alt_fd_list' = [alt_fd_list EXCEPT ![fd].fd_flags = @ \cup {"EXCL"}]
  BY DEF Lock
<1>3. /\ FdTypeOK'
      /\ \A other \in Fds : alt_fd_list'[other].dev = alt_fd_list[other].dev
      /\ \A other \in Fds \ {fd} : Excl(other)' <=> Excl(other)
  BY <1>1, <1>2 DEF FdInv, FdTypeOK, Excl, InMain
<1>4. \A other \in Fds : Excl(other)' => other \notin Free
  BY <1>1, <1>3 DEF FdInv, LockedInUse
<1>. QED
  BY <1>1, <1>3, <1>4, FlagsInv

LEMMA UnlockInv ==
  ASSUME FdInv, NEW fd \in Fds, Unlock(fd)
  PROVE  FdInv'
<1>. USE Parameters
<1>1. InMain /\ UNCHANGED owned /\ alt_fd_list' = [alt_fd_list EXCEPT ![fd].fd_flags = @ \ {"EXCL"}]
  BY DEF Unlock
<1>2. /\ FdTypeOK'
      /\ \A other \in Fds : alt_fd_list'[other].dev = alt_fd_list[other].dev
      /\ \A other \in Fds : Excl(other)' => Excl(other)
  BY <1>1 DEF FdInv, FdTypeOK, Excl, InMain
<1>3. \A other \in Fds : Excl(other)' => other \notin Free
  BY <1>2 DEF FdInv, LockedInUse
<1>. QED
  BY <1>1, <1>2, <1>3, FlagsInv

(* Whatever the program opens, closes and locks, and wherever an open      *)
(* fails: the descriptors, the claim in progress, the mark and the locks   *)
(* fit together.                                                           *)
THEOREM FdsConsistent == FdSpec => []FdInv
<1>1. FdInv /\ [FdNext]_fdVars => FdInv'
  <2>. SUFFICES ASSUME FdInv, [FdNext]_fdVars PROVE FdInv'
    OBVIOUS
  <2>1. CASE \E dev \in Devices \cup {Unknown} : Open(dev)
    BY <2>1, OpenInv
  <2>2. CASE Admit
    BY <2>2, AdmitInv
  <2>3. CASE Return
    BY <2>3, ReturnInv
  <2>4. CASE Redirect
    BY <2>4, RedirectInv
  <2>5. CASE CleanUp
    BY <2>5, CleanUpInv
  <2>6. CASE \E fd \in Fds : Close(fd)
    BY <2>6, CloseInv
  <2>7. CASE \E fd \in Fds : Lock(fd)
    BY <2>7, LockInv
  <2>8. CASE \E fd \in Fds : Unlock(fd)
    BY <2>8, UnlockInv
  <2>9. CASE UNCHANGED fdVars
    BY <2>9 DEF fdVars, FdInv, FdTypeOK, ClaimFollowsPc, Marked, BeforeMain, Redirected, InUse,
                LockedInUse, Admitted, Claimed, Free, Excl
  <2>. QED
    BY <2>1, <2>2, <2>3, <2>4, <2>5, <2>6, <2>7, <2>8, <2>9 DEF FdNext
<1>. QED
  BY FdInitInv, <1>1, PTL DEF FdSpec

(* An open that has claimed a descriptor gives it to its caller or back to *)
(* the pool, wherever it fails; none is given out twice, and the standard  *)
(* streams stay at the console, for any number of descriptors, any devices *)
(* and any of them refusing (alt_open.c:157-162, alt_release_fd.c:46).     *)
THEOREM NoFdLost == FdSpec => []NothingLeaks
<1>1. FdInv => NothingLeaks
  <2>. SUFFICES ASSUME FdInv PROVE NothingLeaks
    OBVIOUS
  <2>. USE Parameters
  <2>1. redirected = 3 => \A fd \in Reserved : alt_fd_list[fd].dev = Console
    <3>. SUFFICES ASSUME redirected = 3, NEW fd \in Reserved PROVE alt_fd_list[fd].dev = Console
      OBVIOUS
    <3>1. PICK n \in 0 .. 2 : Standard[n] = fd
      BY StandardReserved
    <3>. QED
      BY <3>1 DEF FdInv, Redirected
  <2>2. pc = "idle" => Claimed = {}
    BY DEF FdInv, ClaimFollowsPc, Claimed
  <2>3. index \notin owned \cup Reserved
    BY DEF FdInv, InUse, Claimed, FdTypeOK
  <2>. QED
    BY <2>1, <2>2, <2>3 DEF FdInv, InUse, NothingLeaks
<1>. QED
  BY FdsConsistent, <1>1, PTL

(* While a device is locked open gives the program no descriptor of it,    *)
(* although the search for locks stops at the mark (alt_open.c:79).        *)
THEOREM LocksShutOut == FdSpec => LockShutsOut
<1>. DEFINE ShutsOut ==
       \A fd \in Fds, new \in owned' \ owned :
         Excl(fd) => alt_fd_list'[new].dev # alt_fd_list[fd].dev
<1>1. FdInv /\ [FdNext]_fdVars => [ShutsOut]_fdVars
  <2>. SUFFICES ASSUME FdInv, FdNext, NEW fd \in Fds, NEW new \in owned' \ owned, Excl(fd)
                PROVE  alt_fd_list'[new].dev # alt_fd_list[fd].dev
    OBVIOUS
  <2>1. pc = "opened" /\ new = index /\ alt_fd_list' = alt_fd_list
    BY DEF FdNext, Open, Admit, Return, Redirect, CleanUp, Close, Lock, Unlock
  <2>. QED
    BY <2>1 DEF FdInv, Admitted
<1>. QED
  BY FdsConsistent, <1>1, PTL DEF FdSpec, LockShutsOut

----------------------------------------------------------------------------
(* Alarms: following the links of their list                               *)

LEMMA FollowLeast ==
  ASSUME NEW nexts, NEW e, NEW S \in SUBSET Nodes, e \in S,
         \A b \in S \cap Alarms : nexts[b] \in S
  PROVE  Follow(nexts, e) \subseteq S
  BY DEF Follow

LEMMA FollowClosed ==
  ASSUME NEW nexts \in [Nodes -> Nodes], NEW e \in Nodes
  PROVE  /\ Follow(nexts, e) \subseteq Alarms
         /\ e = alt_alarm_list \/ e \in Follow(nexts, e)
         /\ \A b \in Follow(nexts, e) :
              nexts[b] = alt_alarm_list \/ nexts[b] \in Follow(nexts, e)
<1>1. e \in Alarms => e \in Follow(nexts, e)
  BY DEF Follow
<1>2. ASSUME NEW b \in Follow(nexts, e), nexts[b] # alt_alarm_list
      PROVE  nexts[b] \in Follow(nexts, e)
  <2>1. b \in Alarms /\ nexts[b] \in Alarms
    BY <1>2 DEF Follow, Nodes
  <2>. QED
    BY <1>2, <2>1 DEF Follow
<1>. QED
  BY <1>1, <1>2 DEF Follow, Nodes

LEMMA FollowHead ==
  ASSUME NEW nexts \in [Nodes -> Nodes]
  PROVE  Follow(nexts, alt_alarm_list) = {}
<1>. DEFINE S == {alt_alarm_list}
<1>1. S \in SUBSET Nodes /\ alt_alarm_list \in S /\ \A b \in S \cap Alarms : nexts[b] \in S
  BY ListAssumption DEF Nodes
<1>. HIDE DEF S
<1>2. Follow(nexts, alt_alarm_list) \subseteq S
  BY <1>1, FollowLeast
<1>. QED
  BY <1>2, ListAssumption DEF Follow, S

LEMMA FollowStep ==
  ASSUME NEW nexts \in [Nodes -> Nodes], NEW a \in Alarms
  PROVE  Follow(nexts, a) = {a} \cup Follow(nexts, nexts[a])
<1>. DEFINE F == Follow(nexts, a)
            G == Follow(nexts, nexts[a])
<1>0. a \in Nodes /\ nexts[a] \in Nodes /\ Alarms \subseteq Nodes /\ alt_alarm_list \in Nodes
  BY DEF Nodes
<1>1. /\ F \subseteq Alarms /\ a \in F
      /\ \A b \in F : nexts[b] = alt_alarm_list \/ nexts[b] \in F
  BY <1>0, FollowClosed, ListAssumption
<1>2. /\ G \subseteq Alarms
      /\ nexts[a] = alt_alarm_list \/ nexts[a] \in G
      /\ \A b \in G : nexts[b] = alt_alarm_list \/ nexts[b] \in G
  BY <1>0, FollowClosed
<1>. HIDE DEF F, G
<1>3. G \subseteq F \cup {alt_alarm_list}
  <2>. DEFINE S == F \cup {alt_alarm_list}
  <2>1. S \in SUBSET Nodes /\ nexts[a] \in S /\ \A b \in S \cap Alarms : nexts[b] \in S
    BY <1>0, <1>1, ListAssumption
  <2>. HIDE DEF S
  <2>2. G \subseteq S
    BY <2>1, FollowLeast DEF G
  <2>. QED
    BY <2>2 DEF S
<1>4. F \subseteq {a} \cup G \cup {alt_alarm_list}
  <2>. DEFINE S == {a} \cup G \cup {alt_alarm_list}
  <2>1. S \in SUBSET Nodes /\ a \in S /\ \A b \in S \cap Alarms : nexts[b] \in S
    BY <1>0, <1>2, ListAssumption
  <2>. HIDE DEF S
  <2>2. F \subseteq S
    BY <2>1, FollowLeast DEF F
  <2>. QED
    BY <2>2 DEF S
<1>5. F = {a} \cup G
  BY <1>1, <1>2, <1>3, <1>4, ListAssumption
<1>. QED
  BY <1>5 DEF F, G

(* Only the links that are followed count. *)
LEMMA FollowSame ==
  ASSUME NEW nexts \in [Nodes -> Nodes], NEW others \in [Nodes -> Nodes], NEW e \in Nodes,
         \A b \in Follow(nexts, e) : others[b] = nexts[b]
  PROVE  Follow(others, e) = Follow(nexts, e)
<1>. DEFINE F == Follow(nexts, e)
            G == Follow(others, e)
<1>0. Alarms \subseteq Nodes /\ alt_alarm_list \in Nodes
  BY DEF Nodes
<1>1. /\ F \subseteq Alarms
      /\ e = alt_alarm_list \/ e \in F
      /\ \A b \in F : nexts[b] = alt_alarm_list \/ nexts[b] \in F
  BY FollowClosed
<1>2. /\ G \subseteq Alarms
      /\ e = alt_alarm_list \/ e \in G
      /\ \A b \in G : others[b] = alt_alarm_list \/ others[b] \in G
  BY FollowClosed
<1>3. \A b \in F : others[b] = nexts[b]
  OBVIOUS
<1>. HIDE DEF F, G
<1>4. G \subseteq F \cup {alt_alarm_list}
  <2>. DEFINE S == F \cup {alt_alarm_list}
  <2>1. S \in SUBSET Nodes /\ e \in S /\ \A b \in S \cap Alarms : others[b] \in S
    BY <1>0, <1>1, <1>3, ListAssumption
  <2>. HIDE DEF S
  <2>2. G \subseteq S
    BY <2>1, FollowLeast DEF G
  <2>. QED
    BY <2>2 DEF S
<1>5. F \subseteq G \cup {alt_alarm_list}
  <2>. DEFINE S == G \cup {alt_alarm_list}
  <2>0. \A b \in S \cap Alarms : b \in F
    BY <1>4, ListAssumption
  <2>1. S \in SUBSET Nodes /\ e \in S /\ \A b \in S \cap Alarms : nexts[b] \in S
    BY <1>0, <1>2, <1>3, <2>0, ListAssumption
  <2>. HIDE DEF S
  <2>2. F \subseteq S
    BY <2>1, FollowLeast DEF F
  <2>. QED
    BY <2>2 DEF S
<1>6. F = G
  BY <1>1, <1>2, <1>4, <1>5, ListAssumption
<1>. QED
  BY <1>6 DEF F, G

----------------------------------------------------------------------------
(* Alarms: the inductive invariant of their list                           *)

LinksOK == next \in [Nodes -> Nodes] /\ previous \in [Nodes -> Nodes]

(* The two directions of the list agree. *)
Mutual == \A e \in Nodes : previous[next[e]] = e /\ next[previous[e]] = e

(* alt_llist_remove's "entry points to itself" says who is not in the list. *)
Apart == \A a \in Alarms : next[a] # a <=> a \in listed

(* The walk does not come back to an alarm. *)
Straight == \A a \in listed : a \notin Follow(next, next[a])

ListInv == LinksOK /\ Mutual /\ Apart /\ Straight

CursorOK == cursor = alt_alarm_list \/ cursor \in listed

LEMMA ListedFacts ==
  ASSUME LinksOK
  PROVE  /\ Alarms \subseteq Nodes /\ alt_alarm_list \in Nodes /\ alt_alarm_list \notin Alarms
         /\ listed \subseteq Alarms
         /\ next[alt_alarm_list] = alt_alarm_list \/ next[alt_alarm_list] \in listed
         /\ \A b \in listed : next[b] = alt_alarm_list \/ next[b] \in listed
<1>1. Alarms \subseteq Nodes /\ alt_alarm_list \in Nodes /\ alt_alarm_list \notin Alarms
  BY ListAssumption DEF Nodes
<1>2. next[alt_alarm_list] \in Nodes
  BY <1>1 DEF LinksOK
<1>. QED
  BY <1>1, <1>2, FollowClosed DEF LinksOK, listed

LEMMA InsertList ==
  ASSUME ListInv, NEW a \in Alarms, next[a] = a, Insert(a)
  PROVE  ListInv' /\ listed' = listed \cup {a}
<1>. DEFINE head == alt_alarm_list
            first == next[head]
<1>0. /\ Alarms \subseteq Nodes /\ head \in Nodes /\ head \notin Alarms
      /\ listed \subseteq Alarms
      /\ first = head \/ first \in listed
      /\ \A b \in listed : next[b] = head \/ next[b] \in listed
  BY ListedFacts DEF ListInv
<1>1. /\ next \in [Nodes -> Nodes] /\ previous \in [Nodes -> Nodes]
      /\ first \in Nodes /\ a \in Nodes /\ a # head
      /\ a \notin listed
  BY <1>0 DEF ListInv, LinksOK, Apart
<1>2. /\ next' = [next EXCEPT ![a] = first, ![head] = a]
      /\ previous' = [previous EXCEPT ![a] = head, ![first] = a]
  BY DEF Insert
<1>3. first # a
  BY <1>0, <1>1
<1>. HIDE DEF head, first
<1>4. /\ next' \in [Nodes -> Nodes] /\ previous' \in [Nodes -> Nodes]
      /\ next'[head] = a /\ next'[a] = first
      /\ \A e \in Nodes : e # a /\ e # head => next'[e] = next[e]
      /\ previous'[first] = a /\ previous'[a] = head
      /\ \A e \in Nodes : e # a /\ e # first => previous'[e] = previous[e]
  BY <1>0, <1>1, <1>2, <1>3
<1>5. LinksOK'
  BY <1>4 DEF LinksOK
<1>6. Mutual'
  <2>1. \A e \in Nodes : previous[next[e]] = e /\ next[previous[e]] = e
    BY DEF ListInv, Mutual
  <2>2. next[head] = first /\ previous[first] = head
    BY <1>0, <2>1 DEF first
  <2>3. ASSUME NEW e \in Nodes  PROVE previous'[next'[e]] = e /\ next'[previous'[e]] = e
    <3>1. previous'[next'[e]] = e
      BY <1>0, <1>1, <1>3, <1>4, <2>1, <2>2
    <3>2. next'[previous'[e]] = e
      BY <1>0, <1>1, <1>3, <1>4, <2>1, <2>2
    <3>. QED
      BY <3>1, <3>2
  <2>. QED
    BY <2>3 DEF Mutual
<1>7. ASSUME NEW e \in Nodes, Follow(next, e) \subseteq listed
      PROVE  Follow(next', e) = Follow(next, e)
  BY <1>0, <1>1, <1>4, <1>7, FollowSame
<1>8. listed' = listed \cup {a}
  <2>1. Follow(next', first) = listed
    BY <1>1, <1>7 DEF listed, first, head
  <2>2. Follow(next', a) = {a} \cup Follow(next', first)
    BY <1>4, FollowStep
  <2>. QED
    BY <1>4, <2>1, <2>2 DEF listed, first, head
<1>9. Apart'
  <2>. SUFFICES ASSUME NEW b \in Alarms  PROVE next'[b] # b <=> b \in listed'
    BY DEF Apart
  <2>1. next[b] # b <=> b \in listed
    BY DEF ListInv, Apart
  <2>. QED
    BY <1>0, <1>1, <1>4, <1>3, <1>8, <2>1
<1>10. Straight'
  <2>. SUFFICES ASSUME NEW b \in listed'  PROVE b \notin Follow(next', next'[b])
    BY DEF Straight
  <2>1. CASE b = a
    <3>1. Follow(next', first) = listed
      BY <1>1, <1>7 DEF listed, first, head
    <3>. QED
      BY <1>1, <1>4, <2>1, <3>1
  <2>2. CASE b # a
    <3>1. b \in listed /\ next'[b] = next[b] /\ next[b] \in Nodes
      BY <1>0, <1>1, <1>4, <1>8, <2>2
    <3>2. Follow(next, next[b]) \subseteq listed
      <4>. DEFINE S == listed \cup {head}
      <4>1. S \in SUBSET Nodes /\ next[b] \in S /\ \A c \in S \cap Alarms : next[c] \in S
        BY <1>0, <3>1
      <4>. HIDE DEF S
      <4>2. Follow(next, next[b]) \subseteq S /\ Follow(next, next[b]) \subseteq Alarms
        BY <1>1, <3>1, <4>1, FollowLeast, FollowClosed
      <4>. QED
        BY <1>0, <4>2 DEF S
    <3>3. Follow(next', next'[b]) = Follow(next, next[b])
      BY <1>7, <3>1, <3>2
    <3>. QED
      BY <3>1, <3>3 DEF ListInv, Straight
  <2>. QED
    BY <2>1, <2>2
<1>. QED
  BY <1>5, <1>6, <1>8, <1>9, <1>10 DEF ListInv

(* Removing an alarm that is not in the list does nothing. *)
LEMMA RemoveAgain ==
  ASSUME ListInv, NEW a \in Alarms, a \notin listed, Remove(a)
  PROVE  next' = next /\ previous' = previous
<1>1. next \in [Nodes -> Nodes] /\ previous \in [Nodes -> Nodes] /\ a \in Nodes
  BY DEF ListInv, LinksOK, Nodes
<1>2. next[a] = a /\ previous[a] = a
  BY <1>1 DEF ListInv, Apart, Mutual
<1>. QED
  BY <1>1, <1>2 DEF Remove

LEMMA RemoveListed ==
  ASSUME ListInv, NEW a \in listed, Remove(a)
  PROVE  /\ ListInv' /\ listed' = listed \ {a}
         /\ Follow(next', next[a]) = Follow(next, next[a])
         /\ next[a] = alt_alarm_list \/ next[a] \in listed'
<1>. DEFINE head == alt_alarm_list
            first == next[head]
            p == previous[a]
            q == next[a]
<1>0. /\ Alarms \subseteq Nodes /\ head \in Nodes /\ head \notin Alarms
      /\ listed \subseteq Alarms
      /\ first = head \/ first \in listed
      /\ \A b \in listed : next[b] = head \/ next[b] \in listed
  BY ListedFacts DEF ListInv
<1>1. /\ next \in [Nodes -> Nodes] /\ previous \in [Nodes -> Nodes]
      /\ a \in Nodes /\ a \in Alarms /\ a # head /\ p \in Nodes /\ q \in Nodes /\ first \in Nodes
  BY <1>0 DEF ListInv, LinksOK
<1>2. \A e \in Nodes : previous[next[e]] = e /\ next[previous[e]] = e
  BY DEF ListInv, Mutual
<1>3. /\ next[p] = a /\ previous[q] = a
      /\ q # a /\ p # a
      /\ \A e \in Nodes : next[e] = a => e = p
  <2>1. q # a
    BY <1>1 DEF ListInv, Apart
  <2>. QED
    BY <1>1, <1>2, <2>1
<1>4. /\ next' \in [Nodes -> Nodes] /\ previous' \in [Nodes -> Nodes]
      /\ next'[p] = q /\ next'[a] = a
      /\ \A e \in Nodes : e # a /\ e # p => next'[e] = next[e]
      /\ previous'[q] = p /\ previous'[a] = a
      /\ \A e \in Nodes : e # a /\ e # q => previous'[e] = previous[e]
  <2>1. /\ previous' = [previous EXCEPT ![q] = p, ![a] = a]
        /\ next' = [next EXCEPT ![p] = q, ![a] = a]
    BY DEF Remove
  <2>. QED
    BY <1>1, <1>3, <2>1
<1>. HIDE DEF head, first, p, q
<1>5. LinksOK'
  BY <1>4 DEF LinksOK
<1>6. Mutual'
  <2>2. ASSUME NEW e \in Nodes  PROVE previous'[next'[e]] = e /\ next'[previous'[e]] = e
    <3>1. previous'[next'[e]] = e
      BY <1>1, <1>2, <1>3, <1>4
    <3>2. next'[previous'[e]] = e
      BY <1>1, <1>2, <1>3, <1>4
    <3>. QED
      BY <3>1, <3>2
  <2>. QED
    BY <2>2 DEF Mutual
<1>7. a \notin Follow(next, q)
  BY DEF ListInv, Straight, q
<1>8. /\ Follow(next, q) \subseteq Alarms
      /\ q = head \/ q \in Follow(next, q)
      /\ \A b \in Follow(next, q) : next[b] = head \/ next[b] \in Follow(next, q)
  BY <1>1, FollowClosed DEF head
<1>9. p \notin Follow(next, q)
  BY <1>1, <1>3, <1>7, <1>8
<1>10. Follow(next', q) = Follow(next, q)
  <2>1. \A b \in Follow(next, q) : next'[b] = next[b]
    BY <1>0, <1>4, <1>7, <1>8, <1>9
  <2>. QED
    BY <1>1, <1>4, <2>1, FollowSame
<1>11. q = head \/ q \in listed \ {a}
  BY <1>0, <1>3 DEF q
<1>12. listed' \subseteq listed \ {a}
  <2>. DEFINE S == (listed \ {a}) \cup {head}
  <2>1. next'[head] \in S
    <3>1. CASE p = head
      BY <1>4, <1>11, <3>1
    <3>2. CASE p # head
      BY <1>0, <1>1, <1>3, <1>4, <3>2 DEF first
    <3>. QED
      BY <3>1, <3>2
  <2>2. S \in SUBSET Nodes /\ \A c \in S \cap Alarms : next'[c] \in S
    BY <1>0, <1>1, <1>3, <1>4, <1>11
  <2>. HIDE DEF S
  <2>3. listed' \subseteq S
    BY <2>1, <2>2, FollowLeast DEF listed, head
  <2>4. listed' \subseteq Alarms
    BY <1>1, <1>4, <1>0, FollowClosed DEF listed, head
  <2>. QED
    BY <1>0, <2>3, <2>4 DEF S
<1>13. /\ next'[head] = head \/ next'[head] \in listed'
       /\ \A b \in listed' : next'[b] = head \/ next'[b] \in listed'
  BY <1>5, ListedFacts, FollowClosed, <1>0, <1>4 DEF listed, head
<1>14. listed \subseteq listed' \cup {a}
  <2>1. CASE p \in listed' \/ p = head
    <3>. DEFINE S == listed' \cup {a, head}
    <3>1. S \in SUBSET Nodes /\ first \in S
      BY <1>0, <1>1, <1>3, <1>4, <1>12, <1>13, <2>1 DEF first
    <3>2. q \in S
      BY <1>4, <1>13, <2>1
    <3>3. \A c \in S \cap Alarms : next[c] \in S
      BY <1>0, <1>1, <1>3, <1>4, <1>12, <1>13, <3>2 DEF q
    <3>. HIDE DEF S
    <3>4. listed \subseteq S
      BY <3>1, <3>3, FollowLeast DEF listed, first, head
    <3>. QED
      BY <1>0, <3>4 DEF S
  <2>2. CASE p \notin listed' /\ p # head
    <3>. DEFINE S == listed' \cup {head}
    <3>1. S \in SUBSET Nodes /\ first \in S
      BY <1>0, <1>1, <1>3, <1>4, <1>12, <1>13, <2>2 DEF first
    <3>3. \A c \in S \cap Alarms : next[c] \in S
      BY <1>0, <1>1, <1>3, <1>4, <1>12, <1>13, <2>2
    <3>. HIDE DEF S
    <3>4. listed \subseteq S
      BY <3>1, <3>3, FollowLeast DEF listed, first, head
    <3>. QED
      BY <1>0, <3>4 DEF S
  <2>. QED
    BY <2>1, <2>2
<1>15. listed' = listed \ {a}
  BY <1>12, <1>14
<1>16. Apart'
  <2>. SUFFICES ASSUME NEW b \in Alarms  PROVE next'[b] # b <=> b \in listed'
    BY DEF Apart
  <2>1. next[b] # b <=> b \in listed
    BY DEF ListInv, Apart
  <2>2. CASE b = a
    BY <1>4, <1>15, <2>2
  <2>3. CASE b # a /\ b # p
    BY <1>0, <1>4, <1>15, <2>1, <2>3
  <2>4. CASE b # a /\ b = p
    <3>1. p # q
      BY <1>8, <1>9, <1>0, <2>4
    <3>. QED
      BY <1>3, <1>4, <1>15, <2>1, <2>4, <3>1
  <2>. QED
    BY <2>2, <2>3, <2>4
<1>17. ASSUME NEW e \in Nodes
       PROVE  Follow(next', e) \subseteq Follow(next, e)
  <2>. DEFINE F == Follow(next, e)
              S == F \cup {head}
  <2>1. /\ F \subseteq Alarms
        /\ e = head \/ e \in F
        /\ \A b \in F : next[b] = head \/ next[b] \in F
    BY <1>1, FollowClosed DEF head
  <2>. HIDE DEF F
  <2>2. S \in SUBSET Nodes /\ e \in S
    BY <1>0, <2>1
  <2>3. ASSUME NEW c \in S \cap Alarms  PROVE next'[c] \in S
    <3>1. c \in F /\ c \in Nodes
      BY <1>0, <2>3
    <3>2. CASE c = p
      <4>1. a \in F
        BY <1>1, <1>3, <2>1, <3>1, <3>2
      <4>. QED
        BY <1>4, <2>1, <3>2, <4>1 DEF q
    <3>3. CASE c # p
      BY <1>4, <2>1, <3>1, <3>3
    <3>. QED
      BY <3>2, <3>3
  <2>. HIDE DEF S
  <2>4. Follow(next', e) \subseteq S
    BY <2>2, <2>3, FollowLeast
  <2>5. Follow(next', e) \subseteq Alarms
    BY <1>4, FollowClosed
  <2>6. Follow(next', e) \subseteq F
    BY <1>0, <2>4, <2>5 DEF S
  <2>. QED
    BY <2>6 DEF F
<1>18. Straight'
  <2>. SUFFICES ASSUME NEW b \in listed'  PROVE b \notin Follow(next', next'[b])
    BY DEF Straight
  <2>1. /\ b \in listed /\ b # a /\ b \in Nodes /\ next[b] \in Nodes
        /\ b \notin Follow(next, next[b])
    BY <1>0, <1>1, <1>15 DEF ListInv, Straight
  <2>2. CASE b = p
    BY <1>4, <1>9, <1>10, <2>2
  <2>3. CASE b # p
    BY <1>4, <1>17, <2>1, <2>3
  <2>. QED
    BY <2>2, <2>3
<1>. QED
  BY <1>5, <1>6, <1>10, <1>11, <1>15, <1>16, <1>18 DEF ListInv, head, q

LEMMA RemoveList ==
  ASSUME ListInv, NEW a \in Alarms, Remove(a)
  PROVE  ListInv' /\ listed' = listed \ {a}
<1>1. CASE a \in listed
  BY <1>1, RemoveListed
<1>2. CASE a \notin listed
  <2>1. next' = next /\ previous' = previous
    BY <1>2, RemoveAgain
  <2>. QED
    BY <1>2, <2>1 DEF ListInv, LinksOK, Mutual, Apart, Straight, listed
<1>. QED
  BY <1>1, <1>2

----------------------------------------------------------------------------
(* The arithmetic is the same with and without the list.                   *)

LEMMA StartMeans ==
  ASSUME NEW a
  PROVE  Walk!Start(a) <=>
           /\ todo = {} /\ a \notin listed
           /\ listed' = listed \cup {a}
           /\ \E n \in Delays : alarm' = [alarm EXCEPT ![a] = Armed(n, nticks)]
           /\ UNCHANGED <<nticks, todo>>
  BY DEF Walk!Start, Walk!Armed, Walk!Wrap, Armed, Wrap

LEMMA TickMeans ==
  Walk!Tick <=>
    /\ todo = {} /\ todo' = listed
    /\ nticks' = Wrap(nticks + 1)
    /\ UNCHANGED <<alarm, listed>>
  BY DEF Walk!Tick, Walk!Wrap, Wrap

LEMMA VisitMeans ==
  ASSUME NEW a
  PROVE  Walk!Visit(a) <=>
           /\ a \in todo /\ todo' = todo \ {a}
           /\ LET seen == Seen(alarm[a], nticks)
              IN  \/ /\ ~Expired(seen, nticks)
                     /\ alarm' = [alarm EXCEPT ![a] = seen]
                     /\ UNCHANGED listed
                  \/ /\ Expired(seen, nticks) /\ 0 \in Periods
                     /\ alarm' = [alarm EXCEPT ![a] = seen]
                     /\ listed' = listed \ {a}
                  \/ /\ Expired(seen, nticks)
                     /\ \E period \in Periods \ {0} :
                          alarm' = [alarm EXCEPT ![a] = Rearmed(seen, period, nticks)]
                     /\ UNCHANGED listed
           /\ UNCHANGED nticks
  BY Zenon DEF Walk!Visit, Walk!Seen, Walk!Expired, Walk!Rearmed, Walk!Wrap,
               Seen, Expired, Rearmed, Wrap

----------------------------------------------------------------------------
(* Every step of the list is one of the alarms without it.                 *)

LEMMA StartWalks ==
  ASSUME ListInv, CursorOK, NEW a \in Alarms, StartAlarm(a)
  PROVE  ListInv' /\ CursorOK' /\ Walk!Start(a)
<1>1. /\ MainRuns /\ next[a] = a /\ Insert(a)
      /\ nticks' = nticks /\ cursor' = cursor
      /\ \E n \in Delays : alarm' = [alarm EXCEPT ![a] = Armed(n, nticks)]
  BY DEF StartAlarm
<1>2. ListInv' /\ listed' = listed \cup {a}
  BY <1>1, InsertList
<1>3. a \notin listed
  BY <1>1 DEF ListInv, Apart
<1>4. todo = {} /\ todo' = {}
  BY <1>1, <1>2, FollowHead DEF MainRuns, todo, ListInv, LinksOK
<1>. QED
  BY <1>1, <1>2, <1>3, <1>4, StartMeans DEF CursorOK, MainRuns

LEMMA StopWalks ==
  ASSUME ListInv, CursorOK, NEW a \in Alarms, StopAlarm(a)
  PROVE  ListInv' /\ CursorOK' /\ Walk!Stop(a)
<1>1. /\ MainRuns /\ Remove(a)
      /\ nticks' = nticks /\ alarm' = alarm /\ cursor' = cursor
  BY DEF StopAlarm
<1>2. ListInv' /\ listed' = listed \ {a}
  BY <1>1, RemoveList
<1>3. todo = {} /\ todo' = {}
  BY <1>1, <1>2, FollowHead DEF MainRuns, todo, ListInv, LinksOK
<1>. QED
  BY <1>1, <1>2, <1>3 DEF CursorOK, MainRuns, Walk!Stop

LEMMA TickWalks ==
  ASSUME ListInv, CursorOK, StartTick
  PROVE  ListInv' /\ CursorOK' /\ Walk!Tick
<1>1. /\ MainRuns /\ nticks' = Wrap(nticks + 1) /\ cursor' = next[alt_alarm_list]
      /\ alarm' = alarm /\ next' = next /\ previous' = previous
  BY DEF StartTick, links
<1>2. ListInv' /\ listed' = listed /\ todo' = listed
  BY <1>1 DEF ListInv, LinksOK, Mutual, Apart, Straight, listed, todo
<1>3. todo = {}
  BY <1>1, FollowHead DEF MainRuns, todo, ListInv, LinksOK
<1>4. CursorOK'
  BY <1>1, <1>2, ListedFacts DEF CursorOK, ListInv
<1>. QED
  BY <1>1, <1>2, <1>3, <1>4, TickMeans

LEMMA VisitWalks ==
  ASSUME ListInv, CursorOK, NEW a \in Alarms, Visit(a)
  PROVE  ListInv' /\ CursorOK' /\ Walk!Visit(a)
<1>. DEFINE seen == Seen(alarm[a], nticks)
<1>1. a = cursor /\ cursor' = next[a] /\ nticks' = nticks
  BY DEF Visit, Advance
<1>2. a \in listed /\ next \in [Nodes -> Nodes]
  BY <1>1, ListAssumption DEF CursorOK, ListInv, LinksOK
<1>3. todo = {a} \cup Follow(next, next[a]) /\ a \notin Follow(next, next[a])
  BY <1>1, <1>2, FollowStep DEF todo, ListInv, Straight
<1>4. \/ /\ ~Expired(seen, nticks)
         /\ alarm' = [alarm EXCEPT ![a] = seen]
         /\ UNCHANGED links
      \/ /\ Expired(seen, nticks) /\ 0 \in Periods
         /\ alarm' = [alarm EXCEPT ![a] = seen]
         /\ Remove(a)
      \/ /\ Expired(seen, nticks)
         /\ \E period \in Periods \ {0} :
              alarm' = [alarm EXCEPT ![a] = Rearmed(seen, period, nticks)]
         /\ UNCHANGED links
  BY DEF Visit
<1>. HIDE DEF seen
<1>5. ASSUME UNCHANGED links
      PROVE  /\ ListInv' /\ listed' = listed /\ todo' = todo \ {a}
             /\ CursorOK'
  <2>1. next' = next /\ previous' = previous
    BY <1>5 DEF links
  <2>2. ListInv' /\ listed' = listed /\ todo' = Follow(next, next[a])
    BY <1>1, <2>1 DEF ListInv, LinksOK, Mutual, Apart, Straight, listed, todo
  <2>3. CursorOK'
    BY <1>1, <1>2, <2>2, ListedFacts DEF CursorOK, ListInv
  <2>. QED
    BY <1>3, <2>2, <2>3
<1>6. ASSUME Remove(a)
      PROVE  /\ ListInv' /\ listed' = listed \ {a} /\ todo' = todo \ {a}
             /\ CursorOK'
  <2>1. /\ ListInv' /\ listed' = listed \ {a}
        /\ Follow(next', next[a]) = Follow(next, next[a])
        /\ next[a] = alt_alarm_list \/ next[a] \in listed'
    BY <1>2, <1>6, RemoveListed
  <2>. QED
    BY <1>1, <1>3, <2>1 DEF todo, CursorOK
<1>7. a \in todo
  BY <1>3
<1>8. ListInv' /\ CursorOK' /\ todo' = todo \ {a}
  BY <1>4, <1>5, <1>6, Zenon
<1>9. \/ /\ ~Expired(seen, nticks)
         /\ alarm' = [alarm EXCEPT ![a] = seen]
         /\ UNCHANGED listed
      \/ /\ Expired(seen, nticks) /\ 0 \in Periods
         /\ alarm' = [alarm EXCEPT ![a] = seen]
         /\ listed' = listed \ {a}
      \/ /\ Expired(seen, nticks)
         /\ \E period \in Periods \ {0} :
              alarm' = [alarm EXCEPT ![a] = Rearmed(seen, period, nticks)]
         /\ UNCHANGED listed
  BY <1>4, <1>5, <1>6, Zenon
<1>10. Walk!Visit(a)
  BY <1>1, <1>7, <1>8, <1>9, VisitMeans, Zenon DEF seen
<1>. QED
  BY <1>8, <1>10

LEMMA HostWalks ==
  ASSUME ListInv, CursorOK, [HostNext]_allVars
  PROVE  ListInv' /\ CursorOK' /\ [Walk!Next]_Walk!vars
<1>1. CASE StartTick
  BY <1>1, TickWalks DEF Walk!Next
<1>2. ASSUME NEW a \in Alarms, Visit(a)
      PROVE  ListInv' /\ CursorOK' /\ [Walk!Next]_Walk!vars
  BY <1>2, VisitWalks DEF Walk!Next
<1>3. ASSUME NEW a \in Alarms, StartAlarm(a)
      PROVE  ListInv' /\ CursorOK' /\ [Walk!Next]_Walk!vars
  BY <1>3, StartWalks DEF Walk!Next
<1>4. ASSUME NEW a \in Alarms, StopAlarm(a)
      PROVE  ListInv' /\ CursorOK' /\ [Walk!Next]_Walk!vars
  BY <1>4, StopWalks DEF Walk!Next
<1>5. CASE UNCHANGED tickVars
  <2>1. /\ nticks' = nticks /\ alarm' = alarm
        /\ next' = next /\ previous' = previous /\ cursor' = cursor
    BY <1>5 DEF tickVars, links
  <2>2. listed' = listed /\ todo' = todo
    BY <2>1 DEF listed, todo
  <2>3. ListInv' /\ CursorOK'
    BY <2>1, <2>2 DEF ListInv, LinksOK, Mutual, Apart, Straight, CursorOK
  <2>. QED
    BY <2>1, <2>2, <2>3 DEF Walk!vars
<1>. QED
  BY <1>1, <1>2, <1>3, <1>4, <1>5 DEF HostNext, Pass, Tick, Expire, Change, allVars

LEMMA HostInitWalks == HostInit => ListInv /\ CursorOK /\ Walk!Init
<1>. SUFFICES ASSUME HostInit  PROVE ListInv /\ CursorOK /\ Walk!Init
  OBVIOUS
<1>1. /\ next = [e \in Nodes |-> e] /\ previous = next /\ cursor = alt_alarm_list
      /\ nticks = 0 /\ alarm = [a \in Alarms |-> [time |-> 0, rollover |-> FALSE]]
  BY DEF HostInit, TickInit
<1>2. LinksOK /\ Mutual /\ alt_alarm_list \in Nodes
  BY <1>1 DEF LinksOK, Mutual, Nodes
<1>3. listed = {} /\ todo = {}
  BY <1>1, <1>2, FollowHead DEF listed, todo, LinksOK
<1>. QED
  BY <1>1, <1>2, <1>3 DEF ListInv, Apart, Straight, CursorOK, Walk!Init, Nodes

(* Every registered alarm is looked at once in each tick, although alarms  *)
(* leave the list on the way (alt_tick.c:102-104): the list implements the *)
(* alarms without one.                                                     *)
THEOREM ListWalksOnce == HostSpec => Walk!Spec
<1>1. HostInit => ListInv /\ CursorOK /\ Walk!Init
  BY HostInitWalks
<1>2. ListInv /\ CursorOK /\ [HostNext]_allVars => ListInv' /\ CursorOK' /\ [Walk!Next]_Walk!vars
  BY HostWalks
<1>. QED
  BY <1>1, <1>2, PTL DEF HostSpec, Walk!Spec

----------------------------------------------------------------------------
(* Alarms: the inductive invariant of their times                          *)

AlarmTypeOK ==
  /\ nticks \in Ticks
  /\ alarm \in [Alarms -> Alarm]
  /\ listed \subseteq Alarms /\ todo \subseteq listed

(* The flag says on which side of the counter's roll-over an alarm lies,   *)
(* seen from the tick at which alt_tick last looked at it.                 *)
Flagged(a, now) ==
  /\ alarm[a].time # now
  /\ alarm[a].rollover <=> alarm[a].time < now

LastTick == IF nticks = 0 THEN Word - 1 ELSE nticks - 1

Waiting == \A a \in listed \ todo : Flagged(a, nticks)
Unseen == \A a \in todo : Flagged(a, LastTick)

AlarmInv == AlarmTypeOK /\ Waiting /\ Unseen

----------------------------------------------------------------------------
(* The arithmetic of one alarm.                                            *)

LEMMA AlarmFields ==
  ASSUME NEW t \in Ticks, NEW b \in BOOLEAN
  PROVE  LET r == [time |-> t, rollover |-> b]
         IN  r \in Alarm /\ r.time = t /\ r.rollover = b
  BY DEF Alarm

LEMMA ArmedRight ==
  ASSUME NEW now \in Ticks, NEW n \in Delays
  PROVE  LET r == Armed(n, now)
         IN  /\ r \in Alarm /\ r.time # now
             /\ r.rollover <=> r.time < now
             /\ n + 1 = IF r.time >= now THEN r.time - now ELSE r.time + Word - now
<1>. DEFINE t == Wrap(n + now + 1)
<1>1. /\ t \in Ticks /\ t # now
      /\ n + 1 = IF t >= now THEN t - now ELSE t + Word - now
  BY AlarmAssumption DEF Ticks, Wrap
<1>. DEFINE result == Armed(n, now)
            b == t < now
<1>2. result = [time |-> t, rollover |-> b] /\ b \in BOOLEAN
  BY DEF Armed
<1>. HIDE DEF t, b, result
<1>3. result \in Alarm /\ result.time = t /\ result.rollover = b
  BY <1>1, <1>2, AlarmFields
<1>. QED
  BY <1>1, <1>3, Zenon DEF result, b

LEMMA RearmedRight ==
  ASSUME NEW now \in Ticks, NEW r \in Alarm, r.time = now, NEW p \in Periods \ {0}
  PROVE  LET s == Rearmed(r, p, now)
         IN  /\ s \in Alarm /\ s.time # now
             /\ s.rollover <=> s.time < now
             /\ p = IF s.time >= now THEN s.time - now ELSE s.time + Word - now
<1>. DEFINE t == Wrap(r.time + p)
<1>1. /\ t \in Ticks /\ t # now
      /\ p = IF t >= now THEN t - now ELSE t + Word - now
  BY AlarmAssumption DEF Ticks, Wrap
<1>. DEFINE result == Rearmed(r, p, now)
            b == t < now
<1>2. result = [time |-> t, rollover |-> b] /\ b \in BOOLEAN
  BY DEF Rearmed
<1>. HIDE DEF t, b, result
<1>3. result \in Alarm /\ result.time = t /\ result.rollover = b
  BY <1>1, <1>2, AlarmFields
<1>. QED
  BY <1>1, <1>3, Zenon DEF result, b

(* An alarm that was flagged right at the last tick expires in this one    *)
(* exactly if its time has come, and is flagged right if it has not.       *)
LEMMA SeenRight ==
  ASSUME AlarmTypeOK, NEW a \in listed, Flagged(a, LastTick)
  PROVE  LET seen == Seen(alarm[a], nticks)
         IN  /\ seen \in Alarm /\ seen.time = alarm[a].time
             /\ Expired(seen, nticks) <=> seen.time = nticks
             /\ ~Expired(seen, nticks) => (seen.rollover <=> seen.time < nticks)
<1>. DEFINE t == alarm[a].time
            f == alarm[a].rollover
            g == f /\ nticks # 0
            seen == Seen(alarm[a], nticks)
<1>1. t \in Ticks /\ f \in BOOLEAN /\ g \in BOOLEAN /\ nticks \in Ticks
  BY DEF AlarmTypeOK, Alarm
<1>2. seen = [time |-> t, rollover |-> g]
  BY DEF Seen
<1>3. t # LastTick /\ (f <=> t < LastTick)
  BY DEF Flagged
<1>4. (t <= nticks /\ ~g <=> t = nticks) /\ (~(t <= nticks /\ ~g) => (g <=> t < nticks))
  <2>. HIDE DEF t, f
  <2>1. CASE nticks = 0
    <3>1. t <= nticks <=> t = nticks
      BY <1>1, <2>1 DEF Ticks
    <3>2. ~(t < nticks)
      BY <1>1, <2>1 DEF Ticks
    <3>3. ~g
      BY <2>1
    <3>. HIDE DEF g
    <3>. QED
      BY <3>1, <3>2, <3>3, Zenon
  <2>2. CASE nticks # 0
    <3>1. ~(t < LastTick) => ~(t < nticks)
      BY <1>1, <1>3, <2>2 DEF Ticks, LastTick
    <3>2. t < LastTick => t < nticks
      BY <1>1, <1>3, <2>2 DEF Ticks, LastTick
    <3>3. g <=> t < nticks
      BY <1>3, <2>2, <3>1, <3>2, Zenon DEF g
    <3>4. t <= nticks <=> t < nticks \/ t = nticks
      BY <1>1 DEF Ticks
    <3>5. t = nticks => ~(t < nticks)
      BY <1>1 DEF Ticks
    <3>. HIDE DEF g
    <3>. QED
      BY <3>3, <3>4, <3>5, Zenon
  <2>. QED
    BY <2>1, <2>2
<1>. HIDE DEF t, f, g, seen
<1>5. seen \in Alarm /\ seen.time = t /\ seen.rollover = g
  BY <1>1, <1>2 DEF Alarm
<1>6. Expired(seen, nticks) <=> t <= nticks /\ ~g
  BY <1>5, Zenon DEF Expired
<1>7. /\ seen \in Alarm /\ seen.time = t
      /\ Expired(seen, nticks) <=> seen.time = nticks
      /\ ~Expired(seen, nticks) => (seen.rollover <=> seen.time < nticks)
  BY <1>4, <1>5, <1>6, Zenon
<1>. QED
  BY <1>7, Zenon DEF seen, t

----------------------------------------------------------------------------

LEMMA AlarmInitInv == Walk!Init => AlarmInv
<1>1. Walk!Init => AlarmTypeOK
  BY AlarmAssumption DEF Walk!Init, AlarmTypeOK, Ticks, Alarm
<1>. QED
  BY <1>1 DEF Walk!Init, AlarmInv, Waiting, Unseen

LEMMA StartInv == ASSUME AlarmInv, NEW a \in Alarms, Walk!Start(a) PROVE AlarmInv'
<1>1. PICK n \in Delays : alarm' = [alarm EXCEPT ![a] = Armed(n, nticks)]
  BY StartMeans
<1>2. nticks' = nticks /\ todo = {} /\ todo' = {} /\ listed' = listed \cup {a}
  BY StartMeans
<1>3. /\ Armed(n, nticks) \in Alarm /\ Armed(n, nticks).time # nticks
      /\ Armed(n, nticks).rollover <=> Armed(n, nticks).time < nticks
  BY ArmedRight DEF AlarmInv, AlarmTypeOK
<1>4. AlarmTypeOK'
  BY <1>1, <1>2, <1>3 DEF AlarmInv, AlarmTypeOK
<1>5. ASSUME NEW e \in listed'  PROVE Flagged(e, nticks)'
  <2>1. CASE e = a
    <3>1. alarm'[e] = Armed(n, nticks)
      BY <1>1, <2>1 DEF AlarmInv, AlarmTypeOK
    <3>. QED
      BY <1>2, <1>3, <3>1, Zenon DEF Flagged
  <2>2. CASE e # a
    <3>1. alarm'[e] = alarm[e] /\ e \in listed \ todo
      BY <1>1, <1>2, <1>5, <2>2 DEF AlarmInv, AlarmTypeOK
    <3>. QED
      BY <1>2, <3>1, Zenon DEF Flagged, AlarmInv, Waiting
  <2>. QED
    BY <2>1, <2>2
<1>. QED
  BY <1>2, <1>4, <1>5 DEF AlarmInv, Waiting, Unseen

LEMMA TickInv == ASSUME AlarmInv, Walk!Tick PROVE AlarmInv' /\ LastTick' = nticks
<1>1. todo = {} /\ todo' = listed /\ listed' = listed /\ alarm' = alarm
  BY TickMeans
<1>2. nticks' \in Ticks /\ LastTick' = nticks
  BY AlarmAssumption, TickMeans DEF AlarmInv, AlarmTypeOK, Ticks, Wrap, LastTick
<1>3. AlarmTypeOK'
  BY <1>1, <1>2 DEF AlarmInv, AlarmTypeOK
<1>4. ASSUME NEW e \in todo'  PROVE Flagged(e, LastTick)'
  <2>1. Flagged(e, nticks)
    BY <1>1, <1>4 DEF AlarmInv, Waiting
  <2>. QED
    BY <1>1, <1>2, <2>1, Zenon DEF Flagged
<1>. QED
  BY <1>1, <1>2, <1>3, <1>4 DEF AlarmInv, Waiting, Unseen

(* What alt_tick does with one alarm: nothing, or the call of an alarm     *)
(* that is due, which stops or waits for another period.                   *)
LEMMA VisitCases ==
  ASSUME AlarmInv, NEW a \in Alarms, Walk!Visit(a)
  PROVE  /\ a \in todo /\ todo' = todo \ {a} /\ nticks' = nticks
         /\ \E r \in Alarm :
              /\ alarm' = [alarm EXCEPT ![a] = r]
              /\ \/ /\ listed' = listed /\ r.time = alarm[a].time
                    /\ r.time # nticks /\ (r.rollover <=> r.time < nticks)
                 \/ /\ alarm[a].time = nticks /\ 0 \in Periods
                    /\ listed' = listed \ {a}
                 \/ /\ alarm[a].time = nticks /\ listed' = listed
                    /\ r.time # nticks /\ (r.rollover <=> r.time < nticks)
                    /\ \E p \in Periods \ {0} :
                         p = IF r.time >= nticks THEN r.time - nticks
                             ELSE r.time + Word - nticks
<1>. DEFINE seen == Seen(alarm[a], nticks)
<1>1. a \in todo /\ todo' = todo \ {a} /\ nticks' = nticks /\ a \in listed /\ nticks \in Ticks
  BY VisitMeans DEF AlarmInv, AlarmTypeOK
<1>2. /\ seen \in Alarm /\ seen.time = alarm[a].time
      /\ Expired(seen, nticks) <=> seen.time = nticks
      /\ ~Expired(seen, nticks) => (seen.rollover <=> seen.time < nticks)
  BY <1>1, SeenRight DEF AlarmInv, Unseen
<1>3. \/ ~Expired(seen, nticks) /\ alarm' = [alarm EXCEPT ![a] = seen] /\ listed' = listed
      \/ /\ Expired(seen, nticks) /\ 0 \in Periods
         /\ alarm' = [alarm EXCEPT ![a] = seen] /\ listed' = listed \ {a}
      \/ /\ Expired(seen, nticks) /\ listed' = listed
         /\ \E p \in Periods \ {0} : alarm' = [alarm EXCEPT ![a] = Rearmed(seen, p, nticks)]
  BY VisitMeans, Zenon
<1>. HIDE DEF seen
<1>4. CASE ~Expired(seen, nticks) /\ alarm' = [alarm EXCEPT ![a] = seen] /\ listed' = listed
  BY <1>1, <1>2, <1>4, Zenon
<1>5. CASE /\ Expired(seen, nticks) /\ 0 \in Periods
           /\ alarm' = [alarm EXCEPT ![a] = seen] /\ listed' = listed \ {a}
  BY <1>1, <1>2, <1>5, Zenon
<1>6. ASSUME Expired(seen, nticks), listed' = listed, NEW p \in Periods \ {0},
             alarm' = [alarm EXCEPT ![a] = Rearmed(seen, p, nticks)]
      PROVE  \E r \in Alarm :
               /\ alarm' = [alarm EXCEPT ![a] = r]
               /\ r.time # nticks /\ (r.rollover <=> r.time < nticks)
               /\ \E q \in Periods \ {0} :
                    q = IF r.time >= nticks THEN r.time - nticks ELSE r.time + Word - nticks
  <2>. DEFINE r == Rearmed(seen, p, nticks)
  <2>1. /\ r \in Alarm /\ r.time # nticks
        /\ r.rollover <=> r.time < nticks
        /\ p = IF r.time >= nticks THEN r.time - nticks ELSE r.time + Word - nticks
    BY <1>1, <1>2, <1>6, RearmedRight
  <2>. HIDE DEF r
  <2>2. alarm' = [alarm EXCEPT ![a] = r]
    BY <1>6 DEF r
  <2>. QED
    BY <2>1, <2>2, Zenon
<1>. QED
  BY <1>1, <1>2, <1>3, <1>4, <1>5, <1>6, Zenon

LEMMA VisitInv == ASSUME AlarmInv, NEW a \in Alarms, Walk!Visit(a) PROVE AlarmInv'
<1>1. a \in todo /\ todo' = todo \ {a} /\ nticks' = nticks
  BY VisitCases
<1>2. PICK r \in Alarm :
        /\ alarm' = [alarm EXCEPT ![a] = r]
        /\ \/ listed' = listed /\ r.time # nticks /\ (r.rollover <=> r.time < nticks)
           \/ listed' = listed \ {a}
  BY VisitCases, Zenon
<1>3. AlarmTypeOK'
  BY <1>1, <1>2 DEF AlarmInv, AlarmTypeOK
<1>4. \A e \in Alarms : e # a => alarm'[e] = alarm[e]
  BY <1>2 DEF AlarmInv, AlarmTypeOK
<1>5. ASSUME NEW e \in (listed \ todo)'  PROVE Flagged(e, nticks)'
  <2>1. CASE e = a
    <3>1. alarm'[e] = r
      BY <1>2, <2>1 DEF AlarmInv, AlarmTypeOK
    <3>2. r.time # nticks /\ (r.rollover <=> r.time < nticks)
      BY <1>2, <1>5, <2>1, Zenon
    <3>. QED
      BY <1>1, <3>1, <3>2, Zenon DEF Flagged
  <2>2. CASE e # a
    <3>1. e \in listed \ todo /\ e \in Alarms
      BY <1>1, <1>2, <1>5, <2>2 DEF AlarmInv, AlarmTypeOK
    <3>. QED
      BY <1>1, <1>4, <2>2, <3>1, Zenon DEF Flagged, AlarmInv, Waiting
  <2>. QED
    BY <2>1, <2>2
<1>6. ASSUME NEW e \in todo'  PROVE Flagged(e, LastTick)'
  <2>1. e \in todo /\ e # a /\ e \in Alarms
    BY <1>1, <1>6 DEF AlarmInv, AlarmTypeOK
  <2>. QED
    BY <1>1, <1>4, <2>1, Zenon DEF Flagged, LastTick, AlarmInv, Unseen
<1>. QED
  BY <1>3, <1>5, <1>6, Zenon DEF AlarmInv, Waiting, Unseen

LEMMA NextInv == ASSUME AlarmInv, [Walk!Next]_Walk!vars PROVE AlarmInv'
<1>1. CASE Walk!Tick
  BY <1>1, TickInv
<1>2. ASSUME NEW a \in Alarms, Walk!Start(a) PROVE AlarmInv'
  BY <1>2, StartInv
<1>3. ASSUME NEW a \in Alarms, Walk!Stop(a) PROVE AlarmInv'
  BY <1>3 DEF Walk!Stop, AlarmInv, AlarmTypeOK, Waiting, Unseen, Flagged
<1>4. ASSUME NEW a \in Alarms, Walk!Visit(a) PROVE AlarmInv'
  BY <1>4, VisitInv
<1>5. CASE UNCHANGED Walk!vars
  BY <1>5 DEF Walk!vars, AlarmInv, AlarmTypeOK, Waiting, Unseen, Flagged, LastTick
<1>. QED
  BY <1>1, <1>2, <1>3, <1>4, <1>5 DEF Walk!Next

LEMMA WalkFlags == Walk!Spec => []AlarmInv
  BY AlarmInitInv, NextInv, PTL DEF Walk!Spec

(* The flag of every registered alarm is right at all times, which is what *)
(* alt_alarm_start.c:88-100 and alt_tick.c:111-137 keep up together.       *)
THEOREM FlagsRight == HostSpec => []AlarmInv
  BY ListWalksOnce, WalkFlags, PTL

----------------------------------------------------------------------------
(* The refinement of AlarmClock.                                           *)

LEMMA LeftTick ==
  ASSUME AlarmInv, Walk!Tick
  PROVE  /\ \A e \in listed : Walk!Left(e) > 0
         /\ \A e \in Alarms : Walk!Left(e)' = IF e \in listed THEN Walk!Left(e) - 1 ELSE 0
<1>1. todo = {} /\ listed' = listed /\ alarm' = alarm /\ nticks' = Wrap(nticks + 1)
  BY TickMeans
<1>2. nticks \in Ticks /\ \A e \in Alarms : alarm[e].time \in Ticks
  BY DEF AlarmInv, AlarmTypeOK, Alarm
<1>3. \A e \in listed : alarm[e].time # nticks /\ e \in Alarms
  BY <1>1 DEF AlarmInv, AlarmTypeOK, Waiting, Flagged
<1>4. ASSUME NEW t \in Ticks, t # nticks
      PROVE  LET d == IF t >= nticks THEN t - nticks ELSE t + Word - nticks
                 now == Wrap(nticks + 1)
             IN  d > 0 /\ d - 1 = IF t >= now THEN t - now ELSE t + Word - now
  BY <1>2, <1>4, AlarmAssumption DEF Ticks, Wrap
<1>5. ASSUME NEW e \in listed  PROVE Walk!Left(e) > 0 /\ Walk!Left(e)' = Walk!Left(e) - 1
  BY <1>1, <1>2, <1>3, <1>4 DEF Walk!Left
<1>6. ASSUME NEW e \in Alarms, e \notin listed  PROVE Walk!Left(e)' = 0
  BY <1>1, <1>6 DEF Walk!Left
<1>. QED
  BY <1>5, <1>6

LEMMA OneLeft ==
  ASSUME NEW a \in Alarms, NEW v, UNCHANGED nticks, Walk!Left(a)' = v,
         \A e \in Alarms \ {a} : alarm'[e] = alarm[e] /\ (e \in listed' <=> e \in listed)
  PROVE  [e \in Alarms |-> Walk!Left(e)]' = [[e \in Alarms |-> Walk!Left(e)] EXCEPT ![a] = v]
<1>1. \A e \in Alarms \ {a} : Walk!Left(e)' = Walk!Left(e)
  BY DEF Walk!Left
<1>. QED
  BY <1>1

LEMMA StepRefines ==
  ASSUME AlarmInv, [Walk!Next]_Walk!vars
  PROVE  [Walk!Clock!Next]_Walk!Clock!vars
<1>. DEFINE left == [e \in Alarms |-> Walk!Left(e)]
<1>0. /\ nticks \in Ticks /\ alarm \in [Alarms -> Alarm] /\ listed \subseteq Alarms
      /\ todo \subseteq listed
  BY DEF AlarmInv, AlarmTypeOK
<1>1. ASSUME Walk!Tick  PROVE Walk!Clock!Tick
  <2>1. /\ \A e \in listed : left[e] > 0
        /\ left' = [e \in Alarms |-> IF e \in listed THEN left[e] - 1 ELSE 0]
    BY <1>0, <1>1, LeftTick
  <2>2. listed' = listed
    BY <1>1, TickMeans
  <2>. QED
    BY <2>1, <2>2 DEF Walk!Clock!Tick
<1>2. ASSUME NEW a \in Alarms, Walk!Start(a)  PROVE Walk!Clock!Start(a)
  <2>1. PICK n \in Delays : alarm' = [alarm EXCEPT ![a] = Armed(n, nticks)]
    BY <1>2, StartMeans
  <2>2. nticks' = nticks /\ a \notin listed /\ listed' = listed \cup {a}
    BY <1>2, StartMeans
  <2>3. alarm'[a] = Armed(n, nticks) /\ \A e \in Alarms \ {a} : alarm'[e] = alarm[e]
    BY <1>0, <2>1
  <2>4. Walk!Left(a)' = n + 1
    BY <1>0, <2>2, <2>3, ArmedRight DEF Walk!Left
  <2>5. left' = [left EXCEPT ![a] = n + 1]
    BY <2>2, <2>3, <2>4, OneLeft
  <2>. QED
    BY <2>2, <2>5 DEF Walk!Clock!Start
<1>3. ASSUME NEW a \in Alarms, Walk!Stop(a)  PROVE Walk!Clock!Stop(a)
  <2>1. nticks' = nticks /\ alarm' = alarm /\ listed' = listed \ {a}
    BY <1>3 DEF Walk!Stop
  <2>2. Walk!Left(a)' = 0
    BY <2>1 DEF Walk!Left
  <2>3. left' = [left EXCEPT ![a] = 0]
    BY <2>1, <2>2, OneLeft
  <2>. QED
    BY <2>1, <2>3 DEF Walk!Clock!Stop
<1>4. ASSUME NEW a \in Alarms, Walk!Visit(a)
      PROVE  Walk!Clock!Call(a) \/ UNCHANGED Walk!Clock!vars
  <2>1. a \in todo /\ a \in listed /\ nticks' = nticks
    BY <1>0, <1>4, VisitCases
  <2>2. PICK r \in Alarm :
          /\ alarm' = [alarm EXCEPT ![a] = r]
          /\ \/ listed' = listed /\ r.time = alarm[a].time
             \/ alarm[a].time = nticks /\ 0 \in Periods /\ listed' = listed \ {a}
             \/ /\ alarm[a].time = nticks /\ listed' = listed
                /\ \E p \in Periods \ {0} :
                     p = IF r.time >= nticks THEN r.time - nticks
                         ELSE r.time + Word - nticks
    BY <1>4, VisitCases, Zenon
  <2>3. alarm'[a] = r /\ \A e \in Alarms \ {a} : alarm'[e] = alarm[e]
    BY <1>0, <2>2
  <2>4. CASE listed' = listed /\ r.time = alarm[a].time
    <3>1. Walk!Left(a)' = Walk!Left(a)
      BY <2>1, <2>3, <2>4 DEF Walk!Left
    <3>2. left' = [left EXCEPT ![a] = Walk!Left(a)]
      BY <2>1, <2>3, <2>4, <3>1, OneLeft
    <3>. QED
      BY <2>4, <3>2 DEF Walk!Clock!vars
  <2>5. CASE alarm[a].time = nticks /\ 0 \in Periods /\ listed' = listed \ {a}
    <3>1. Walk!Left(a)' = 0 /\ Walk!Left(a) = 0
      BY <1>0, <2>1, <2>5 DEF Walk!Left, Ticks
    <3>2. left' = [left EXCEPT ![a] = 0] /\ left[a] = 0
      BY <2>1, <2>3, <2>5, <3>1, OneLeft
    <3>. QED
      BY <2>1, <2>5, <3>2 DEF Walk!Clock!Call
  <2>6. ASSUME alarm[a].time = nticks, listed' = listed, NEW p \in Periods \ {0},
               p = IF r.time >= nticks THEN r.time - nticks ELSE r.time + Word - nticks
        PROVE  Walk!Clock!Call(a)
    <3>1. Walk!Left(a)' = p /\ Walk!Left(a) = 0
      BY <1>0, <2>1, <2>3, <2>6 DEF Walk!Left, Ticks
    <3>2. left' = [left EXCEPT ![a] = p] /\ left[a] = 0
      BY <2>1, <2>3, <2>6, <3>1, OneLeft
    <3>. QED
      BY <2>1, <2>6, <3>2 DEF Walk!Clock!Call
  <2>. QED
    BY <2>2, <2>4, <2>5, <2>6, Zenon
<1>5. CASE UNCHANGED Walk!vars
  BY <1>5 DEF Walk!vars, Walk!Clock!vars, Walk!Left
<1>. QED
  BY <1>1, <1>2, <1>3, <1>4, <1>5 DEF Walk!Next, Walk!Clock!Next

LEMMA ClockKept == Walk!Spec => Walk!ImplementsClock
<1>1. Walk!Init => Walk!Clock!Init
  BY DEF Walk!Init, Walk!Clock!Init, Walk!Left
<1>. QED
  BY <1>1, WalkFlags, StepRefines, PTL
     DEF Walk!Spec, Walk!ImplementsClock, Walk!Clock!Spec

(* With the list and the counter as they are, every alarm is called in the *)
(* very tick in which it is due, across every roll-over of the counter,    *)
(* and never else (alt_tick.c:100-141).                                    *)
THEOREM AlarmsOnTime == HostSpec => ImplementsAlarms
  BY ListWalksOnce, ClockKept, PTL DEF ImplementsAlarms

----------------------------------------------------------------------------
(* The waits of the USB host: arithmetic                                   *)

LEMMA Quotient ==
  ASSUME NEW x \in Nat, NEW t \in Nat \ {0}
  PROVE  /\ x \div t \in Nat
         /\ (x \div t) * t <= x /\ x < ((x \div t) + 1) * t
  BY Z3T(30)

LEMMA QuotientUpTo ==
  ASSUME NEW x \in Nat, NEW y \in Nat, NEW t \in Nat \ {0}, x <= y
  PROVE  x \div t <= y \div t
<1>1. /\ x \div t \in Nat /\ y \div t \in Nat
      /\ (x \div t) * t <= x /\ y < ((y \div t) + 1) * t
  BY Quotient
<1>. QED
  BY <1>1, Z3T(30)

LEMMA ModStep ==
  ASSUME NEW x \in Nat, NEW s \in Nat, NEW w \in Nat \ {0}
  PROVE  /\ (x + s) % w \in Nat /\ (x + s) % w <= (x % w) + s
  BY Z3T(30)

----------------------------------------------------------------------------
(* The waits of the USB host: the inductive invariant                      *)

(* The product of the clock, before the division. *)
Raw == (nticks * Scale) % Word

Length == IF waiting = "settle" THEN SettleTime ELSE XferTimeout

HostTypeOK ==
  /\ nticks \in Ticks /\ deadline \in Nat /\ age \in 0 .. MaxAge
  /\ waiting \in {"no", "settle", "packet"}

(* The product has grown by Scale in every tick since, or by less where it *)
(* has gone beyond the end of the word.                                    *)
NotAhead ==
  waiting # "no" /\ age < MaxAge =>
    Raw + Length * TicksPerSecond < (deadline + 1) * TicksPerSecond + age * Scale

WaitInv == HostTypeOK /\ NotAhead

LEMMA TimerFacts ==
  /\ Word \in Nat \ {0} /\ Scale \in Nat \ {0} /\ TicksPerSecond \in Nat \ {0}
  /\ SettleTime \in Nat \ {0} /\ XferTimeout \in Nat \ {0} /\ MaxAge \in Nat \ {0}
  BY AlarmAssumption, TimerAssumption

LEMMA RawOK ==
  ASSUME nticks \in Ticks
  PROVE  Raw \in 0 .. Word - 1
<1>. DEFINE product == nticks * Scale
<1>1. product \in Nat
  BY TimerFacts DEF Ticks
<1>. HIDE DEF product
<1>2. product % Word \in 0 .. Word - 1
  BY <1>1, TimerFacts
<1>. QED
  BY <1>2 DEF Raw, product

LEMMA RawTick ==
  ASSUME nticks \in Ticks, nticks' = Wrap(nticks + 1)
  PROVE  nticks' \in Ticks /\ Raw' \in Nat /\ Raw' <= Raw + Scale
<1>1. nticks' \in Ticks /\ (nticks' = nticks + 1 \/ nticks' = 0)
  BY AlarmAssumption DEF Ticks, Wrap
<1>2. CASE nticks' = nticks + 1
  <2>. DEFINE product == nticks * Scale
  <2>1. product \in Nat /\ (nticks + 1) * Scale = product + Scale
    BY TimerFacts DEF Ticks
  <2>. HIDE DEF product
  <2>2. /\ (product + Scale) % Word \in Nat
        /\ (product + Scale) % Word <= (product % Word) + Scale
    BY <2>1, TimerFacts, ModStep
  <2>3. Raw' = (product + Scale) % Word
    BY <1>2, <2>1 DEF Raw
  <2>4. Raw = product % Word
    BY DEF Raw, product
  <2>. QED
    BY <1>1, <2>2, <2>3, <2>4
<1>3. CASE nticks' = 0
  <2>1. Raw' = 0
    <3>1. 0 * Scale = 0 /\ 0 % Word = 0
      BY TimerFacts
    <3>. QED
      BY <1>3, <3>1 DEF Raw
  <2>. QED
    BY <1>1, <2>1, RawOK, TimerFacts
<1>. QED
  BY <1>1, <1>2, <1>3

(* The deadline itself does not go beyond the end of the word. *)
LEMMA WaitBegins ==
  ASSUME nticks \in Ticks, NEW time \in {SettleTime, XferTimeout}
  PROVE  /\ Clock + time \in Nat /\ (Clock + time) % Word = Clock + time
         /\ Raw + time * TicksPerSecond < ((Clock + time) + 1) * TicksPerSecond
<1>1. Raw \in 0 .. Word - 1 /\ Word - 1 \in Nat /\ time \in Nat /\ TicksPerSecond \in Nat \ {0}
  BY RawOK, TimerFacts
<1>2. Clock = Raw \div TicksPerSecond
  BY DEF Clock, Raw
<1>. HIDE DEF Raw
<1>3. /\ Raw \div TicksPerSecond \in Nat
      /\ Raw < ((Raw \div TicksPerSecond) + 1) * TicksPerSecond
      /\ Raw \div TicksPerSecond <= (Word - 1) \div TicksPerSecond
  BY <1>1, Quotient, QuotientUpTo
<1>4. (Word - 1) \div TicksPerSecond + time < Word
  BY TimerAssumption DEF LastClock
<1>5. Clock \in Nat /\ Raw < (Clock + 1) * TicksPerSecond /\ Clock + time < Word
  <2>1. (Word - 1) \div TicksPerSecond \in Nat
    BY <1>1, Quotient
  <2>. QED
    BY <1>1, <1>2, <1>3, <1>4, <2>1, TimerFacts
<1>. HIDE DEF Clock
<1>6. (Clock + time) % Word = Clock + time
  <2>. DEFINE sum == Clock + time
  <2>1. sum \in 0 .. Word - 1
    BY <1>1, <1>5, TimerFacts
  <2>. HIDE DEF sum
  <2>2. sum % Word = sum
    BY <2>1, TimerFacts
  <2>. QED
    BY <2>2 DEF sum
<1>7. ((Clock + time) + 1) * TicksPerSecond
        = (Clock + 1) * TicksPerSecond + time * TicksPerSecond
  BY <1>1, <1>5
<1>8. /\ (Clock + 1) * TicksPerSecond \in Nat /\ time * TicksPerSecond \in Nat
  BY <1>1, <1>5
<1>. QED
  BY <1>1, <1>5, <1>6, <1>7, <1>8

LEMMA WaitInvBegins ==
  ASSUME WaitInv, UNCHANGED nticks,
         NEW what \in {"settle", "packet"}, NEW time,
         time = (IF what = "settle" THEN SettleTime ELSE XferTimeout),
         Wait(what, time)
  PROVE  WaitInv'
<1>1. /\ waiting' = what /\ age' = 0 /\ deadline' = (Clock + time) % Word
      /\ nticks' = nticks /\ nticks \in Ticks /\ time \in {SettleTime, XferTimeout}
  BY DEF Wait, WaitInv, HostTypeOK
<1>2. /\ deadline' = Clock + time /\ deadline' \in Nat
      /\ Raw + time * TicksPerSecond < (deadline' + 1) * TicksPerSecond
  BY <1>1, WaitBegins
<1>3. Raw' = Raw /\ Length' = time
  BY <1>1 DEF Raw, Length
<1>4. HostTypeOK'
  BY <1>1, <1>2, TimerFacts DEF HostTypeOK
<1>5. Raw' + Length' * TicksPerSecond < (deadline' + 1) * TicksPerSecond + age' * Scale
  <2>1. 0 * Scale = 0 /\ (deadline' + 1) * TicksPerSecond \in Nat
    BY <1>2, TimerFacts
  <2>. QED
    BY <1>1, <1>2, <1>3, <2>1
<1>. QED
  BY <1>4, <1>5 DEF WaitInv, NotAhead

LEMMA WaitInvPass == ASSUME WaitInv, Pass PROVE WaitInv'
<1>1. /\ deadline' = deadline /\ waiting' = waiting
      /\ age' = IF StartTick /\ waiting # "no" /\ age < MaxAge THEN age + 1 ELSE age
  BY DEF Pass
<1>2. /\ nticks \in Ticks /\ deadline \in Nat /\ age \in 0 .. MaxAge
      /\ waiting \in {"no", "settle", "packet"}
  BY DEF WaitInv, HostTypeOK
<1>3. Length' = Length /\ Length \in Nat
  BY <1>1, TimerFacts DEF Length
<1>4. CASE StartTick
  <2>1. nticks' = Wrap(nticks + 1)
    BY <1>4 DEF StartTick
  <2>2. nticks' \in Ticks /\ Raw' \in Nat /\ Raw' <= Raw + Scale
    BY <1>2, <2>1, RawTick
  <2>3. HostTypeOK'
    BY <1>1, <1>2, <2>2, TimerFacts DEF HostTypeOK
  <2>4. ASSUME waiting' # "no", age' < MaxAge
        PROVE  Raw' + Length' * TicksPerSecond
                 < (deadline' + 1) * TicksPerSecond + age' * Scale
    <3>1. age' = age + 1 /\ waiting # "no" /\ age < MaxAge
      BY <1>1, <1>2, <1>4, <2>4, TimerFacts
    <3>2. Raw + Length * TicksPerSecond < (deadline + 1) * TicksPerSecond + age * Scale
      BY <3>1 DEF WaitInv, NotAhead
    <3>3. (age + 1) * Scale = age * Scale + Scale /\ age * Scale \in Nat
      BY <1>2, TimerFacts
    <3>4. Length * TicksPerSecond \in Nat /\ (deadline + 1) * TicksPerSecond \in Nat
      BY <1>2, <1>3, TimerFacts
    <3>5. Raw \in Nat /\ Raw' \in Nat
      BY <1>2, <2>2, RawOK, TimerFacts
    <3>. QED
      BY <1>1, <1>3, <2>2, <3>1, <3>2, <3>3, <3>4, <3>5, TimerFacts
  <2>. QED
    BY <2>3, <2>4 DEF WaitInv, NotAhead
<1>5. CASE ~StartTick
  <2>1. nticks' = nticks /\ age' = age
    BY <1>1, <1>5 DEF Pass, Tick, Visit
  <2>2. Raw' = Raw
    BY <2>1 DEF Raw
  <2>. QED
    BY <1>1, <1>2, <1>3, <2>1, <2>2 DEF WaitInv, HostTypeOK, NotAhead
<1>. QED
  BY <1>4, <1>5

LEMMA WaitInvNext == ASSUME WaitInv, [HostNext]_allVars PROVE WaitInv'
<1>0. WaitInv /\ UNCHANGED nticks /\ Forget => WaitInv'
  BY TimerFacts DEF Forget, WaitInv, HostTypeOK, NotAhead
<1>1. CASE Pass
  BY <1>1, WaitInvPass
<1>2. ASSUME UNCHANGED nticks, Attach  PROVE WaitInv'
  BY <1>2, WaitInvBegins DEF Attach
<1>3. ASSUME UNCHANGED nticks, DispatchPkt  PROVE WaitInv'
  BY <1>3, WaitInvBegins DEF DispatchPkt
<1>4. CASE Expire
  BY <1>0, <1>4 DEF Expire, Settle, GiveUp, tickVars
<1>5. CASE Change
  BY <1>0, <1>2, <1>3, <1>5 DEF Change, Over, tickVars
<1>6. ASSUME UNCHANGED nticks, UNCHANGED timerVars  PROVE WaitInv'
  BY <1>6 DEF timerVars, WaitInv, HostTypeOK, NotAhead, Raw, Length
<1>7. ASSUME NEW a \in Alarms, StartAlarm(a) \/ StopAlarm(a)
      PROVE  UNCHANGED nticks
  BY <1>7 DEF StartAlarm, StopAlarm
<1>8. CASE UNCHANGED allVars
  BY <1>6, <1>8 DEF allVars, tickVars
<1>. QED
  BY <1>1, <1>4, <1>5, <1>6, <1>7, <1>8 DEF HostNext

LEMMA ExpireLate ==
  ASSUME WaitInv, Expire
  PROVE  age * Scale > (IF waiting = "settle" THEN SettleTime ELSE XferTimeout - 1)
                         * TicksPerSecond
<1>. DEFINE t == TicksPerSecond
            clock == Raw \div t
<1>1. /\ nticks \in Ticks /\ deadline \in Nat /\ age \in 0 .. MaxAge
      /\ waiting \in {"no", "settle", "packet"}
      /\ t \in Nat \ {0} /\ Raw \in Nat
  BY RawOK, TimerFacts DEF WaitInv, HostTypeOK
<1>2. \/ waiting = "settle" /\ clock > deadline
      \/ waiting = "packet" /\ clock >= deadline
  BY DEF Expire, Settle, Settled, GiveUp, TimedOut, Clock, Raw
<1>3. clock \in Nat /\ clock * t <= Raw
  BY <1>1, Quotient
<1>4. Length \in Nat /\ Length * t < MaxAge * Scale
  BY TimerFacts, TimerAssumption DEF Length
<1>5. /\ Length * t \in Nat /\ age * Scale \in Nat
      /\ (deadline + 1) * t = deadline * t + t /\ deadline * t \in Nat
  BY <1>1, <1>4, TimerFacts
<1>6. age < MaxAge => Raw + Length * t < deadline * t + t + age * Scale
  BY <1>2, <1>5 DEF WaitInv, NotAhead
<1>7. age = MaxAge => age * Scale > Length * t
  BY <1>4
<1>. HIDE DEF clock, t
<1>8. CASE waiting = "settle"
  <2>1. clock >= deadline + 1
    BY <1>1, <1>2, <1>3, <1>8
  <2>2. clock * t >= (deadline + 1) * t
    BY <1>1, <1>3, <2>1, Z3T(30)
  <2>3. age * Scale > Length * t
    BY <1>1, <1>3, <1>5, <1>6, <1>7, <2>2, TimerFacts
  <2>4. Length = SettleTime
    BY <1>8 DEF Length
  <2>. QED
    BY <1>8, <2>3, <2>4 DEF t
<1>9. CASE waiting = "packet"
  <2>1. clock * t >= deadline * t
    BY <1>1, <1>2, <1>3, <1>9, Z3T(30)
  <2>2. age * Scale > Length * t - t
    BY <1>1, <1>3, <1>5, <1>6, <1>7, <2>1, TimerFacts
  <2>3. (XferTimeout - 1) * t = XferTimeout * t - t
    BY <1>1, TimerFacts
  <2>4. Length = XferTimeout
    BY <1>9 DEF Length
  <2>. QED
    BY <1>9, <2>2, <2>3, <2>4 DEF t
<1>. QED
  BY <1>2, <1>8, <1>9

LEMMA WaitInvInit == HostInit => WaitInv
  BY AlarmAssumption, TimerFacts DEF HostInit, TickInit, WaitInv, HostTypeOK, NotAhead, Ticks

(* Wherever the overflow of the clock falls, no device is reset before it  *)
(* has settled and no packet is given up before its five seconds are over  *)
(* (transfer.c:144-163 and 275-284).                                       *)
THEOREM NoWaitTooShort == HostSpec => NeverEarly
<1>1. HostInit => WaitInv
  BY WaitInvInit
<1>2. WaitInv /\ [HostNext]_allVars => WaitInv'
  BY WaitInvNext
<1>3. WaitInv => (Expire => age * Scale >
            (IF waiting = "settle" THEN SettleTime ELSE XferTimeout - 1) * TicksPerSecond)
  BY ExpireLate
<1>. QED
  BY <1>1, <1>2, <1>3, PTL DEF HostSpec, NeverEarly

=============================================================================
