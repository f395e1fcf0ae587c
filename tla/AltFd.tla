------------------------------- MODULE AltFd -------------------------------
(***************************************************************************)
(* The file descriptors of the HAL: a pool with a high-water mark, three   *)
(* descriptors that are never given back, and devices that can be locked   *)
(* for exclusive access (alt_open.c, alt_close.c, alt_ioctl.c and what     *)
(* they call).  Before main runs, alt_io_redirect points the three at the  *)
(* devices of system.h; then the program opens, closes, locks and unlocks. *)
(* open takes a descriptor first and finds out later whether it may keep   *)
(* it, so it is told in steps: the claim, the test for a lock and the      *)
(* driver's open(), and the return or the clean-up.  Without an operating  *)
(* system the semaphore of the list is nothing and no other call comes in  *)
(* between.                                                                *)
(***************************************************************************)
EXTENDS Integers, FiniteSets

CONSTANTS
  MaxFd,       (* ALT_MAX_FD                                               *)
  Devices,     (* what alt_dev_list holds                                  *)
  DevNull,     (* /dev/null, the only device before alt_sys_init           *)
  Console,     (* ALT_STDOUT, ALT_STDIN and ALT_STDERR                     *)
  Refusing,    (* the devices with an open() of their own, which may fail  *)
  Unknown,     (* a name that is in neither list                           *)
  NoDev        (* the null pointer: the descriptor is free                 *)

ASSUME FdAssumption ==
  /\ MaxFd \in Nat /\ MaxFd > 3
  /\ {DevNull, Console} \subseteq Devices /\ Unknown \notin Devices
  /\ Refusing \subseteq Devices \ {DevNull, Console}
  /\ NoDev \notin Devices \cup {Unknown}

VARIABLES
  alt_fd_list,   (* of [dev, fd_flags]                                     *)
  alt_max_fd,
  redirected,    (* how many of the three are done                         *)
  pc,            (* of open: "idle" between two calls                      *)
  index,         (* of open: the descriptor, or an error code              *)
  owned          (* history: what open has returned, and close not taken   *)

fdVars == <<alt_fd_list, alt_max_fd, redirected, pc, index, owned>>

Fds == 0 .. MaxFd - 1

(* stdout, stdin, stderr: the order in which they are redirected *)
Standard == [n \in 0 .. 2 |-> IF n = 0 THEN 1 ELSE IF n = 1 THEN 0 ELSE 2]

EMFILE == 24

Unallocated == [dev |-> NoDev, fd_flags |-> {}]

FdInit ==
  /\ alt_fd_list = [fd \in Fds |->
       IF fd <= 2 THEN [dev |-> DevNull, fd_flags |-> {}] ELSE Unallocated]
  /\ alt_max_fd = -1 /\ redirected = 0 /\ owned = {}
  /\ pc = "idle" /\ index = -1

----------------------------------------------------------------------------

(* ALT_FD_EXCL *)
Excl(fd) == "EXCL" \in alt_fd_list[fd].fd_flags

Free == {fd \in Fds : alt_fd_list[fd].dev = NoDev}

Locked_EndsEarly(dev, fd) ==
  \E i \in 0 .. alt_max_fd - 1 : i # fd /\ alt_fd_list[i].dev = dev /\ Excl(i)

(* alt_file_locked, which runs with the new mark. *)
Locked(dev, fd) ==
  \E i \in 0 .. alt_max_fd : i # fd /\ alt_fd_list[i].dev = dev /\ Excl(i)

(* alt_release_fd, for a descriptor or an error code *)
Released(list, fd) == IF fd > 2 THEN [list EXCEPT ![fd] = Unallocated] ELSE list

(* alt_get_fd takes the first free descriptor, and open clears its flags. *)
GetFd(dev) ==
  \/ /\ Free = {}
     /\ index' = -EMFILE /\ pc' = "failed"
     /\ UNCHANGED <<alt_fd_list, alt_max_fd>>
  \/ \E fd \in Free :
       /\ \A other \in Free : fd <= other
       /\ alt_fd_list' = [alt_fd_list EXCEPT ![fd] = [dev |-> dev, fd_flags |-> {}]]
       /\ alt_max_fd' = IF fd > alt_max_fd THEN fd ELSE alt_max_fd
       /\ index' = fd /\ pc' = "claimed"

(* open (dev), called by alt_open_fd for the console, and then by the      *)
(* program.  There is no file system to look an unknown name up in.        *)
Open(dev) ==
  /\ pc = "idle" /\ (redirected < 3 => dev = Console)
  /\ \/ dev \in Devices /\ GetFd(dev)
     \/ /\ dev \notin Devices /\ pc' = "failed"
        /\ UNCHANGED <<alt_fd_list, alt_max_fd, index>>
  /\ UNCHANGED <<redirected, owned>>

(* The descriptor becomes that of a device.  It is kept if nobody has      *)
(* locked the device, and the driver, asked last, does not refuse.         *)
Admit ==
  /\ pc = "claimed"
  /\ alt_fd_list' = [alt_fd_list EXCEPT ![index].fd_flags = @ \cup {"DEV"}]
  /\ LET dev == alt_fd_list[index].dev IN
     \/ ~Locked(dev, index) /\ pc' = "opened"
     \/ (Locked(dev, index) \/ dev \in Refusing) /\ pc' = "failed"
  /\ UNCHANGED <<alt_max_fd, redirected, index, owned>>

BackInMain == pc' = "idle" /\ index' = -1

(* open returns the descriptor to the program. *)
Return ==
  /\ pc = "opened" /\ redirected = 3 /\ BackInMain
  /\ owned' = owned \cup {index}
  /\ UNCHANGED <<alt_fd_list, alt_max_fd, redirected>>

(* alt_open_fd copies the descriptor that open returns, and releases it. *)
Redirect ==
  /\ pc = "opened" /\ redirected < 3 /\ BackInMain
  /\ alt_fd_list' =
       Released([alt_fd_list EXCEPT ![Standard[redirected]] = alt_fd_list[index]], index)
  /\ redirected' = redirected + 1
  /\ UNCHANGED <<alt_max_fd, owned>>

(* alt_io_redirect goes on with the next of the three in any case. *)
Proceeds == redirected' = IF redirected < 3 THEN redirected + 1 ELSE redirected

CleanUp_KeepsFd ==
  /\ pc = "failed" /\ BackInMain /\ Proceeds
  /\ UNCHANGED <<alt_fd_list, alt_max_fd, owned>>

(* open returns -1; the mark stays up. *)
CleanUp ==
  /\ pc = "failed" /\ BackInMain /\ Proceeds
  /\ alt_fd_list' = Released(alt_fd_list, index)
  /\ UNCHANGED <<alt_max_fd, owned>>

(* What the program does between two calls of open. *)
InMain == pc = "idle" /\ redirected = 3 /\ UNCHANGED <<alt_max_fd, redirected, pc, index>>

(* close, with whatever the driver's close() returns. *)
Close(fd) ==
  /\ InMain /\ alt_fd_list[fd].dev # NoDev
  /\ alt_fd_list' = Released(alt_fd_list, fd)
  /\ owned' = owned \ {fd}

(* The search of alt_fd_lock ends before the highest descriptor. *)
Shared(fd) ==
  \E i \in 0 .. alt_max_fd - 1 : i # fd /\ alt_fd_list[i].dev = alt_fd_list[fd].dev

(* ioctl (fd, TIOCEXCL): a descriptor without ALT_FD_DEV and a device that *)
(* is shared get an error.                                                 *)
Lock(fd) ==
  /\ InMain /\ alt_fd_list[fd].dev # NoDev
  /\ alt_fd_list' =
       IF "DEV" \notin alt_fd_list[fd].fd_flags \/ Shared(fd) THEN alt_fd_list
       ELSE [alt_fd_list EXCEPT ![fd].fd_flags = @ \cup {"EXCL"}]
  /\ UNCHANGED owned

(* ioctl (fd, TIOCNXCL) *)
Unlock(fd) ==
  /\ InMain /\ "DEV" \in alt_fd_list[fd].fd_flags
  /\ alt_fd_list' = [alt_fd_list EXCEPT ![fd].fd_flags = @ \ {"EXCL"}]
  /\ UNCHANGED owned

FdNext ==
  \/ \E dev \in Devices \cup {Unknown} : Open(dev)
  \/ Admit \/ Return \/ Redirect \/ CleanUp
  \/ \E fd \in Fds : Close(fd) \/ Lock(fd) \/ Unlock(fd)

FdSpec == FdInit /\ [][FdNext]_fdVars

----------------------------------------------------------------------------

Reserved == {0, 1, 2}

(* Wherever an open fails - the name, the pool, a lock, the driver - what  *)
(* it had claimed is free again when it returns, and an error code frees   *)
(* nothing: besides the three, those in use are those the program has, the *)
(* one on its way out is nobody else's, and printf keeps its console       *)
(* (alt_open.c:157-162, alt_release_fd.c:46).                              *)
NothingLeaks ==
  /\ pc = "idle" => Fds \ Free = Reserved \cup owned
  /\ owned \cap Reserved = {} /\ index \notin owned \cup Reserved
  /\ redirected = 3 => \A fd \in Reserved : alt_fd_list[fd].dev = Console

(* A device that is locked stays with those who had it: open gives the     *)
(* program no further descriptor of it (alt_open.c:67-93), although one is *)
(* claimed for a while and the search ends at the high-water mark.         *)
LockShutsOut ==
  [][\A fd \in Fds, new \in owned' \ owned :
       Excl(fd) => alt_fd_list'[new].dev # alt_fd_list[fd].dev]_fdVars

(* What alt_fd_lock.c:43-44 says of the lock: it is given "if there are no *)
(* other open file descriptors which reference the same device", and no    *)
(* further open succeeds.  So whoever has it has the device for himself.   *)
LockIsExclusive ==
  pc = "idle" =>
    \A fd \in Fds : Excl(fd) =>
      \A other \in Fds \ {fd} : alt_fd_list[other].dev # alt_fd_list[fd].dev

=============================================================================
