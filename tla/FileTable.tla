----------------------------- MODULE FileTable ------------------------------
(***************************************************************************)
(* The file descriptors of the hardware abstraction layer: alt_open.c,     *)
(* alt_close.c, alt_get_fd.c, alt_release_fd.c, alt_fd_lock.c,             *)
(* alt_fd_unlock.c, alt_io_redirect.c, alt_ioctl.c and alt_fcntl.c.        *)
(*                                                                         *)
(* A call runs to its end before the next (the build is single threaded,   *)
(* and no interrupt routine makes one).  Devices stand for their names; no *)
(* file system is registered.  The program uses a descriptor from its open *)
(* to its close, and the three standard ones always.                       *)
(***************************************************************************)
EXTENDS Hal, FiniteSets

VARIABLES
  dev, fd_flags,     \* alt_fd_list: device, or "none", and flags
  alt_max_fd,        \* the highest descriptor ever allocated
  redirected,        \* the standard descriptors alt_io_redirect has done
  held               \* the descriptors the program has open

fileVars == <<dev, fd_flags, alt_max_fd, redirected, held>>

Fd       == 0 .. ALT_MAX_FD - 1
Standard == 0 .. 2
Flag     == {"WRONLY", "NONBLOCK", "EXCL", "DEV"}

(* All three standard descriptors are /dev/null before alt_main redirects  *)
(* them.                                                                   *)
Null == "/dev/null"
FileInit ==
  /\ dev = [i \in Fd |-> IF i \in Standard THEN Null ELSE "none"]
  /\ fd_flags = [i \in Fd |-> {}]
  /\ alt_max_fd = -1 /\ redirected = {} /\ held = Standard

Free == {i \in Fd : dev[i] = "none"}

(* alt_get_fd takes the first free descriptor i. *)
Gets(i) == i \in Free /\ \A j \in Free : i <= j
Highest(i) == IF i > alt_max_fd THEN i ELSE alt_max_fd

(* Forms marked as mutations are faults a run must notice. *)

(* alt_file_locked: another descriptor of the device has it for itself.    *)
Locked_Short(d, i) ==                              \* mutation
  \E j \in 0 .. Highest(i) - 1 : j # i /\ dev[j] = d /\ "EXCL" \in fd_flags[j]
Locked(d, i) ==
  \E j \in 0 .. Highest(i) : j # i /\ dev[j] = d /\ "EXCL" \in fd_flags[j]

(* Open of device d at descriptor i; a flag of the table's own is masked.  *)
OpenFlags(flags) == (flags \ {"EXCL", "DEV"}) \cup {"DEV"}

Open(d, flags) ==
  \E i \in Fd :
    /\ Gets(i) /\ ~Locked(d, i)
    /\ dev' = [dev EXCEPT ![i] = d]
    /\ fd_flags' = [fd_flags EXCEPT ![i] = OpenFlags(flags)]
    /\ alt_max_fd' = Highest(i)
    /\ held' = held \cup {i}
    /\ UNCHANGED redirected

(* alt_release_fd: the standard descriptors are never given back.          *)
Release_None(i) == UNCHANGED <<dev, fd_flags>>     \* mutation
Release(i) ==
  IF i \in Standard THEN UNCHANGED <<dev, fd_flags>>
  ELSE /\ dev' = [dev EXCEPT ![i] = "none"]
       /\ fd_flags' = [fd_flags EXCEPT ![i] = {}]

(* The device is locked, or its own open function fails: the descriptor    *)
(* got is released, and has left its mark.                                 *)
OpenFails(d) ==
  \E i \in Fd :
    /\ Gets(i) /\ (Locked(d, i) \/ d \in Fallible)
    /\ Release(i)
    /\ alt_max_fd' = Highest(i)
    /\ UNCHANGED <<redirected, held>>

(* alt_open_fd, of alt_io_redirect: the console is opened, the descriptor  *)
(* got is copied into the standard one and released.                       *)
Redirect(i) ==
  /\ i = (CASE redirected = {} -> 1 [] redirected = {1} -> 0
            [] redirected = {0, 1} -> 2 [] redirected = Standard -> -1)
  /\ \E k \in Fd : Gets(k) /\ alt_max_fd' = Highest(k)
  /\ dev' = [dev EXCEPT ![i] = Console]
  /\ fd_flags' = [fd_flags EXCEPT
                    ![i] = OpenFlags(IF i = 0 THEN {} ELSE {"WRONLY"})]
  /\ redirected' = redirected \cup {i}
  /\ UNCHANGED held

(* The driver's close function may report an error, the descriptor is free *)
(* all the same.                                                           *)
Close(i) ==
  /\ i \in held
  /\ Release(i)
  /\ held' = IF i \in Standard THEN held ELSE held \ {i}
  /\ UNCHANGED <<alt_max_fd, redirected>>

(* alt_fd_lock looks for others below the highest descriptor.              *)
Shared(i) == \E j \in 0 .. alt_max_fd - 1 : j # i /\ dev[j] = dev[i]

(* ioctl TIOCEXCL and TIOCNXCL. *)
Lock(i) ==
  /\ i \in held /\ "DEV" \in fd_flags[i] /\ ~Shared(i)
  /\ fd_flags' = [fd_flags EXCEPT ![i] = @ \cup {"EXCL"}]
  /\ UNCHANGED <<dev, alt_max_fd, redirected, held>>

Unlock(i) ==
  /\ i \in held /\ "DEV" \in fd_flags[i]
  /\ fd_flags' = [fd_flags EXCEPT ![i] = @ \ {"EXCL"}]
  /\ UNCHANGED <<dev, alt_max_fd, redirected, held>>

(* fcntl F_SETFL changes O_NONBLOCK and O_APPEND. *)
SetFlags(i, flags) ==
  /\ i \in held
  /\ fd_flags' = [fd_flags EXCEPT
                    ![i] = (@ \ {"NONBLOCK"}) \cup (flags \cap {"NONBLOCK"})]
  /\ UNCHANGED <<dev, alt_max_fd, redirected, held>>

(* main begins when the console is in place. *)
Program == redirected = Standard

FileNext ==
  \/ \E i \in Standard : Redirect(i)
  \/ /\ Program
     /\ \/ \E d \in Device : \/ OpenFails(d)
                             \/ \E flags \in SUBSET Flag : Open(d, flags)
        \/ \E i \in Fd : \/ Close(i) \/ Lock(i) \/ Unlock(i)
                         \/ \E flags \in SUBSET Flag : SetFlags(i, flags)

FileSpec == FileInit /\ [][FileNext]_fileVars

-----------------------------------------------------------------------------
(* Every variable keeps its type. *)
FileTypeOK ==
  /\ dev \in [Fd -> Device \cup {Null, "none"}]
  /\ fd_flags \in [Fd -> SUBSET Flag]
  /\ alt_max_fd \in -1 .. ALT_MAX_FD - 1
  /\ redirected \subseteq Standard
  /\ held \subseteq Fd

(* Exactly the descriptors the program holds are taken, also after opens   *)
(* that failed at any point, and a descriptor that is free carries no lock *)
(* into its next use; the loops up to alt_max_fd see every one of them.    *)
TableSound ==
  \A i \in Fd : /\ dev[i] # "none" <=> i \in held
                /\ i \notin held => fd_flags[i] = {}
                /\ i \in held \ Standard => i <= alt_max_fd

(* While a descriptor has its device for itself, no other descriptor of    *)
(* the device comes to be (alt_fd_lock, alt_file_locked).                  *)
Users(d) == {i \in Fd : dev[i] = d}
LockKeepsOthersOut ==
  [][\A d \in Device : (\E i \in Users(d) : "EXCL" \in fd_flags[i])
                         => Users(d)' \subseteq Users(d)]_fileVars

(* alt_fd_lock.c:43-45: the lock is granted if there are no other open     *)
(* descriptors of the device.                                              *)
LockIsExclusive ==
  [][\A i \in Fd : "EXCL" \in fd_flags'[i] \ fd_flags[i]
                     => Users(dev[i]) = {i}]_fileVars
=============================================================================
