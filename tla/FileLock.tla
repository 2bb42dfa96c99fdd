------------------------------ MODULE FileLock ------------------------------
(***************************************************************************)
(* The advisory lock libaudioDB takes on the header bytes of a database    *)
(* file (src/src/lock.cpp).  POSIX record locks belong to a process, not   *)
(* to a descriptor: a process never conflicts with itself, a new request   *)
(* converts what it already holds, and closing any descriptor of the file  *)
(* drops everything the process holds.  The retry on EINTR and the         *)
(* sleep(1) on EAGAIN are stuttering: the request is made again.           *)
(***************************************************************************)
CONSTANT Procs

VARIABLE lock      \* what each process holds on [0, ADB_HEADER_SIZE)

LockKinds == {"none", "read", "write"}

LockTypeOK == lock \in [Procs -> LockKinds]

LockInit == lock = [p \in Procs |-> "none"]

(* fcntl(F_SETLKW) grants `kind' to p: only the other processes matter. *)
Grantable(p, kind) ==
  \A q \in Procs \ {p} :
    \/ lock[q] = "none"
    \/ kind = "read" /\ lock[q] = "read"

Acquire(p, kind) ==
  /\ Grantable(p, kind)
  /\ lock' = [lock EXCEPT ![p] = kind]

(* F_UNLCK in divest_lock, close() of a descriptor, or process exit. *)
Divest(p) == lock' = [lock EXCEPT ![p] = "none"]

(* EDEADLK: p would wait for the read lock of q while q, in Upgrading, is  *)
(* itself waiting for p's read lock to go.                                 *)
WouldDeadlock(p, Upgrading) ==
  \E q \in Upgrading \ {p} : lock[p] = "read" /\ lock[q] = "read"

(* No process holds a lock next to another process's write lock. *)
LockCompatible ==
  \A p, q \in Procs : p # q /\ lock[p] = "write" => lock[q] = "none"
=============================================================================
