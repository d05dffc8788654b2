------------------------------ MODULE EnvLock ------------------------------
(***************************************************************************)
(* LockAcquire and LockRelease of src/env.go over the file locks of        *)
(* src/internal/sysdep/flock_unix.go: goroutines of one process use        *)
(* locksFiles under a mutex, with one condition variable for all locks;    *)
(* processes exclude each other by a lock on the file.                     *)
(*                                                                         *)
(* The steps of a call that are made under the mutex are one action.  As   *)
(* in Froxy, a lock is always waited for (keys) or always tried (run).     *)
(***************************************************************************)
CONSTANTS
    Locks,
    Waited,     (* locks that are acquired with wait                       *)
    Procs,
    Goroutines,
    Of(_),      (* the process of a goroutine                              *)
    NoOne

(* Only one lock is ever waited for, keys in keyset.go: with two of them a *)
(* signal could wake one who waits for the other.                          *)
ASSUME LockAssumption ==
    /\ NoOne \notin Goroutines
    /\ \A g \in Goroutines : Of(g) \in Procs
    /\ \A k, l \in Waited : k = l

VARIABLES
    locksFiles, (* locksFiles[p][l]: the goroutine of p that has put an    *)
                (* open file there                                         *)
    flock,      (* flock[l]: the goroutine whose file has the file lock    *)
    pc,         (* pc[g]: where the goroutine is                           *)
    lock,       (* lock[g]: the lock it has asked for                      *)
    ended       (* processes that have ended                               *)

vars == <<locksFiles, flock, pc, lock, ended>>

PC == {"out", "lock", "wait", "flock", "held", "end"}

TypeOK ==
    /\ locksFiles \in [Procs -> [Locks -> Goroutines \cup {NoOne}]]
    /\ flock \in [Locks -> Goroutines \cup {NoOne}]
    /\ pc \in [Goroutines -> PC]
    /\ lock \in [Goroutines -> Locks]
    /\ ended \subseteq Procs

Init ==
    /\ locksFiles = [p \in Procs |-> [l \in Locks |-> NoOne]]
    /\ flock = [l \in Locks |-> NoOne]
    /\ pc = [g \in Goroutines |-> "out"]
    /\ lock \in [Goroutines -> Locks]
    /\ ended = {}

Waiting(p) == {g \in Goroutines : Of(g) = p /\ pc[g] = "wait"}

(* pc after g has moved to the given place and signalled: one waiter of    *)
(* the process, for whatever lock, looks again.                            *)
Signal(g, to) ==
    LET moved == [pc EXCEPT ![g] = to]
    IN  IF Waiting(Of(g)) = {} THEN {moved}
        ELSE {[moved EXCEPT ![h] = "lock"] : h \in Waiting(Of(g))}

-----------------------------------------------------------------------------
Call(g, l) ==
    /\ pc[g] = "out"
    /\ lock' = [lock EXCEPT ![g] = l]
    /\ pc' = [pc EXCEPT ![g] = "lock"]
    /\ UNCHANGED <<locksFiles, flock, ended>>

(* LockAcquire up to the call of FileLock: a lock that is in use in the    *)
(* process is waited for or not acquired; else the file is opened, which   *)
(* may fail.                                                               *)
LockAcquire(g) ==
    /\ pc[g] = "lock"
    /\ IF locksFiles[Of(g)][lock[g]] # NoOne
       THEN /\ pc' = [pc EXCEPT ![g] = IF lock[g] \in Waited THEN "wait" ELSE "out"]
            /\ UNCHANGED locksFiles
       ELSE \/ pc' \in Signal(g, "out") /\ UNCHANGED locksFiles
            \/ /\ pc' = [pc EXCEPT ![g] = "flock"]
               /\ locksFiles' = [locksFiles EXCEPT ![Of(g)][lock[g]] = g]
    /\ UNCHANGED <<flock, lock, ended>>

(* Fault: the lock is shared. *)
FileLockShared(g) ==
    /\ pc[g] = "flock"
    /\ flock' = [flock EXCEPT ![lock[g]] = g]
    /\ pc' = [pc EXCEPT ![g] = "held"]
    /\ UNCHANGED <<locksFiles, lock, ended>>

FileLock(g) ==
    /\ pc[g] = "flock"
    /\ flock[lock[g]] = NoOne
    /\ flock' = [flock EXCEPT ![lock[g]] = g]
    /\ pc' = [pc EXCEPT ![g] = "held"]
    /\ UNCHANGED <<locksFiles, lock, ended>>

(* FileLock fails, or finds the lock in use and does not wait. *)
FileLockFails(g) ==
    /\ pc[g] = "flock"
    /\ locksFiles' = [locksFiles EXCEPT ![Of(g)][lock[g]] = NoOne]
    /\ pc' \in Signal(g, "out")
    /\ UNCHANGED <<flock, lock, ended>>

(* Fault: no waiter is woken. *)
LockReleaseSilent(g) ==
    /\ pc[g] = "held"
    /\ flock' = [flock EXCEPT ![lock[g]] = NoOne]
    /\ locksFiles' = [locksFiles EXCEPT ![Of(g)][lock[g]] = NoOne]
    /\ pc' = [pc EXCEPT ![g] = "out"]
    /\ UNCHANGED <<lock, ended>>

LockRelease(g) ==
    /\ pc[g] = "held"
    /\ flock' = [flock EXCEPT ![lock[g]] = NoOne]
    /\ locksFiles' = [locksFiles EXCEPT ![Of(g)][lock[g]] = NoOne]
    /\ pc' \in Signal(g, "out")
    /\ UNCHANGED <<lock, ended>>

(* A process ends, its files are closed. *)
End(p) ==
    /\ p \notin ended
    /\ ended' = ended \cup {p}
    /\ pc' = [g \in Goroutines |-> IF Of(g) = p THEN "end" ELSE pc[g]]
    /\ flock' = [l \in Locks |->
                   IF flock[l] # NoOne /\ Of(flock[l]) = p THEN NoOne ELSE flock[l]]
    /\ UNCHANGED <<locksFiles, lock>>

Next ==
    \/ \E g \in Goroutines :
          \/ \E l \in Locks : Call(g, l)
          \/ LockAcquire(g) \/ FileLock(g) \/ FileLockFails(g) \/ LockRelease(g)
    \/ \E p \in Procs : End(p)

Spec == Init /\ [][Next]_vars

-----------------------------------------------------------------------------
(***************************************************************************)
(* Properties.                                                             *)
(***************************************************************************)
Holder == [l \in Locks |->
             IF \E g \in Goroutines : pc[g] = "held" /\ lock[g] = l
             THEN CHOOSE g \in Goroutines : pc[g] = "held" /\ lock[g] = l
             ELSE NoOne]

GL == INSTANCE GlobalLock WITH holder <- Holder

(* The locks of env.go, held by goroutines of several processes that may   *)
(* end at any time, exclude each other: they implement GlobalLock.         *)
ImplementsGlobalLock == GL!Spec

(* Who waits for a lock is not forgotten, although there is one condition  *)
(* variable for all locks and Signal wakes one waiter (env.go:193): the    *)
(* lock is in use in its process, or a goroutine is about to look at it,   *)
(* as every path out of LockAcquire and LockRelease passes the signal on.  *)
NoForgottenWaiter ==
    \A g \in Goroutines : pc[g] = "wait" =>
        \/ locksFiles[Of(g)][lock[g]] # NoOne
        \/ \E h \in Goroutines : Of(h) = Of(g) /\ pc[h] = "lock" /\ lock[h] = lock[g]

(* The inductive invariant: the file lock is with the goroutine that holds *)
(* the lock, and who uses a lock is in the table of its process.           *)
HolderInv ==
    /\ \A g \in Goroutines : pc[g] = "held" => flock[lock[g]] = g
    /\ \A l \in Locks : flock[l] # NoOne => pc[flock[l]] = "held" /\ lock[flock[l]] = l
    /\ \A g \in Goroutines : pc[g] \in {"flock", "held"} => locksFiles[Of(g)][lock[g]] = g
    /\ \A g \in Goroutines : pc[g] = "wait" => lock[g] \in Waited

Inv == TypeOK /\ HolderInv /\ NoForgottenWaiter
=============================================================================
