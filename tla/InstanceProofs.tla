-------------------------- MODULE InstanceProofs --------------------------
(***************************************************************************)
(* The locks of env.go exclude each other and forget no waiter, for any    *)
(* processes with any number of goroutines; commands and instances do what *)
(* the run lock allows them; and requests are answered and counted, for    *)
(* any number of connections.                                              *)
(***************************************************************************)
EXTENDS MCInstance, FiniteSetTheorems, TLAPS

-----------------------------------------------------------------------------
(***************************************************************************)
(* The locks (EnvLock).                                                    *)
(***************************************************************************)
LEMMA InvInit == Init => Inv
BY LockAssumption DEF Init, Inv, TypeOK, PC, HolderInv, NoForgottenWaiter

(* Signal moves one goroutine, and one of its waiters if there are any.    *)
LEMMA SignalMoves ==
    ASSUME TypeOK, NEW g \in Goroutines, NEW to \in PC, pc[g] # "wait", pc' \in Signal(g, to)
    PROVE  /\ pc' \in [Goroutines -> PC]
           /\ pc'[g] = to
           /\ \A h \in Goroutines \ {g} :
                 pc'[h] = pc[h] \/ (h \in Waiting(Of(g)) /\ pc'[h] = "lock")
           /\ \A h \in Waiting(Of(g)) :
                 \E k \in Waiting(Of(g)) : pc'[k] = "lock"
<1>1. CASE Waiting(Of(g)) = {}
  BY <1>1 DEF Signal, TypeOK
<1>2. CASE Waiting(Of(g)) # {}
  <2>1. PICK k \in Waiting(Of(g)) : pc' = [[pc EXCEPT ![g] = to] EXCEPT ![k] = "lock"]
    BY <1>2 DEF Signal
  <2>2. k \in Goroutines /\ k # g
    BY DEF Waiting
  <2> QED BY <2>1, <2>2 DEF TypeOK, PC
<1> QED BY <1>1, <1>2

(* Whoever gives up a lock, or leaves without it, passes the turn on: all  *)
(* waiters of its process wait for one lock.                               *)
LEMMA SignalRemembers ==
    ASSUME Inv, NEW g \in Goroutines, pc[g] # "wait", pc' \in Signal(g, "out"),
           UNCHANGED lock,
           \A h \in Goroutines, l \in Locks :
              Of(h) # Of(g) => locksFiles'[Of(h)][l] = locksFiles[Of(h)][l]
    PROVE  NoForgottenWaiter'
<1>1. "out" \in PC
  BY DEF PC
<1> SUFFICES ASSUME NEW w \in Goroutines, pc'[w] = "wait",
                    locksFiles'[Of(w)][lock'[w]] = NoOne
             PROVE  \E h \in Goroutines : Of(h) = Of(w) /\ pc'[h] = "lock" /\ lock'[h] = lock'[w]
  BY DEF NoForgottenWaiter
<1>2. w # g /\ pc[w] = "wait"
  BY <1>1, SignalMoves DEF Inv, PC
<1>3. CASE Of(w) = Of(g)
  <2>1. PICK k \in Waiting(Of(g)) : pc'[k] = "lock"
    BY <1>1, <1>2, <1>3, SignalMoves DEF Inv, Waiting
  <2>2. k \in Goroutines /\ Of(k) = Of(w) /\ lock[k] \in Waited /\ lock[w] \in Waited
    BY <1>2, <1>3 DEF Waiting, Inv, HolderInv
  <2> QED BY <2>1, <2>2, LockAssumption
<1>4. CASE Of(w) # Of(g)
  <2>1. PICK h \in Goroutines : Of(h) = Of(w) /\ pc[h] = "lock" /\ lock[h] = lock[w]
    BY <1>2, <1>4 DEF Inv, NoForgottenWaiter, TypeOK
  <2> QED BY <1>1, <1>4, <2>1, SignalMoves DEF Inv, Waiting
<1> QED BY <1>3, <1>4

LEMMA InvCall ==
    ASSUME Inv, NEW g \in Goroutines, NEW l \in Locks, Call(g, l)
    PROVE  Inv'
BY LockAssumption DEF Call, Inv, TypeOK, PC, HolderInv, NoForgottenWaiter

LEMMA InvLockAcquire ==
    ASSUME Inv, NEW g \in Goroutines, LockAcquire(g)
    PROVE  Inv'
<1>1. CASE locksFiles[Of(g)][lock[g]] # NoOne
  BY <1>1 DEF LockAcquire, Inv, TypeOK, PC, HolderInv, NoForgottenWaiter
<1>2. CASE pc' \in Signal(g, "out") /\ UNCHANGED locksFiles
  <2>1. "out" \in PC /\ pc[g] = "lock"
    BY DEF PC, LockAcquire
  <2>2. TypeOK'
    BY <1>2, <2>1, SignalMoves DEF Inv, TypeOK, LockAcquire
  <2>3. HolderInv'
    BY <1>2, <2>1, SignalMoves DEF Inv, TypeOK, HolderInv, LockAcquire, Waiting
  <2>4. NoForgottenWaiter'
    BY <1>2, <2>1, SignalRemembers DEF LockAcquire
  <2> QED BY <2>2, <2>3, <2>4 DEF Inv
<1>3. CASE /\ locksFiles[Of(g)][lock[g]] = NoOne
           /\ pc' = [pc EXCEPT ![g] = "flock"]
           /\ locksFiles' = [locksFiles EXCEPT ![Of(g)][lock[g]] = g]
  BY <1>3, LockAssumption DEF LockAcquire, Inv, TypeOK, PC, HolderInv, NoForgottenWaiter
<1> QED BY <1>1, <1>2, <1>3 DEF LockAcquire

LEMMA InvFileLock ==
    ASSUME Inv, NEW g \in Goroutines, FileLock(g)
    PROVE  Inv'
BY LockAssumption DEF FileLock, Inv, TypeOK, PC, HolderInv, NoForgottenWaiter

LEMMA InvLeave ==
    ASSUME Inv, NEW g \in Goroutines, FileLockFails(g) \/ LockRelease(g)
    PROVE  Inv'
<1>1. /\ pc[g] \in {"flock", "held"} /\ pc' \in Signal(g, "out")
      /\ locksFiles' = [locksFiles EXCEPT ![Of(g)][lock[g]] = NoOne]
      /\ UNCHANGED <<lock, ended>>
  BY DEF FileLockFails, LockRelease
<1>2. flock' = IF pc[g] = "held" THEN [flock EXCEPT ![lock[g]] = NoOne] ELSE flock
  BY DEF FileLockFails, LockRelease
<1>3. "out" \in PC
  BY DEF PC
<1>4. TypeOK'
  BY <1>1, <1>2, <1>3, SignalMoves, LockAssumption DEF Inv, TypeOK
<1>5. HolderInv'
  <2>1. /\ pc'[g] = "out"
        /\ \A h \in Goroutines \ {g} :
              pc'[h] = pc[h] \/ (pc[h] = "wait" /\ pc'[h] = "lock")
    BY <1>1, <1>3, SignalMoves DEF Inv, Waiting
  <2>2. \A h \in Goroutines : pc'[h] = "held" => flock'[lock'[h]] = h
    BY <1>1, <1>2, <2>1 DEF Inv, TypeOK, HolderInv
  <2>3. \A l \in Locks : flock'[l] # NoOne => pc'[flock'[l]] = "held" /\ lock'[flock'[l]] = l
    BY <1>1, <1>2, <2>1 DEF Inv, TypeOK, HolderInv
  <2>4. \A h \in Goroutines : pc'[h] \in {"flock", "held"} => locksFiles'[Of(h)][lock'[h]] = h
    <3> SUFFICES ASSUME NEW h \in Goroutines, pc'[h] \in {"flock", "held"}
                 PROVE  locksFiles'[Of(h)][lock'[h]] = h
      OBVIOUS
    <3>1. h # g /\ pc[h] \in {"flock", "held"}
      BY <2>1
    <3>2. locksFiles[Of(h)][lock[h]] = h /\ locksFiles[Of(g)][lock[g]] = g
      BY <1>1, <3>1 DEF Inv, HolderInv
    <3> QED BY <1>1, <3>1, <3>2, LockAssumption DEF Inv, TypeOK
  <2>5. \A h \in Goroutines : pc'[h] = "wait" => lock'[h] \in Waited
    BY <1>1, <2>1 DEF Inv, HolderInv
  <2> QED BY <2>2, <2>3, <2>4, <2>5 DEF HolderInv
<1>6. NoForgottenWaiter'
  BY <1>1, SignalRemembers, LockAssumption DEF Inv, TypeOK
<1> QED BY <1>4, <1>5, <1>6 DEF Inv

LEMMA InvEnd ==
    ASSUME Inv, NEW p \in Procs, End(p)
    PROVE  Inv'
<1>1. TypeOK'
  BY DEF End, Inv, TypeOK, PC
<1>2. HolderInv'
  BY LockAssumption DEF End, Inv, TypeOK, HolderInv
<1>3. NoForgottenWaiter'
  BY DEF End, Inv, TypeOK, NoForgottenWaiter
<1> QED BY <1>1, <1>2, <1>3 DEF Inv

LEMMA InvNext == Inv /\ [Next]_vars => Inv'
<1>1. ASSUME Inv, UNCHANGED vars PROVE Inv'
  BY <1>1 DEF vars, Inv, TypeOK, HolderInv, NoForgottenWaiter
<1> QED
  BY <1>1, InvCall, InvLockAcquire, InvFileLock, InvLeave, InvEnd DEF Next

(* The file lock is with the goroutine that holds the lock, and no waiter  *)
(* is forgotten, in every run of any processes (env.go).                   *)
THEOREM InvHolds == Spec => []Inv
<1>1. Init => Inv
  BY InvInit
<1>2. Inv /\ [Next]_vars => Inv'
  BY InvNext
<1> QED BY <1>1, <1>2, PTL DEF Spec

(* Although one condition variable serves all locks and Signal wakes one   *)
(* waiter, who waits is always owed a wake-up (env.go:193).                *)
THEOREM WaitersAreRemembered == Spec => []NoForgottenWaiter
<1>1. Inv => NoForgottenWaiter
  BY DEF Inv
<1> QED BY InvHolds, <1>1, PTL

(* The holder of a lock is the goroutine with the file lock.               *)
LEMMA HolderIsFlock == Inv => Holder = flock
<1> SUFFICES ASSUME Inv, NEW l \in Locks
             PROVE  flock[l] = IF \E g \in Goroutines : pc[g] = "held" /\ lock[g] = l
                               THEN CHOOSE g \in Goroutines : pc[g] = "held" /\ lock[g] = l
                               ELSE NoOne
  BY DEF Holder, Inv, TypeOK
<1>1. CASE \E g \in Goroutines : pc[g] = "held" /\ lock[g] = l
  <2> DEFINE h == CHOOSE g \in Goroutines : pc[g] = "held" /\ lock[g] = l
  <2>1. h \in Goroutines /\ pc[h] = "held" /\ lock[h] = l
    BY <1>1
  <2>2. flock[l] = h
    BY <2>1 DEF Inv, HolderInv
  <2> QED BY <1>1, <2>2
<1>2. CASE ~ \E g \in Goroutines : pc[g] = "held" /\ lock[g] = l
  <2>1. flock[l] = NoOne
    BY <1>2 DEF Inv, TypeOK, HolderInv
  <2> QED BY <1>2, <2>1
<1> QED BY <1>1, <1>2

LEMMA GlobalLockInit == Init => GL!Init
BY InvInit, HolderIsFlock DEF Init, GL!Init

LEMMA GlobalLockNext == Inv /\ [Next]_vars => [GL!Next]_Holder
<1> SUFFICES ASSUME Inv, [Next]_vars
             PROVE  GL!Next \/ Holder' = Holder
  OBVIOUS
<1>1. Holder = flock
  BY HolderIsFlock
<1>2. Holder' = flock'
  <2>1. Inv'
    BY InvNext
  <2>2. Inv' => (Holder = flock)'
    BY HolderIsFlock, PTL
  <2> QED BY <2>1, <2>2, LockAssumption
<1>3. ASSUME NEW g \in Goroutines, FileLock(g) PROVE GL!Next
  <2>1. lock[g] \in Locks /\ GL!Acquire(g, lock[g])
    BY <1>1, <1>2, <1>3 DEF FileLock, GL!Acquire, Inv, TypeOK
  <2> QED BY <2>1 DEF GL!Next
<1>4. ASSUME NEW g \in Goroutines, LockRelease(g) PROVE GL!Next
  <2>1. lock[g] \in Locks /\ GL!Release(lock[g])
    BY <1>1, <1>2, <1>4, LockAssumption DEF LockRelease, GL!Release, Inv, TypeOK, HolderInv
  <2> QED BY <2>1 DEF GL!Next
<1>5. ASSUME NEW p \in Procs, End(p) PROVE GL!Next
  <2> DEFINE GS == {g \in Goroutines : Of(g) = p}
  <2>1. GL!End(GS)
    BY <1>1, <1>2, <1>5, LockAssumption DEF End, GL!End, Inv, TypeOK
  <2>2. GS \in SUBSET Goroutines
    OBVIOUS
  <2> QED BY <2>1, <2>2 DEF GL!Next
<1>6. ASSUME UNCHANGED flock PROVE Holder' = Holder
  BY <1>1, <1>2, <1>6
<1> QED
  BY <1>3, <1>4, <1>5, <1>6 DEF Next, vars, Call, LockAcquire, FileLockFails

(* The locks of env.go are the locks of GlobalLock: at most one goroutine  *)
(* of all processes holds one, and the end of a process frees it.          *)
THEOREM EnvLockImplementsGlobalLock == Spec => ImplementsGlobalLock
<1>1. Init => GL!Init
  BY GlobalLockInit
<1>2. Inv /\ [Next]_vars => [GL!Next]_Holder
  BY GlobalLockNext
<1>3. Spec => GL!Spec
  BY InvHolds, <1>1, <1>2, PTL DEF Spec, GL!Spec
<1> QED BY <1>3 DEF ImplementsGlobalLock

-----------------------------------------------------------------------------
(***************************************************************************)
(* Commands and instances (Adm).                                           *)
(***************************************************************************)
LEMMA AdmInit == A!Init => A!Inv
<1> SUFFICES ASSUME A!Init PROVE A!Inv
  OBVIOUS
<1>1. A!TypeOK
  BY AdmAssumption DEF A!Init, A!TypeOK, A!Commands, A!Adm, A!Froxy
<1>2. A!RunLockInv
  BY AdmAssumption DEF A!Init, A!RunLockInv, A!Froxy
<1>3. A!CommandInv /\ A!NotRunningMeansLocked /\ A!RunReports
  BY DEF A!Init, A!CommandInv, A!NotRunningMeansLocked, A!RunReports
<1> QED BY <1>1, <1>2, <1>3 DEF A!Inv

LEMMA AdmFroxyAdm == ASSUME A!Inv, NEW a \in Adms, NEW c \in A!Commands, A!FroxyAdm(a, c) PROVE A!Inv'
<1> USE AdmAssumption DEF A!Inv, A!FroxyAdm, A!Goto, A!Finish, A!Adm, A!Froxy, A!admVars, A!instVars
<1>1. A!TypeOK'
  BY DEF A!TypeOK, A!Commands
<1>2. A!RunLockInv'
  BY DEF A!TypeOK, A!RunLockInv
<1>3. A!CommandInv'
  BY DEF A!TypeOK, A!CommandInv, A!Commands
<1>4. A!NotRunningMeansLocked'
  BY DEF A!TypeOK, A!RunLockInv, A!CommandInv, A!NotRunningMeansLocked
<1>5. A!RunReports'
  BY DEF A!TypeOK, A!CommandInv, A!RunReports
<1> QED BY <1>1, <1>2, <1>3, <1>4, <1>5

LEMMA AdmNewAdm == ASSUME A!Inv, NEW a \in Adms, A!NewAdm(a) PROVE A!Inv'
<1> USE AdmAssumption DEF A!Inv, A!NewAdm, A!Goto, A!Finish, A!Adm, A!Froxy, A!admVars, A!instVars
<1>1. A!TypeOK'
  <2>1. runLock' \in {NoOne, <<"adm", a>>, runLock} /\ apc'[a] \in {"run", "kill", "done"}
    BY DEF A!TypeOK
  <2>2. /\ apc' \in [Adms -> {"off", "start", "command", "kill", "wait", "closing", "retry", "write",
                             "run", "remove", "undo", "undoRun", "spawn", "output", "done"}]
        /\ isRunning' \in [Adms -> BOOLEAN]
        /\ result' \in [Adms -> {"none", "ok", "running", "cantkill", "error"}]
    BY DEF A!TypeOK
  <2> QED BY <2>1, <2>2 DEF A!TypeOK
<1>2. A!RunLockInv'
  BY DEF A!TypeOK, A!RunLockInv
<1>3. A!CommandInv'
  BY DEF A!TypeOK, A!CommandInv, A!Commands
<1>4. A!NotRunningMeansLocked'
  <2>1. \A b \in Adms \ {a} : apc'[b] = apc[b] /\ isRunning'[b] = isRunning[b]
    BY DEF A!TypeOK
  <2>2. CASE runLock = NoOne /\ runLock' = <<"adm", a>>
    BY <2>1, <2>2 DEF A!TypeOK, A!RunLockInv, A!NotRunningMeansLocked
  <2>3. CASE runLock # NoOne /\ runLock' = runLock /\ isRunning'[a]
    BY <2>1, <2>3 DEF A!TypeOK, A!RunLockInv, A!NotRunningMeansLocked
  <2>4. CASE apc'[a] = "done" /\ runLock # <<"adm", a>> /\ runLock' = runLock
    BY <2>1, <2>4 DEF A!TypeOK, A!RunLockInv, A!NotRunningMeansLocked
  <2>5. CASE apc'[a] = "done" /\ runLock = <<"adm", a>>
    BY <2>1, <2>5 DEF A!TypeOK, A!RunLockInv, A!NotRunningMeansLocked
  <2> QED BY <2>2, <2>3, <2>4, <2>5 DEF A!TypeOK
<1>5. A!RunReports'
  BY DEF A!TypeOK, A!CommandInv, A!RunReports
<1> QED BY <1>1, <1>2, <1>3, <1>4, <1>5

LEMMA AdmKill == ASSUME A!Inv, NEW a \in Adms, A!Kill(a) PROVE A!Inv'
<1> USE AdmAssumption DEF A!Inv, A!Kill, A!Killed, A!Listening, A!Goto, A!Finish, A!Adm, A!Froxy, A!admVars, A!instVars
<1>1. A!TypeOK'
  <2>1. A!Killed(a) \in {"write", "remove", "command"}
    BY DEF A!CommandInv
  <2> HIDE DEF A!Killed
  <2> QED BY <2>1 DEF A!TypeOK
<1>2. A!RunLockInv'
  BY DEF A!TypeOK, A!RunLockInv
<1>3. A!CommandInv'
  BY DEF A!TypeOK, A!CommandInv, A!Commands
<1>4. A!NotRunningMeansLocked'
  BY DEF A!TypeOK, A!RunLockInv, A!CommandInv, A!NotRunningMeansLocked
<1>5. A!RunReports'
  BY DEF A!TypeOK, A!CommandInv, A!RunReports
<1> QED BY <1>1, <1>2, <1>3, <1>4, <1>5

LEMMA AdmConnectionClosed == ASSUME A!Inv, NEW a \in Adms, A!ConnectionClosed(a) PROVE A!Inv'
<1> USE AdmAssumption DEF A!Inv, A!ConnectionClosed, A!Goto, A!Finish, A!Adm, A!Froxy, A!admVars, A!instVars
<1>1. A!TypeOK'
  BY DEF A!TypeOK, A!Commands
<1>2. A!RunLockInv'
  BY DEF A!TypeOK, A!RunLockInv
<1>3. A!CommandInv'
  BY DEF A!TypeOK, A!CommandInv, A!Commands
<1>4. A!NotRunningMeansLocked'
  BY DEF A!TypeOK, A!RunLockInv, A!CommandInv, A!NotRunningMeansLocked
<1>5. A!RunReports'
  BY DEF A!TypeOK, A!CommandInv, A!RunReports
<1> QED BY <1>1, <1>2, <1>3, <1>4, <1>5

LEMMA AdmReacquire == ASSUME A!Inv, NEW a \in Adms, A!Reacquire(a) PROVE A!Inv'
<1> USE AdmAssumption DEF A!Inv, A!Reacquire, A!Killed, A!Goto, A!Finish, A!Adm, A!Froxy, A!admVars, A!instVars
<1>1. A!TypeOK'
  <2>1. A!Killed(a) \in {"write", "remove", "command"}
    BY DEF A!CommandInv
  <2>2. apc'[a] \in {"write", "remove", "command", "retry", "done"} /\ apc' = [apc EXCEPT ![a] = apc'[a]]
    BY <2>1 DEF A!TypeOK
  <2>3. tries' \in [Adms -> 0..MaxTries]
    BY DEF A!TypeOK
  <2>4. isRunning' \in [Adms -> BOOLEAN]
    BY Zenon DEF A!TypeOK
  <2>5. result' \in [Adms -> {"none", "ok", "running", "cantkill", "error"}]
    BY DEF A!TypeOK
  <2>6. runLock' \in {NoOne, <<"adm", a>>, runLock}
    OBVIOUS
  <2> QED BY <2>2, <2>3, <2>4, <2>5, <2>6 DEF A!TypeOK
<1>2. A!RunLockInv'
  BY DEF A!TypeOK, A!RunLockInv
<1>3. A!CommandInv'
  BY DEF A!TypeOK, A!CommandInv, A!Commands
<1>4. A!NotRunningMeansLocked'
  BY DEF A!TypeOK, A!RunLockInv, A!CommandInv, A!NotRunningMeansLocked
<1>5. A!RunReports'
  BY DEF A!TypeOK, A!CommandInv, A!RunReports
<1> QED BY <1>1, <1>2, <1>3, <1>4, <1>5

LEMMA AdmKillDone == ASSUME A!Inv, NEW a \in Adms, A!KillDone(a) PROVE A!Inv'
<1> USE AdmAssumption DEF A!Inv, A!KillDone, A!Goto, A!Finish, A!Adm, A!Froxy, A!admVars, A!instVars
<1>1. A!TypeOK'
  BY DEF A!TypeOK, A!Commands
<1>2. A!RunLockInv'
  BY DEF A!TypeOK, A!RunLockInv
<1>3. A!CommandInv'
  BY DEF A!TypeOK, A!CommandInv, A!Commands
<1>4. A!NotRunningMeansLocked'
  BY DEF A!TypeOK, A!RunLockInv, A!CommandInv, A!NotRunningMeansLocked
<1>5. A!RunReports'
  BY DEF A!TypeOK, A!CommandInv, A!RunReports
<1> QED BY <1>1, <1>2, <1>3, <1>4, <1>5

LEMMA AdmWrite == ASSUME A!Inv, NEW a \in Adms, A!Write(a) PROVE A!Inv'
<1> USE AdmAssumption DEF A!Inv, A!Write, A!Goto, A!Finish, A!Adm, A!Froxy, A!admVars, A!instVars
<1>1. A!TypeOK'
  BY DEF A!TypeOK, A!Commands
<1>2. A!RunLockInv'
  BY DEF A!TypeOK, A!RunLockInv
<1>3. A!CommandInv'
  BY DEF A!TypeOK, A!CommandInv, A!Commands
<1>4. A!NotRunningMeansLocked'
  BY DEF A!TypeOK, A!RunLockInv, A!CommandInv, A!NotRunningMeansLocked
<1>5. A!RunReports'
  BY DEF A!TypeOK, A!CommandInv, A!RunReports
<1> QED BY <1>1, <1>2, <1>3, <1>4, <1>5

LEMMA AdmRemove == ASSUME A!Inv, NEW a \in Adms, A!Remove(a) PROVE A!Inv'
<1> USE AdmAssumption DEF A!Inv, A!Remove, A!Goto, A!Finish, A!Adm, A!Froxy, A!admVars, A!instVars
<1>1. A!TypeOK'
  BY DEF A!TypeOK, A!Commands
<1>2. A!RunLockInv'
  BY DEF A!TypeOK, A!RunLockInv
<1>3. A!CommandInv'
  BY DEF A!TypeOK, A!CommandInv, A!Commands
<1>4. A!NotRunningMeansLocked'
  BY DEF A!TypeOK, A!RunLockInv, A!CommandInv, A!NotRunningMeansLocked
<1>5. A!RunReports'
  BY DEF A!TypeOK, A!CommandInv, A!RunReports
<1> QED BY <1>1, <1>2, <1>3, <1>4, <1>5

LEMMA AdmRun == ASSUME A!Inv, NEW a \in Adms, A!Run(a) PROVE A!Inv'
<1> USE AdmAssumption DEF A!Inv, A!Run, A!RunReturns, A!Goto, A!Finish, A!Adm, A!Froxy, A!admVars, A!instVars
<1>1. A!TypeOK'
  BY DEF A!TypeOK, A!Commands
<1>2. A!RunLockInv'
  BY DEF A!TypeOK, A!RunLockInv, A!NotRunningMeansLocked
<1>3. A!CommandInv'
  BY DEF A!TypeOK, A!CommandInv, A!Commands
<1>4. A!NotRunningMeansLocked'
  BY DEF A!TypeOK, A!RunLockInv, A!CommandInv, A!NotRunningMeansLocked
<1>5. A!RunReports'
  BY DEF A!TypeOK, A!CommandInv, A!RunReports
<1> QED BY <1>1, <1>2, <1>3, <1>4, <1>5

LEMMA AdmStartProcess == ASSUME A!Inv, NEW a \in Adms, A!StartProcess(a) PROVE A!Inv'
<1> USE AdmAssumption DEF A!Inv, A!StartProcess, A!RunReturns, A!Goto, A!Finish, A!Adm, A!Froxy, A!admVars, A!instVars
<1>1. A!TypeOK'
  BY DEF A!TypeOK, A!Commands
<1>2. A!RunLockInv'
  BY DEF A!TypeOK, A!RunLockInv, A!CommandInv
<1>3. A!CommandInv'
  BY DEF A!TypeOK, A!CommandInv, A!Commands
<1>4. A!NotRunningMeansLocked'
  BY DEF A!TypeOK, A!RunLockInv, A!CommandInv, A!NotRunningMeansLocked
<1>5. A!RunReports'
  BY DEF A!TypeOK, A!CommandInv, A!RunReports
<1> QED BY <1>1, <1>2, <1>3, <1>4, <1>5

LEMMA AdmReadOutput == ASSUME A!Inv, NEW a \in Adms, A!ReadOutput(a) PROVE A!Inv'
<1> USE AdmAssumption DEF A!Inv, A!ReadOutput, A!RunReturns, A!Goto, A!Finish, A!Adm, A!Froxy, A!admVars, A!instVars
<1>1. A!TypeOK'
  BY DEF A!TypeOK, A!Commands
<1>2. A!RunLockInv'
  BY DEF A!TypeOK, A!RunLockInv
<1>3. A!CommandInv'
  BY DEF A!TypeOK, A!CommandInv, A!Commands
<1>4. A!NotRunningMeansLocked'
  BY DEF A!TypeOK, A!RunLockInv, A!CommandInv, A!NotRunningMeansLocked
<1>5. A!RunReports'
  BY DEF A!TypeOK, A!CommandInv, A!RunReports
<1> QED BY <1>1, <1>2, <1>3, <1>4, <1>5

LEMMA AdmLoad == ASSUME A!Inv, NEW i \in Adms, A!Load(i) PROVE A!Inv'
<1> USE AdmAssumption DEF A!Inv, A!Load, A!Goto, A!Finish, A!Adm, A!Froxy, A!admVars, A!instVars
<1>1. A!TypeOK'
  BY DEF A!TypeOK, A!Commands
<1>2. A!RunLockInv'
  BY DEF A!TypeOK, A!RunLockInv
<1>3. A!CommandInv'
  BY DEF A!TypeOK, A!CommandInv, A!Commands
<1>4. A!NotRunningMeansLocked'
  BY DEF A!TypeOK, A!RunLockInv, A!CommandInv, A!NotRunningMeansLocked
<1>5. A!RunReports'
  BY DEF A!TypeOK, A!CommandInv, A!RunReports
<1> QED BY <1>1, <1>2, <1>3, <1>4, <1>5

LEMMA AdmNewFroxy == ASSUME A!Inv, NEW i \in Adms, A!NewFroxy(i) PROVE A!Inv'
<1> USE AdmAssumption DEF A!Inv, A!NewFroxy, A!Goto, A!Finish, A!Adm, A!Froxy, A!admVars, A!instVars
<1>1. A!TypeOK'
  BY DEF A!TypeOK, A!Commands
<1>2. A!RunLockInv'
  BY DEF A!TypeOK, A!RunLockInv
<1>3. A!CommandInv'
  BY DEF A!TypeOK, A!CommandInv, A!Commands
<1>4. A!NotRunningMeansLocked'
  BY DEF A!TypeOK, A!RunLockInv, A!CommandInv, A!NotRunningMeansLocked
<1>5. A!RunReports'
  BY DEF A!TypeOK, A!CommandInv, A!RunReports
<1> QED BY <1>1, <1>2, <1>3, <1>4, <1>5

LEMMA AdmDetach == ASSUME A!Inv, NEW i \in Adms, A!Detach(i) PROVE A!Inv'
<1> USE AdmAssumption DEF A!Inv, A!Detach, A!Goto, A!Finish, A!Adm, A!Froxy, A!admVars, A!instVars
<1>1. A!TypeOK'
  BY DEF A!TypeOK, A!Commands
<1>2. A!RunLockInv'
  BY DEF A!TypeOK, A!RunLockInv
<1>3. A!CommandInv'
  BY DEF A!TypeOK, A!CommandInv, A!Commands
<1>4. A!NotRunningMeansLocked'
  BY DEF A!TypeOK, A!RunLockInv, A!CommandInv, A!NotRunningMeansLocked
<1>5. A!RunReports'
  BY DEF A!TypeOK, A!CommandInv, A!RunReports
<1> QED BY <1>1, <1>2, <1>3, <1>4, <1>5

LEMMA AdmSubscribe == ASSUME A!Inv, NEW i \in Adms, A!Subscribe(i) PROVE A!Inv'
<1> USE AdmAssumption DEF A!Inv, A!Subscribe, A!Goto, A!Finish, A!Adm, A!Froxy, A!admVars, A!instVars
<1>1. A!TypeOK'
  BY DEF A!TypeOK, A!Commands
<1>2. A!RunLockInv'
  BY DEF A!TypeOK, A!RunLockInv
<1>3. A!CommandInv'
  BY DEF A!TypeOK, A!CommandInv, A!Commands
<1>4. A!NotRunningMeansLocked'
  BY DEF A!TypeOK, A!RunLockInv, A!CommandInv, A!NotRunningMeansLocked
<1>5. A!RunReports'
  BY DEF A!TypeOK, A!CommandInv, A!RunReports
<1> QED BY <1>1, <1>2, <1>3, <1>4, <1>5

LEMMA AdmShutdown == ASSUME A!Inv, NEW a \in Adms, A!Shutdown(a) PROVE A!Inv'
<1> USE AdmAssumption DEF A!Inv, A!Shutdown, A!Goto, A!Finish, A!Adm, A!Froxy, A!admVars, A!instVars
<1>1. A!TypeOK'
  BY DEF A!TypeOK, A!Commands
<1>2. A!RunLockInv'
  BY DEF A!TypeOK, A!RunLockInv
<1>3. A!CommandInv'
  BY DEF A!TypeOK, A!CommandInv, A!Commands
<1>4. A!NotRunningMeansLocked'
  BY DEF A!TypeOK, A!RunLockInv, A!CommandInv, A!NotRunningMeansLocked
<1>5. A!RunReports'
  BY DEF A!TypeOK, A!CommandInv, A!RunReports
<1> QED BY <1>1, <1>2, <1>3, <1>4, <1>5

LEMMA AdmExit == ASSUME A!Inv, NEW i \in Adms, A!Exit(i) PROVE A!Inv'
<1> USE AdmAssumption DEF A!Inv, A!Exit, A!Goto, A!Finish, A!Adm, A!Froxy, A!admVars, A!instVars
<1>1. A!TypeOK'
  BY DEF A!TypeOK, A!Commands
<1>2. A!RunLockInv'
  <2>1. CASE runLock = <<"froxy", i>>
    BY <2>1 DEF A!TypeOK, A!RunLockInv
  <2>2. CASE runLock # <<"froxy", i>>
    BY <2>2 DEF A!TypeOK, A!RunLockInv
  <2> QED BY <2>1, <2>2
<1>3. A!CommandInv'
  BY DEF A!TypeOK, A!CommandInv, A!Commands
<1>4. A!NotRunningMeansLocked'
  BY DEF A!TypeOK, A!RunLockInv, A!CommandInv, A!NotRunningMeansLocked
<1>5. A!RunReports'
  BY DEF A!TypeOK, A!CommandInv, A!RunReports
<1> QED BY <1>1, <1>2, <1>3, <1>4, <1>5

LEMMA AdmNext == A!Inv /\ [A!Next]_(A!vars) => A!Inv'
<1> SUFFICES ASSUME A!Inv, [A!Next]_(A!vars) PROVE A!Inv'
  OBVIOUS
<1>1. CASE UNCHANGED A!vars
  BY <1>1
     DEF A!vars, A!admVars, A!instVars, A!Inv, A!TypeOK, A!RunLockInv, A!CommandInv,
         A!NotRunningMeansLocked, A!RunReports, A!Commands, A!Adm, A!Froxy
<1>2. ASSUME NEW a \in Adms, NEW c \in A!Commands, A!FroxyAdm(a, c) PROVE A!Inv'
  BY <1>2, AdmFroxyAdm
<1>3. ASSUME NEW a \in Adms, A!Command(a) PROVE A!Inv'
  BY <1>3, AdmNewAdm, AdmKill, AdmConnectionClosed, AdmReacquire, AdmKillDone, AdmWrite,
     AdmRemove, AdmRun, AdmStartProcess, AdmReadOutput, Zenon DEF A!Command
<1>4. ASSUME NEW i \in Adms, A!Instance(i) PROVE A!Inv'
  BY <1>4, AdmLoad, AdmNewFroxy, AdmDetach, AdmSubscribe, AdmShutdown, Zenon DEF A!Instance
<1>5. ASSUME NEW i \in Adms, A!Exit(i) PROVE A!Inv'
  BY <1>5, AdmExit, Zenon
<1> QED BY <1>1, <1>2, <1>3, <1>4, <1>5, Zenon DEF A!Next

(* The invariant of the commands and the instances (adm.go, main.go).      *)
LEMMA AdmHolds == A!Spec => []A!Inv
BY AdmInit, AdmNext, PTL DEF A!Spec

(* A command that believes no instance runs is right and has the run lock, *)
(* whatever other commands and instances do (adm.go:252-257).              *)
THEOREM CommandsAreAlone == A!Spec => []NotRunningMeansLocked
<1>1. A!Inv => NotRunningMeansLocked
  BY DEF A!Inv, NotRunningMeansLocked
<1> QED BY AdmHolds, <1>1, PTL

(* What Run reports of the instance it has started is true (adm.go:145,    *)
(* 187-201).                                                               *)
THEOREM ReportsAreTrue == A!Spec => []RunReports
<1>1. A!Inv => RunReports
  BY DEF A!Inv, RunReports
<1> QED BY AdmHolds, <1>1, PTL
-----------------------------------------------------------------------------
(***************************************************************************)
(* Requests (Requests).                                                    *)
(***************************************************************************)
Pending  == R!At({"choose", "handle", "hijack", "answered"})
Choosing == R!At({"choose"})

(* Counting connections. *)
LEMMA Count ==
    ASSUME NEW T \in SUBSET Conns, NEW c \in Conns
    PROVE  /\ Cardinality(T) \in Nat
           /\ Cardinality(T \ {c}) \in Nat
           /\ Cardinality(T \ {c}) = IF c \in T THEN Cardinality(T) - 1 ELSE Cardinality(T)
           /\ c \notin T => Cardinality(T \cup {c}) = Cardinality(T) + 1
<1>1. IsFiniteSet(T)
  BY ConnAssumption, FS_Subset
<1>2. Cardinality(T) \in Nat /\ IsFiniteSet(T \ {c})
  BY <1>1, FS_CardinalityType, FS_RemoveElement
<1>3. Cardinality(T \ {c}) \in Nat
  BY <1>2, FS_CardinalityType
<1>4. Cardinality(T \ {c}) = IF c \in T THEN Cardinality(T) - 1 ELSE Cardinality(T)
  BY <1>1, FS_RemoveElement
<1>5. Cardinality(T \cup {c}) = IF c \in T THEN Cardinality(T) ELSE Cardinality(T) + 1
  BY <1>1, FS_AddElement
<1> QED BY <1>2, <1>3, <1>4, <1>5

(* The operator of FiniteSets is the same in the instance. *)
LEMMA SameCardinality == ASSUME NEW T PROVE R!Cardinality(T) = Cardinality(T)
BY Zenon DEF R!Cardinality, Cardinality

LEMMA RqInit == R!Init => R!Inv
<1> SUFFICES ASSUME R!Init PROVE R!Inv
  OBVIOUS
<1>1. R!TypeOK /\ R!ConnInv /\ R!AnswerInv /\ R!OneBody
  BY DEF R!Init, R!TypeOK, R!ConnInv, R!AnswerInv, R!OneBody, R!Kinds, R!Counted
<1>2. R!OpenConns = {} /\ Pending = {} /\ Choosing = {}
  BY DEF R!Init, R!OpenConns, Pending, Choosing, R!At
<1>3. Cardinality(R!OpenConns) = 0 /\ Cardinality(Pending) = 0 /\ Cardinality(Choosing) = 0
  BY <1>2, FS_EmptySet
<1>4. R!CountersAgree
  BY <1>3, SameCardinality DEF R!Init, R!CountersAgree, Pending, Choosing, R!Counted
<1> QED BY <1>1, <1>4 DEF R!Inv

LEMMA RqAccept == ASSUME R!Inv, NEW c \in Conns, R!Accept(c) PROVE R!Inv'
<1> USE DEF R!Inv, R!Accept, R!Goto, R!IncCounter, R!connVars, R!tunnelVars
<1>1. /\ R!OpenConns' = R!OpenConns \cup {c}
      /\ Pending' = Pending /\ Choosing' = Choosing
  BY DEF R!TypeOK, R!ConnInv, R!AnswerInv, R!OpenConns, Pending, Choosing, R!At
<1>2. R!CountersAgree' /\ Counters' \in [R!Counted -> Nat]
  <2>1. R!OpenConns \in SUBSET Conns /\ Pending \in SUBSET Conns /\ Choosing \in SUBSET Conns
    BY DEF R!OpenConns, Pending, Choosing, R!At
  <2>2. c \notin R!OpenConns
    BY DEF R!TypeOK, R!ConnInv, R!AnswerInv, R!OpenConns, Pending, Choosing, R!At
  <2>3. /\ Cardinality(R!OpenConns) \in Nat /\ Cardinality(R!OpenConns') = Cardinality(R!OpenConns) + 1
        /\ Cardinality(Pending) \in Nat /\ Cardinality(Pending') = Cardinality(Pending)
        /\ Cardinality(Choosing) \in Nat /\ Cardinality(Choosing') = Cardinality(Choosing)
    BY <1>1, <2>1, <2>2, Count
  <2>4. Counters' \in [R!Counted -> Int] /\ R!CountersAgree'
    BY <1>1, <2>3, SameCardinality DEF R!TypeOK, R!CountersAgree, Pending, Choosing, R!Counted
  <2>5. \A n \in R!Counted : Counters'[n] >= 0
    BY <1>1, <2>3, SameCardinality DEF R!TypeOK, R!CountersAgree, Pending, Choosing, R!Counted
  <2> QED BY <2>4, <2>5
<1>3. R!TypeOK' /\ R!ConnInv' /\ R!AnswerInv' /\ R!OneBody'
  BY <1>2 DEF R!TypeOK, R!ConnInv, R!AnswerInv, R!OneBody, R!Kinds
<1> QED BY <1>2, <1>3

LEMMA RqServerCloses == ASSUME R!Inv, NEW c \in Conns, R!ServerCloses(c) PROVE R!Inv'
<1> USE DEF R!Inv, R!ServerCloses, R!Close, R!DecCounter, R!connVars, R!tunnelVars
<1>1. /\ R!OpenConns' = R!OpenConns \ {c}
      /\ Pending' = Pending /\ Choosing' = Choosing
  BY DEF R!TypeOK, R!ConnInv, R!AnswerInv, R!OpenConns, Pending, Choosing, R!At
<1>2. R!CountersAgree' /\ Counters' \in [R!Counted -> Nat]
  <2>1. R!OpenConns \in SUBSET Conns /\ Pending \in SUBSET Conns /\ Choosing \in SUBSET Conns
    BY DEF R!OpenConns, Pending, Choosing, R!At
  <2>2. c \in R!OpenConns <=> c \notin closed
    BY DEF R!TypeOK, R!ConnInv, R!AnswerInv, R!OpenConns, Pending, Choosing, R!At
  <2>3. /\ Cardinality(R!OpenConns) \in Nat /\ Cardinality(R!OpenConns') \in Nat
        /\ Cardinality(R!OpenConns') = IF c \in closed THEN Cardinality(R!OpenConns)
                                       ELSE Cardinality(R!OpenConns) - 1
        /\ Cardinality(Pending) \in Nat /\ Cardinality(Pending') = Cardinality(Pending)
        /\ Cardinality(Choosing) \in Nat /\ Cardinality(Choosing') = Cardinality(Choosing)
    BY <1>1, <2>1, <2>2, Count
  <2>4. Counters' \in [R!Counted -> Int] /\ R!CountersAgree'
    BY <1>1, <2>3, SameCardinality DEF R!TypeOK, R!CountersAgree, Pending, Choosing, R!Counted
  <2>5. \A n \in R!Counted : Counters'[n] >= 0
    BY <1>1, <2>3, SameCardinality DEF R!TypeOK, R!CountersAgree, Pending, Choosing, R!Counted
  <2> QED BY <2>4, <2>5
<1>3. R!TypeOK' /\ R!ConnInv' /\ R!AnswerInv' /\ R!OneBody'
  BY <1>2 DEF R!TypeOK, R!ConnInv, R!AnswerInv, R!OneBody, R!Kinds
<1> QED BY <1>2, <1>3

LEMMA RqUserGoes == ASSUME R!Inv, NEW c \in Conns, R!UserGoes(c) PROVE R!Inv'
<1> USE DEF R!Inv, R!UserGoes, R!connVars, R!tunnelVars
<1>1. R!OpenConns' = R!OpenConns /\ Pending' = Pending /\ Choosing' = Choosing
  BY DEF R!TypeOK, R!ConnInv, R!AnswerInv, R!OpenConns, Pending, Choosing, R!At
<1>2. R!CountersAgree' /\ Counters' \in [R!Counted -> Nat]
  BY <1>1 DEF R!TypeOK, R!CountersAgree, Pending, Choosing
<1>3. R!TypeOK' /\ R!ConnInv' /\ R!AnswerInv' /\ R!OneBody'
  BY <1>2 DEF R!TypeOK, R!ConnInv, R!AnswerInv, R!OneBody, R!Kinds
<1> QED BY <1>2, <1>3

LEMMA RqRequest == ASSUME R!Inv, NEW c \in Conns, NEW k \in R!Kinds, R!Request(c, k) PROVE R!Inv'
<1> USE DEF R!Inv, R!Request, R!Goto, R!connVars, R!tunnelVars
<1>1. R!OpenConns' = R!OpenConns /\ Pending' = Pending /\ Choosing' = Choosing
  BY DEF R!TypeOK, R!ConnInv, R!AnswerInv, R!OpenConns, Pending, Choosing, R!At
<1>2. R!CountersAgree' /\ Counters' \in [R!Counted -> Nat]
  BY <1>1 DEF R!TypeOK, R!CountersAgree, Pending, Choosing
<1>3. R!TypeOK' /\ R!ConnInv' /\ R!AnswerInv' /\ R!OneBody'
  BY <1>2 DEF R!TypeOK, R!ConnInv, R!AnswerInv, R!OneBody, R!Kinds
<1> QED BY <1>2, <1>3

LEMMA RqLocalRequest == ASSUME R!Inv, NEW c \in Conns, R!handleLocalRequest(c) PROVE R!Inv'
<1> USE DEF R!Inv, R!handleLocalRequest, R!Answer, R!Goto, R!connVars, R!tunnelVars
<1>1. R!OpenConns' = R!OpenConns /\ Pending' = Pending /\ Choosing' = Choosing
  BY DEF R!TypeOK, R!ConnInv, R!AnswerInv, R!OpenConns, Pending, Choosing, R!At
<1>2. R!CountersAgree' /\ Counters' \in [R!Counted -> Nat]
  BY <1>1 DEF R!TypeOK, R!CountersAgree, Pending, Choosing
<1>3. R!TypeOK' /\ R!ConnInv' /\ R!AnswerInv' /\ R!OneBody'
  BY <1>2 DEF R!TypeOK, R!ConnInv, R!AnswerInv, R!OneBody, R!Kinds
<1> QED BY <1>2, <1>3

LEMMA RqWriteHeader == ASSUME R!Inv, NEW c \in Conns, R!WriteHeader(c) PROVE R!Inv'
<1> USE DEF R!Inv, R!WriteHeader, R!Goto, R!connVars, R!tunnelVars
<1>1. R!OpenConns' = R!OpenConns /\ Pending' = Pending /\ Choosing' = Choosing
  BY DEF R!TypeOK, R!ConnInv, R!AnswerInv, R!OpenConns, Pending, Choosing, R!At
<1>2. R!CountersAgree' /\ Counters' \in [R!Counted -> Nat]
  BY <1>1 DEF R!TypeOK, R!CountersAgree, Pending, Choosing
<1>3. R!TypeOK' /\ R!ConnInv' /\ R!AnswerInv' /\ R!OneBody'
  BY <1>2 DEF R!TypeOK, R!ConnInv, R!AnswerInv, R!OneBody, R!Kinds
<1> QED BY <1>2, <1>3

LEMMA RqWrite == ASSUME R!Inv, NEW c \in Conns, R!Write(c) PROVE R!Inv'
<1> USE DEF R!Inv, R!Write, R!Answer, R!Goto, R!connVars, R!tunnelVars
<1>1. R!OpenConns' = R!OpenConns /\ Pending' = Pending /\ Choosing' = Choosing
  BY DEF R!TypeOK, R!ConnInv, R!AnswerInv, R!OpenConns, Pending, Choosing, R!At
<1>2. R!CountersAgree' /\ Counters' \in [R!Counted -> Nat]
  BY <1>1 DEF R!TypeOK, R!CountersAgree, Pending, Choosing
<1>3. R!TypeOK' /\ R!ConnInv' /\ R!AnswerInv' /\ R!OneBody'
  BY <1>2 DEF R!TypeOK, R!ConnInv, R!AnswerInv, R!OneBody, R!Kinds
<1> QED BY <1>2, <1>3

LEMMA RqReceive == ASSUME R!Inv, NEW c \in Conns, R!Receive(c) PROVE R!Inv'
<1> USE DEF R!Inv, R!Receive, R!Goto, R!connVars, R!tunnelVars
<1>1. /\ R!OpenConns' = R!OpenConns
      /\ Pending' = Pending \cup {c} /\ Choosing' = Choosing \cup {c}
  BY DEF R!TypeOK, R!ConnInv, R!AnswerInv, R!OpenConns, Pending, Choosing, R!At
<1>2. R!CountersAgree' /\ Counters' \in [R!Counted -> Nat]
  <2>1. R!OpenConns \in SUBSET Conns /\ Pending \in SUBSET Conns /\ Choosing \in SUBSET Conns
    BY DEF R!OpenConns, Pending, Choosing, R!At
  <2>2. c \notin Pending /\ c \notin Choosing
    BY DEF R!TypeOK, R!ConnInv, R!AnswerInv, R!OpenConns, Pending, Choosing, R!At
  <2>3. /\ Cardinality(R!OpenConns) \in Nat /\ Cardinality(R!OpenConns') = Cardinality(R!OpenConns)
        /\ Cardinality(Pending) \in Nat /\ Cardinality(Pending') = Cardinality(Pending) + 1
        /\ Cardinality(Choosing) \in Nat /\ Cardinality(Choosing') = Cardinality(Choosing) + 1
    BY <1>1, <2>1, <2>2, Count
  <2>4. Counters' \in [R!Counted -> Int] /\ R!CountersAgree'
    BY <1>1, <2>3, SameCardinality DEF R!TypeOK, R!CountersAgree, Pending, Choosing, R!Counted
  <2>5. \A n \in R!Counted : Counters'[n] >= 0
    BY <1>1, <2>3, SameCardinality DEF R!TypeOK, R!CountersAgree, Pending, Choosing, R!Counted
  <2> QED BY <2>4, <2>5
<1>3. R!TypeOK' /\ R!ConnInv' /\ R!AnswerInv' /\ R!OneBody'
  BY <1>2 DEF R!TypeOK, R!ConnInv, R!AnswerInv, R!OneBody, R!Kinds
<1> QED BY <1>2, <1>3

LEMMA RqHttpHandler == ASSUME R!Inv, NEW c \in Conns, R!httpHandler(c) PROVE R!Inv'
<1> USE DEF R!Inv, R!httpHandler, R!Answer, R!Goto, R!IncCounter, R!connVars, R!tunnelVars
<1>1. /\ R!OpenConns' = R!OpenConns
      /\ Pending' = Pending /\ Choosing' = Choosing \ {c}
  BY DEF R!TypeOK, R!ConnInv, R!AnswerInv, R!OpenConns, Pending, Choosing, R!At
<1>2. R!CountersAgree' /\ Counters' \in [R!Counted -> Nat]
  <2>1. R!OpenConns \in SUBSET Conns /\ Pending \in SUBSET Conns /\ Choosing \in SUBSET Conns
    BY DEF R!OpenConns, Pending, Choosing, R!At
  <2>2. c \in Choosing
    BY DEF R!TypeOK, R!ConnInv, R!AnswerInv, R!OpenConns, Pending, Choosing, R!At
  <2>3. /\ Cardinality(R!OpenConns) \in Nat /\ Cardinality(R!OpenConns') = Cardinality(R!OpenConns)
        /\ Cardinality(Pending) \in Nat /\ Cardinality(Pending') = Cardinality(Pending)
        /\ Cardinality(Choosing) \in Nat /\ Cardinality(Choosing') = Cardinality(Choosing) - 1
        /\ Cardinality(Choosing') \in Nat
    BY <1>1, <2>1, <2>2, Count
  <2>4. Counters' \in [R!Counted -> Int] /\ R!CountersAgree'
    BY <1>1, <2>3, SameCardinality DEF R!TypeOK, R!CountersAgree, Pending, Choosing, R!Counted
  <2>5. \A n \in R!Counted : Counters'[n] >= 0
    BY <1>1, <2>3, SameCardinality DEF R!TypeOK, R!CountersAgree, Pending, Choosing, R!Counted
  <2> QED BY <2>4, <2>5
<1>3. R!TypeOK' /\ R!ConnInv' /\ R!AnswerInv' /\ R!OneBody'
  BY <1>2 DEF R!TypeOK, R!ConnInv, R!AnswerInv, R!OneBody, R!Kinds
<1> QED BY <1>2, <1>3

LEMMA RqRegularHttp == ASSUME R!Inv, NEW c \in Conns, R!handleRegularHttp(c) PROVE R!Inv'
<1> USE DEF R!Inv, R!handleRegularHttp, R!Goto, R!connVars, R!tunnelVars
<1>1. R!OpenConns' = R!OpenConns /\ Pending' = Pending /\ Choosing' = Choosing
  BY DEF R!TypeOK, R!ConnInv, R!AnswerInv, R!OpenConns, Pending, Choosing, R!At
<1>2. R!CountersAgree' /\ Counters' \in [R!Counted -> Nat]
  BY <1>1 DEF R!TypeOK, R!CountersAgree, Pending, Choosing
<1>3. R!TypeOK' /\ R!ConnInv' /\ R!AnswerInv' /\ R!OneBody'
  BY <1>2 DEF R!TypeOK, R!ConnInv, R!AnswerInv, R!OneBody, R!Kinds
<1> QED BY <1>2, <1>3

LEMMA RqHandleFtp == ASSUME R!Inv, NEW c \in Conns, R!HandleFtp(c) PROVE R!Inv'
<1> USE DEF R!Inv, R!HandleFtp, R!Answer, R!Goto, R!connVars, R!tunnelVars
<1>1. R!OpenConns' = R!OpenConns /\ Pending' = Pending /\ Choosing' = Choosing
  BY DEF R!TypeOK, R!ConnInv, R!AnswerInv, R!OpenConns, Pending, Choosing, R!At
<1>2. R!CountersAgree' /\ Counters' \in [R!Counted -> Nat]
  BY <1>1 DEF R!TypeOK, R!CountersAgree, Pending, Choosing
<1>3. R!TypeOK' /\ R!ConnInv' /\ R!AnswerInv' /\ R!OneBody'
  BY <1>2 DEF R!TypeOK, R!ConnInv, R!AnswerInv, R!OneBody, R!Kinds
<1> QED BY <1>2, <1>3

LEMMA RqHandleConnect == ASSUME R!Inv, NEW c \in Conns, R!handleConnect(c) PROVE R!Inv'
<1> USE DEF R!Inv, R!handleConnect, R!Answer, R!Goto, R!connVars, R!tunnelVars
<1>1. R!OpenConns' = R!OpenConns /\ Pending' = Pending /\ Choosing' = Choosing
  BY DEF R!TypeOK, R!ConnInv, R!AnswerInv, R!OpenConns, Pending, Choosing, R!At
<1>2. R!CountersAgree' /\ Counters' \in [R!Counted -> Nat]
  BY <1>1 DEF R!TypeOK, R!CountersAgree, Pending, Choosing
<1>3. R!TypeOK' /\ R!ConnInv' /\ R!AnswerInv' /\ R!OneBody'
  BY <1>2 DEF R!TypeOK, R!ConnInv, R!AnswerInv, R!OneBody, R!Kinds
<1> QED BY <1>2, <1>3

LEMMA RqHijack == ASSUME R!Inv, NEW c \in Conns, R!Hijack(c) PROVE R!Inv'
<1> USE DEF R!Inv, R!Hijack, R!Goto, R!DecCounter, R!connVars, R!tunnelVars
<1>1. /\ R!OpenConns' = R!OpenConns
      /\ Pending' = Pending \ {c} /\ Choosing' = Choosing
  BY DEF R!TypeOK, R!ConnInv, R!AnswerInv, R!OpenConns, Pending, Choosing, R!At
<1>2. R!CountersAgree' /\ Counters' \in [R!Counted -> Nat]
  <2>1. R!OpenConns \in SUBSET Conns /\ Pending \in SUBSET Conns /\ Choosing \in SUBSET Conns
    BY DEF R!OpenConns, Pending, Choosing, R!At
  <2>2. c \in Pending
    BY DEF R!TypeOK, R!ConnInv, R!AnswerInv, R!OpenConns, Pending, Choosing, R!At
  <2>3. /\ Cardinality(R!OpenConns) \in Nat /\ Cardinality(R!OpenConns') = Cardinality(R!OpenConns)
        /\ Cardinality(Pending) \in Nat /\ Cardinality(Pending') = Cardinality(Pending) - 1
        /\ Cardinality(Pending') \in Nat
        /\ Cardinality(Choosing) \in Nat /\ Cardinality(Choosing') = Cardinality(Choosing)
    BY <1>1, <2>1, <2>2, Count
  <2>4. Counters' \in [R!Counted -> Int] /\ R!CountersAgree'
    BY <1>1, <2>3, SameCardinality DEF R!TypeOK, R!CountersAgree, Pending, Choosing, R!Counted
  <2>5. \A n \in R!Counted : Counters'[n] >= 0
    BY <1>1, <2>3, SameCardinality DEF R!TypeOK, R!CountersAgree, Pending, Choosing, R!Counted
  <2> QED BY <2>4, <2>5
<1>3. R!TypeOK' /\ R!ConnInv' /\ R!AnswerInv' /\ R!OneBody'
  BY <1>2 DEF R!TypeOK, R!ConnInv, R!AnswerInv, R!OneBody, R!Kinds
<1> QED BY <1>2, <1>3

LEMMA RqReturn == ASSUME R!Inv, NEW c \in Conns, R!Return(c) PROVE R!Inv'
<1> USE DEF R!Inv, R!Return, R!Goto, R!DecCounter, R!connVars, R!tunnelVars
<1>1. /\ R!OpenConns' = R!OpenConns
      /\ Pending' = Pending \ {c} /\ Choosing' = Choosing
  BY DEF R!TypeOK, R!ConnInv, R!AnswerInv, R!OpenConns, Pending, Choosing, R!At
<1>2. R!CountersAgree' /\ Counters' \in [R!Counted -> Nat]
  <2>1. R!OpenConns \in SUBSET Conns /\ Pending \in SUBSET Conns /\ Choosing \in SUBSET Conns
    BY DEF R!OpenConns, Pending, Choosing, R!At
  <2>2. c \in Pending <=> kind[c] # "page"
    BY DEF R!TypeOK, R!ConnInv, R!AnswerInv, R!OpenConns, Pending, Choosing, R!At
  <2>3. /\ Cardinality(R!OpenConns) \in Nat /\ Cardinality(R!OpenConns') = Cardinality(R!OpenConns)
        /\ Cardinality(Pending) \in Nat /\ Cardinality(Pending') \in Nat
        /\ Cardinality(Pending') = IF kind[c] = "page" THEN Cardinality(Pending)
                                    ELSE Cardinality(Pending) - 1
        /\ Cardinality(Choosing) \in Nat /\ Cardinality(Choosing') = Cardinality(Choosing)
    BY <1>1, <2>1, <2>2, Count
  <2>4. Counters' \in [R!Counted -> Int] /\ R!CountersAgree'
    BY <1>1, <2>3, SameCardinality DEF R!TypeOK, R!CountersAgree, Pending, Choosing, R!Counted
  <2>5. \A n \in R!Counted : Counters'[n] >= 0
    BY <1>1, <2>3, SameCardinality DEF R!TypeOK, R!CountersAgree, Pending, Choosing, R!Counted
  <2> QED BY <2>4, <2>5
<1>3. R!TypeOK' /\ R!ConnInv' /\ R!AnswerInv' /\ R!OneBody'
  BY <1>2 DEF R!TypeOK, R!ConnInv, R!AnswerInv, R!OneBody, R!Kinds
<1> QED BY <1>2, <1>3

LEMMA RqDestinationEnds == ASSUME R!Inv, NEW c \in Conns, R!DestinationEnds(c) PROVE R!Inv'
<1> USE DEF R!Inv, R!DestinationEnds, R!connVars, R!tunnelVars
<1>1. R!OpenConns' = R!OpenConns /\ Pending' = Pending /\ Choosing' = Choosing
  BY DEF R!TypeOK, R!ConnInv, R!AnswerInv, R!OpenConns, Pending, Choosing, R!At
<1>2. R!CountersAgree' /\ Counters' \in [R!Counted -> Nat]
  BY <1>1 DEF R!TypeOK, R!CountersAgree, Pending, Choosing
<1>3. R!TypeOK' /\ R!ConnInv' /\ R!AnswerInv' /\ R!OneBody'
  BY <1>2 DEF R!TypeOK, R!ConnInv, R!AnswerInv, R!OneBody, R!Kinds
<1> QED BY <1>2, <1>3

LEMMA RqStopUp == ASSUME R!Inv, NEW c \in Conns, R!StopUp(c) PROVE R!Inv'
<1> USE DEF R!Inv, R!StopUp, R!connVars, R!tunnelVars
<1>1. R!OpenConns' = R!OpenConns /\ Pending' = Pending /\ Choosing' = Choosing
  BY DEF R!TypeOK, R!ConnInv, R!AnswerInv, R!OpenConns, Pending, Choosing, R!At
<1>2. R!CountersAgree' /\ Counters' \in [R!Counted -> Nat]
  BY <1>1 DEF R!TypeOK, R!CountersAgree, Pending, Choosing
<1>3. R!TypeOK' /\ R!ConnInv' /\ R!AnswerInv' /\ R!OneBody'
  BY <1>2 DEF R!TypeOK, R!ConnInv, R!AnswerInv, R!OneBody, R!Kinds
<1> QED BY <1>2, <1>3

LEMMA RqStopDown == ASSUME R!Inv, NEW c \in Conns, R!StopDown(c) PROVE R!Inv'
<1> USE DEF R!Inv, R!StopDown, R!Close, R!DecCounter, R!connVars, R!tunnelVars
<1>1. /\ R!OpenConns' = R!OpenConns \ {c}
      /\ Pending' = Pending /\ Choosing' = Choosing
  BY DEF R!TypeOK, R!ConnInv, R!AnswerInv, R!OpenConns, Pending, Choosing, R!At
<1>2. R!CountersAgree' /\ Counters' \in [R!Counted -> Nat]
  <2>1. R!OpenConns \in SUBSET Conns /\ Pending \in SUBSET Conns /\ Choosing \in SUBSET Conns
    BY DEF R!OpenConns, Pending, Choosing, R!At
  <2>2. c \in R!OpenConns <=> c \notin closed
    BY DEF R!TypeOK, R!ConnInv, R!AnswerInv, R!OpenConns, Pending, Choosing, R!At
  <2>3. /\ Cardinality(R!OpenConns) \in Nat /\ Cardinality(R!OpenConns') \in Nat
        /\ Cardinality(R!OpenConns') = IF c \in closed THEN Cardinality(R!OpenConns)
                                       ELSE Cardinality(R!OpenConns) - 1
        /\ Cardinality(Pending) \in Nat /\ Cardinality(Pending') = Cardinality(Pending)
        /\ Cardinality(Choosing) \in Nat /\ Cardinality(Choosing') = Cardinality(Choosing)
    BY <1>1, <2>1, <2>2, Count
  <2>4. Counters' \in [R!Counted -> Int] /\ R!CountersAgree'
    BY <1>1, <2>3, SameCardinality DEF R!TypeOK, R!CountersAgree, Pending, Choosing, R!Counted
  <2>5. \A n \in R!Counted : Counters'[n] >= 0
    BY <1>1, <2>3, SameCardinality DEF R!TypeOK, R!CountersAgree, Pending, Choosing, R!Counted
  <2> QED BY <2>4, <2>5
<1>3. R!TypeOK' /\ R!ConnInv' /\ R!AnswerInv' /\ R!OneBody'
  BY <1>2 DEF R!TypeOK, R!ConnInv, R!AnswerInv, R!OneBody, R!Kinds
<1> QED BY <1>2, <1>3

LEMMA RqNext == R!Inv /\ [R!Next]_(R!vars) => R!Inv'
<1> SUFFICES ASSUME R!Inv, [R!Next]_(R!vars) PROVE R!Inv'
  OBVIOUS
<1>1. CASE UNCHANGED R!vars
  BY <1>1
     DEF R!vars, R!Inv, R!TypeOK, R!ConnInv, R!AnswerInv, R!OneBody, R!CountersAgree, R!OpenConns,
         R!At, R!Kinds, R!Counted
<1>2. CASE R!Next
  BY <1>2, RqAccept, RqServerCloses, RqUserGoes, RqRequest, RqLocalRequest, RqWriteHeader, RqWrite,
     RqReceive, RqHttpHandler, RqRegularHttp, RqHandleFtp, RqHandleConnect, RqHijack, RqReturn,
     RqDestinationEnds, RqStopUp, RqStopDown, Zenon
     DEF R!Next, R!EndUp, R!EndDown, R!BreakUp, R!BreakDown
<1> QED BY <1>1, <1>2

(* The counters agree with what happens, whatever ways requests and        *)
(* connections end (listener.go:96-103, froxy.go:419-420), and a request   *)
(* gets one body in answer (froxy.go:187, responsewriter.go:95-111).       *)
THEOREM CountersAreExact == R!Spec => [](R!CountersAgree /\ R!OneBody)
<1>1. R!Inv => R!CountersAgree /\ R!OneBody
  BY DEF R!Inv
<1> QED BY RqInit, RqNext, <1>1, PTL DEF R!Spec

-----------------------------------------------------------------------------
(***************************************************************************)
(* All parts together.                                                     *)
(***************************************************************************)
(* Each part keeps its own invariant, and leaves those of the others       *)
(* alone: the counters agree with the requests and the connections         *)
(* (listener.go:96-103, froxy.go:419-420), a request gets one body         *)
(* (responsewriter.go:95-111), locks and commands exclude each other.      *)
THEOREM InstanceHolds == MCSpec => []InstanceInv
<1>1. MCInit => InstanceInv
  BY InvInit, AdmInit, RqInit DEF MCInit, InstanceInv
<1>2. InstanceInv /\ [MCNext]_MCVars => InstanceInv'
  <2> SUFFICES ASSUME InstanceInv, [MCNext]_MCVars PROVE InstanceInv'
    OBVIOUS
  <2>1. \/ Next \/ UNCHANGED vars
    BY DEF MCNext, MCVars
  <2>2. \/ A!Next \/ UNCHANGED A!vars
    BY DEF MCNext, MCVars, admVars, A!vars, A!admVars, A!instVars
  <2>3. \/ R!Next \/ UNCHANGED R!vars
    BY DEF MCNext, MCVars, rqVars, R!vars
  <2> QED BY <2>1, <2>2, <2>3, InvNext, AdmNext, RqNext DEF InstanceInv
<1> QED BY <1>1, <1>2, PTL DEF MCSpec
=============================================================================
