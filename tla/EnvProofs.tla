----------------------------- MODULE EnvProofs -----------------------------
(***************************************************************************)
(* The parts of struct Env and the key set keep their data consistent in   *)
(* memory and on disk, however instances, requests and goroutines          *)
(* interleave and wherever the process ends: the state file, the keys, the *)
(* log files, and the list of sites with the router that walks through it. *)
(***************************************************************************)
EXTENDS MCEnv, SequencesExt, FiniteSetTheorems, WellFoundedInduction, TLAPS

-----------------------------------------------------------------------------
(***************************************************************************)
(* The state file (StateFile).                                             *)
(***************************************************************************)
LEMMA InvInit == Init => Inv
<1> SUFFICES ASSUME Init PROVE Inv
  OBVIOUS
<1>1. TypeOK
  <2>1. NewState \in State /\ [port : Ports, server : Params] \subseteq State
    BY DEF NewState, State
  <2> QED BY <2>1 DEF Init, TypeOK, NewState
<1>2. Saving = {} /\ Busy = {}
  BY DEF Init, Saving, Busy
<1>3. LockInv
  BY <1>2, SaverAssumption DEF Init, LockInv, Savers, Saving, Busy
<1>4. FileInv
  BY TornAssumption DEF Init, FileInv, NewState
<1>5. BufInv /\ DiskFollowsMemory /\ ParamsInv
  BY <1>2, SaverAssumption DEF Init, BufInv, DiskFollowsMemory, ParamsInv
<1> QED BY <1>1, <1>3, <1>4, <1>5 DEF Inv

LEMMA InvOpen == ASSUME Inv, NEW p \in Procs, Open(p) PROVE Inv'
<1> USE DEF Inv
<1>1. TypeOK'
  BY DEF Open, TypeOK, lockVars, saveVars, history
<1>2. LockInv'
  BY DEF Open, TypeOK, lockVars, saveVars, history, LockInv, Savers, Saving, Busy, Serving
<1>3. BufInv'
  BY DEF Open, lockVars, saveVars, history, BufInv, Saving
<1>4. FileInv'
  BY DEF Open, TypeOK, lockVars, saveVars, history, FileInv
<1>5. DiskFollowsMemory'
  BY DEF Open, lockVars, saveVars, history, DiskFollowsMemory, Saving
<1>6. ParamsInv'
  BY DEF Open, TypeOK, lockVars, saveVars, history, ParamsInv, Busy
<1> QED BY <1>1, <1>2, <1>3, <1>4, <1>5, <1>6

LEMMA InvLockShared == ASSUME Inv, NEW p \in Procs, LockShared(p) PROVE Inv'
<1> USE DEF Inv
<1>1. TypeOK'
  BY DEF LockShared, TypeOK, saveVars, history
<1>2. LockInv'
  BY DEF LockShared, TypeOK, saveVars, history, LockInv, Saving, Busy, Serving
<1>3. BufInv'
  BY DEF LockShared, saveVars, history, BufInv, Saving
<1>4. FileInv'
  BY DEF LockShared, saveVars, history, FileInv
<1>5. DiskFollowsMemory'
  BY DEF LockShared, saveVars, history, DiskFollowsMemory, Saving
<1>6. ParamsInv'
  BY DEF LockShared, saveVars, history, ParamsInv, Busy
<1> QED BY <1>1, <1>2, <1>3, <1>4, <1>5, <1>6

(* Nobody writes while an instance reads: what it reads is the file, or    *)
(* one that a save has left torn.                                          *)
LEMMA InvRead == ASSUME Inv, NEW p \in Procs, Read(p) PROVE Inv'
<1> USE DEF Inv
<1>1. TypeOK'
  BY DEF Read, TypeOK, State, NewState, saveVars
<1>2. LockInv'
  BY DEF Read, TypeOK, saveVars, LockInv, Savers, Saving, Busy, Serving
<1>3. runLock # p /\ mem' = [mem EXCEPT ![p] = mem'[p]]
  BY DEF Read, TypeOK, LockInv
<1>4. BufInv'
  BY <1>3 DEF Read, saveVars, BufInv, Saving, TypeOK
<1>5. \A s \in Savers : spc[s] # "truncated"
  BY SaverAssumption DEF Read, LockInv, Savers
<1>6. FileInv'
  BY <1>5 DEF Read, TypeOK, saveVars, FileInv
<1>7. DiskFollowsMemory'
  BY <1>3 DEF Read, saveVars, DiskFollowsMemory, Saving, TypeOK
<1>8. ParamsInv'
  BY <1>3 DEF Read, saveVars, ParamsInv, Busy, TypeOK
<1> QED BY <1>1, <1>2, <1>4, <1>6, <1>7, <1>8

LEMMA InvTryRunLock == ASSUME Inv, NEW p \in Procs, TryRunLock(p) PROVE Inv'
<1> USE DEF Inv
<1>1. TypeOK'
  BY DEF TryRunLock, TypeOK, lockVars, saveVars, history
<1>2. spc[p] = "idle"
  BY DEF TryRunLock, LockInv
<1>3. LockInv'
  BY SaverAssumption DEF TryRunLock, TypeOK, lockVars, saveVars, history, LockInv, Savers,
     Saving, Busy, Serving
<1>4. runLock' # runLock => Busy = {}
  BY SaverAssumption DEF TryRunLock, LockInv, Savers, Busy, Serving, TypeOK
<1>5. BufInv'
  BY <1>4 DEF TryRunLock, lockVars, saveVars, history, BufInv, Saving, Busy
<1>6. FileInv'
  BY DEF TryRunLock, TypeOK, lockVars, saveVars, history, FileInv
<1>7. DiskFollowsMemory'
  BY DEF TryRunLock, TypeOK, lockVars, saveVars, history, DiskFollowsMemory, FileInv, Saving
<1>8. ParamsInv'
  BY <1>2, <1>4 DEF TryRunLock, TypeOK, lockVars, saveVars, history, ParamsInv, Busy
<1> QED BY <1>1, <1>3, <1>5, <1>6, <1>7, <1>8

(* The first save of an instance is of the state that it has loaded, and   *)
(* nobody else saves.                                                      *)
LEMMA InvNewFroxy ==
    ASSUME Inv, NEW p \in Procs, NEW port \in Ports, NewFroxy(p, port)
    PROVE  Inv'
<1> USE DEF Inv
<1>1. TypeOK'
  <2>1. mem' \in [Procs -> State] /\ mem[p].server \in Params \cup {NoParams}
    BY DEF NewFroxy, TypeOK, State
  <2>2. buf' \in [Savers -> State]
    BY <2>1 DEF NewFroxy, TypeOK, Savers
  <2> QED BY <2>1, <2>2 DEF NewFroxy, TypeOK, Savers, lockVars
<1>2. runLock = p /\ Saving = {} /\ Busy = {} /\ writer = NoOne
  <2>1. runLock = p /\ Serving = {}
    BY SaverAssumption DEF NewFroxy, LockInv, Serving, TypeOK
  <2>2. \A s \in Savers : s \notin Busy
    BY <2>1, SaverAssumption DEF NewFroxy, LockInv, Savers, Busy
  <2> QED BY <2>1, <2>2, SaverAssumption DEF LockInv, Saving, Busy, TypeOK
<1>3. LockInv'
  BY <1>2, SaverAssumption
     DEF NewFroxy, TypeOK, lockVars, LockInv, Savers, Saving, Busy, Serving
<1>4. BufInv'
  BY <1>2, SaverAssumption DEF NewFroxy, TypeOK, lockVars, BufInv, Savers, Saving
<1>5. FileInv'
  BY <1>2 DEF NewFroxy, TypeOK, lockVars, FileInv, Savers
<1>6. DiskFollowsMemory'
  BY <1>2 DEF NewFroxy, TypeOK, lockVars, DiskFollowsMemory, Savers, Saving
<1>7. ParamsInv'
  BY <1>2, SaverAssumption DEF NewFroxy, TypeOK, lockVars, ParamsInv, Savers, Busy, State
<1> QED BY <1>1, <1>3, <1>4, <1>5, <1>6, <1>7

LEMMA InvStarted == ASSUME Inv, NEW p \in Procs, Started(p) PROVE Inv'
<1> USE DEF Inv
<1>1. TypeOK'
  BY DEF Started, TypeOK, lockVars, history
<1>2. runLock = p /\ \A r \in Requests : r \notin Busy
  BY SaverAssumption DEF Started, LockInv, Serving, TypeOK
<1>3. LockInv'
  BY <1>2, SaverAssumption
     DEF Started, TypeOK, lockVars, history, LockInv, Savers, Saving, Busy, Serving
<1>4. Saving' = Saving
  BY DEF Started, TypeOK, Saving
<1>5. BufInv'
  BY <1>4 DEF Started, BufInv
<1>6. FileInv'
  BY DEF Started, TypeOK, lockVars, history, FileInv
<1>7. DiskFollowsMemory'
  BY <1>4 DEF Started, history, DiskFollowsMemory
<1>8. ParamsInv'
  BY <1>2, SaverAssumption DEF Started, TypeOK, lockVars, history, ParamsInv, Savers, Busy
<1> QED BY <1>1, <1>3, <1>5, <1>6, <1>7, <1>8

(* An instance that ends in a save leaves the file torn, and marked so.    *)
LEMMA InvExit == ASSUME Inv, NEW p \in Procs, Exit(p) PROVE Inv'
<1> USE DEF Inv
<1>1. TypeOK'
  BY DEF Exit, TypeOK
<1>2. CASE runLock # p
  <2>1. ppc[p] \in {"load", "loaded"} /\ UNCHANGED <<file, mem, saveVars, writer, runLock, history>>
    BY <1>2 DEF Exit, LockInv, TypeOK, saveVars, history
  <2>2. LockInv'
    BY <2>1 DEF Exit, saveVars, LockInv, TypeOK, Saving, Busy, Serving
  <2>3. BufInv' /\ DiskFollowsMemory'
    BY <2>1 DEF saveVars, history, BufInv, DiskFollowsMemory, Saving
  <2>4. FileInv'
    BY <2>1 DEF Exit, saveVars, history, FileInv, TypeOK
  <2>5. ParamsInv'
    BY <1>2, <2>1 DEF Exit, saveVars, history, ParamsInv, Busy, TypeOK
  <2> QED BY <1>1, <2>2, <2>3, <2>4, <2>5
<1>3. CASE runLock = p
  <2>1. Saving' = {} /\ Busy' = {} /\ \A s \in Savers : spc'[s] \in {"idle", "done"}
    BY <1>3 DEF Exit, Saving, Busy
  <2>2. runLock' = NoOne
    BY <1>3 DEF Exit
  <2>3. LockInv'
    <3>1. \A q \in Procs : ppc[q] \in {"starting", "serving"} => q = p
      BY <1>3 DEF LockInv
    <3>2. \A q \in Procs : ppc'[q] \notin {"starting", "serving"}
      BY <3>1 DEF Exit, TypeOK
    <3>3. writer' = NoOne /\ stateLock' = NoOne
      BY <1>3 DEF Exit
    <3>4. \A q \in readers' : ppc'[q] = "load"
      BY DEF Exit, LockInv, TypeOK
    <3>5. \A q \in Procs : ppc'[q] \in {"off", "load", "loaded"} => spc'[q] = "idle"
      BY <1>3 DEF Exit, LockInv, TypeOK, Savers
    <3> QED
      BY <2>1, <2>2, <3>2, <3>3, <3>4, <3>5, SaverAssumption DEF LockInv, Savers
  <2>4. BufInv' /\ DiskFollowsMemory' /\ ParamsInv'
    BY <2>1, <2>2, SaverAssumption DEF BufInv, DiskFollowsMemory, ParamsInv
  <2>5. FileInv'
    BY <1>3, <2>1 DEF Exit, FileInv, TypeOK, Saving
  <2> QED BY <1>1, <2>3, <2>4, <2>5
<1> QED BY <1>2, <1>3

(* A request sets the parameters when nothing is being saved.              *)
LEMMA InvSet ==
    ASSUME Inv, NEW r \in Requests, NEW v \in Params, Set(r, v)
    PROVE  Inv'
<1> USE DEF Inv
<1>1. PICK p \in Serving : /\ mem' = [mem EXCEPT ![p].server = v]
                           /\ buf' = [buf EXCEPT ![r] = mem'[p]]
  BY DEF Set
<1>2. r \in Savers /\ p \in Procs /\ runLock = p /\ ppc[p] = "serving"
  BY DEF Serving, LockInv, Savers
<1>3. TypeOK'
  <2>1. mem' \in [Procs -> State]
    BY <1>1, <1>2 DEF TypeOK, State
  <2>2. buf' \in [Savers -> State]
    BY <1>1, <1>2, <2>1 DEF TypeOK
  <2> QED BY <1>2, <2>1, <2>2 DEF Set, TypeOK, lockVars
<1>4. Saving = {} /\ Saving' = {r}
  <2>1. \A s \in Savers : s \notin Saving
    BY SaverAssumption DEF Set, LockInv, Savers
  <2>2. \A s \in Savers : s \in Saving' <=> s = r
    BY <1>2, <2>1 DEF Set, TypeOK, Saving
  <2> QED BY <1>2, <2>1, <2>2 DEF Saving
<1>5. LockInv'
  BY <1>2, <1>4, SaverAssumption
     DEF Set, TypeOK, lockVars, LockInv, Savers, Busy, Serving
<1>6. BufInv'
  BY <1>1, <1>2, <1>4 DEF Set, TypeOK, BufInv, Savers
<1>7. FileInv'
  BY <1>1, <1>2 DEF Set, TypeOK, lockVars, FileInv
<1>8. DiskFollowsMemory'
  BY <1>4 DEF DiskFollowsMemory
<1>9. ParamsInv'
  BY <1>1, <1>2, SaverAssumption DEF Set, TypeOK, lockVars, ParamsInv, State, Savers, Busy
<1> QED BY <1>3, <1>5, <1>6, <1>7, <1>8, <1>9

LEMMA InvOpenFails == ASSUME Inv, NEW s \in Savers, OpenFails(s) PROVE Inv'
<1> USE DEF Inv
<1>1. TypeOK'
  BY DEF OpenFails, TypeOK, lockVars, procVars
<1>2. Saving = {s} /\ Saving' = {}
  <2>1. \A t \in Savers : t \in Saving <=> t = s
    BY DEF OpenFails, LockInv, Saving
  <2> QED BY <2>1 DEF OpenFails, TypeOK, Saving
<1>3. Busy' = Busy
  BY DEF OpenFails, TypeOK, Busy
<1>4. LockInv'
  BY <1>2, <1>3, SaverAssumption
     DEF OpenFails, TypeOK, lockVars, procVars, LockInv, Savers, Serving
<1>5. BufInv' /\ DiskFollowsMemory'
  BY <1>2 DEF OpenFails, BufInv, DiskFollowsMemory
<1>6. FileInv'
  BY DEF OpenFails, TypeOK, lockVars, procVars, FileInv
<1>7. ParamsInv'
  BY <1>3 DEF OpenFails, TypeOK, procVars, ParamsInv, Savers
<1> QED BY <1>1, <1>4, <1>5, <1>6, <1>7

LEMMA InvLockExclusive ==
    ASSUME Inv, NEW s \in Savers, LockExclusive(s) PROVE Inv'
<1> USE DEF Inv
<1>1. TypeOK'
  BY DEF LockExclusive, TypeOK, procVars, history
<1>2. Saving' = Saving /\ Busy' = Busy
  BY DEF LockExclusive, TypeOK, Saving, Busy
<1>3. LockInv'
  BY <1>2, SaverAssumption
     DEF LockExclusive, TypeOK, procVars, history, LockInv, Savers, Serving
<1>4. BufInv' /\ DiskFollowsMemory'
  BY <1>2 DEF LockExclusive, procVars, history, BufInv, DiskFollowsMemory
<1>5. FileInv'
  BY DEF LockExclusive, TypeOK, procVars, history, FileInv
<1>6. ParamsInv'
  BY <1>2 DEF LockExclusive, TypeOK, procVars, history, ParamsInv, Savers
<1> QED BY <1>1, <1>3, <1>4, <1>5, <1>6

LEMMA InvTruncate == ASSUME Inv, NEW s \in Savers, Truncate(s) PROVE Inv'
<1> USE DEF Inv
<1>1. TypeOK'
  BY DEF Truncate, TypeOK, lockVars, procVars
<1>2. Saving' = Saving /\ Busy' = Busy /\ s \in Saving
  BY DEF Truncate, TypeOK, Saving, Busy
<1>3. LockInv'
  BY <1>2 DEF Truncate, TypeOK, lockVars, procVars, LockInv, Savers, Serving
<1>4. BufInv' /\ DiskFollowsMemory'
  BY <1>2 DEF Truncate, procVars, BufInv, DiskFollowsMemory
<1>5. FileInv'
  BY DEF Truncate, TypeOK, procVars, FileInv
<1>6. ParamsInv'
  BY <1>2 DEF Truncate, TypeOK, procVars, ParamsInv, Savers
<1> QED BY <1>1, <1>3, <1>4, <1>5, <1>6

(* What is written is the state in memory.                                 *)
LEMMA InvWrite == ASSUME Inv, NEW s \in Savers, Write(s) PROVE Inv'
<1> USE DEF Inv
<1>1. TypeOK'
  BY DEF Write, TypeOK, procVars
<1>2. Saving = {s} /\ Saving' = {}
  <2>1. \A t \in Savers : t \in Saving <=> t = s
    BY DEF Write, LockInv, Saving
  <2> QED BY <2>1 DEF Write, TypeOK, Saving
<1>3. Busy' = Busy /\ writer = s
  BY DEF Write, TypeOK, Busy, LockInv
<1>4. LockInv'
  BY <1>2, <1>3, SaverAssumption
     DEF Write, TypeOK, procVars, LockInv, Savers, Serving
<1>5. BufInv'
  BY <1>2 DEF BufInv
<1>6. DiskFollowsMemory'
  BY <1>2 DEF Write, procVars, BufInv, DiskFollowsMemory
<1>7. \A t \in Savers : spc[t] = "truncated" => t = s
  BY <1>2 DEF Saving
<1>8. FileInv'
  <2>1. CASE spc[s] = "truncated" /\ failed' = FALSE /\ file' = buf[s]
    <3>1. file' # Torn
      BY <2>1, TornAssumption DEF TypeOK, State
    <3>2. \A p \in Procs : ppc[p] = "loaded" => p \in missed /\ p # runLock
      BY <2>1 DEF FileInv, LockInv
    <3> QED BY <2>1, <3>1, <3>2 DEF Write, procVars, FileInv
  <2>2. CASE failed' = TRUE /\ UNCHANGED <<file, missed>>
    BY <2>2, <1>7 DEF Write, TypeOK, procVars, FileInv
  <2> QED BY <2>1, <2>2 DEF Write
<1>9. ParamsInv'
  BY <1>3 DEF Write, TypeOK, procVars, ParamsInv, Savers
<1> QED BY <1>1, <1>4, <1>5, <1>6, <1>8, <1>9

LEMMA InvReconnect == ASSUME Inv, NEW r \in Requests, Reconnect(r) PROVE Inv'
<1> USE DEF Inv
<1>1. TypeOK'
  BY DEF Reconnect, TypeOK, State, Savers, lockVars, procVars, history
<1>2. Saving' = Saving /\ Busy' = Busy \ {r} /\ r \in Busy /\ r \in Savers
  BY DEF Reconnect, TypeOK, Saving, Busy, Savers
<1>3. LockInv'
  BY <1>2, SaverAssumption
     DEF Reconnect, TypeOK, lockVars, procVars, LockInv, Savers, Serving
<1>4. BufInv' /\ DiskFollowsMemory'
  BY <1>2 DEF Reconnect, procVars, history, BufInv, DiskFollowsMemory
<1>5. FileInv'
  BY DEF Reconnect, TypeOK, procVars, history, FileInv
<1>6. ParamsInv'
  BY <1>2, SaverAssumption DEF Reconnect, TypeOK, procVars, history, ParamsInv, Savers
<1> QED BY <1>1, <1>3, <1>4, <1>5, <1>6

LEMMA InvNext == Inv /\ [Next]_vars => Inv'
<1> SUFFICES ASSUME Inv, [Next]_vars PROVE Inv'
  OBVIOUS
<1>1. CASE UNCHANGED vars
  BY <1>1 DEF vars, lockVars, procVars, saveVars, history, Inv, TypeOK, LockInv, BufInv,
     FileInv, DiskFollowsMemory, ParamsInv, Busy, Saving, Serving
<1>2. ASSUME NEW p \in Procs,
             Open(p) \/ LockShared(p) \/ Read(p) \/ TryRunLock(p)
               \/ (\E port \in Ports : NewFroxy(p, port)) \/ Started(p) \/ Exit(p)
      PROVE  Inv'
  BY <1>2, InvOpen, InvLockShared, InvRead, InvTryRunLock, InvNewFroxy, InvStarted, InvExit
<1>3. ASSUME NEW s \in Savers,
             OpenFails(s) \/ LockExclusive(s) \/ Truncate(s) \/ Write(s)
      PROVE  Inv'
  BY <1>3, InvOpenFails, InvLockExclusive, InvTruncate, InvWrite
<1>4. CASE handleServer
  BY <1>4, InvReconnect, InvSet DEF handleServer
<1> QED BY <1>1, <1>2, <1>3, <1>4 DEF Next

(* The locks and the copies of the state are consistent in every run of    *)
(* any instances and requests (state.go, env.go, froxy.go).                *)
THEOREM InvHolds == Spec => []Inv
<1>1. Inv /\ [Next]_vars => Inv'
  BY InvNext
<1> QED BY InvInit, <1>1, PTL DEF Spec

(* The types of the variables of StateFile are as declared.                *)
THEOREM TypeCorrect == Spec => []TypeOK
<1>1. Inv => TypeOK
  BY DEF Inv
<1> QED BY InvHolds, <1>1, PTL

(* After a Save that succeeded the file is the state in memory, whatever   *)
(* requests come together and wherever instances end (env.go, state.go).   *)
THEOREM StateIsOnDisk == Spec => []DiskFollowsMemory
<1>1. Inv => DiskFollowsMemory
  BY DEF Inv
<1> QED BY InvHolds, <1>1, PTL

(* The transport works with the stored parameters unless requests overlap  *)
(* (SetServerParams of froxy.go).                                          *)
THEOREM TransportFollowsState == Spec => []TransportFollows
<1>1. Inv => TransportFollows
  BY SaverAssumption DEF Inv, LockInv, ParamsInv, TransportFollows, Serving
<1> QED BY InvHolds, <1>1, PTL

(* An instance that starts never reads a file that is half written         *)
(* (state.go truncates the file under the exclusive lock).                 *)
THEOREM ReadersSeeWholeFiles == Spec => []ReadersSeeWhole
<1>1. Inv => ReadersSeeWhole
  <2> SUFFICES ASSUME Inv, readers # {}, file = Torn PROVE failed
    BY DEF ReadersSeeWhole
  <2>1. \A s \in Savers : spc[s] # "truncated"
    BY SaverAssumption DEF Inv, LockInv, Savers
  <2> QED BY <2>1 DEF Inv, FileInv
<1> QED BY InvHolds, <1>1, PTL

-----------------------------------------------------------------------------
(***************************************************************************)
(* The keys (KeySet).                                                      *)
(***************************************************************************)
LEMMA WholeOfKey ==
    /\ \A c \in Comments \cup {NoKey} : K!Whole(c) = c
    /\ K!Whole(Torn) = NoKey
BY KeyAssumption DEF K!Whole

LEMMA KeysInit == K!Init => K!Inv
<1> SUFFICES ASSUME K!Init PROVE K!Inv
  OBVIOUS
<1>1. K!TypeOK
  BY DEF K!Init, K!TypeOK, K!NoOp
<1>2. K!OpInv
  BY DEF K!Init, K!OpInv, K!NoOp
<1>3. K!FilesInv
  BY WholeOfKey DEF K!Init, K!FilesInv
<1> QED BY <1>1, <1>2, <1>3 DEF K!Inv

LEMMA KeysKeyMod ==
    ASSUME K!Inv, NEW id \in Ids, NEW c \in Comments, K!KeyMod(id, c) PROVE K!Inv'
<1> USE DEF K!Inv, K!KeyMod
<1>1. K!TypeOK'
  BY DEF K!TypeOK
<1>2. K!OpInv'
  BY DEF K!TypeOK, K!OpInv
<1>3. K!FilesInv'
  BY DEF K!TypeOK, K!FilesInv
<1> QED BY <1>1, <1>2, <1>3

LEMMA KeysKeyDel == ASSUME K!Inv, NEW id \in Ids, K!KeyDel(id) PROVE K!Inv'
<1> USE DEF K!Inv, K!KeyDel
<1>1. K!TypeOK'
  BY DEF K!TypeOK
<1>2. K!OpInv'
  BY DEF K!TypeOK, K!OpInv
<1>3. K!FilesInv'
  BY DEF K!TypeOK, K!FilesInv
<1> QED BY <1>1, <1>2, <1>3

LEMMA KeysKeyGen ==
    ASSUME K!Inv, NEW id \in Ids, NEW c \in Comments, K!KeyGen(id, c) PROVE K!Inv'
<1> USE DEF K!Inv, K!KeyGen
<1>1. K!TypeOK'
  BY DEF K!TypeOK
<1>2. K!OpInv'
  BY DEF K!TypeOK, K!OpInv, K!Known
<1>3. K!FilesInv'
  BY DEF K!TypeOK, K!FilesInv
<1> QED BY <1>1, <1>2, <1>3

(* The file is torn, but it is that of the operation.                      *)
LEMMA KeysTruncate == ASSUME K!Inv, K!Truncate PROVE K!Inv'
<1> USE DEF K!Inv, K!Truncate
<1>1. op.id \in Ids
  BY DEF K!OpInv
<1>2. K!TypeOK'
  BY <1>1 DEF K!TypeOK
<1>3. K!OpInv'
  BY <1>1 DEF K!TypeOK, K!OpInv
<1>4. K!FilesInv'
  BY <1>1 DEF K!TypeOK, K!FilesInv
<1> QED BY <1>2, <1>3, <1>4

LEMMA KeysWrite == ASSUME K!Inv, K!Write PROVE K!Inv'
<1> USE DEF K!Inv, K!Write
<1>1. op.id \in Ids /\ op.kind # "del" /\ op.comment \in Comments
  BY DEF K!OpInv
<1>2. K!TypeOK'
  BY <1>1 DEF K!TypeOK
<1>3. K!OpInv'
  BY <1>1 DEF K!TypeOK, K!OpInv
<1>4. K!FilesInv'
  BY <1>1 DEF K!TypeOK, K!FilesInv
<1> QED BY <1>2, <1>3, <1>4

LEMMA KeysRemove == ASSUME K!Inv, K!Remove PROVE K!Inv'
<1> USE DEF K!Inv, K!Remove
<1>1. op.id \in Ids
  BY DEF K!OpInv
<1>2. K!TypeOK'
  BY <1>1 DEF K!TypeOK
<1>3. K!OpInv'
  BY <1>1 DEF K!TypeOK, K!OpInv
<1>4. K!FilesInv'
  BY <1>1 DEF K!TypeOK, K!FilesInv
<1> QED BY <1>2, <1>3, <1>4

(* A key of which an operation has failed is excused.                      *)
LEMMA KeysFail == ASSUME K!Inv, K!Fail PROVE K!Inv'
<1> USE DEF K!Inv, K!Fail
<1>1. op.id \in Ids
  BY DEF K!OpInv
<1>2. K!TypeOK'
  BY <1>1 DEF K!TypeOK, K!NoOp
<1>3. K!OpInv'
  BY DEF K!OpInv, K!NoOp
<1>4. K!FilesInv'
  BY <1>1 DEF K!TypeOK, K!FilesInv, K!NoOp
<1> QED BY <1>2, <1>3, <1>4

(* The key of the operation is on disk as it is in memory.                 *)
LEMMA KeysReturn == ASSUME K!Inv, K!Return PROVE K!Inv'
<1> USE DEF K!Inv, K!Return
<1>1. op.id \in Ids /\ (op.kind # "del" => op.comment \in Comments)
  BY DEF K!OpInv
<1>2. K!TypeOK'
  BY <1>1 DEF K!TypeOK, K!NoOp
<1>3. K!OpInv'
  BY DEF K!OpInv, K!NoOp
<1>4. op.id \notin unsaved => keys'[op.id] = K!Whole(disk[op.id])
  BY <1>1, WholeOfKey DEF K!TypeOK, K!OpInv
<1>5. \A id \in Ids : id # op.id => keys'[id] = keys[id]
  BY DEF K!TypeOK
<1>6. K!FilesInv'
  BY <1>4, <1>5 DEF K!FilesInv
<1> QED BY <1>2, <1>3, <1>6

LEMMA KeysExit == ASSUME K!Inv, K!Exit PROVE K!Inv'
<1> USE DEF K!Inv, K!Exit
<1>1. K!TypeOK'
  BY DEF K!TypeOK
<1>2. K!OpInv'
  BY DEF K!TypeOK, K!OpInv
<1>3. K!FilesInv'
  BY DEF K!TypeOK, K!FilesInv
<1> QED BY <1>1, <1>2, <1>3

LEMMA KeysLoad == ASSUME K!Inv, K!Load PROVE K!Inv'
<1> USE DEF K!Inv, K!Load
<1>1. K!TypeOK'
  BY DEF K!TypeOK, K!NoOp, K!Whole
<1>2. K!OpInv'
  BY DEF K!OpInv, K!NoOp
<1>3. K!FilesInv'
  BY DEF K!FilesInv, K!TypeOK
<1> QED BY <1>1, <1>2, <1>3

LEMMA KeysNext == K!Inv /\ [K!Next]_(K!vars) => K!Inv'
<1> SUFFICES ASSUME K!Inv, [K!Next]_(K!vars) PROVE K!Inv'
  OBVIOUS
<1>1. CASE UNCHANGED K!vars
  BY <1>1 DEF K!vars, K!Inv, K!TypeOK, K!OpInv, K!FilesInv
<1>2. CASE K!handleKeys
  BY <1>2, KeysKeyMod, KeysKeyDel, KeysKeyGen DEF K!handleKeys
<1> QED
  BY <1>1, <1>2, KeysTruncate, KeysWrite, KeysRemove, KeysFail, KeysReturn, KeysExit, KeysLoad
     DEF K!Next

(* A process that starts finds every key but the one that was being        *)
(* written, and those of which an operation has failed, as they were.      *)
LEMMA KeysRestart ==
    ASSUME K!Inv, [K!Next]_(K!vars), op.pc = "down"
    PROVE  \A id \in Ids \ (unsaved' \cup {op.id}) : keys'[id] = keys[id]
<1>1. CASE UNCHANGED K!vars
  BY <1>1 DEF K!vars
<1>2. CASE K!Next
  <2>1. K!Load
    BY <1>2 DEF K!Next, K!handleKeys, K!KeyMod, K!KeyDel, K!KeyGen, K!Truncate, K!Write,
       K!Remove, K!Fail, K!Return, K!Exit
  <2> QED BY <2>1 DEF K!Load, K!Inv, K!FilesInv
<1> QED BY <1>1, <1>2

(* The keys in memory are those on disk, whatever operations fail and      *)
(* wherever the process ends (keyset.go).                                  *)
THEOREM KeysOnDisk == K!Spec => []MemoryOnDisk
<1>1. K!Inv => MemoryOnDisk
  BY DEF K!Inv, K!FilesInv, MemoryOnDisk, K!MemoryOnDisk, K!Whole
<1> QED BY KeysInit, KeysNext, <1>1, PTL DEF K!Spec

(* A restart loses at most the key that was being written (load of         *)
(* keyset.go skips a file that is not a key).                              *)
THEOREM RestartKeepsKeys == K!Spec => CrashKeepsOthers
<1>1. K!Inv /\ [K!Next]_(K!vars)
        => [op.pc = "down" => \A id \in Ids \ (unsaved' \cup {op.id}) : keys'[id] = keys[id]]_(K!vars)
  BY KeysRestart
<1> QED BY KeysInit, KeysNext, <1>1, PTL DEF K!Spec, CrashKeepsOthers, K!CrashKeepsOthers

-----------------------------------------------------------------------------
(***************************************************************************)
(* The log files (Logger).                                                 *)
(***************************************************************************)
LEMMA LogInit == L!Init => L!Inv
<1> USE LogAssumption DEF L!Init, L!Down, L!Idle, L!Rotating, L!Oldest
<1>1. L!Init => L!TypeOK
  <2> SUFFICES ASSUME L!Init PROVE L!TypeOK
    OBVIOUS
  <2>1. backup \in [0..L!Oldest -> SUBSET (1..MaxLines)]
    OBVIOUS
  <2>2. log \subseteq 1..MaxLines /\ pc \in L!Rotating \cup {L!Idle, L!Down}
    OBVIOUS
  <2>3. written \in 0..MaxLines
    OBVIOUS
  <2>4. crashed \in BOOLEAN
    BY Zenon
  <2> QED BY <2>1, <2>2, <2>3, <2>4 DEF L!TypeOK
<1>2. L!Init => L!InOrder /\ L!FilesInv
  BY DEF L!InOrder, L!FilesInv
<1> QED BY <1>1, <1>2 DEF L!Inv

LEMMA LogLogToFile == ASSUME L!Inv, L!LogToFile PROVE L!Inv'
BY LogAssumption
   DEF L!LogToFile, L!Inv, L!TypeOK, L!InOrder, L!FilesInv, L!Down, L!Idle, L!Rotating, L!Oldest

(* The new line is later than all others.                                  *)
LEMMA LogFlush == ASSUME L!Inv, L!Flush PROVE L!Inv'
<1> USE LogAssumption DEF L!Inv, L!Down, L!Idle, L!Rotating, L!Oldest
<1>1. /\ written' = written + 1 /\ log' = log \cup {written'} /\ UNCHANGED <<backup, crashed>>
      /\ written < MaxLines /\ pc' \in {MaxBackupFiles, L!Idle}
  BY DEF L!Flush
<1>2. L!TypeOK'
  BY <1>1 DEF L!TypeOK
<1>3. L!FilesInv'
  BY <1>1 DEF L!TypeOK, L!FilesInv
<1>4. L!InOrder'
  BY <1>1 DEF L!TypeOK, L!FilesInv, L!InOrder
<1> QED BY <1>2, <1>3, <1>4

LEMMA LogRemoveOldest == ASSUME L!Inv, L!RemoveOldest PROVE L!Inv'
<1> USE LogAssumption DEF L!Inv, L!RemoveOldest, L!Down, L!Idle, L!Rotating, L!Oldest
<1>1. L!TypeOK'
  BY DEF L!TypeOK
<1>2. L!FilesInv'
  BY DEF L!TypeOK, L!FilesInv
<1>3. L!InOrder'
  BY DEF L!TypeOK, L!InOrder
<1> QED BY <1>1, <1>2, <1>3

(* The place that a backup takes is free.                                  *)
LEMMA LogRenamed ==
    ASSUME L!Inv, L!Rename
    PROVE  /\ pc \in 1..MaxBackupFiles - 1 /\ backup[pc] = {} /\ pc' = pc - 1
           /\ backup' = [i \in 0..MaxBackupFiles - 1 |->
                            IF i = pc THEN backup[pc - 1] ELSE IF i = pc - 1 THEN {} ELSE backup[i]]
           /\ UNCHANGED <<log, written, crashed>>
<1> USE LogAssumption DEF L!Inv, L!Down, L!Idle, L!Rotating, L!Oldest
<1>1. pc \in 1..MaxBackupFiles - 1 /\ backup[pc] = {}
  BY DEF L!Rename, L!FilesInv
<1> QED BY <1>1 DEF L!Rename, L!TypeOK

LEMMA LogRename == ASSUME L!Inv, L!Rename PROVE L!Inv'
<1> USE LogAssumption DEF L!Inv, L!Down, L!Idle, L!Rotating, L!Oldest
<1>1. /\ pc \in 1..MaxBackupFiles - 1 /\ backup[pc] = {} /\ pc' = pc - 1
      /\ UNCHANGED <<log, written, crashed>>
  BY LogRenamed
<1>2. backup' = [i \in 0..MaxBackupFiles - 1 |->
                    IF i = pc THEN backup[pc - 1] ELSE IF i = pc - 1 THEN {} ELSE backup[i]]
  BY LogRenamed
<1>3. L!TypeOK'
  BY <1>1, <1>2 DEF L!TypeOK
<1>4. L!FilesInv'
  BY <1>1, <1>2 DEF L!TypeOK, L!FilesInv
<1>5. L!InOrder'
  BY <1>1, <1>2 DEF L!TypeOK, L!InOrder
<1> QED BY <1>3, <1>4, <1>5

(* The backup that gzip writes was free too, and takes all of the log.     *)
LEMMA LogGzip == ASSUME L!Inv, L!Gzip PROVE L!Inv'
<1> USE LogAssumption DEF L!Inv, L!Down, L!Idle, L!Rotating, L!Oldest
<1>1. L!TypeOK'
  BY DEF L!TypeOK, L!Gzip
<1>2. backup[0] = {} /\ pc' \in {L!Idle, L!Down} /\ UNCHANGED written
  BY DEF L!Gzip, L!FilesInv
<1>3. backup' = [backup EXCEPT ![0] = backup'[0]] /\ backup'[0] \in {{}, log}
  BY <1>2 DEF L!Gzip, L!TypeOK
<1>4. log' \in {{}, log} /\ (crashed' = crashed \/ crashed' = TRUE)
  BY Zenon DEF L!Gzip
<1>5. L!FilesInv'
  <2>1. pc' \notin 0..L!Oldest
    BY <1>2
  <2>2. \A i \in 0..L!Oldest : backup'[i] \subseteq 1..written'
    BY <1>2, <1>3 DEF L!TypeOK, L!FilesInv
  <2> QED BY <1>2, <1>4, <2>1, <2>2 DEF L!FilesInv
<1>6. backup'[0] = {} \/ log' = {} \/ crashed'
  BY DEF L!Gzip, L!TypeOK
<1>7. L!InOrder'
  <2>0. \A i \in 0..L!Oldest : i > 0 => backup'[i] = backup[i]
    BY <1>3 DEF L!TypeOK
  <2>1. ~crashed' => ~crashed
    BY <1>4
  <2>2. ~crashed' => \A i \in 0..L!Oldest : \A m \in backup'[i] : \A n \in log' : m < n
    BY <1>3, <1>4, <1>6, <2>1 DEF L!TypeOK, L!InOrder
  <2>3. ~crashed' =>
          \A i, j \in 0..L!Oldest : i < j => \A m \in backup'[i], n \in backup'[j] : n < m
    <3>1. ~crashed => \A m \in backup'[0] : \A j \in 0..L!Oldest : \A n \in backup[j] : n < m
      BY <1>3 DEF L!TypeOK, L!InOrder
    <3> QED BY <3>1, <2>0, <2>1 DEF L!InOrder
  <2>4. ASSUME log' # {}, NEW i \in 0..L!Oldest, NEW m \in backup'[i]
        PROVE  \E n \in log' : m <= n
    <3>1. log' = log
      BY <1>4, <2>4
    <3>2. CASE i = 0
      <4>1. m \in log
        BY <1>3, <2>4, <3>2
      <4>2. m \in Nat
        BY <4>1 DEF L!TypeOK
      <4>3. m <= m
        BY <4>2
      <4> QED BY <3>1, <4>1, <4>3
    <3>3. CASE i # 0
      BY <2>0, <2>4, <3>1, <3>3 DEF L!InOrder
    <3> QED BY <3>2, <3>3
  <2>5. ASSUME NEW i \in 0..L!Oldest, NEW j \in 0..L!Oldest, i < j, backup'[i] # {},
               NEW n \in backup'[j]
        PROVE  \E m \in backup'[i] : n <= m
    <3>1. backup'[j] = backup[j]
      BY <2>0, <2>5
    <3>2. CASE i = 0
      BY <1>3, <2>5, <3>1, <3>2 DEF L!InOrder
    <3>3. CASE i # 0
      BY <2>0, <2>5, <3>1, <3>3 DEF L!InOrder
    <3> QED BY <3>2, <3>3
  <2> QED BY <2>2, <2>3, <2>4, <2>5 DEF L!InOrder
<1> QED BY <1>1, <1>5, <1>7

LEMMA LogExit == ASSUME L!Inv, L!Exit PROVE L!Inv'
BY LogAssumption
   DEF L!Exit, L!Inv, L!TypeOK, L!InOrder, L!FilesInv, L!Down, L!Idle, L!Rotating, L!Oldest

LEMMA LogNext == L!Inv /\ [L!Next]_(L!vars) => L!Inv'
<1> SUFFICES ASSUME L!Inv, [L!Next]_(L!vars) PROVE L!Inv'
  OBVIOUS
<1>1. CASE UNCHANGED L!vars
  BY <1>1 DEF L!vars, L!Inv, L!TypeOK, L!InOrder, L!FilesInv
<1> QED
  BY <1>1, LogLogToFile, LogFlush, LogRemoveOldest, LogRename, LogGzip, LogExit DEF L!Next

LEMMA LogLines ==
    ASSUME L!Inv, [L!Next]_(L!vars)
    PROVE  L!Lines \ L!Lines' \subseteq IF pc = MaxBackupFiles THEN backup[L!Oldest] ELSE {}
<1> USE LogAssumption DEF L!Inv, L!TypeOK, L!Down, L!Idle, L!Rotating, L!Oldest
<1> SUFFICES ASSUME NEW m \in L!Lines, m \notin L!Lines'
             PROVE  pc = MaxBackupFiles /\ m \in backup[L!Oldest]
  OBVIOUS
<1>1. m \in log \/ \E i \in 0..L!Oldest : m \in backup[i]
  BY DEF L!Lines
<1>2. m \notin log' /\ \A i \in 0..L!Oldest : m \notin backup'[i]
  BY DEF L!Lines
<1>3. CASE L!LogToFile \/ L!Exit \/ L!Flush \/ UNCHANGED L!vars
  BY <1>1, <1>2, <1>3 DEF L!LogToFile, L!Exit, L!Flush, L!vars
<1>4. CASE L!RemoveOldest
  BY <1>1, <1>2, <1>4 DEF L!RemoveOldest
<1>5. CASE L!Rename
  BY <1>1, <1>2, <1>5, LogRenamed
<1>6. CASE L!Gzip
  BY <1>1, <1>2, <1>6 DEF L!Gzip, L!FilesInv
<1> QED BY <1>3, <1>4, <1>5, <1>6 DEF L!Next

(* Rotation loses no lines but those of the oldest backup, whatever fails  *)
(* and wherever the process ends (rotate and gzip of logger.go).           *)
THEOREM LogLosesOldest == L!Spec => OnlyOldestLost
<1>1. L!Inv /\ [L!Next]_(L!vars)
        => [L!Lines \ L!Lines' \subseteq IF pc = MaxBackupFiles THEN backup[L!Oldest] ELSE {}]_(L!vars)
  BY LogLines
<1> QED BY LogInit, LogNext, <1>1, PTL DEF L!Spec, OnlyOldestLost, L!OnlyOldestLost

-----------------------------------------------------------------------------
(***************************************************************************)
(* The list of sites and the router (Sites).                               *)
(***************************************************************************)
LEMMA NatMin == ASSUME NEW U \in SUBSET Nat, U # {} PROVE \E x \in U : \A y \in U : x <= y
<1>1. IsWellFoundedOn(OpToRel(<, Nat), Nat)
  BY NatLessThanWellFounded
<1>2. PICK x \in U : \A y \in U : ~ (<<y, x>> \in OpToRel(<, Nat))
  BY <1>1, WFMin, Zenon
<1>3. \A y \in U : ~ (y < x)
  BY <1>2, Zenon DEF OpToRel
<1> QED BY <1>3

(* Position finds the first site of the name.                              *)
LEMMA PositionIsFirst ==
    ASSUME NEW list \in Seq(S!SiteParams), NEW host
    PROVE  LET pos == S!Position(list, host)
           IN  \/ pos = 0 /\ \A i \in 1..Len(list) : list[i].host # host
               \/ /\ pos \in 1..Len(list) /\ list[pos].host = host
                  /\ \A i \in 1..pos - 1 : list[i].host # host
<1> DEFINE I == {i \in 1..Len(list) : list[i].host = host}
<1> DEFINE first == CHOOSE x \in I : \A y \in I : x <= y
<1>1. S!Position(list, host) = IF I # {} THEN first ELSE 0
  BY DEF S!Position, S!SelectInSeq, S!Min
<1>2. CASE I = {}
  BY <1>1, <1>2
<1>3. CASE I # {}
  <2>1. I \in SUBSET Nat
    OBVIOUS
  <2> HIDE DEF I
  <2>2. \E x \in I : \A y \in I : x <= y
    BY <1>3, <2>1, NatMin
  <2>3. first \in I /\ \A y \in I : first <= y
    BY <2>2
  <2> HIDE DEF first
  <2>4. S!Position(list, host) = first
    BY <1>1, <1>3
  <2>5. first \in 1..Len(list) /\ list[first].host = host
    BY <2>3 DEF I
  <2>6. ASSUME NEW i \in 1..first - 1 PROVE list[i].host # host
    BY <2>3, <2>5 DEF I
  <2> QED BY <2>4, <2>5, <2>6
<1> QED BY <1>2, <1>3

LEMMA SitesInit == S!Init => S!Inv
<1> SUFFICES ASSUME S!Init PROVE S!Inv
  OBVIOUS
<1>1. S!TypeOK
  BY DEF S!Init, S!TypeOK, S!Walks, S!NoWalk
<1>2. \A w \in Walkers : walk[w].pc = "idle"
  BY DEF S!Init, S!NoWalk
<1> QED BY <1>1, <1>2 DEF S!Inv, S!HeapInv, S!WalkInv, S!AnswerInv, S!Answered

(* What a walk does depends on its own variables only.                     *)
LEMMA SitesWalkUnchanged ==
    ASSUME S!Inv, UNCHANGED walk PROVE S!WalkInv' /\ S!AnswerInv'
BY Zenon DEF S!Inv, S!WalkInv, S!AnswerInv, S!Answered

(* A new array at the end of the heap disturbs no walk.                    *)
LEMMA SitesAppend ==
    ASSUME S!Inv, NEW list \in Seq(S!SiteParams), heap' = Append(heap, list), UNCHANGED walk
    PROVE  S!Inv'
<1>1. S!TypeOK'
  <2>1. heap' \in Seq(Seq(S!SiteParams)) /\ heap' # <<>>
    BY DEF S!Inv, S!TypeOK, S!Walks
  <2> QED BY <2>1 DEF S!Inv, S!TypeOK, S!Walks
<1>2. Len(heap') = Len(heap) + 1 /\ \A i \in 1..Len(heap) : heap'[i] = heap[i]
  BY DEF S!Inv, S!TypeOK, S!Walks
<1>3. S!HeapInv'
  <2>1. Len(heap) \in Nat
    BY DEF S!Inv, S!TypeOK, S!Walks
  <2> QED BY <1>2, <2>1 DEF S!Inv, S!HeapInv
<1> QED BY <1>1, <1>3, SitesWalkUnchanged DEF S!Inv

LEMMA SitesCurrent == ASSUME S!Inv PROVE S!sites = heap[Len(heap)] /\ S!sites \in Seq(S!SiteParams)
BY DEF S!Inv, S!TypeOK, S!Walks, S!SiteParams, S!sites, S!Last

LEMMA SitesSetSite ==
    ASSUME S!Inv, NEW host, NEW site \in S!SiteParams, S!SetSite(host, site)
    PROVE  S!Inv'
<1>1. PICK list \in Seq(S!SiteParams) : list = S!sites
  BY SitesCurrent, Zenon
<1>2. PICK pos : pos = S!Position(list, host)
  BY Zenon
<1>3. pos = 0 \/ pos \in 1..Len(list)
  BY <1>2, PositionIsFirst, Zenon
<1>4. S!WithSite(list, host, site) = IF pos = 0 THEN Append(list, site) ELSE [list EXCEPT ![pos] = site]
  BY <1>2, Zenon DEF S!WithSite, S!ReplaceAt
<1>5. PICK new : new = S!WithSite(list, host, site)
  BY Zenon
<1>6. new \in Seq(S!SiteParams)
  <2>1. new = IF pos = 0 THEN Append(list, site) ELSE [list EXCEPT ![pos] = site]
    BY <1>4, <1>5, Zenon
  <2> QED BY <2>1, <1>3
<1>7. heap' = Append(heap, new) /\ UNCHANGED walk
  BY <1>1, <1>5, Zenon DEF S!SetSite
<1> QED BY <1>6, <1>7, SitesAppend

LEMMA SitesDelSite == ASSUME S!Inv, NEW host, S!DelSite(host) PROVE S!Inv'
<1>1. PICK list \in Seq(S!SiteParams) : list = S!sites
  BY SitesCurrent, Zenon
<1>2. PICK pos : pos = S!Position(list, host)
  BY Zenon
<1>3. pos \in 1..Len(list)
  BY <1>1, <1>2, PositionIsFirst, Zenon DEF S!DelSite
<1>4. heap' = Append(heap, SubSeq(list, 1, pos - 1) \o SubSeq(list, pos + 1, Len(list)))
      /\ UNCHANGED walk
  BY <1>1, <1>2, Zenon DEF S!DelSite, S!RemoveAt
<1>5. SubSeq(list, 1, pos - 1) \o SubSeq(list, pos + 1, Len(list)) \in Seq(S!SiteParams)
  BY <1>3
<1> QED BY <1>4, <1>5, SitesAppend

LEMMA SitesGetSites ==
    ASSUME S!Inv, NEW w \in Walkers, NEW host \in Hosts, S!GetSites(w, host)
    PROVE  S!Inv'
<1>1. PICK list \in Seq(S!SiteParams) : list = S!sites /\ list = heap[Len(heap)]
  BY SitesCurrent, Zenon
<1> DEFINE r == [pc |-> "walk", host |-> host, arr |-> Len(heap), i |-> 1, site |-> <<>>,
                 found |-> FALSE, answer |-> "none", seen |-> list]
<1>2. walk' = [walk EXCEPT ![w] = r] /\ UNCHANGED heap
  BY <1>1, Zenon DEF S!GetSites
<1>3. walk'[w] = r /\ \A v \in Walkers \ {w} : walk'[v] = walk[v]
  BY <1>2 DEF S!Inv, S!TypeOK, S!Walks
<1>4. Len(heap) \in 1..Len(heap)
  BY DEF S!Inv, S!TypeOK, S!Walks
<1>5. S!TypeOK'
  BY <1>2 DEF S!Inv, S!TypeOK, S!Walks
<1>6. S!HeapInv'
  BY <1>1, <1>2, <1>3, <1>4 DEF S!Inv, S!HeapInv
<1>7. S!WalkInv'
  <2>1. r.i \in 1..Len(r.seen) + 1 /\ ~r.found /\ \A j \in 1..r.i - 1 : FALSE
    OBVIOUS
  <2>2. S!Searched(r)
    BY <2>1, Zenon DEF S!Searched
  <2> HIDE DEF r
  <2> QED BY <1>3, <2>2, Zenon DEF S!Inv, S!WalkInv
<1>8. S!AnswerInv'
  BY <1>3 DEF S!Inv, S!AnswerInv, S!Answered
<1> QED BY <1>5, <1>6, <1>7, <1>8 DEF S!Inv

(* One round of the loop visits the site r.i, and ends if it is the host.  *)
LEMMA SitesVisit == ASSUME S!Inv, NEW w \in Walkers, S!Visit(w) PROVE S!Inv'
<1> DEFINE r == walk[w]
           q == walk'[w]
           n == Len(r.seen)
           E == {j \in 1..n : S!Exact(r.seen[j], r.host)}
           B == {j \in 1..n : S!Below(r.seen[j], r.host)}
<1>1. /\ r.arr \in Nat /\ r.i \in Nat /\ n \in Nat /\ r.pc = "walk" /\ r.i <= n
      /\ r.seen \in Seq(S!SiteParams) /\ heap[r.arr] = r.seen
  BY DEF S!Inv, S!TypeOK, S!Walks, S!HeapInv, S!Visit
<1>2. S!Searched(r)
  BY <1>1, Zenon DEF S!Inv, S!WalkInv
<1>3. /\ r.i \in 1..n
      /\ \A j \in 1..r.i - 1 : j \notin E
      /\ r.found <=> \E j \in 1..r.i - 1 : j \in B
  <2>1. r.i # n + 1
    BY <1>1
  <2>2. /\ r.i \in 1..n + 1
        /\ \A j \in 1..r.i - 1 : ~S!Exact(r.seen[j], r.host)
        /\ r.found <=> \E j \in 1..r.i - 1 : S!Below(r.seen[j], r.host)
    BY <1>2, <2>1, Zenon DEF S!Searched
  <2>3. \A j \in 1..r.i - 1 : j \in 1..n
    BY <1>1
  <2> QED BY <2>1, <2>2, <2>3
<1>4. PICK x, ex, be : /\ x = heap[r.arr][r.i]
                      /\ ex = S!Exact(heap[r.arr][r.i], r.host)
                      /\ be = S!Below(heap[r.arr][r.i], r.host)
  BY Zenon
<1>5. /\ x = r.seen[r.i] /\ x \in S!SiteParams
      /\ ex \in BOOLEAN /\ be \in BOOLEAN /\ (ex <=> r.i \in E) /\ (be <=> r.i \in B)
  <2>1. ex = S!Exact(r.seen[r.i], r.host) /\ be = S!Below(r.seen[r.i], r.host)
    BY <1>1, <1>4, Zenon
  <2>2. x = r.seen[r.i] /\ x \in S!SiteParams
    BY <1>1, <1>3, <1>4
  <2> QED BY <1>3, <2>1, <2>2, Zenon DEF S!Exact, S!Below
<1>6. PICK y \in BOOLEAN, m \in Nat : /\ y = (r.found \/ ex \/ be)
                                     /\ m = IF ex THEN n + 1 ELSE r.i + 1
  <2>1. (r.found \/ ex \/ be) \in BOOLEAN
    BY Zenon
  <2>2. (IF ex THEN n + 1 ELSE r.i + 1) \in Nat
    BY <1>1
  <2> QED BY <2>1, <2>2, Zenon
<1> DEFINE next == [r EXCEPT !.site = x, !.found = y, !.i = m]
<1>7. walk' = [walk EXCEPT ![w] = next] /\ UNCHANGED heap
  BY <1>4, <1>6, Zenon DEF S!Visit
<1>8. r \in S!Walks
  BY DEF S!Inv, S!TypeOK
<1> HIDE DEF E, B
<1>9. /\ q.pc = r.pc /\ q.host = r.host /\ q.arr = r.arr /\ q.seen = r.seen /\ q.answer = r.answer
      /\ q.site = x
      /\ q.found <=> r.found \/ ex \/ be
      /\ q.i = IF ex THEN n + 1 ELSE r.i + 1
      /\ \A v \in Walkers \ {w} : walk'[v] = walk[v]
  BY <1>6, <1>7, <1>8 DEF S!Inv, S!TypeOK, S!Walks
<1>10. S!TypeOK'
  <2>1. next \in S!Walks
    BY <1>5, <1>6, <1>8 DEF S!Walks
  <2> HIDE DEF next
  <2> QED BY <1>7, <2>1 DEF S!Inv, S!TypeOK
<1>11. S!HeapInv'
  <2>1. q.arr \in 1..Len(heap) /\ q.seen = heap[q.arr]
    BY <1>1, <1>9 DEF S!Inv, S!HeapInv
  <2>2. \A v \in Walkers \ {w} : walk'[v].pc # "idle" =>
            walk'[v].arr \in 1..Len(heap) /\ walk'[v].seen = heap[walk'[v].arr]
    BY <1>9, Zenon DEF S!Inv, S!HeapInv
  <2> QED BY <1>7, <2>1, <2>2, Zenon DEF S!HeapInv
<1>12. S!Searched(q)
  <2>1. CASE r.i \in E
    <3>1. q.i = n + 1 /\ q.found /\ q.site = r.seen[r.i]
      BY <1>5, <1>9, <2>1
    <3>2. S!Exact(q.site, q.host) /\ \A j \in 1..r.i - 1 : ~S!Exact(q.seen[j], q.host)
      <4>1. \A j \in 1..r.i - 1 : j \in 1..n
        BY <1>1
      <4> QED BY <1>3, <1>9, <2>1, <3>1, <4>1, Zenon DEF E
    <3> QED BY <1>3, <1>9, <3>1, <3>2, Zenon DEF S!Searched
  <2>2. CASE r.i \notin E
    <3>1. q.i = r.i + 1 /\ q.i \in 1..n + 1 /\ q.i - 1 = r.i
      BY <1>1, <1>5, <1>9, <2>2
    <3>2. /\ \A j \in 1..r.i : j \notin E
          /\ q.found <=> \E j \in 1..r.i : j \in B
      BY <1>1, <1>3, <1>5, <1>9, <2>2
    <3>3. \A j \in 1..r.i : j \in 1..n
      BY <1>1
    <3> QED BY <1>9, <3>1, <3>2, <3>3, Zenon DEF S!Searched, E, B
  <2> QED BY <2>1, <2>2
<1>13. S!WalkInv'
  BY <1>9, <1>12, Zenon DEF S!Inv, S!WalkInv
<1>14. S!AnswerInv'
  <2>1. r.pc # "done"
    BY <1>1
  <2> QED BY <1>9, <2>1, Zenon DEF S!Inv, S!AnswerInv, S!Answered
<1> QED BY <1>10, <1>11, <1>13, <1>14 DEF S!Inv

LEMMA SitesAnswer == ASSUME S!Inv, NEW w \in Walkers, S!Answer(w) PROVE S!Inv'
<1> DEFINE r == walk[w]
           q == walk'[w]
<1>1. PICK a : a = CASE ~r.found -> "bypass"
                     [] r.found /\ r.site.block -> "block"
                     [] r.found /\ ~r.site.block -> "forward"
  OBVIOUS
<1>2. /\ a = IF ~r.found THEN "bypass" ELSE IF r.site.block THEN "block" ELSE "forward"
      /\ a \in {"none", "bypass", "block", "forward"}
  BY <1>1
<1> DEFINE next == [r EXCEPT !.pc = "done", !.answer = a]
<1>3. /\ walk' = [walk EXCEPT ![w] = next] /\ UNCHANGED heap
      /\ r.pc = "walk" /\ r.i > Len(r.seen)
  BY <1>1, Zenon DEF S!Answer
<1>4. r \in S!Walks
  BY DEF S!Inv, S!TypeOK
<1>5. next \in S!Walks
  BY <1>2, <1>4 DEF S!Walks
<1>6. /\ q.pc = "done" /\ q.host = r.host /\ q.arr = r.arr /\ q.seen = r.seen /\ q.answer = a
      /\ q.site = r.site /\ q.found = r.found /\ q.i = r.i
      /\ \A v \in Walkers \ {w} : walk'[v] = walk[v]
  BY <1>3 DEF S!Inv, S!TypeOK, S!Walks
<1>7. S!TypeOK'
  <2> HIDE DEF next
  <2> QED BY <1>3, <1>5 DEF S!Inv, S!TypeOK
<1>8. S!HeapInv'
  <2>1. q.arr \in 1..Len(heap) /\ q.seen = heap[q.arr]
    BY <1>3, <1>6 DEF S!Inv, S!HeapInv
  <2>2. \A v \in Walkers \ {w} : walk'[v].pc # "idle" =>
            walk'[v].arr \in 1..Len(heap) /\ walk'[v].seen = heap[walk'[v].arr]
    BY <1>6, Zenon DEF S!Inv, S!HeapInv
  <2> QED BY <1>3, <2>1, <2>2, Zenon DEF S!HeapInv
<1>9. S!WalkInv'
  <2>1. r.pc # "idle"
    BY <1>3
  <2>2. S!Searched(r)
    BY <2>1, Zenon DEF S!Inv, S!WalkInv
  <2>3. S!Searched(q)
    BY <1>6, <2>2, Zenon DEF S!Searched
  <2> QED BY <1>6, <2>3, Zenon DEF S!Inv, S!WalkInv
<1>10. S!AnswerInv'
  <2>1. /\ q.i > Len(q.seen)
        /\ q.answer = IF ~q.found THEN "bypass" ELSE IF q.site.block THEN "block" ELSE "forward"
    BY <1>2, <1>3, <1>6
  <2> QED BY <1>6, <2>1, Zenon DEF S!Inv, S!AnswerInv, S!Answered
<1> QED BY <1>7, <1>8, <1>9, <1>10 DEF S!Inv

LEMMA SitesNext == S!Inv /\ [S!Next]_(S!vars) => S!Inv'
<1> SUFFICES ASSUME S!Inv, [S!Next]_(S!vars) PROVE S!Inv'
  OBVIOUS
<1>1. CASE UNCHANGED S!vars
  <2>1. UNCHANGED heap /\ UNCHANGED walk
    BY <1>1 DEF S!vars
  <2> QED
    BY <2>1, SitesWalkUnchanged, Zenon DEF S!Inv, S!TypeOK, S!HeapInv
<1>2. CASE S!handleSites
  BY <1>2, SitesSetSite, SitesDelSite, Zenon DEF S!handleSites
<1>3. ASSUME NEW w \in Walkers,
             (\E host \in Hosts : S!GetSites(w, host)) \/ S!Visit(w) \/ S!Answer(w)
      PROVE  S!Inv'
  BY <1>3, SitesGetSites, SitesVisit, SitesAnswer, Zenon
<1> QED BY <1>1, <1>2, <1>3, Zenon DEF S!Next

(* A walk that has ended has visited the first site of the name, or all.   *)
LEMMA SitesAnswered ==
    ASSUME S!Inv, NEW w \in S!Answered
    PROVE  LET r == walk[w]
               pos == S!Position(r.seen, r.host)
           IN  /\ r.answer = "bypass" <=> S!Matching(w) = {}
               /\ pos # 0 => r.answer = IF r.seen[pos].block THEN "block" ELSE "forward"
<1> DEFINE r == walk[w]
           n == Len(r.seen)
<1>1. /\ w \in Walkers /\ r.pc # "idle" /\ r.seen \in Seq(S!SiteParams) /\ r.i > n
      /\ r.answer = IF ~r.found THEN "bypass" ELSE IF r.site.block THEN "block" ELSE "forward"
      /\ r.i \in Nat /\ n \in Nat
  BY DEF S!Inv, S!TypeOK, S!Walks, S!AnswerInv, S!Answered
<1>2. S!Searched(r)
  BY <1>1, Zenon DEF S!Inv, S!WalkInv
<1>3. S!Matching(w) = {} <=> \A j \in 1..n : ~S!Exact(r.seen[j], r.host) /\ ~S!Below(r.seen[j], r.host)
  <2>1. DOMAIN r.seen = 1..n
    BY <1>1
  <2> QED BY <2>1, Zenon DEF S!Matching, S!ToSet
<1>4. PICK pos : pos = S!Position(r.seen, r.host)
  BY Zenon
<1>5. \/ pos = 0 /\ \A i \in 1..n : r.seen[i].host # r.host
      \/ /\ pos \in 1..n /\ r.seen[pos].host = r.host
         /\ \A i \in 1..pos - 1 : r.seen[i].host # r.host
  BY <1>1, <1>4, PositionIsFirst, Zenon
<1>6. CASE /\ r.i \in 1..n + 1
           /\ \A j \in 1..r.i - 1 : ~S!Exact(r.seen[j], r.host)
           /\ r.found <=> \E j \in 1..r.i - 1 : S!Below(r.seen[j], r.host)
  <2>1. r.i - 1 = n
    <3>1. r.i \in 1..n + 1
      BY <1>6, Zenon
    <3> QED BY <1>1, <3>1
  <2>2. r.found <=> S!Matching(w) # {}
    BY <1>3, <1>6, <2>1, Zenon
  <2>3. pos = 0
    BY <1>5, <1>6, <2>1, Zenon DEF S!Exact
  <2>4. r.answer = "bypass" <=> ~r.found
    BY <1>1
  <2> QED BY <1>4, <2>2, <2>3, <2>4, Zenon
<1>7. CASE /\ r.i = n + 1 /\ r.found
           /\ \E k \in 1..n : /\ r.site = r.seen[k] /\ S!Exact(r.site, r.host)
                            /\ \A j \in 1..k - 1 : ~S!Exact(r.seen[j], r.host)
  <2>1. PICK k \in 1..n : /\ r.site = r.seen[k] /\ r.seen[k].host = r.host
                          /\ \A j \in 1..k - 1 : r.seen[j].host # r.host
    BY <1>7, Zenon DEF S!Exact
  <2>2. S!Matching(w) # {}
    BY <1>3, <2>1, Zenon DEF S!Exact
  <2>3. pos = k
    BY <1>1, <1>5, <2>1
  <2>4. r.answer = IF r.seen[pos].block THEN "block" ELSE "forward"
    BY <1>1, <1>7, <2>1, <2>3
  <2>5. r.answer # "bypass"
    BY <2>4
  <2> QED BY <1>4, <2>2, <2>4, <2>5, Zenon
<1> QED BY <1>2, <1>6, <1>7, Zenon DEF S!Searched

(* The router answers for the list of sites that was current when it       *)
(* started, whatever requests change meanwhile (router.go, env.go).        *)
THEOREM RouterAnswersList == S!Spec => []RouteMatches
<1>1. S!Inv => RouteMatches
  BY SitesAnswered, Zenon DEF RouteMatches, S!RouteMatches
<1> QED BY SitesInit, SitesNext, <1>1, PTL DEF S!Spec

-----------------------------------------------------------------------------
(***************************************************************************)
(* All parts together.                                                     *)
(***************************************************************************)
(* Each part keeps its own invariant, and leaves those of the others       *)
(* alone (state.go, env.go, router.go, keyset.go, logger.go).              *)
THEOREM EnvHolds == MCSpec => []EnvInv
<1>1. MCInit => EnvInv
  BY InvInit, SitesInit, KeysInit, LogInit DEF MCInit, EnvInv
<1>2. EnvInv /\ [MCNext]_MCVars => EnvInv'
  <2> SUFFICES ASSUME EnvInv, [MCNext]_MCVars PROVE EnvInv'
    OBVIOUS
  <2>1. \/ Next \/ UNCHANGED vars
    BY DEF MCNext, MCVars
  <2>2. \/ S!Next \/ UNCHANGED S!vars
    BY DEF MCNext, MCVars, sitesVars, S!vars
  <2>3. \/ K!Next \/ UNCHANGED K!vars
    BY DEF MCNext, MCVars, keysVars, K!vars
  <2>4. \/ L!Next \/ UNCHANGED L!vars
    BY DEF MCNext, MCVars, logVars, L!vars
  <2> QED BY <2>1, <2>2, <2>3, <2>4, InvNext, SitesNext, KeysNext, LogNext DEF EnvInv
<1> QED BY <1>1, <1>2, PTL DEF MCSpec
=============================================================================
