---------------------------- MODULE MCInstance ----------------------------
(***************************************************************************)
(* The life of an instance, from the command that starts it to its end,    *)
(* the locks by which instances exclude each other, and the requests that  *)
(* an instance serves.  The three have no variable in common: a behaviour  *)
(* of this module is a behaviour of one of them, the others stay in their  *)
(* initial state.                                                          *)
(***************************************************************************)
EXTENDS EnvLock, Naturals, FiniteSets

CONSTANTS
    Adms, MaxTries,    (* Adm      *)
    Conns, MaxRequests (* Requests *)

ASSUME AdmAssumption ==
    MaxTries \in Nat /\ \A a \in Adms : NoOne \notin {<<"adm", a>>, <<"froxy", a>>}
ASSUME ConnAssumption == IsFiniteSet(Conns)

VARIABLES
    part,
    apc, cmd, isRunning, asked, tries, result, ipc, output, runLock, files, (* Adm *)
    rpc, kind, parts, skipBody, gone, closed, dest, copying, Counters  (* Requests *)

A == INSTANCE Adm
R == INSTANCE Requests WITH pc <- rpc

(* A goroutine is a process and a number; one process has three.           *)
MCOf(g) == g[1]
MCGoroutines ==
    LET p == CHOOSE p \in Procs : TRUE
    IN  {<<p, 1>>, <<p, 2>>, <<p, 3>>} \cup {<<q, 1>> : q \in Procs}

admVars == <<apc, cmd, isRunning, asked, tries, result, ipc, output, runLock, files>>
rqVars  == <<rpc, kind, parts, skipBody, gone, closed, dest, copying, Counters>>
MCVars  == <<part, vars, admVars, rqVars>>

MCInit ==
    /\ part \in {"lock", "adm", "requests"}
    /\ Init /\ lock = [g \in Goroutines |-> CHOOSE l \in Locks : TRUE]
    /\ A!Init /\ (part # "adm" => files)
    /\ R!Init

MCNext ==
    /\ UNCHANGED part
    /\ \/ part = "lock" /\ Next /\ UNCHANGED <<admVars, rqVars>>
       \/ part = "adm" /\ A!Next /\ UNCHANGED <<vars, rqVars>>
       \/ part = "requests" /\ R!Next /\ UNCHANGED <<vars, admVars>>

MCSpec == MCInit /\ [][MCNext]_MCVars /\ A!Fairness /\ R!Fairness

-----------------------------------------------------------------------------
(* The inductive invariants of the parts: the holder of a lock has the     *)
(* file lock (Inv of EnvLock); an instance has the run lock as long as it  *)
(* runs (Inv of Adm); requests and connections are counted exactly, and a  *)
(* request gets one body in answer (Inv of Requests: listener.go:96-103,   *)
(* froxy.go:187, 419-420).                                                 *)
InstanceInv == Inv /\ A!Inv /\ R!Inv

(* A command that believes no instance runs is right and has the run lock  *)
(* (adm.go:252-257), but for the undo of a failed Run, which has given the *)
(* lock back: see RemovesAlone of Adm.                                     *)
NotRunningMeansLocked == A!NotRunningMeansLocked

(* What Run reports of the instance it has started is true (adm.go:145,    *)
(* 187-201).                                                               *)
RunReports == A!RunReports

(* A command that has reached an instance which listens to events ends     *)
(* (webapi.go:391-394).                                                    *)
KillReturns == A!KillReturns

(* A tunnel of which one side has ended is closed on both, by goroutines   *)
(* that each may stay blocked in Read (io.go:17-25).                       *)
TunnelEnds == R!TunnelEnds
=============================================================================
