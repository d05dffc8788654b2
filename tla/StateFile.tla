----------------------------- MODULE StateFile -----------------------------
(***************************************************************************)
(* The persistent state of Froxy (src/state.go, src/env.go): each instance *)
(* loads the state file when it starts, before it takes the run lock       *)
(* (src/main.go); the one that gets the lock saves the file after every    *)
(* change.  An instance may end at any moment, in the middle of Save too.  *)
(*                                                                         *)
(* Of the state a model keeps the port and the server parameters.  Savers  *)
(* are the instances, which may save the port they start on, and requests  *)
(* to the web API that change the parameters and then reconnect            *)
(* (SetServerParams of src/froxy.go).                                      *)
(***************************************************************************)
CONSTANTS
    Procs,     (* instances of the program                                 *)
    Requests,  (* requests that change the server parameters               *)
    Ports,     (* TCP ports                                                *)
    Params,    (* server parameters                                        *)
    NoParams,  (* the empty parameters                                     *)
    NoPort,    (* no port is recorded                                      *)
    Torn,      (* content of a file that was truncated and not rewritten   *)
    NoOne

ASSUME SaverAssumption == Procs \cap Requests = {} /\ NoOne \notin Procs \cup Requests
ASSUME TornAssumption == Torn \notin [port : Ports \cup {NoPort}, server : Params \cup {NoParams}]

VARIABLES
    file,      (* content of the state file                                *)
    writer,    (* the saver that holds the exclusive lock on the file      *)
    readers,   (* instances that hold the shared lock                      *)
    ppc,       (* ppc[p]: what the instance is doing                       *)
    mem,       (* mem[p]: its copy of the state                            *)
    runLock,   (* the instance that holds the run lock                     *)
    stateLock, (* the saver that holds stateLock of that instance          *)
    spc,       (* spc[s]: where the saver is                               *)
    buf,       (* buf[s]: the state it saves, with the changes it makes    *)
    active,    (* parameters that the SSH transport works with             *)
    failed,    (* the last Save did not complete                           *)
    overlap,   (* requests that change the parameters have overlapped      *)
    missed     (* instances that do not know the content of the file       *)

lockVars == <<writer, readers>>
procVars == <<ppc, mem, runLock>>
saveVars == <<stateLock, spc, buf, active>>
history  == <<failed, overlap, missed>>
vars     == <<file, lockVars, procVars, saveVars, history>>

Savers   == Procs \cup Requests
State    == [port : Ports \cup {NoPort}, server : Params \cup {NoParams}]
NewState == [port |-> NoPort, server |-> NoParams]

(* The parameters are being saved, or the transport is yet to learn them. *)
Busy    == {s \in Savers : spc[s] \notin {"idle", "done"}}
Saving  == {s \in Savers : spc[s] \in {"save", "locked", "truncated"}}
Serving == {p \in Procs : ppc[p] = "serving"}

TypeOK ==
    /\ file \in State \cup {Torn}
    /\ writer \in Savers \cup {NoOne} /\ stateLock \in Savers \cup {NoOne}
    /\ readers \subseteq Procs /\ missed \subseteq Procs
    /\ ppc \in [Procs -> {"off", "load", "loaded", "starting", "serving", "exited"}]
    /\ mem \in [Procs -> State]
    /\ runLock \in Procs \cup {NoOne}
    /\ spc \in [Savers -> {"idle", "save", "locked", "truncated", "saved", "done"}]
    /\ buf \in [Savers -> State]
    /\ active \in Params \cup {NoParams}
    /\ failed \in BOOLEAN /\ overlap \in BOOLEAN

Init ==
    /\ file \in {NewState} \cup [port : Ports, server : Params]
    /\ writer = NoOne /\ readers = {}
    /\ ppc = [p \in Procs |-> "off"]
    /\ mem = [p \in Procs |-> NewState]
    /\ runLock = NoOne /\ stateLock = NoOne
    /\ spc = [s \in Savers |-> "idle"]
    /\ buf = [s \in Savers |-> NewState]
    /\ active = NoParams
    /\ failed = FALSE /\ overlap = FALSE /\ missed = {}

-----------------------------------------------------------------------------
(***************************************************************************)
(* Load and the start of an instance.                                      *)
(***************************************************************************)

(* The file is opened; the shared lock on it is awaited. *)
Open(p) ==
    /\ ppc[p] = "off"
    /\ ppc' = [ppc EXCEPT ![p] = "load"]
    /\ UNCHANGED <<file, lockVars, mem, runLock, saveVars, history>>

LockShared(p) ==
    /\ ppc[p] = "load" /\ p \notin readers
    /\ writer = NoOne
    /\ readers' = readers \cup {p}
    /\ UNCHANGED <<file, writer, ppc, mem, runLock, saveVars, history>>

(* The state stays reset if it cannot be read or is not whole. *)
Read(p) ==
    /\ ppc[p] = "load" /\ p \in readers
    /\ \/ /\ mem' = [mem EXCEPT ![p] = IF file = Torn THEN NewState ELSE file]
          /\ UNCHANGED missed
       \/ UNCHANGED mem /\ missed' = missed \cup {p}
    /\ readers' = readers \ {p}
    /\ ppc' = [ppc EXCEPT ![p] = "loaded"]
    /\ UNCHANGED <<file, writer, runLock, saveVars, failed, overlap>>

(* main: the run lock is tried, and without it the program ends. *)
TryRunLock(p) ==
    /\ ppc[p] = "loaded"
    /\ IF runLock = NoOne
       THEN runLock' = p /\ ppc' = [ppc EXCEPT ![p] = "starting"]
       ELSE ppc' = [ppc EXCEPT ![p] = "exited"] /\ UNCHANGED runLock
    /\ UNCHANGED <<file, lockVars, mem, saveVars, history>>

(* NewFroxy: the transport is configured from the state that was loaded,   *)
(* and a port other than the recorded one is recorded.                     *)
NewFroxy(p, port) ==
    /\ ppc[p] = "starting" /\ spc[p] = "idle"
    /\ active' = mem[p].server /\ overlap' = FALSE
    /\ IF port # mem[p].port
       THEN /\ mem' = [mem EXCEPT ![p].port = port]
            /\ buf' = [buf EXCEPT ![p] = mem'[p]]
            /\ stateLock' = p /\ spc' = [spc EXCEPT ![p] = "save"]
            /\ UNCHANGED ppc
       ELSE /\ ppc' = [ppc EXCEPT ![p] = "serving"]
            /\ UNCHANGED <<mem, buf, stateLock, spc>>
    /\ UNCHANGED <<file, lockVars, runLock, failed, missed>>

Started(p) ==
    /\ ppc[p] = "starting" /\ spc[p] = "saved"
    /\ ppc' = [ppc EXCEPT ![p] = "serving"]
    /\ spc' = [spc EXCEPT ![p] = "done"]
    /\ UNCHANGED <<file, lockVars, mem, runLock, stateLock, buf, active, history>>

(* The process ends: its locks are gone, and what it was doing is left     *)
(* undone.                                                                 *)
Exit(p) ==
    /\ ppc[p] \notin {"off", "exited"}
    /\ ppc' = [ppc EXCEPT ![p] = "exited"]
    /\ readers' = readers \ {p}
    /\ IF runLock = p
       THEN /\ runLock' = NoOne /\ stateLock' = NoOne /\ writer' = NoOne
            /\ spc' = [s \in Savers |-> IF spc[s] = "idle" THEN "idle" ELSE "done"]
            /\ failed' = (failed \/ Saving # {})
       ELSE UNCHANGED <<runLock, stateLock, writer, spc, failed>>
    /\ UNCHANGED <<file, mem, buf, active, overlap, missed>>

-----------------------------------------------------------------------------
(***************************************************************************)
(* SetServerParams, and Save under stateLock.                              *)
(***************************************************************************)

(* Fault: the lock is released before the state is saved. *)
SetUnlocked(r, v) ==
    /\ spc[r] = "idle"
    /\ \E p \in Serving :
          /\ mem' = [mem EXCEPT ![p].server = v]
          /\ buf' = [buf EXCEPT ![r] = mem'[p]]
    /\ spc' = [spc EXCEPT ![r] = "save"]
    /\ overlap' = (Busy # {})
    /\ UNCHANGED <<file, lockVars, ppc, runLock, stateLock, active, failed, missed>>

Set(r, v) ==
    /\ spc[r] = "idle" /\ stateLock = NoOne
    /\ \E p \in Serving :
          /\ mem' = [mem EXCEPT ![p].server = v]
          /\ buf' = [buf EXCEPT ![r] = mem'[p]]
    /\ stateLock' = r /\ spc' = [spc EXCEPT ![r] = "save"]
    /\ overlap' = (Busy # {})
    /\ UNCHANGED <<file, lockVars, ppc, runLock, active, failed, missed>>

(* Save cannot open or lock the file; its error is ignored. *)
OpenFails(s) ==
    /\ spc[s] = "save"
    /\ spc' = [spc EXCEPT ![s] = "saved"]
    /\ stateLock' = NoOne
    /\ failed' = TRUE
    /\ UNCHANGED <<file, lockVars, procVars, buf, active, overlap, missed>>

(* Fault: the file is truncated when it is opened, before it is locked. *)
OpenTruncates(s) ==
    /\ spc[s] = "save"
    /\ file' = Torn
    /\ IF writer = NoOne /\ readers = {}
       THEN writer' = s /\ spc' = [spc EXCEPT ![s] = "locked"]
       ELSE UNCHANGED <<writer, spc>>
    /\ UNCHANGED <<readers, procVars, stateLock, buf, active, history>>

LockExclusive(s) ==
    /\ spc[s] = "save"
    /\ writer = NoOne /\ readers = {}
    /\ writer' = s
    /\ spc' = [spc EXCEPT ![s] = "locked"]
    /\ UNCHANGED <<file, readers, procVars, stateLock, buf, active, history>>

Truncate(s) ==
    /\ spc[s] = "locked"
    /\ file' = Torn
    /\ spc' = [spc EXCEPT ![s] = "truncated"]
    /\ missed' = missed \cup {p \in Procs : ppc[p] = "loaded"}
    /\ UNCHANGED <<lockVars, procVars, stateLock, buf, active, failed, overlap>>

(* The end of Save: whole, or not if the file could not be truncated or    *)
(* written.                                                                *)
Write(s) ==
    /\ \/ /\ spc[s] = "truncated"
          /\ file' = buf[s] /\ failed' = FALSE
          /\ missed' = missed \ {runLock}
       \/ /\ spc[s] \in {"locked", "truncated"}
          /\ failed' = TRUE
          /\ UNCHANGED <<file, missed>>
    /\ writer' = NoOne /\ stateLock' = NoOne
    /\ spc' = [spc EXCEPT ![s] = "saved"]
    /\ UNCHANGED <<readers, procVars, buf, active, overlap>>

(* Fault: no reconnect if the parameters could not be saved. *)
ReconnectSaved(r) ==
    /\ spc[r] = "saved"
    /\ active' = IF failed THEN active ELSE buf[r].server
    /\ spc' = [spc EXCEPT ![r] = "done"]
    /\ UNCHANGED <<file, lockVars, procVars, stateLock, buf, history>>

Reconnect(r) ==
    /\ spc[r] = "saved"
    /\ active' = buf[r].server
    /\ spc' = [spc EXCEPT ![r] = "done"]
    /\ UNCHANGED <<file, lockVars, procVars, stateLock, buf, history>>

(* A request PUT: the parameters are set, and the transport reconnects. *)
handleServer ==
    \E r \in Requests : Reconnect(r) \/ \E v \in Params : Set(r, v)

Next ==
    \/ \E p \in Procs :
          \/ Open(p) \/ LockShared(p) \/ Read(p) \/ TryRunLock(p)
          \/ \E port \in Ports : NewFroxy(p, port)
          \/ Started(p) \/ Exit(p)
    \/ \E s \in Savers : OpenFails(s) \/ LockExclusive(s) \/ Truncate(s) \/ Write(s)
    \/ handleServer

Spec == Init /\ [][Next]_vars

-----------------------------------------------------------------------------
(***************************************************************************)
(* Properties.                                                             *)
(***************************************************************************)

(* An instance that starts while another one saves never reads a file that *)
(* is half written; it finds one only after a crash or a failed write      *)
(* (state.go takes the exclusive lock before it truncates).                *)
ReadersSeeWhole == readers # {} /\ file = Torn => failed

(* Whatever requests come together: when no state is being saved and the   *)
(* last Save has succeeded, the file is what the serving instance has in   *)
(* memory (env.go saves under stateLock); before it has saved anything,    *)
(* unless the last instance saved the file after this one had read it and  *)
(* before it had the run lock (main.go loads the state first).             *)
DiskFollowsMemory ==
    \A p \in Procs : runLock = p /\ Saving = {} /\ ~failed /\ p \notin missed
        => file = mem[p]

(* The SSH transport works with the parameters that are stored, also if    *)
(* they could not be saved, unless requests overlap: then the transport    *)
(* may keep those of one and the file those of the other (froxy.go:120).   *)
TransportFollows ==
    \A p \in Serving : Busy = {} /\ ~overlap => active = mem[p].server
-----------------------------------------------------------------------------
(***************************************************************************)
(* The inductive invariant.                                                *)
(***************************************************************************)

(* The locks exclude each other, and who holds one is where it needs it;   *)
(* only the instance that has the run lock saves, first its port and later *)
(* the parameters of requests.                                             *)
LockInv ==
    /\ \A s \in Savers : spc[s] \in {"locked", "truncated"} <=> writer = s
    /\ \A s \in Savers : s \in Saving <=> stateLock = s
    /\ readers # {} => writer = NoOne
    /\ \A p \in readers : ppc[p] = "load"
    /\ \A p \in Procs : ppc[p] \in {"starting", "serving"} <=> runLock = p
    /\ \A p \in Procs : p \in Busy => ppc[p] = "starting"
    /\ \A p \in Procs : ppc[p] \in {"off", "load", "loaded"} => spc[p] = "idle"
    /\ \A r \in Requests : r \in Busy => Serving # {}

(* What is being saved is the state in memory. *)
BufInv == \A s \in Saving : \A p \in Procs : runLock = p => buf[s] = mem[p]

(* A file that is not whole is being written, or was left so; an instance  *)
(* that has loaded the file knows it, until the file is written again.     *)
FileInv ==
    /\ file = Torn => failed \/ \E s \in Savers : spc[s] = "truncated"
    /\ \A p \in Procs : ppc[p] = "loaded" /\ p \notin missed =>
          /\ file = mem[p] \/ (file = Torn /\ failed)
          /\ \A s \in Savers : spc[s] # "truncated"

(* As long as requests do not overlap, the transport works with the        *)
(* parameters in memory, or is about to.                                   *)
ParamsInv ==
    \A p \in Procs :
        runLock = p /\ ~overlap /\ (ppc[p] = "serving" \/ spc[p] # "idle") =>
            /\ \A r \in Requests : r \in Busy => buf[r].server = mem[p].server
            /\ (\A r \in Requests : r \notin Busy) => active = mem[p].server

Inv == TypeOK /\ LockInv /\ BufInv /\ FileInv /\ DiskFollowsMemory /\ ParamsInv
=============================================================================
