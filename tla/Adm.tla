-------------------------------- MODULE Adm --------------------------------
(***************************************************************************)
(* Administration of Froxy (src/adm.go, src/main.go) and the life of the   *)
(* instance it starts and stops: install, uninstall, kill, run and open    *)
(* are processes that use the run lock to find out whether an instance is  *)
(* running, to start one and to wait for its end.                          *)
(*                                                                         *)
(* The process a may start one instance, named a as well; the run lock is  *)
(* held by <<"adm", a>> or <<"froxy", a>>.  A request to shut down reaches *)
(* an instance if it listens on the port that a has read from the state.   *)
(***************************************************************************)
EXTENDS Naturals

CONSTANTS
    Adms,     (* processes that execute a command                          *)
    MaxTries, (* number of attempts to get the run lock back, 20 in Kill   *)
    NoOne

VARIABLES
    apc,       (* apc[a]: where the command is                             *)
    cmd,       (* cmd[a]: the command                                      *)
    isRunning, (* isRunning[a]: FroxyIsRunning                             *)
    asked,     (* asked[a]: the instance whose connection Kill waits on    *)
    tries,     (* tries[a]: attempts to get the run lock                   *)
    result,    (* result[a]: how the command ended                         *)
    ipc,       (* ipc[a]: where the instance is                            *)
    output,    (* instances that have written to stderr before Detach      *)
    runLock,   (* who holds the run lock                                   *)
    files      (* the files of the installation exist                      *)

admVars  == <<apc, cmd, isRunning, asked, tries, result>>
instVars == <<ipc, output>>
vars     == <<admVars, instVars, runLock, files>>

Commands  == {"install", "uninstall", "kill", "run", "open"}
Finished  == {a \in Adms : apc[a] = "done"}
Listening == {a \in Adms : ipc[a] \in {"listen", "serve", "subscribed"}}
Adm(a)    == <<"adm", a>>
Froxy(a)  == <<"froxy", a>>

TypeOK ==
    /\ apc \in [Adms -> {"off", "start", "command", "kill", "wait", "closing", "retry", "write",
                         "run", "remove", "undo", "undoRun", "spawn", "output", "done"}]
    /\ cmd \in [Adms -> Commands \cup {"none"}]
    /\ isRunning \in [Adms -> BOOLEAN]
    /\ asked \in [Adms -> Adms \cup {NoOne}]
    /\ tries \in [Adms -> 0..MaxTries]
    /\ result \in [Adms -> {"none", "ok", "running", "cantkill", "error"}]
    /\ ipc \in [Adms -> {"none", "load", "new", "listen", "serve", "subscribed",
                         "exiting", "gone"}]
    /\ output \subseteq Adms
    /\ runLock \in {NoOne} \cup {Adm(a) : a \in Adms} \cup {Froxy(a) : a \in Adms}
    /\ files \in BOOLEAN

Init ==
    /\ apc = [a \in Adms |-> "off"]
    /\ cmd = [a \in Adms |-> "none"]
    /\ isRunning = [a \in Adms |-> FALSE]
    /\ asked = [a \in Adms |-> NoOne]
    /\ tries = [a \in Adms |-> 0]
    /\ result = [a \in Adms |-> "none"]
    /\ ipc = [a \in Adms |-> "none"]
    /\ output = {}
    /\ runLock = NoOne
    /\ files \in BOOLEAN

(* The process of the command ends, and with it its hold of the run lock.  *)
Finish(a, r) ==
    /\ apc' = [apc EXCEPT ![a] = "done"]
    /\ result' = [result EXCEPT ![a] = r]
    /\ runLock' = IF runLock = Adm(a) THEN NoOne ELSE runLock

Goto(a, pc) == apc' = [apc EXCEPT ![a] = pc]

-----------------------------------------------------------------------------
(***************************************************************************)
(* The commands.                                                           *)
(***************************************************************************)
FroxyAdm(a, c) ==
    /\ apc[a] = "off"
    /\ Goto(a, "start")
    /\ cmd' = [cmd EXCEPT ![a] = c]
    /\ UNCHANGED <<isRunning, asked, tries, result, instVars, runLock, files>>

(* NewAdm: the run lock is tried; an error other than that it is busy ends *)
(* the program.                                                            *)
NewAdm(a) ==
    /\ apc[a] = "start"
    /\ \/ /\ isRunning' = [isRunning EXCEPT ![a] = runLock # NoOne]
          /\ runLock' = IF runLock = NoOne THEN Adm(a) ELSE runLock
          /\ Goto(a, IF cmd[a] \in {"run", "open"} THEN "run" ELSE "kill")
          /\ UNCHANGED result
       \/ Finish(a, "error") /\ UNCHANGED isRunning
    /\ UNCHANGED <<cmd, asked, tries, instVars, files>>

(* Where Kill returns to. *)
Killed(a) ==
    CASE cmd[a] = "install" -> "write"
      [] cmd[a] = "uninstall" -> "remove"
      [] cmd[a] = "kill" -> "command"

(* Kill: the shutdown request is sent, unless no instance is running.      *)
Kill(a) ==
    /\ apc[a] = "kill"
    /\ \/ ~isRunning[a] /\ Goto(a, Killed(a)) /\ UNCHANGED asked
       \/ /\ isRunning[a]
          /\ \/ Goto(a, "retry") /\ UNCHANGED asked
             \/ \E i \in Listening :
                   /\ Goto(a, "wait")
                   /\ asked' = [asked EXCEPT ![a] = i]
    /\ UNCHANGED <<cmd, isRunning, tries, result, instVars, runLock, files>>

(* The connection is closed when the instance ends. *)
ConnectionClosed(a) ==
    /\ apc[a] \in {"wait", "closing"}
    /\ ipc[asked[a]] \in {"exiting", "gone"}
    /\ Goto(a, "retry")
    /\ UNCHANGED <<cmd, isRunning, asked, tries, result, instVars, runLock, files>>

(* Fault: the last attempt is not checked. *)
ReacquireUnchecked(a) ==
    /\ apc[a] = "retry"
    /\ \/ /\ runLock = NoOne \/ tries[a] = MaxTries
          /\ runLock' = IF runLock = NoOne THEN Adm(a) ELSE runLock
          /\ isRunning' = [isRunning EXCEPT ![a] = FALSE]
          /\ Goto(a, Killed(a)) /\ UNCHANGED tries
       \/ /\ runLock # NoOne /\ tries[a] < MaxTries
          /\ tries' = [tries EXCEPT ![a] = @ + 1]
          /\ UNCHANGED <<apc, isRunning, runLock>>
    /\ UNCHANGED <<cmd, asked, result, instVars, files>>

(* The run lock is tried again and again, up to MaxTries times; an error   *)
(* other than that it is busy ends the command.                            *)
Reacquire(a) ==
    /\ apc[a] = "retry"
    /\ \/ /\ runLock = NoOne
          /\ runLock' = Adm(a)
          /\ isRunning' = [isRunning EXCEPT ![a] = FALSE]
          /\ Goto(a, Killed(a))
          /\ UNCHANGED <<tries, result>>
       \/ /\ runLock # NoOne /\ tries[a] < MaxTries
          /\ tries' = [tries EXCEPT ![a] = @ + 1]
          /\ UNCHANGED <<apc, isRunning, result, runLock>>
       \/ /\ runLock # NoOne /\ tries[a] = MaxTries
          /\ Finish(a, "cantkill")
          /\ UNCHANGED <<tries, isRunning>>
       \/ Finish(a, "error") /\ UNCHANGED <<tries, isRunning>>
    /\ UNCHANGED <<cmd, asked, instVars, files>>

(* The command kill is complete. *)
KillDone(a) ==
    /\ apc[a] = "command"
    /\ Finish(a, "ok")
    /\ UNCHANGED <<cmd, isRunning, asked, tries, instVars, files>>

(* Install: the icon and the shortcuts are written; a failure of the icon  *)
(* ends the command, one of a shortcut is undone.  The instance is started *)
(* unless the flag says otherwise.                                         *)
Write(a) ==
    /\ apc[a] = "write"
    /\ \/ Finish(a, "error") /\ UNCHANGED files
       \/ /\ files' = TRUE
          /\ \/ Goto(a, "run") /\ UNCHANGED <<result, runLock>>
             \/ Goto(a, "undo") /\ UNCHANGED <<result, runLock>>
             \/ Finish(a, "ok")
    /\ UNCHANGED <<cmd, isRunning, asked, tries, instVars>>

(* Uninstall, by itself or to undo Install, before it has called Run or    *)
(* after Run has failed: the call of Kill when it undoes returns at once,  *)
(* as FroxyIsRunning is false, though Run has let go of the lock.          *)
Remove(a) ==
    /\ apc[a] \in {"remove", "undo", "undoRun"}
    /\ files' = FALSE
    /\ Finish(a, IF apc[a] = "remove" THEN "ok" ELSE "error")
    /\ UNCHANGED <<cmd, isRunning, asked, tries, instVars>>

(* How Run returns to Install, Open, or the command itself: Open shows the *)
(* page of an instance that is already running.                            *)
RunReturns(a, r) ==
    \/ cmd[a] = "install" /\ r # "ok" /\ Goto(a, "undoRun") /\ UNCHANGED <<result, runLock>>
    \/ cmd[a] = "open" /\ r = "running" /\ Finish(a, "ok")
    \/ cmd[a] = "install" /\ r = "ok" /\ Finish(a, r)
    \/ cmd[a] \in {"run", "open"} /\ ~(cmd[a] = "open" /\ r = "running") /\ Finish(a, r)

(* Run: the run lock is released. *)
Run(a) ==
    /\ apc[a] = "run"
    /\ IF isRunning[a] THEN RunReturns(a, "running")
       ELSE Goto(a, "spawn") /\ runLock' = NoOne /\ UNCHANGED result
    /\ UNCHANGED <<cmd, isRunning, asked, tries, instVars, files>>

(* The process of the instance is created, if that is possible. *)
StartProcess(a) ==
    /\ apc[a] = "spawn"
    /\ \/ Goto(a, "output") /\ ipc' = [ipc EXCEPT ![a] = "load"] /\ UNCHANGED <<result, runLock>>
       \/ RunReturns(a, "error") /\ UNCHANGED ipc
    /\ UNCHANGED <<cmd, isRunning, asked, tries, output, files>>

(* Fault: Run does not wait for the output. *)
ReadNoOutput(a) ==
    /\ apc[a] = "output"
    /\ RunReturns(a, IF a \in output THEN "error" ELSE "ok")
    /\ UNCHANGED <<cmd, isRunning, asked, tries, instVars, files>>

(* The output of the instance is read until it has closed it: it is killed *)
(* if there is any, a warning too.                                         *)
ReadOutput(a) ==
    /\ apc[a] = "output"
    /\ ipc[a] \notin {"load", "new", "listen"}
    /\ IF a \in output
       THEN /\ ipc' = [ipc EXCEPT ![a] = "gone"]
            /\ apc' = [apc EXCEPT ![a] = IF cmd[a] = "install" THEN "undoRun" ELSE "done"]
            /\ result' = [result EXCEPT ![a] = IF cmd[a] = "install" THEN @ ELSE "error"]
            /\ runLock' = IF runLock = Froxy(a) THEN NoOne ELSE runLock
       ELSE RunReturns(a, "ok") /\ UNCHANGED ipc
    /\ UNCHANGED <<cmd, isRunning, asked, tries, output, files>>

-----------------------------------------------------------------------------
(***************************************************************************)
(* The instance.                                                           *)
(***************************************************************************)

(* main: the run lock is tried; Fatal reports the error and exits. *)
Load(i) ==
    /\ ipc[i] = "load"
    /\ IF runLock = NoOne
       THEN /\ runLock' = Froxy(i)
            /\ ipc' = [ipc EXCEPT ![i] = "new"]
            /\ UNCHANGED output
       ELSE /\ ipc' = [ipc EXCEPT ![i] = "gone"]
            /\ output' = output \cup {i}
            /\ UNCHANGED runLock
    /\ UNCHANGED <<admVars, files>>

(* NewFroxy, with a warning perhaps; the listener or Detach may fail.      *)
NewFroxy(i) ==
    /\ ipc[i] = "new"
    /\ \/ ipc' = [ipc EXCEPT ![i] = "listen"] /\ UNCHANGED <<output, runLock>>
       \/ ipc' = [ipc EXCEPT ![i] = "listen"] /\ output' = output \cup {i} /\ UNCHANGED runLock
       \/ /\ ipc' = [ipc EXCEPT ![i] = "gone"]
          /\ output' = output \cup {i}
          /\ runLock' = NoOne
    /\ UNCHANGED <<admVars, files>>

(* Detach closes the output, and Run begins to serve requests. *)
Detach(i) ==
    /\ ipc[i] = "listen"
    /\ ipc' = [ipc EXCEPT ![i] = "serve"]
    /\ UNCHANGED <<admVars, output, runLock, files>>

(* eventGoroutine calls Sub. *)
Subscribe(i) ==
    /\ ipc[i] = "serve"
    /\ ipc' = [ipc EXCEPT ![i] = "subscribed"]
    /\ UNCHANGED <<admVars, output, runLock, files>>

(* Fault: no event is raised. *)
ShutdownSilent(a) ==
    /\ apc[a] = "wait"
    /\ ipc[asked[a]] \in {"serve", "subscribed"}
    /\ Goto(a, "closing")
    /\ UNCHANGED <<cmd, isRunning, asked, tries, result, instVars, runLock, files>>

(* handleShutdown: the event is lost if eventGoroutine has not subscribed  *)
(* to it yet.                                                              *)
Shutdown(a) ==
    /\ apc[a] = "wait"
    /\ ipc[asked[a]] \in {"serve", "subscribed"}
    /\ Goto(a, "closing")
    /\ ipc' = [ipc EXCEPT ![asked[a]] = IF @ = "subscribed" THEN "exiting" ELSE @]
    /\ UNCHANGED <<cmd, isRunning, asked, tries, result, output, runLock, files>>

(* An instance may end at any time; one that exits closes its connections  *)
(* before its hold of the run lock ends.                                   *)
Exit(i) ==
    /\ ipc[i] \notin {"none", "gone"}
    /\ ipc' = [ipc EXCEPT ![i] = "gone"]
    /\ runLock' = IF runLock = Froxy(i) THEN NoOne ELSE runLock
    /\ UNCHANGED <<admVars, output, files>>

Command(a) ==
    \/ NewAdm(a) \/ Kill(a) \/ ConnectionClosed(a) \/ Reacquire(a) \/ KillDone(a)
    \/ Write(a) \/ Remove(a) \/ Run(a) \/ StartProcess(a) \/ ReadOutput(a)

Instance(i) ==
    \/ Load(i) \/ NewFroxy(i) \/ Detach(i) \/ Subscribe(i)
    \/ \E a \in Adms : asked[a] = i /\ Shutdown(a)

Next == \E a \in Adms : \/ \E c \in Commands : FroxyAdm(a, c)
                        \/ Command(a) \/ Instance(a) \/ Exit(a)

(* Processes run, and one that exits comes to its end. *)
Fairness ==
    \A a \in Adms : /\ WF_vars(Command(a)) /\ WF_vars(Instance(a))
                    /\ WF_vars(ipc[a] = "exiting" /\ Exit(a))

Spec == Init /\ [][Next]_vars /\ Fairness

-----------------------------------------------------------------------------
(***************************************************************************)
(* Properties.                                                             *)
(***************************************************************************)

(* A command that goes on in the belief that no instance is running is     *)
(* right, whatever other commands and instances do, and holds the run lock *)
(* (adm.go:252-257): Install and Uninstall change the files then, and Run  *)
(* releases a lock that it has (LockRelease panics otherwise).  This is so *)
(* until Run releases the lock, and not for Uninstall when it undoes what  *)
(* was installed after Run has failed (RemovesAlone).                      *)
NotRunningMeansLocked ==
    \A a \in Adms :
        apc[a] \in {"kill", "command", "write", "remove", "undo", "run"} /\ ~isRunning[a]
        => runLock = Adm(a) /\ \A i \in Adms : ipc[i] \in {"none", "load", "gone"}

(* Uninstall begins with "Kill Froxy if it is running" (adm.go:125): no    *)
(* instance runs when it removes the files.  That is not so after Run has  *)
(* failed in Install: Run has released the lock (adm.go:145), another      *)
(* command may have started an instance, and Kill does nothing.            *)
RemovesAlone ==
    \A a \in Adms : apc[a] \in {"remove", "undo", "undoRun"} =>
        \A i \in Adms : ipc[i] \in {"none", "load", "gone"}

(* What Run reports is true: after success the instance has come so far    *)
(* that it serves requests, and after an error it does not run, although   *)
(* Run has let go of the lock, which another process may take (adm.go:145, *)
(* 187-201).                                                               *)
RunReports ==
    \A a \in Adms : apc[a] = "done" =>
        /\ result[a] = "ok" => ipc[a] \notin {"load", "new", "listen"}
        /\ result[a] # "ok" => ipc[a] \in {"none", "gone"}

(* A command that has reached an instance which listens to events ends:    *)
(* the instance exits, "so requester may synchronize with shutdown         *)
(* completion" (webapi.go:391-394).                                        *)
KillReturns ==
    \A a \in Adms :
        apc[a] = "wait" /\ ipc[asked[a]] = "subscribed" ~> apc[a] = "done"
-----------------------------------------------------------------------------
(***************************************************************************)
(* The inductive invariant.                                                *)
(***************************************************************************)

(* An instance has the run lock from its start to its end.                 *)
RunLockInv ==
    \A i \in Adms :
        ipc[i] \in {"new", "listen", "serve", "subscribed", "exiting"} <=> runLock = Froxy(i)

(* Only a command that kills waits for an instance; only one that has come *)
(* to start an instance has one, and it undoes nothing while that runs.    *)
CommandInv ==
    \A a \in Adms :
        /\ apc[a] # "off" => cmd[a] \in Commands
        /\ apc[a] \in {"kill", "wait", "closing", "retry"} =>
              cmd[a] \in {"install", "uninstall", "kill"}
        /\ ipc[a] # "none" => apc[a] \in {"output", "undoRun", "done"}
        /\ apc[a] = "undoRun" => ipc[a] \in {"none", "gone"}

Inv == TypeOK /\ RunLockInv /\ CommandInv /\ NotRunningMeansLocked /\ RunReports
=============================================================================
