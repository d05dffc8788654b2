---------------------------- MODULE SSHTransport ----------------------------
(***************************************************************************)
(* The SSH transport of Froxy (src/ssh.go): concurrent calls of Dial share *)
(* a pool of SSH sessions, every session carries at most MaxConn           *)
(* connections, and Reconnect replaces the server parameters after it has  *)
(* waited for everything of the old context to go away.                    *)
(*                                                                         *)
(* Every element of Dials is one call of Dial together with the connection *)
(* it returns; a session is named by the call that created it (a call      *)
(* creates at most one).  Every element of Reconnects is one call of       *)
(* Reconnect, and names the context that call creates; Boot is the context *)
(* made by the call in NewSSHTransport.                                    *)
(*                                                                         *)
(* A section of code that runs under sessionsLock is one action: nothing   *)
(* it touches is touched outside that lock.                                *)
(***************************************************************************)
EXTENDS Integers, FiniteSets

CONSTANTS
    Dials,       (* calls of SSHTransport.Dial                             *)
    Reconnects,  (* calls of SSHTransport.Reconnect after startup          *)
    Boot,        (* the context created by NewSSHTransport                 *)
    Params,      (* values of ServerParams                                 *)
    OkOutcomes,  (* the values ctx.ok can get for given parameters: both   *)
                 (* if they name a key, which may or may not exist then    *)
    MaxConn,     (* SSH_MAX_CONN_PER_CLIENT                                *)
    Nil          (* Go's nil: no context, no session, nobody               *)

Contexts == Reconnects \cup {Boot}

ASSUME DialsAssumption   == IsFiniteSet(Dials) /\ Nil \notin Dials
ASSUME ContextAssumption == /\ IsFiniteSet(Reconnects)
                            /\ Boot \notin Reconnects
                            /\ Nil \notin Contexts
ASSUME ParamsAssumption  == /\ Params # {}
                            /\ OkOutcomes \in [Params -> (SUBSET BOOLEAN) \ {{}}]
ASSUME MaxConnAssumption == MaxConn \in Nat \ {0}

VARIABLES
    pc,             (* pc[d]: where the call d of Dial is                  *)
    dctx,           (* dctx[d]: the context d has read, local variable ctx *)
    dsess,          (* dsess[d]: the session d has got a reference to      *)
    sshConns,       (* Counters.SSHConnections                             *)
    sstate,         (* sstate[s]: life of the session that call s creates  *)
    sessions,       (* the pool: map t.sessions                            *)
    refcnt,         (* refcnt[s]: session.refcnt                           *)
    connCount,      (* t.sessionsConnCount                                 *)
    sessionsCount,  (* t.sessionsCount                                     *)
    lock,           (* holder of disconnectLock for writing, or Nil        *)
    wg,             (* counter of disconnectWait                           *)
    ctx,            (* t.ctx                                               *)
    param,          (* param[c]: parameters of the context c, once made    *)
    ctxOk,          (* ctxOk[c]: field ok of the context c, once made      *)
    cancelled,      (* contexts on which Cancel was called                 *)
    rpc,            (* rpc[r]: where the call r of Reconnect is            *)
    connState       (* Froxy.connState                                     *)

dialVars == <<pc, dctx, dsess, sshConns>>
poolVars == <<sstate, sessions, refcnt, connCount, sessionsCount>>
ctxVars  == <<lock, ctx, param, ctxOk, cancelled>>
vars     == <<dialVars, poolVars, ctxVars, wg, rpc, connState>>

(***************************************************************************)
(* Program counters of Dial.  "wait" is blocked in sessionsCond.Wait,      *)
(* "woken" has been signalled but has not got sessionsLock back.           *)
(***************************************************************************)
DialPC == {"idle", "rlock", "get", "wait", "woken", "connect", "handshake",
           "insert", "inserted", "cleanup", "dial", "returnConn", "returnErr",
           "open", "closed", "failed"}

SessionState == {"none", "up", "down", "reaped", "signalled", "gone"}

(* Program counters of Reconnect.  "parked" is blocked in                  *)
(* disconnectWait.Wait, "released" is woken up but has not run yet.        *)
ReconnectPC == {"idle", "waiting", "parked", "released", "newctx", "done",
                "panicked"}

ConnState == {"noconfig", "trying", "established"}

TypeOK ==
    /\ pc \in [Dials -> DialPC]
    /\ dctx \in [Dials -> Contexts \cup {Nil}]
    /\ dsess \in [Dials -> Dials \cup {Nil}]
    /\ sshConns \in Int
    /\ sstate \in [Dials -> SessionState]
    /\ sessions \in SUBSET Dials
    /\ refcnt \in [Dials -> Int]
    /\ connCount \in Int
    /\ sessionsCount \in Int
    /\ lock \in Reconnects \cup {Nil}
    /\ wg \in Int
    /\ ctx \in Contexts \cup {Nil}
    /\ param \in [Contexts -> Params]
    /\ ctxOk \in [Contexts -> BOOLEAN]
    /\ cancelled \in SUBSET Contexts
    /\ rpc \in [Reconnects -> ReconnectPC]
    /\ connState \in ConnState

(* The state reached by ctx with field ok when it becomes current. *)
StateFor(ok) == IF ok THEN "trying" ELSE "noconfig"

Init ==
    /\ pc = [d \in Dials |-> "idle"]
    /\ dctx = [d \in Dials |-> Nil]
    /\ dsess = [d \in Dials |-> Nil]
    /\ sshConns = 0
    /\ sstate = [d \in Dials |-> "none"]
    /\ sessions = {}
    /\ refcnt = [d \in Dials |-> 0]
    /\ connCount = 0
    /\ sessionsCount = 0
    /\ lock = Nil
    /\ wg = 0
    /\ ctx = Boot
    /\ cancelled = {}
    /\ rpc = [r \in Reconnects |-> "idle"]
    /\ \E p \in Params : \E ok \in OkOutcomes[p] :
          /\ param = [c \in Contexts |-> p]
          /\ ctxOk = [c \in Contexts |-> IF c = Boot THEN ok ELSE FALSE]
          /\ connState = StateFor(ok)

-----------------------------------------------------------------------------
(***************************************************************************)
(* Synchronisation primitives.                                             *)
(***************************************************************************)

(* sessionsCond.Signal() when the program counters are f: one of the       *)
(* waiting calls, if there is one, is woken up.                            *)
Signal(f) ==
    LET waiting == {d \in Dials : f[d] = "wait"}
    IN  IF waiting = {} THEN {f}
        ELSE {[f EXCEPT ![w] = "woken"] : w \in waiting}

(* disconnectWait.Done(): a counter that drops to zero releases Wait. *)
WaitGroupDone ==
    /\ wg' = wg - 1
    /\ rpc' = [r \in Reconnects |->
                 IF wg = 1 /\ rpc[r] = "parked" THEN "released" ELSE rpc[r]]

-----------------------------------------------------------------------------
(***************************************************************************)
(* Dial: synchronisation with Reconnect.                                   *)
(***************************************************************************)

(* disconnectWait.Add(1) at the entry of Dial. *)
DialEnter(d) ==
    /\ pc[d] = "idle"
    /\ wg' = wg + 1
    /\ pc' = [pc EXCEPT ![d] = "rlock"]
    /\ UNCHANGED <<dctx, dsess, sshConns, poolVars, ctxVars, rpc, connState>>

(* t.ctx is read under disconnectLock.RLock(), which is blocked as long as *)
(* a Reconnect holds the lock.  A nil context ends the call by a panic.    *)
DialReadContext(d) ==
    /\ pc[d] = "rlock"
    /\ lock = Nil
    /\ dctx' = [dctx EXCEPT ![d] = ctx]
    /\ LET usable == ctx # Nil /\ ctxOk[ctx]
       IN  pc' = [pc EXCEPT ![d] = IF usable THEN "get" ELSE "returnErr"]
    /\ UNCHANGED <<dsess, sshConns, poolVars, ctxVars, wg, rpc, connState>>

(* The deferred disconnectWait.Done(), after which Dial has returned. *)
DialReturn(d) ==
    /\ pc[d] \in {"returnConn", "returnErr"}
    /\ pc' = [pc EXCEPT ![d] = IF pc[d] = "returnConn" THEN "open" ELSE "failed"]
    /\ WaitGroupDone
    /\ UNCHANGED <<dctx, dsess, sshConns, poolVars, ctxVars, connState>>

-----------------------------------------------------------------------------
(***************************************************************************)
(* Dial: getSession, spareSession and newSession.                          *)
(***************************************************************************)

(* Fault: the limit of references is off by one. *)
SpareOffByOne == {s \in sessions : refcnt[s] <= MaxConn}

(* The sessions that can carry another connection, and those of them that  *)
(* spareSession may return: the ones with the fewest references.           *)
Spare == {s \in sessions : refcnt[s] < MaxConn}
LeastUsed == {s \in Spare : \A t \in Spare : refcnt[s] <= refcnt[t]}

(* With conns connections, active and planned, the planned sessions are    *)
(* enough to carry them all.                                               *)
EnoughSessions(conns) == sessionsCount * MaxConn >= conns

(* The code between the label AGAIN and the unlock, when sessionsConnCount *)
(* is conns: take a spare session, wait, or plan a new session.            *)
Again(d, conns) ==
    \/ \E s \in LeastUsed :
          /\ refcnt' = [refcnt EXCEPT ![s] = @ + 1]
          /\ dsess' = [dsess EXCEPT ![d] = s]
          /\ pc' \in Signal([pc EXCEPT ![d] = "dial"])
          /\ UNCHANGED sessionsCount
    \/ /\ Spare = {}
       /\ EnoughSessions(conns)
       /\ pc' = [pc EXCEPT ![d] = "wait"]
       /\ UNCHANGED <<refcnt, dsess, sessionsCount>>
    \/ /\ Spare = {}
       /\ ~EnoughSessions(conns)
       /\ sessionsCount' = sessionsCount + 1
       /\ pc' = [pc EXCEPT ![d] = "connect"]
       /\ UNCHANGED <<refcnt, dsess>>

GetSession(d) ==
    /\ pc[d] = "get"
    /\ connCount' = connCount + 1
    /\ Again(d, connCount + 1)
    /\ UNCHANGED <<dctx, sshConns, sstate, sessions, ctxVars, wg, rpc, connState>>

(* A signalled call gets sessionsLock back and goes to AGAIN. *)
GetSessionAgain(d) ==
    /\ pc[d] = "woken"
    /\ Again(d, connCount)
    /\ UNCHANGED <<dctx, sshConns, sstate, sessions, connCount, ctxVars, wg,
                   rpc, connState>>

(* newSession: connMan.DialContext succeeds; it cannot on a context that   *)
(* is cancelled already.                                                   *)
Connect(d) ==
    /\ pc[d] = "connect"
    /\ dctx[d] \notin cancelled
    /\ pc' = [pc EXCEPT ![d] = "handshake"]
    /\ UNCHANGED <<dctx, dsess, sshConns, poolVars, ctxVars, wg, rpc, connState>>

(* newSession: the SSH handshake succeeds and the connection state becomes *)
(* ConnEstablished.  The context may have been cancelled meanwhile: its    *)
(* connection is closed only some time after that.                         *)
Handshake(d) ==
    /\ pc[d] = "handshake"
    /\ sstate' = [sstate EXCEPT ![d] = "up"]
    /\ connState' = "established"
    /\ pc' = [pc EXCEPT ![d] = "insert"]
    /\ UNCHANGED <<dctx, dsess, sshConns, sessions, refcnt, connCount,
                   sessionsCount, ctxVars, wg, rpc>>

(* Fault: the waiter goroutine is not added to disconnectWait. *)
InsertUncounted(d) ==
    /\ pc[d] = "insert"
    /\ sessions' = sessions \cup {d}
    /\ refcnt' = [refcnt EXCEPT ![d] = 1]
    /\ dsess' = [dsess EXCEPT ![d] = d]
    /\ pc' = [pc EXCEPT ![d] = "inserted"]
    /\ UNCHANGED <<dctx, sshConns, sstate, connCount, sessionsCount, ctxVars, wg,
                   rpc, connState>>

(* newSession: the session enters the pool with one reference, its waiter  *)
(* goroutine starts and is added to disconnectWait (which counts the call  *)
(* itself too, so that the place of this Add cannot be told apart).        *)
Insert(d) ==
    /\ pc[d] = "insert"
    /\ sessions' = sessions \cup {d}
    /\ refcnt' = [refcnt EXCEPT ![d] = 1]
    /\ dsess' = [dsess EXCEPT ![d] = d]
    /\ wg' = wg + 1
    /\ pc' = [pc EXCEPT ![d] = "inserted"]
    /\ UNCHANGED <<dctx, sshConns, sstate, connCount, sessionsCount, ctxVars,
                   rpc, connState>>

(* newSession fails: cannot connect, or the handshake fails. *)
NewSessionFails(d) ==
    /\ pc[d] \in {"connect", "handshake"}
    /\ pc' = [pc EXCEPT ![d] = "cleanup"]
    /\ UNCHANGED <<dctx, dsess, sshConns, poolVars, ctxVars, wg, rpc, connState>>

(* Fault: getSession does not signal when it returns a new session. *)
NewSessionSilent(d) ==
    /\ pc[d] = "inserted"
    /\ pc' = [pc EXCEPT ![d] = "dial"]
    /\ UNCHANGED <<dctx, dsess, sshConns, poolVars, ctxVars, wg, rpc, connState>>

(* getSession returns the new session: sessionsLock is taken again and the *)
(* deferred Signal is sent.                                                *)
NewSessionReady(d) ==
    /\ pc[d] = "inserted"
    /\ pc' \in Signal([pc EXCEPT ![d] = "dial"])
    /\ UNCHANGED <<dctx, dsess, sshConns, poolVars, ctxVars, wg, rpc, connState>>

(* Fault: the planned session is not withdrawn. *)
CleanupConnOnly(d) ==
    /\ pc[d] = "cleanup"
    /\ connCount' = connCount - 1
    /\ pc' \in Signal([pc EXCEPT ![d] = "returnErr"])
    /\ UNCHANGED <<dctx, dsess, sshConns, sstate, sessions, refcnt, sessionsCount,
                   ctxVars, wg, rpc, connState>>

(* getSession fails: the planned connection and session are withdrawn. *)
Cleanup(d) ==
    /\ pc[d] = "cleanup"
    /\ connCount' = connCount - 1
    /\ sessionsCount' = sessionsCount - 1
    /\ pc' \in Signal([pc EXCEPT ![d] = "returnErr"])
    /\ UNCHANGED <<dctx, dsess, sshConns, sstate, sessions, refcnt, ctxVars,
                   wg, rpc, connState>>

-----------------------------------------------------------------------------
(***************************************************************************)
(* The tunneled connection.                                                *)
(***************************************************************************)

(* session.unref(), whose caller d goes on at the program counter next. *)
Unref(d, next) ==
    /\ refcnt' = [refcnt EXCEPT ![dsess[d]] = @ - 1]
    /\ connCount' = connCount - 1
    /\ pc' \in Signal([pc EXCEPT ![d] = next])

(* session.Dial succeeds; it cannot on a session that has terminated. *)
TunnelOpens(d) ==
    /\ pc[d] = "dial"
    /\ sstate[dsess[d]] = "up"
    /\ sshConns' = sshConns + 1
    /\ pc' = [pc EXCEPT ![d] = "returnConn"]
    /\ UNCHANGED <<dctx, dsess, poolVars, ctxVars, wg, rpc, connState>>

(* session.Dial fails and the session is unreferenced. *)
TunnelFails(d) ==
    /\ pc[d] = "dial"
    /\ Unref(d, "returnErr")
    /\ UNCHANGED <<dctx, dsess, sshConns, sstate, sessions, sessionsCount,
                   ctxVars, wg, rpc, connState>>

(* sshConn.Close: only the first call gets past the swap of closed. *)
Close(d) ==
    /\ pc[d] = "open"
    /\ sshConns' = sshConns - 1
    /\ Unref(d, "closed")
    /\ UNCHANGED <<dctx, dsess, sstate, sessions, sessionsCount, ctxVars, wg,
                   rpc, connState>>

-----------------------------------------------------------------------------
(***************************************************************************)
(* Termination of a session, and its waiter goroutine.                     *)
(***************************************************************************)

(* The connection to the server is lost. *)
SessionDrops(s) ==
    /\ sstate[s] = "up"
    /\ sstate' = [sstate EXCEPT ![s] = "down"]
    /\ UNCHANGED <<dialVars, sessions, refcnt, connCount, sessionsCount,
                   ctxVars, wg, rpc, connState>>

(* ConnMan closes the connection, as its context is cancelled. *)
SessionCancelled(s) ==
    /\ dctx[s] \in cancelled
    /\ SessionDrops(s)

(* session.Wait has returned: the session leaves the pool, and the last    *)
(* one to leave turns the connection state to ConnTrying unless its        *)
(* context is cancelled.                                                   *)
Reap(s) ==
    /\ sstate[s] = "down"
    /\ s \in sessions
    /\ sessions' = sessions \ {s}
    /\ sessionsCount' = sessionsCount - 1
    /\ connState' = IF sessionsCount = 1 /\ dctx[s] \notin cancelled
                    THEN "trying" ELSE connState
    /\ sstate' = [sstate EXCEPT ![s] = "reaped"]
    /\ UNCHANGED <<dialVars, refcnt, connCount, ctxVars, wg, rpc>>

(* The waiter calls Signal, after it has unlocked sessionsLock. *)
ReapSignal(s) ==
    /\ sstate[s] = "reaped"
    /\ sstate' = [sstate EXCEPT ![s] = "signalled"]
    /\ pc' \in Signal(pc)
    /\ UNCHANGED <<dctx, dsess, sshConns, sessions, refcnt, connCount,
                   sessionsCount, ctxVars, wg, rpc, connState>>

(* The waiter calls disconnectWait.Done() and ends. *)
ReapDone(s) ==
    /\ sstate[s] = "signalled"
    /\ sstate' = [sstate EXCEPT ![s] = "gone"]
    /\ WaitGroupDone
    /\ UNCHANGED <<dialVars, sessions, refcnt, connCount, sessionsCount,
                   ctxVars, connState>>

-----------------------------------------------------------------------------
(***************************************************************************)
(* Reconnect.                                                              *)
(***************************************************************************)

(* disconnectLock is taken and the parameters p are compared with those of *)
(* the current context.  Either nothing has changed and the call returns,  *)
(* or a usable context is cancelled and its users must be waited for, or   *)
(* there is nothing to disconnect.                                         *)
ReconnectEnter(r) ==
    /\ rpc[r] = "idle"
    /\ lock = Nil
    /\ \E p \in Params :
          IF ctx # Nil /\ param[ctx] = p
          THEN /\ rpc' = [rpc EXCEPT ![r] = "done"]
               /\ UNCHANGED ctxVars
          ELSE /\ lock' = r
               /\ param' = [param EXCEPT ![r] = p]
               /\ UNCHANGED ctxOk
               /\ IF ctx # Nil /\ ctxOk[ctx]
                  THEN /\ cancelled' = cancelled \cup {ctx}
                       /\ ctx' = Nil
                       /\ rpc' = [rpc EXCEPT ![r] = "waiting"]
                  ELSE /\ rpc' = [rpc EXCEPT ![r] = "newctx"]
                       /\ UNCHANGED <<cancelled, ctx>>
    /\ UNCHANGED <<dialVars, poolVars, wg, connState>>

(* Fault: Reconnect does not wait. *)
ReconnectHurries(r) ==
    /\ rpc[r] = "waiting"
    /\ rpc' = [rpc EXCEPT ![r] = "newctx"]
    /\ UNCHANGED <<dialVars, poolVars, ctxVars, wg, connState>>

(* disconnectWait.Wait() returns at once, or blocks. *)
ReconnectWait(r) ==
    /\ rpc[r] = "waiting"
    /\ rpc' = [rpc EXCEPT ![r] = IF wg = 0 THEN "newctx" ELSE "parked"]
    /\ UNCHANGED <<dialVars, poolVars, ctxVars, wg, connState>>

(* The released Wait runs again.  sync.WaitGroup panics ("WaitGroup is     *)
(* reused before previous Wait has returned") if a Dial has come meanwhile *)
(* and made the counter non-zero; the deferred Unlock runs, and net/http   *)
(* recovers the panic of the request handler that called Reconnect.        *)
ReconnectReleased(r) ==
    /\ rpc[r] = "released"
    /\ IF wg = 0
       THEN /\ rpc' = [rpc EXCEPT ![r] = "newctx"]
            /\ UNCHANGED lock
       ELSE /\ rpc' = [rpc EXCEPT ![r] = "panicked"]
            /\ lock' = Nil
    /\ UNCHANGED <<dialVars, poolVars, ctx, param, ctxOk, cancelled, wg,
                   connState>>

(* The new context is installed, the connection state follows it, and the  *)
(* lock is released.                                                       *)
ReconnectFinish(r) ==
    /\ rpc[r] = "newctx"
    /\ \E ok \in OkOutcomes[param[r]] :
          /\ ctxOk' = [ctxOk EXCEPT ![r] = ok]
          /\ connState' = StateFor(ok)
    /\ ctx' = r
    /\ lock' = Nil
    /\ rpc' = [rpc EXCEPT ![r] = "done"]
    /\ UNCHANGED <<dialVars, poolVars, param, cancelled, wg>>

-----------------------------------------------------------------------------
(* What a call of Dial does once it is made, until it returns. *)
DialProgress(d) ==
    \/ DialReadContext(d) \/ GetSession(d) \/ GetSessionAgain(d) \/ Connect(d)
    \/ Handshake(d) \/ Insert(d) \/ NewSessionFails(d) \/ NewSessionReady(d)
    \/ Cleanup(d) \/ TunnelOpens(d) \/ TunnelFails(d) \/ DialReturn(d)

SessionStep(s) ==
    \/ SessionDrops(s) \/ SessionCancelled(s)
    \/ Reap(s) \/ ReapSignal(s) \/ ReapDone(s)

ReconnectStep(r) ==
    \/ ReconnectEnter(r) \/ ReconnectWait(r)
    \/ ReconnectReleased(r) \/ ReconnectFinish(r)

Next ==
    \/ \E d \in Dials : DialEnter(d) \/ DialProgress(d) \/ Close(d) \/ SessionStep(d)
    \/ \E r \in Reconnects : ReconnectStep(r)

Spec == Init /\ [][Next]_vars

(***************************************************************************)
(* Goroutines that can run do run, a call over the network ends with       *)
(* success or failure, and ConnMan closes the connections of a cancelled   *)
(* context.  Nothing obliges anybody to call Dial, Reconnect or Close, nor *)
(* a server to drop a session.                                             *)
(***************************************************************************)
Fairness ==
    /\ \A d \in Dials : /\ WF_vars(DialProgress(d))
                        /\ WF_vars(SessionCancelled(d))
                        /\ WF_vars(Reap(d) \/ ReapSignal(d) \/ ReapDone(d))
    /\ \A r \in Reconnects :
          WF_vars(ReconnectWait(r) \/ ReconnectReleased(r) \/ ReconnectFinish(r))

FairSpec == Spec /\ Fairness

-----------------------------------------------------------------------------
(***************************************************************************)
(* Properties.                                                             *)
(***************************************************************************)

(* Calls counted by sessionsConnCount: between the first section of        *)
(* getSession and the failure or Close that withdraws them.                *)
Counted  == {d \in Dials : pc[d] \in {"wait", "woken", "connect", "handshake",
                "insert", "inserted", "cleanup", "dial", "returnConn", "open"}}
(* Calls that have planned a session which is not in the pool. *)
Planning == {d \in Dials : pc[d] \in {"connect", "handshake", "insert", "cleanup"}}
(* Calls and connections that hold a reference to the session s. *)
Holders(s) == {d \in Dials :
                 /\ pc[d] \in {"inserted", "dial", "returnConn", "open"}
                 /\ dsess[d] = s}
(* Calls that disconnectWait counts. *)
InDial   == {d \in Dials : pc[d] \notin {"idle", "open", "closed", "failed"}}
(* Sessions whose waiter goroutine disconnectWait counts. *)
Waiters  == sessions \cup {s \in Dials : sstate[s] \in {"reaped", "signalled"}}
(* Calls that use the context they have read. *)
Using    == {d \in InDial : pc[d] \notin {"rlock", "returnErr"}}
(* Everything that works for some context: calls of Dial, and sessions. *)
Active   == Using \cup Waiters

(* The counters of the pool agree with what they count, whatever the order *)
(* of dials, failures, closes and lost sessions: no reference leaks, no    *)
(* counter drifts (ssh.go:36-37 "active+planned").                         *)
Accounting ==
    /\ connCount = Cardinality(Counted)
    /\ sessionsCount = Cardinality(sessions) + Cardinality(Planning)
    /\ \A s \in Dials : refcnt[s] = Cardinality(Holders(s))

(* No session carries more connections than the server is expected to      *)
(* accept (SSH_MAX_CONN_PER_CLIENT, conf.go:66).                           *)
RefcntBounded == \A s \in Dials : refcnt[s] <= MaxConn

(* A call of Dial works only with the context it has read, and a session   *)
(* it uses was authenticated under that very context: after new server     *)
(* parameters are in effect nothing is tunneled through the old server.    *)
ContextIsolation ==
    /\ \A x, y \in Active : dctx[x] = dctx[y]
    /\ \A d \in Using : dsess[d] # Nil => dctx[dsess[d]] = dctx[d]
    /\ ctx # Nil => \A x \in Active : dctx[x] = ctx

(* When Reconnect installs a new context, every session of the old one is  *)
(* gone and none is planned (ssh.go:207-208).                              *)
DisconnectComplete ==
    \A r \in Reconnects : rpc[r] = "newctx" =>
        /\ sessions = {}
        /\ sessionsCount = 0
        /\ \A d \in Dials : sstate[d] \in {"none", "gone"}

(* With no Reconnect at work, the state shown to the user is "not          *)
(* configured" exactly if the current context is not usable: a late dial   *)
(* or a late termination of a session never overwrites it.                 *)
ConnStateFollowsConfig ==
    lock = Nil /\ ctx # Nil => (connState = "noconfig" <=> ~ctxOk[ctx])

(* A waiting call that could take a session, or plan one, is never         *)
(* forgotten: another call is awake, or somebody who does not wait for the *)
(* network is about to call Signal (Signal wakes only one waiter, so that  *)
(* every path out of getSession and of a session must pass it on).         *)
NoLostWakeup ==
    (\E d \in Dials : pc[d] = "wait") /\ (Spare # {} \/ ~EnoughSessions(connCount))
    => \/ \E d \in Dials : pc[d] \in {"woken", "inserted", "cleanup"}
       \/ \E s \in Dials : sstate[s] = "reaped"

(* Every call of Dial returns, with a connection or with an error, unless  *)
(* it meets a Reconnect, which may hold disconnectLock for ever            *)
(* (ReconnectReturns).                                                     *)
DialReturns ==
    \A d \in Dials :
        pc[d] = "rlock" ~> pc[d] \in {"open", "closed", "failed"} \/ lock # Nil

(* "synchronously waits until all active connections has gone away"        *)
(* (ssh.go:207-208): a Reconnect that disconnects finishes its work.       *)
ReconnectReturns ==
    \A r \in Reconnects : rpc[r] = "waiting" ~> rpc[r] = "done"

-----------------------------------------------------------------------------
(***************************************************************************)
(* The inductive invariant behind ContextIsolation, DisconnectComplete and *)
(* ConnStateFollowsConfig.                                                 *)
(***************************************************************************)

(* A call of Reconnect that is past its comparison holds disconnectLock,   *)
(* and t.ctx is nil while it waits.                                        *)
LockInv ==
    \A r \in Reconnects :
        /\ rpc[r] \in {"waiting", "parked", "released", "newctx"} <=> lock = r
        /\ rpc[r] \in {"waiting", "parked", "released"} => ctx = Nil

(* Program counters of a call after it has inserted a session, if it did. *)
Inserted == {"inserted", "dial", "returnConn", "returnErr", "open", "closed",
             "failed"}

(* The life of a session follows the call that creates it, and a call has  *)
(* a reference only to a session that was in the pool, made for its own    *)
(* context.                                                                *)
SessionInv ==
    /\ \A s \in sessions : sstate[s] \in {"up", "down"} /\ pc[s] \in Inserted
    /\ \A d \in Dials :
          /\ pc[d] \in {"idle", "rlock", "get", "wait", "woken", "connect",
                       "handshake"} => sstate[d] = "none"
          /\ pc[d] = "insert" => sstate[d] \in {"up", "down"}
          /\ sstate[d] \in {"up", "down"} => d \in sessions \/ pc[d] = "insert"
          /\ pc[d] \in {"idle", "rlock"} => dsess[d] = Nil
          /\ pc[d] \in {"inserted", "dial", "returnConn", "open"} => dsess[d] # Nil
          /\ dsess[d] # Nil => /\ pc[dsess[d]] \in Inserted
                              /\ dctx[dsess[d]] = dctx[d]

(* disconnectWait counts exactly the calls of Dial in progress and the     *)
(* waiter goroutines of sessions.                                          *)
WaitGroupExact == wg = Cardinality(InDial) + Cardinality(Waiters)

(* All that is active works for one usable context, the current one if     *)
(* there is one, and nothing is active once Wait has let Reconnect go on.  *)
ContextInv ==
    /\ \A x, y \in Active : dctx[x] = dctx[y]
    /\ \A x \in Active : dctx[x] \in Contexts /\ ctxOk[dctx[x]]
    /\ ctx # Nil => \A x \in Active : dctx[x] = ctx
    /\ lock = Nil /\ ctx = Nil => Active = {}
    /\ \A r \in Reconnects : rpc[r] \in {"released", "newctx"} => Active = {}

Inv == TypeOK /\ LockInv /\ SessionInv /\ WaitGroupExact /\ ContextInv

(***************************************************************************)
(* The inductive invariant behind NoLostWakeup: as long as a call waits,   *)
(* the planned sessions, together with one more for every call that is     *)
(* awake or about to be woken by a session that has ended, carry all the   *)
(* connections; and somebody looks after every spare session.              *)
(***************************************************************************)
Woken    == {d \in Dials : pc[d] = "woken"}
Reaped   == {s \in Dials : sstate[s] = "reaped"}

WakeInv ==
    (\E d \in Dials : pc[d] = "wait") =>
        /\ connCount <= MaxConn * (sessionsCount + Cardinality(Woken) + Cardinality(Reaped))
        /\ Spare # {} =>
              \/ Woken # {}
              \/ Reaped # {}
              \/ \E d \in Dials : pc[d] \in {"inserted", "cleanup"}
=============================================================================
