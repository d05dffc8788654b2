------------------------- MODULE SSHTransportProofs -------------------------
(***************************************************************************)
(* Machine-checked proofs about SSHTransport, for all values of its        *)
(* constants.                                                              *)
(***************************************************************************)
EXTENDS SSHTransport, FiniteSetTheorems, TLAPS

(* What Signal does: at most, a waiting call becomes a woken one. *)
LEMMA SignalStep ==
    ASSUME NEW f \in [Dials -> DialPC], NEW g \in Signal(f)
    PROVE  /\ g \in [Dials -> DialPC]
           /\ \A e \in Dials : g[e] = f[e] \/ (f[e] = "wait" /\ g[e] = "woken")
<1> DEFINE W == {d \in Dials : f[d] = "wait"}
<1>1. CASE W = {}
  <2>1. g = f
    BY <1>1 DEF Signal
  <2> QED
    BY <2>1
<1>2. CASE W # {}
  <2>1. PICK w \in W : g = [f EXCEPT ![w] = "woken"]
    BY <1>2 DEF Signal
  <2> QED
    BY <2>1 DEF DialPC
<1> QED
  BY <1>1, <1>2

(* A signal sent by a call d that goes on at the program counter next. *)
LEMMA SignalFrom ==
    ASSUME pc \in [Dials -> DialPC], NEW d \in Dials, NEW next \in DialPC,
           next # "wait", pc[d] # "wait",
           pc' \in Signal([pc EXCEPT ![d] = next])
    PROVE  /\ pc' \in [Dials -> DialPC]
           /\ pc'[d] = next
           /\ \A e \in Dials \ {d} :
                 pc'[e] = pc[e] \/ (pc[e] = "wait" /\ pc'[e] = "woken")
<1> DEFINE f == [pc EXCEPT ![d] = next]
<1>1. f \in [Dials -> DialPC]
  OBVIOUS
<1>2. /\ pc' \in [Dials -> DialPC]
      /\ \A e \in Dials : pc'[e] = f[e] \/ (f[e] = "wait" /\ pc'[e] = "woken")
  BY <1>1, SignalStep
<1> QED
  BY <1>2

(* Decrementing one counter of a family keeps the family integer. *)
LEMMA UnrefType ==
    ASSUME NEW f \in [Dials -> Int], NEW s
    PROVE  [f EXCEPT ![s] = @ - 1] \in [Dials -> Int]
<1>1. CASE s \in Dials
  BY <1>1
<1>2. CASE s \notin Dials
  BY <1>2
<1> QED
  BY <1>1, <1>2

(* The type invariant: every variable keeps its type. *)
LEMMA TypeInit == Init => TypeOK
<1> SUFFICES ASSUME Init PROVE TypeOK
  OBVIOUS
<1>1. PICK p \in Params : \E ok \in OkOutcomes[p] :
          /\ param = [c \in Contexts |-> p]
          /\ ctxOk = [c \in Contexts |-> IF c = Boot THEN ok ELSE FALSE]
          /\ connState = StateFor(ok)
  BY DEF Init
<1>2. PICK ok \in OkOutcomes[p] :
          /\ ctxOk = [c \in Contexts |-> IF c = Boot THEN ok ELSE FALSE]
          /\ connState = StateFor(ok)
  BY <1>1
<1>3. ok \in BOOLEAN
  BY ParamsAssumption
<1>4. param \in [Contexts -> Params]
  BY <1>1
<1>5. ctxOk \in [Contexts -> BOOLEAN]
  BY <1>2, <1>3
<1>6. connState \in ConnState
  BY <1>2 DEF StateFor, ConnState
<1>7. pc \in [Dials -> DialPC] /\ sstate \in [Dials -> SessionState]
  BY DEF Init, DialPC, SessionState
<1>8. rpc \in [Reconnects -> ReconnectPC]
  BY DEF Init, ReconnectPC
<1>9. ctx \in Contexts \cup {Nil} /\ lock \in Reconnects \cup {Nil}
  BY DEF Init, Contexts
<1>10. /\ dctx \in [Dials -> Contexts \cup {Nil}]
       /\ dsess \in [Dials -> Dials \cup {Nil}]
       /\ refcnt \in [Dials -> Int]
  BY DEF Init
<1>11. /\ sshConns \in Int /\ connCount \in Int /\ sessionsCount \in Int
       /\ wg \in Int /\ sessions \in SUBSET Dials
       /\ cancelled \in SUBSET Contexts
  BY DEF Init
<1> QED
  BY <1>4, <1>5, <1>6, <1>7, <1>8, <1>9, <1>10, <1>11 DEF TypeOK

(* Every step keeps the types. *)
LEMMA TypeNext == TypeOK /\ [Next]_vars => TypeOK'
<1> SUFFICES ASSUME TypeOK, [Next]_vars PROVE TypeOK'
  OBVIOUS
<1> USE DEF TypeOK
<1>0. "dial" \in DialPC /\ "returnErr" \in DialPC /\ "closed" \in DialPC
  BY DEF DialPC
<1>1. ASSUME NEW d \in Dials, DialEnter(d) PROVE TypeOK'
  BY <1>1 DEF DialEnter, poolVars, ctxVars, DialPC
<1>2. ASSUME NEW d \in Dials, DialReadContext(d) PROVE TypeOK'
  BY <1>2 DEF DialReadContext, poolVars, ctxVars, DialPC
<1>3. ASSUME NEW d \in Dials, NEW n, Again(d, n), pc[d] \in {"get", "woken"}
      PROVE  /\ pc' \in [Dials -> DialPC]
             /\ dsess' \in [Dials -> Dials \cup {Nil}]
             /\ refcnt' \in [Dials -> Int]
             /\ sessionsCount' \in Int
  <2>1. ASSUME NEW s \in LeastUsed,
               refcnt' = [refcnt EXCEPT ![s] = @ + 1],
               dsess' = [dsess EXCEPT ![d] = s],
               pc' \in Signal([pc EXCEPT ![d] = "dial"]),
               UNCHANGED sessionsCount
        PROVE  /\ pc' \in [Dials -> DialPC]
               /\ dsess' \in [Dials -> Dials \cup {Nil}]
               /\ refcnt' \in [Dials -> Int]
               /\ sessionsCount' \in Int
    <3>1. s \in Dials
      BY DEF LeastUsed, Spare
    <3>2. pc' \in [Dials -> DialPC]
      BY <1>3, <2>1, <1>0, SignalFrom
    <3>3. dsess' \in [Dials -> Dials \cup {Nil}]
      BY <2>1, <3>1
    <3>4. refcnt' \in [Dials -> Int]
      BY <2>1, <3>1
    <3>5. sessionsCount' \in Int
      BY <2>1
    <3> QED
      BY <3>2, <3>3, <3>4, <3>5
  <2>2. CASE pc' = [pc EXCEPT ![d] = "wait"] /\ UNCHANGED <<refcnt, dsess, sessionsCount>>
    BY <2>2 DEF DialPC
  <2>3. CASE /\ sessionsCount' = sessionsCount + 1
             /\ pc' = [pc EXCEPT ![d] = "connect"]
             /\ UNCHANGED <<refcnt, dsess>>
    BY <2>3 DEF DialPC
  <2> QED
    BY <1>3, <2>1, <2>2, <2>3 DEF Again
<1>4. ASSUME NEW d \in Dials, GetSession(d) PROVE TypeOK'
  BY <1>3, <1>4 DEF GetSession, ctxVars
<1>5. ASSUME NEW d \in Dials, GetSessionAgain(d) PROVE TypeOK'
  BY <1>3, <1>5 DEF GetSessionAgain, ctxVars
<1>6. ASSUME NEW d \in Dials, Connect(d) PROVE TypeOK'
  BY <1>6 DEF Connect, poolVars, ctxVars, DialPC
<1>7. ASSUME NEW d \in Dials, Handshake(d) PROVE TypeOK'
  BY <1>7 DEF Handshake, ctxVars, DialPC, SessionState, ConnState
<1>8. ASSUME NEW d \in Dials, Insert(d) PROVE TypeOK'
  BY <1>8 DEF Insert, ctxVars, DialPC
<1>9. ASSUME NEW d \in Dials, NewSessionFails(d) PROVE TypeOK'
  BY <1>9 DEF NewSessionFails, poolVars, ctxVars, DialPC
<1>10. ASSUME NEW d \in Dials, NewSessionReady(d) PROVE TypeOK'
  BY <1>0, <1>10, SignalFrom DEF NewSessionReady, poolVars, ctxVars
<1>11. ASSUME NEW d \in Dials, Cleanup(d) PROVE TypeOK'
  <2>1. pc' \in [Dials -> DialPC]
    BY <1>0, <1>11, SignalFrom DEF Cleanup
  <2> QED
    BY <1>11, <2>1 DEF Cleanup, ctxVars
<1>12. ASSUME NEW d \in Dials, TunnelOpens(d) PROVE TypeOK'
  BY <1>12 DEF TunnelOpens, poolVars, ctxVars, DialPC
<1>13. ASSUME NEW d \in Dials, TunnelFails(d) PROVE TypeOK'
  <2>1. pc' \in [Dials -> DialPC]
    BY <1>0, <1>13, SignalFrom DEF TunnelFails, Unref
  <2>2. refcnt' \in [Dials -> Int]
    BY <1>13, UnrefType DEF TunnelFails, Unref
  <2> QED
    BY <1>13, <2>1, <2>2 DEF TunnelFails, Unref, ctxVars
<1>14. ASSUME NEW d \in Dials, Close(d) PROVE TypeOK'
  <2>1. pc' \in [Dials -> DialPC]
    BY <1>0, <1>14, SignalFrom DEF Close, Unref
  <2>2. refcnt' \in [Dials -> Int]
    BY <1>14, UnrefType DEF Close, Unref
  <2> QED
    BY <1>14, <2>1, <2>2 DEF Close, Unref, ctxVars
<1>15. ASSUME NEW d \in Dials, DialReturn(d) PROVE TypeOK'
  BY <1>15 DEF DialReturn, WaitGroupDone, poolVars, ctxVars, DialPC, ReconnectPC
<1>16. ASSUME NEW s \in Dials, SessionDrops(s) PROVE TypeOK'
  BY <1>16 DEF SessionDrops, dialVars, ctxVars, SessionState
<1>17. ASSUME NEW s \in Dials, Reap(s) PROVE TypeOK'
  BY <1>17 DEF Reap, dialVars, ctxVars, SessionState, ConnState
<1>18. ASSUME NEW s \in Dials, ReapSignal(s) PROVE TypeOK'
  BY <1>18, SignalStep DEF ReapSignal, ctxVars, SessionState
<1>19. ASSUME NEW s \in Dials, ReapDone(s) PROVE TypeOK'
  BY <1>19 DEF ReapDone, WaitGroupDone, dialVars, ctxVars, SessionState, ReconnectPC
<1>20. ASSUME NEW r \in Reconnects, ReconnectEnter(r) PROVE TypeOK'
  BY <1>20 DEF ReconnectEnter, dialVars, poolVars, ctxVars, ReconnectPC, Contexts
<1>21. ASSUME NEW r \in Reconnects, ReconnectWait(r) PROVE TypeOK'
  BY <1>21 DEF ReconnectWait, dialVars, poolVars, ctxVars, ReconnectPC
<1>22. ASSUME NEW r \in Reconnects, ReconnectReleased(r) PROVE TypeOK'
  BY <1>22 DEF ReconnectReleased, dialVars, poolVars, ReconnectPC
<1>23. ASSUME NEW r \in Reconnects, ReconnectFinish(r) PROVE TypeOK'
  <2>1. rpc' \in [Reconnects -> ReconnectPC] /\ ctx' \in Contexts \cup {Nil}
    BY <1>23 DEF ReconnectFinish, ReconnectPC, Contexts
  <2>2. ctxOk' \in [Contexts -> BOOLEAN] /\ connState' \in ConnState
    BY <1>23, ParamsAssumption DEF ReconnectFinish, StateFor, ConnState, Contexts
  <2> QED
    BY <1>23, <2>1, <2>2 DEF ReconnectFinish, dialVars, poolVars
<1>24. CASE UNCHANGED vars
  BY <1>24 DEF vars, dialVars, poolVars, ctxVars
<1> QED
  BY <1>1, <1>2, <1>4, <1>5, <1>6, <1>7, <1>8, <1>9, <1>10, <1>11, <1>12, <1>13,
     <1>14, <1>15, <1>16, <1>17, <1>18, <1>19, <1>20, <1>21, <1>22, <1>23, <1>24
  DEF Next, DialProgress, SessionStep, SessionCancelled, ReconnectStep

(* In every reachable state every variable of the transport has its type. *)
THEOREM TypeCorrect == Spec => []TypeOK
  BY TypeInit, TypeNext, PTL DEF Spec

-----------------------------------------------------------------------------
(***************************************************************************)
(* The inductive invariant.                                                *)
(***************************************************************************)

(* At startup no call is in progress and the pool is empty. *)
LEMMA InvInit == Init => Inv
<1> SUFFICES ASSUME Init PROVE Inv
  OBVIOUS
<1>1. TypeOK
  BY TypeInit
<1>2. LockInv
  BY ContextAssumption DEF Init, LockInv, Contexts
<1>3. SessionInv
  BY DEF Init, SessionInv
<1>4. InDial = {} /\ Waiters = {}
  BY DEF Init, InDial, Waiters
<1>5. WaitGroupExact
  BY <1>4, FS_EmptySet DEF Init, WaitGroupExact
<1>6. ContextInv
  BY <1>4 DEF Init, ContextInv, Active, Using
<1> QED
  BY <1>1, <1>2, <1>3, <1>5, <1>6 DEF Inv

(* The steps of Dial, Close and the waiter goroutines other than Done      *)
(* leave everything that belongs to Reconnect alone.                       *)
ReconnectFrame == UNCHANGED <<lock, ctx, param, ctxOk, cancelled, rpc>>

(* The lock has one holder, and t.ctx is nil while that holder waits. *)
LEMMA LockInvNext == TypeOK /\ LockInv /\ [Next]_vars => LockInv'
<1> SUFFICES ASSUME TypeOK, LockInv, [Next]_vars PROVE LockInv'
  OBVIOUS
<1>1. CASE ReconnectFrame
  BY <1>1 DEF ReconnectFrame, LockInv
<1>2. ASSUME NEW d \in Dials, WaitGroupDone, UNCHANGED ctxVars PROVE LockInv'
  BY <1>2 DEF WaitGroupDone, ctxVars, LockInv
<1>3. ASSUME NEW r \in Reconnects, ReconnectEnter(r) PROVE LockInv'
  BY <1>3, ContextAssumption DEF ReconnectEnter, ctxVars, LockInv, TypeOK, Contexts
<1>4. ASSUME NEW r \in Reconnects, ReconnectWait(r) PROVE LockInv'
  BY <1>4 DEF ReconnectWait, ctxVars, LockInv, TypeOK
<1>5. ASSUME NEW r \in Reconnects, ReconnectReleased(r) PROVE LockInv'
  BY <1>5, ContextAssumption DEF ReconnectReleased, LockInv, TypeOK, Contexts
<1>6. ASSUME NEW r \in Reconnects, ReconnectFinish(r) PROVE LockInv'
  BY <1>6, ContextAssumption DEF ReconnectFinish, LockInv, TypeOK, Contexts
<1>7. CASE UNCHANGED vars
  BY <1>1, <1>7 DEF vars, ctxVars, ReconnectFrame
<1>8. ASSUME NEW d \in Dials, DialReturn(d) \/ ReapDone(d) PROVE LockInv'
  BY <1>2, <1>8 DEF DialReturn, ReapDone
<1>9. ASSUME NEW d \in Dials,
             \/ DialEnter(d) \/ DialReadContext(d) \/ GetSession(d)
             \/ GetSessionAgain(d) \/ Connect(d) \/ Handshake(d) \/ Insert(d)
             \/ NewSessionFails(d) \/ NewSessionReady(d) \/ Cleanup(d)
             \/ TunnelOpens(d) \/ TunnelFails(d) \/ Close(d) \/ SessionDrops(d)
             \/ Reap(d) \/ ReapSignal(d)
      PROVE LockInv'
  BY <1>1, <1>9
  DEF DialEnter, DialReadContext, GetSession, GetSessionAgain, Connect, Handshake,
      Insert, NewSessionFails, NewSessionReady, Cleanup, TunnelOpens, TunnelFails,
      Close, SessionDrops, Reap, ReapSignal, ctxVars, ReconnectFrame
<1> QED
  BY <1>3, <1>4, <1>5, <1>6, <1>7, <1>8, <1>9
  DEF Next, DialProgress, SessionStep, SessionCancelled, ReconnectStep

(* How the other calls move when the call d signals: not at all, or from   *)
(* "wait" to "woken".                                                      *)
Bystanders(d) ==
    \A e \in Dials \ {d} :
        pc'[e] = pc[e] \/ (pc[e] = "wait" /\ pc'[e] = "woken")

(* The three outcomes of the code after AGAIN. *)
LEMMA AgainStep ==
    ASSUME TypeOK, NEW d \in Dials, NEW n, Again(d, n), pc[d] \in {"get", "woken"}
    PROVE  \/ \E s \in sessions :
                 /\ refcnt[s] < MaxConn
                 /\ refcnt' = [refcnt EXCEPT ![s] = @ + 1]
                 /\ dsess' = [dsess EXCEPT ![d] = s]
                 /\ pc'[d] = "dial"
                 /\ pc' \in Signal([pc EXCEPT ![d] = "dial"])
                 /\ Bystanders(d)
                 /\ sessionsCount' = sessionsCount
           \/ /\ pc'[d] = "wait"
              /\ Spare = {}
              /\ EnoughSessions(n)
              /\ \A e \in Dials \ {d} : pc'[e] = pc[e]
              /\ UNCHANGED <<refcnt, dsess, sessionsCount>>
           \/ /\ pc'[d] = "connect"
              /\ Spare = {}
              /\ \A e \in Dials \ {d} : pc'[e] = pc[e]
              /\ sessionsCount' = sessionsCount + 1
              /\ UNCHANGED <<refcnt, dsess>>
<1>1. ASSUME NEW s \in LeastUsed,
             refcnt' = [refcnt EXCEPT ![s] = @ + 1],
             dsess' = [dsess EXCEPT ![d] = s],
             pc' \in Signal([pc EXCEPT ![d] = "dial"]),
             UNCHANGED sessionsCount
      PROVE  \E t \in sessions :
                 /\ refcnt[t] < MaxConn
                 /\ refcnt' = [refcnt EXCEPT ![t] = @ + 1]
                 /\ dsess' = [dsess EXCEPT ![d] = t]
                 /\ pc'[d] = "dial"
                 /\ pc' \in Signal([pc EXCEPT ![d] = "dial"])
                 /\ Bystanders(d)
                 /\ sessionsCount' = sessionsCount
  <2>1. s \in sessions /\ refcnt[s] < MaxConn
    BY DEF LeastUsed, Spare
  <2>2. "dial" \in DialPC /\ pc \in [Dials -> DialPC]
    BY DEF DialPC, TypeOK
  <2>3. pc'[d] = "dial" /\ Bystanders(d)
    BY <1>1, <2>2, SignalFrom DEF Bystanders
  <2> QED
    BY <1>1, <2>1, <2>3
<1>2. CASE /\ Spare = {}
           /\ EnoughSessions(n)
           /\ pc' = [pc EXCEPT ![d] = "wait"]
           /\ UNCHANGED <<refcnt, dsess, sessionsCount>>
  BY <1>2 DEF TypeOK
<1>3. CASE /\ Spare = {}
           /\ sessionsCount' = sessionsCount + 1
           /\ pc' = [pc EXCEPT ![d] = "connect"]
           /\ UNCHANGED <<refcnt, dsess>>
  BY <1>3 DEF TypeOK
<1> QED
  BY <1>1, <1>2, <1>3 DEF Again

(* Sessions live as their creator says, and nobody references a session of
   another context. *)
LEMMA SessionInvNext == Inv /\ [Next]_vars => SessionInv'
<1> SUFFICES ASSUME Inv, [Next]_vars PROVE SessionInv'
  OBVIOUS
<1> USE DEF TypeOK, Inserted
<1>a. TypeOK /\ SessionInv /\ ContextInv
  BY DEF Inv
<1>b. "dial" \in DialPC /\ "returnErr" \in DialPC /\ "closed" \in DialPC
  BY DEF DialPC
<1>1. ASSUME NEW d \in Dials, DialEnter(d) PROVE SessionInv'
  BY <1>a, <1>1 DEF DialEnter, poolVars, SessionInv
<1>2. ASSUME NEW d \in Dials, DialReadContext(d) PROVE SessionInv'
  <2>1. \A e \in Dials : dsess[e] # d
    BY <1>a, <1>2, DialsAssumption DEF DialReadContext, SessionInv
  <2>2. dsess[d] = Nil /\ sstate[d] = "none"
    BY <1>a, <1>2 DEF DialReadContext, SessionInv
  <2>3. \A e \in Dials \ {d} : dctx'[e] = dctx[e] /\ pc'[e] = pc[e]
    BY <1>a, <1>2 DEF DialReadContext
  <2>4. /\ pc'[d] \in {"get", "returnErr"}
        /\ UNCHANGED <<dsess, sstate, sessions>>
    BY <1>a, <1>2 DEF DialReadContext, poolVars
  <2> QED
    BY <1>a, <2>1, <2>2, <2>3, <2>4 DEF SessionInv
<1>3. ASSUME NEW d \in Dials, NEW n, Again(d, n), pc[d] \in {"get", "woken"},
             UNCHANGED <<dctx, sstate, sessions>>
      PROVE  SessionInv'
  <2>1. \A s \in sessions : dctx[s] = dctx[d]
    BY <1>a, <1>3 DEF ContextInv, Active, Using, InDial, Waiters
  <2>2. \A s \in sessions : s \in Dials /\ pc[s] \in Inserted /\ s # Nil
    BY <1>a, DialsAssumption DEF SessionInv
  <2>3. sstate[d] = "none"
    BY <1>a, <1>3 DEF SessionInv
  <2>4. CASE \E s \in sessions : /\ dsess' = [dsess EXCEPT ![d] = s]
                                 /\ pc'[d] = "dial" /\ Bystanders(d)
    <3>1. PICK s \in sessions : /\ dsess' = [dsess EXCEPT ![d] = s]
                                /\ pc'[d] = "dial" /\ Bystanders(d)
      BY <2>4
    <3> QED
      BY <1>a, <1>3, <2>1, <2>2, <2>3, <3>1 DEF SessionInv, Bystanders
  <2>5. CASE /\ pc'[d] \in {"wait", "connect"}
             /\ \A e \in Dials \ {d} : pc'[e] = pc[e]
             /\ UNCHANGED dsess
    BY <1>a, <1>3, <2>3, <2>5 DEF SessionInv
  <2> QED
    BY <1>a, <1>3, <2>4, <2>5, AgainStep
<1>4. ASSUME NEW d \in Dials, GetSession(d) \/ GetSessionAgain(d) PROVE SessionInv'
  BY <1>3, <1>4 DEF GetSession, GetSessionAgain
<1>5. ASSUME NEW d \in Dials,
             Connect(d) \/ NewSessionFails(d) \/ TunnelOpens(d) \/ DialReturn(d)
      PROVE  SessionInv'
  <2>1. /\ pc'[d] \in {"handshake", "cleanup", "returnConn", "open", "failed"}
        /\ pc'[d] = "handshake" => pc[d] = "connect"
        /\ pc'[d] = "returnConn" => pc[d] = "dial"
        /\ pc'[d] = "open" => pc[d] = "returnConn"
        /\ pc[d] \in Inserted => pc'[d] \in Inserted
        /\ pc[d] # "insert"
        /\ \A e \in Dials \ {d} : pc'[e] = pc[e]
        /\ UNCHANGED <<dctx, dsess, sstate, sessions>>
    BY <1>a, <1>5 DEF Connect, NewSessionFails, TunnelOpens, DialReturn, poolVars
  <2> QED
    BY <1>a, <2>1 DEF SessionInv
<1>6. ASSUME NEW d \in Dials, Handshake(d) PROVE SessionInv'
  <2>1. d \notin sessions /\ \A e \in Dials : dsess[e] # d
    BY <1>a, <1>6, DialsAssumption DEF Handshake, SessionInv
  <2> QED
    BY <1>a, <1>6, <2>1 DEF Handshake, SessionInv
<1>7. ASSUME NEW d \in Dials, Insert(d) PROVE SessionInv'
  <2>1. d # Nil /\ \A e \in Dials : dsess[e] # d
    BY <1>a, <1>7, DialsAssumption DEF Insert, SessionInv
  <2> QED
    BY <1>a, <1>7, <2>1 DEF Insert, SessionInv
<1>8. ASSUME NEW d \in Dials,
             NewSessionReady(d) \/ Cleanup(d) \/ TunnelFails(d) \/ Close(d)
      PROVE  SessionInv'
  <2>1. /\ pc'[d] \in {"dial", "returnErr", "closed"}
        /\ pc'[d] = "dial" => pc[d] = "inserted"
        /\ pc[d] \in {"inserted", "cleanup", "dial", "open"}
        /\ Bystanders(d)
    <3>1. CASE NewSessionReady(d)
      BY <1>a, <1>b, <3>1, SignalFrom DEF NewSessionReady, Bystanders
    <3>2. CASE Cleanup(d) \/ TunnelFails(d) \/ Close(d)
      <4>1. pc'[d] \in {"returnErr", "closed"} /\ Bystanders(d)
        BY <1>a, <1>b, <3>2, SignalFrom
        DEF Cleanup, TunnelFails, Close, Unref, Bystanders
      <4>2. pc[d] \in {"cleanup", "dial", "open"}
        BY <3>2 DEF Cleanup, TunnelFails, Close
      <4> QED
        BY <4>1, <4>2
    <3> QED
      BY <1>8, <3>1, <3>2
  <2>2. UNCHANGED <<dctx, dsess, sstate, sessions>>
    BY <1>8 DEF NewSessionReady, Cleanup, TunnelFails, Close, poolVars
  <2> QED
    BY <1>a, <2>1, <2>2 DEF SessionInv, Bystanders
<1>9. ASSUME NEW s \in Dials, SessionDrops(s) PROVE SessionInv'
  BY <1>a, <1>9 DEF SessionDrops, dialVars, SessionInv
<1>10. ASSUME NEW s \in Dials, Reap(s) PROVE SessionInv'
  BY <1>a, <1>10 DEF Reap, dialVars, SessionInv
<1>11. ASSUME NEW s \in Dials, ReapSignal(s) PROVE SessionInv'
  <2>1. \A e \in Dials : pc'[e] = pc[e] \/ (pc[e] = "wait" /\ pc'[e] = "woken")
    BY <1>a, <1>11, SignalStep DEF ReapSignal
  <2>2. s \notin sessions
    BY <1>a, <1>11 DEF ReapSignal, SessionInv
  <2> QED
    BY <1>a, <1>11, <2>1, <2>2 DEF ReapSignal, SessionInv
<1>12. ASSUME NEW s \in Dials, ReapDone(s) PROVE SessionInv'
  <2>1. s \notin sessions
    BY <1>a, <1>12 DEF ReapDone, SessionInv
  <2> QED
    BY <1>a, <1>12, <2>1 DEF ReapDone, dialVars, SessionInv
<1>13. ASSUME NEW r \in Reconnects, ReconnectStep(r) PROVE SessionInv'
  <2>1. UNCHANGED <<dialVars, poolVars>>
    BY <1>13 DEF ReconnectStep, ReconnectEnter, ReconnectWait, ReconnectReleased,
                 ReconnectFinish
  <2> QED
    BY <1>a, <2>1 DEF dialVars, poolVars, SessionInv
<1>14. CASE UNCHANGED vars
  BY <1>a, <1>14 DEF vars, dialVars, poolVars, SessionInv
<1> QED
  BY <1>1, <1>2, <1>4, <1>5, <1>6, <1>7, <1>8, <1>9, <1>10, <1>11, <1>12, <1>13, <1>14
  DEF Next, DialProgress, SessionStep, SessionCancelled

(* Sets of calls and of sessions are finite, so that they can be counted. *)
LEMMA FiniteParts ==
    ASSUME NEW S \in SUBSET Dials
    PROVE  IsFiniteSet(S) /\ Cardinality(S) \in Nat
  BY DialsAssumption, FS_Subset, FS_CardinalityType

(* Counting a set that gains or loses one element. *)
LEMMA CountAdd ==
    ASSUME NEW S \in SUBSET Dials, NEW d \in Dials, d \notin S
    PROVE  Cardinality(S \cup {d}) = Cardinality(S) + 1
  BY FiniteParts, FS_AddElement

(* The same for an element that leaves. *)
LEMMA CountRemove ==
    ASSUME NEW S \in SUBSET Dials, NEW d \in S
    PROVE  Cardinality(S \ {d}) = Cardinality(S) - 1
  BY FiniteParts, FS_RemoveElement

(* Every Add of disconnectWait has its Done: the counter stays exact. *)
LEMMA WaitGroupNext == Inv /\ [Next]_vars => WaitGroupExact'
<1> SUFFICES ASSUME Inv, [Next]_vars PROVE WaitGroupExact'
  OBVIOUS
<1> USE DEF TypeOK
<1>a. TypeOK /\ SessionInv /\ WaitGroupExact
  BY DEF Inv
<1>b. "dial" \in DialPC /\ "returnErr" \in DialPC /\ "closed" \in DialPC
  BY DEF DialPC
<1>c. /\ InDial \in SUBSET Dials /\ Waiters \in SUBSET Dials
      /\ Cardinality(InDial) \in Nat /\ Cardinality(Waiters) \in Nat
  BY <1>a, FiniteParts DEF InDial, Waiters
<1>d. ASSUME InDial' = InDial, Waiters' = Waiters, wg' = wg
      PROVE  WaitGroupExact'
  BY <1>a, <1>d DEF WaitGroupExact
<1>1. ASSUME NEW d \in Dials, DialEnter(d) PROVE WaitGroupExact'
  <2>1. d \notin InDial /\ InDial' = InDial \cup {d}
    BY <1>a, <1>1 DEF DialEnter, InDial
  <2>2. Waiters' = Waiters
    BY <1>1 DEF DialEnter, poolVars, Waiters
  <2>3. wg' = wg + 1
    BY <1>1 DEF DialEnter
  <2> QED
    BY <1>a, <1>c, <2>1, <2>2, <2>3, CountAdd DEF WaitGroupExact
<1>2. ASSUME NEW d \in Dials,
             \/ DialReadContext(d) \/ Connect(d) \/ NewSessionFails(d)
             \/ TunnelOpens(d)
      PROVE  WaitGroupExact'
  <2>1. InDial' = InDial
    BY <1>a, <1>2
    DEF DialReadContext, Connect, NewSessionFails, TunnelOpens, InDial
  <2>2. Waiters' = Waiters /\ wg' = wg
    BY <1>2
    DEF DialReadContext, Connect, NewSessionFails, TunnelOpens, poolVars, Waiters
  <2> QED
    BY <1>d, <2>1, <2>2
<1>3. ASSUME NEW d \in Dials, GetSession(d) \/ GetSessionAgain(d)
      PROVE  WaitGroupExact'
  <2>1. PICK n : Again(d, n) /\ pc[d] \in {"get", "woken"}
    BY <1>3 DEF GetSession, GetSessionAgain
  <2>2. pc'[d] \in {"dial", "wait", "connect"} /\ Bystanders(d)
    BY <1>a, <2>1, AgainStep DEF Bystanders
  <2>3. InDial' = InDial
    BY <1>a, <2>1, <2>2 DEF InDial, Bystanders
  <2>4. Waiters' = Waiters /\ wg' = wg
    BY <1>3 DEF GetSession, GetSessionAgain, Waiters
  <2> QED
    BY <1>d, <2>3, <2>4
<1>4. ASSUME NEW d \in Dials, Handshake(d) PROVE WaitGroupExact'
  <2>1. InDial' = InDial
    BY <1>a, <1>4 DEF Handshake, InDial
  <2>2. Waiters' = Waiters
    BY <1>a, <1>4 DEF Handshake, Waiters, SessionInv
  <2> QED
    BY <1>d, <1>4, <2>1, <2>2 DEF Handshake
<1>5. ASSUME NEW d \in Dials, Insert(d) PROVE WaitGroupExact'
  <2>1. InDial' = InDial
    BY <1>a, <1>5 DEF Insert, InDial
  <2>2. d \notin Waiters /\ Waiters' = Waiters \cup {d}
    BY <1>a, <1>5 DEF Insert, Waiters, SessionInv, Inserted
  <2>3. wg' = wg + 1
    BY <1>5 DEF Insert
  <2> QED
    BY <1>a, <1>c, <2>1, <2>2, <2>3, CountAdd DEF WaitGroupExact
<1>6. ASSUME NEW d \in Dials, NewSessionReady(d) \/ Cleanup(d) \/ TunnelFails(d)
      PROVE  WaitGroupExact'
  <2>1. pc'[d] \in {"dial", "returnErr"} /\ Bystanders(d)
    BY <1>a, <1>b, <1>6, SignalFrom
    DEF NewSessionReady, Cleanup, TunnelFails, Unref, Bystanders
  <2>2. InDial' = InDial
    BY <1>a, <1>6, <2>1
    DEF NewSessionReady, Cleanup, TunnelFails, InDial, Bystanders
  <2>3. Waiters' = Waiters /\ wg' = wg
    BY <1>6 DEF NewSessionReady, Cleanup, TunnelFails, poolVars, Waiters
  <2> QED
    BY <1>d, <2>2, <2>3
<1>7. ASSUME NEW d \in Dials, Close(d) PROVE WaitGroupExact'
  <2>1. pc'[d] = "closed" /\ Bystanders(d)
    BY <1>a, <1>b, <1>7, SignalFrom DEF Close, Unref, Bystanders
  <2>2. InDial' = InDial
    BY <1>a, <1>7, <2>1 DEF Close, InDial, Bystanders
  <2>3. Waiters' = Waiters /\ wg' = wg
    BY <1>7 DEF Close, Waiters
  <2> QED
    BY <1>d, <2>2, <2>3
<1>8. ASSUME NEW d \in Dials, DialReturn(d) PROVE WaitGroupExact'
  <2>1. d \in InDial /\ InDial' = InDial \ {d}
    BY <1>a, <1>8 DEF DialReturn, InDial
  <2>2. Waiters' = Waiters
    BY <1>8 DEF DialReturn, poolVars, Waiters
  <2>3. wg' = wg - 1
    BY <1>8 DEF DialReturn, WaitGroupDone
  <2> QED
    BY <1>a, <1>c, <2>1, <2>2, <2>3, CountRemove DEF WaitGroupExact
<1>9. ASSUME NEW s \in Dials, SessionDrops(s) \/ Reap(s) PROVE WaitGroupExact'
  <2>1. InDial' = InDial
    BY <1>9 DEF SessionDrops, Reap, dialVars, InDial
  <2>2. Waiters' = Waiters
    BY <1>a, <1>9 DEF SessionDrops, Reap, Waiters, SessionInv
  <2> QED
    BY <1>d, <1>9, <2>1, <2>2 DEF SessionDrops, Reap
<1>10. ASSUME NEW s \in Dials, ReapSignal(s) PROVE WaitGroupExact'
  <2>1. \A e \in Dials : pc'[e] = pc[e] \/ (pc[e] = "wait" /\ pc'[e] = "woken")
    BY <1>a, <1>10, SignalStep DEF ReapSignal
  <2>2. InDial' = InDial
    BY <2>1 DEF InDial
  <2>3. Waiters' = Waiters
    BY <1>a, <1>10 DEF ReapSignal, Waiters
  <2> QED
    BY <1>d, <1>10, <2>2, <2>3 DEF ReapSignal
<1>11. ASSUME NEW s \in Dials, ReapDone(s) PROVE WaitGroupExact'
  <2>1. InDial' = InDial
    BY <1>11 DEF ReapDone, dialVars, InDial
  <2>2. s \in Waiters /\ Waiters' = Waiters \ {s}
    BY <1>a, <1>11 DEF ReapDone, Waiters, SessionInv
  <2>3. wg' = wg - 1
    BY <1>11 DEF ReapDone, WaitGroupDone
  <2> QED
    BY <1>a, <1>c, <2>1, <2>2, <2>3, CountRemove DEF WaitGroupExact
<1>12. ASSUME NEW r \in Reconnects, ReconnectStep(r) PROVE WaitGroupExact'
  <2>1. UNCHANGED <<dialVars, poolVars, wg>>
    BY <1>12 DEF ReconnectStep, ReconnectEnter, ReconnectWait, ReconnectReleased,
                 ReconnectFinish
  <2> QED
    BY <1>d, <2>1 DEF dialVars, poolVars, InDial, Waiters
<1>13. CASE UNCHANGED vars
  BY <1>d, <1>13 DEF vars, dialVars, poolVars, InDial, Waiters
<1> QED
  BY <1>1, <1>2, <1>3, <1>4, <1>5, <1>6, <1>7, <1>8, <1>9, <1>10, <1>11, <1>12, <1>13
  DEF Next, DialProgress, SessionStep, SessionCancelled

(* A counter of zero means that nothing is active. *)
LEMMA NobodyActive ==
    ASSUME TypeOK, WaitGroupExact, wg = 0
    PROVE  Active = {}
<1>1. /\ IsFiniteSet(InDial) /\ Cardinality(InDial) \in Nat
      /\ IsFiniteSet(Waiters) /\ Cardinality(Waiters) \in Nat
  BY FiniteParts DEF InDial, Waiters, TypeOK
<1>2. Cardinality(InDial) = 0 /\ Cardinality(Waiters) = 0
  BY <1>1 DEF WaitGroupExact
<1>3. InDial = {} /\ Waiters = {}
  BY <1>1, <1>2, FS_EmptySet
<1> QED
  BY <1>3 DEF Active, Using

(* The same in the next state. *)
LEMMA NobodyActiveNext ==
    ASSUME TypeOK', WaitGroupExact', wg' = 0
    PROVE  Active' = {}
<1>1. /\ IsFiniteSet(InDial') /\ Cardinality(InDial') \in Nat
      /\ IsFiniteSet(Waiters') /\ Cardinality(Waiters') \in Nat
  BY FiniteParts DEF InDial, Waiters, TypeOK
<1>2. Cardinality(InDial') = 0 /\ Cardinality(Waiters') = 0
  BY <1>1 DEF WaitGroupExact
<1>3. InDial' = {} /\ Waiters' = {}
  BY <1>1, <1>2, FS_EmptySet
<1> QED
  BY <1>3 DEF Active, Using

(* Everything active works for the one context that was current when it
   started, and a Reconnect that has waited finds nothing active. *)
LEMMA ContextInvNext == Inv /\ [Next]_vars => ContextInv'
<1> SUFFICES ASSUME Inv, [Next]_vars PROVE ContextInv'
  OBVIOUS
<1> USE DEF TypeOK
<1>a. TypeOK /\ LockInv /\ SessionInv /\ WaitGroupExact /\ ContextInv
  BY DEF Inv
<1>b. "dial" \in DialPC /\ "returnErr" \in DialPC /\ "closed" \in DialPC
  BY DEF DialPC
<1>c. TypeOK' /\ WaitGroupExact'
  BY <1>a, TypeNext, WaitGroupNext
<1>d. ASSUME Active' \subseteq Active,
             UNCHANGED <<dctx, ctx, ctxOk, lock, rpc>>
      PROVE  ContextInv'
  BY <1>a, <1>d DEF ContextInv
<1>e. ASSUME Using' \subseteq Using, Waiters' = Waiters
      PROVE  Active' \subseteq Active
  BY <1>e DEF Active
<1>f. ASSUME Active' \subseteq Active, WaitGroupDone, UNCHANGED <<dctx, ctxVars>>
      PROVE  ContextInv'
  <2>1. ASSUME NEW r \in Reconnects, rpc'[r] \in {"released", "newctx"}
        PROVE  Active' = {}
    <3>1. CASE wg = 1
      <4>1. wg' = 0
        BY <1>f, <3>1 DEF WaitGroupDone
      <4> QED
        BY <1>c, <4>1, NobodyActiveNext
    <3>2. CASE wg # 1
      <4>1. rpc'[r] = rpc[r]
        BY <1>a, <1>f, <3>2 DEF WaitGroupDone
      <4> QED
        BY <1>a, <1>f, <2>1, <4>1 DEF ContextInv
    <3> QED
      BY <3>1, <3>2
  <2> QED
    BY <1>a, <1>f, <2>1 DEF ContextInv, ctxVars
<1>1. ASSUME NEW d \in Dials, DialEnter(d) PROVE ContextInv'
  <2>1. Using' \subseteq Using
    BY <1>a, <1>1 DEF DialEnter, Using, InDial
  <2>2. Waiters' = Waiters
    BY <1>1 DEF DialEnter, poolVars, Waiters
  <2> QED
    BY <1>d, <1>e, <1>1, <2>1, <2>2 DEF DialEnter, ctxVars
<1>2. ASSUME NEW d \in Dials, DialReadContext(d) PROVE ContextInv'
  <2>1. d \notin Active
    BY <1>a, <1>2 DEF DialReadContext, Active, Using, Waiters, SessionInv
  <2>2. /\ \A e \in Dials \ {d} : dctx'[e] = dctx[e] /\ pc'[e] = pc[e]
        /\ dctx'[d] = ctx
        /\ UNCHANGED <<ctx, ctxOk, lock, rpc, Waiters>>
    BY <1>a, <1>2 DEF DialReadContext, ctxVars, poolVars, Waiters
  <2>3. Active \in SUBSET Dials
    BY <1>a DEF Active, Using, InDial, Waiters
  <2>4. CASE ctx # Nil /\ ctxOk[ctx]
    <3>1. Active' = Active \cup {d}
      BY <1>a, <1>2, <2>2, <2>4 DEF DialReadContext, Active, Using, InDial
    <3>2. ctx \in Contexts
      BY <1>a, <2>4
    <3>3. \A x \in Active' : dctx'[x] = ctx
      BY <1>a, <2>1, <2>2, <2>3, <2>4, <3>1 DEF ContextInv
    <3>4. \A r \in Reconnects : rpc[r] \notin {"released", "newctx"}
      BY <1>a, <1>2, ContextAssumption DEF DialReadContext, LockInv, Contexts
    <3> QED
      BY <2>2, <2>4, <3>2, <3>3, <3>4 DEF ContextInv
  <2>5. CASE ~(ctx # Nil /\ ctxOk[ctx])
    <3>1. Active' = Active
      BY <1>a, <1>2, <2>2, <2>5 DEF DialReadContext, Active, Using, InDial
    <3>2. \A x \in Active : dctx'[x] = dctx[x]
      BY <2>1, <2>2, <2>3
    <3> QED
      BY <1>a, <2>2, <3>1, <3>2 DEF ContextInv
  <2> QED
    BY <2>4, <2>5
<1>3. ASSUME NEW d \in Dials, GetSession(d) \/ GetSessionAgain(d) PROVE ContextInv'
  <2>1. PICK n : Again(d, n) /\ pc[d] \in {"get", "woken"}
    BY <1>3 DEF GetSession, GetSessionAgain
  <2>2. pc'[d] \in {"dial", "wait", "connect"} /\ Bystanders(d)
    BY <1>a, <2>1, AgainStep DEF Bystanders
  <2>3. Using' \subseteq Using
    BY <1>a, <2>1, <2>2 DEF Using, InDial, Bystanders
  <2>4. Waiters' = Waiters /\ UNCHANGED <<dctx, ctx, ctxOk, lock, rpc>>
    BY <1>3 DEF GetSession, GetSessionAgain, Waiters, ctxVars
  <2> QED
    BY <1>d, <1>e, <2>3, <2>4
<1>4. ASSUME NEW d \in Dials, Connect(d) \/ NewSessionFails(d) \/ TunnelOpens(d)
      PROVE  ContextInv'
  <2>1. Using' \subseteq Using
    BY <1>a, <1>4 DEF Connect, NewSessionFails, TunnelOpens, Using, InDial
  <2>2. Waiters' = Waiters /\ UNCHANGED <<dctx, ctx, ctxOk, lock, rpc>>
    BY <1>4 DEF Connect, NewSessionFails, TunnelOpens, poolVars, ctxVars, Waiters
  <2> QED
    BY <1>d, <1>e, <2>1, <2>2
<1>5. ASSUME NEW d \in Dials, Handshake(d) PROVE ContextInv'
  <2>1. Using' \subseteq Using
    BY <1>a, <1>5 DEF Handshake, Using, InDial
  <2>2. Waiters' = Waiters
    BY <1>a, <1>5 DEF Handshake, Waiters, SessionInv
  <2> QED
    BY <1>d, <1>e, <1>5, <2>1, <2>2 DEF Handshake, ctxVars
<1>6. ASSUME NEW d \in Dials, Insert(d) PROVE ContextInv'
  <2>1. d \in Using /\ Using' \subseteq Using
    BY <1>a, <1>6 DEF Insert, Using, InDial
  <2>2. Waiters' = Waiters \cup {d}
    BY <1>6 DEF Insert, Waiters
  <2>3. Active' \subseteq Active
    BY <2>1, <2>2 DEF Active
  <2> QED
    BY <1>d, <1>6, <2>3 DEF Insert, ctxVars
<1>7. ASSUME NEW d \in Dials,
             NewSessionReady(d) \/ Cleanup(d) \/ TunnelFails(d) \/ Close(d)
      PROVE  ContextInv'
  <2>1. /\ pc'[d] \in {"dial", "returnErr", "closed"}
        /\ pc'[d] = "dial" => pc[d] = "inserted"
        /\ Bystanders(d)
    <3>1. CASE NewSessionReady(d)
      BY <1>a, <1>b, <3>1, SignalFrom DEF NewSessionReady, Bystanders
    <3>2. CASE Cleanup(d) \/ TunnelFails(d) \/ Close(d)
      <4>1. pc'[d] \in {"returnErr", "closed"} /\ Bystanders(d)
        BY <1>a, <1>b, <3>2, SignalFrom
        DEF Cleanup, TunnelFails, Close, Unref, Bystanders
      <4>2. pc[d] \in {"cleanup", "dial", "open"}
        BY <3>2 DEF Cleanup, TunnelFails, Close
      <4> QED
        BY <4>1, <4>2
    <3> QED
      BY <1>7, <3>1, <3>2
  <2>2. Using' \subseteq Using
    BY <1>a, <2>1 DEF Using, InDial, Bystanders
  <2>3. Waiters' = Waiters /\ UNCHANGED <<dctx, ctx, ctxOk, lock, rpc>>
    BY <1>7 DEF NewSessionReady, Cleanup, TunnelFails, Close, poolVars, ctxVars, Waiters
  <2> QED
    BY <1>d, <1>e, <2>2, <2>3
<1>8. ASSUME NEW d \in Dials, DialReturn(d) PROVE ContextInv'
  <2>1. Using' \subseteq Using
    BY <1>a, <1>8 DEF DialReturn, Using, InDial
  <2>2. Waiters' = Waiters
    BY <1>8 DEF DialReturn, poolVars, Waiters
  <2> QED
    BY <1>e, <1>f, <1>8, <2>1, <2>2 DEF DialReturn
<1>9. ASSUME NEW s \in Dials, SessionDrops(s) \/ Reap(s) PROVE ContextInv'
  <2>1. Using' = Using
    BY <1>9 DEF SessionDrops, Reap, dialVars, Using, InDial
  <2>2. Waiters' = Waiters
    BY <1>a, <1>9 DEF SessionDrops, Reap, Waiters, SessionInv
  <2> QED
    BY <1>d, <1>e, <1>9, <2>1, <2>2 DEF SessionDrops, Reap, dialVars, ctxVars
<1>10. ASSUME NEW s \in Dials, ReapSignal(s) PROVE ContextInv'
  <2>1. \A e \in Dials : pc'[e] = pc[e] \/ (pc[e] = "wait" /\ pc'[e] = "woken")
    BY <1>a, <1>10, SignalStep DEF ReapSignal
  <2>2. Using' \subseteq Using
    BY <2>1 DEF Using, InDial
  <2>3. Waiters' = Waiters
    BY <1>a, <1>10 DEF ReapSignal, Waiters
  <2> QED
    BY <1>d, <1>e, <1>10, <2>2, <2>3 DEF ReapSignal, ctxVars
<1>11. ASSUME NEW s \in Dials, ReapDone(s) PROVE ContextInv'
  <2>1. Using' = Using
    BY <1>11 DEF ReapDone, dialVars, Using, InDial
  <2>2. Waiters' \subseteq Waiters
    BY <1>a, <1>11 DEF ReapDone, Waiters
  <2>3. Active' \subseteq Active
    BY <2>1, <2>2 DEF Active
  <2> QED
    BY <1>f, <1>11, <2>3 DEF ReapDone, dialVars
<1>12. ASSUME NEW r \in Reconnects, ReconnectStep(r) PROVE ContextInv'
  <2>1. /\ Active' = Active
        /\ UNCHANGED dctx
    BY <1>12
    DEF ReconnectStep, ReconnectEnter, ReconnectWait, ReconnectReleased,
        ReconnectFinish, dialVars, poolVars, Active, Using, InDial, Waiters
  <2>2. r # Nil
    BY ContextAssumption DEF Contexts
  <2>3. CASE ReconnectEnter(r)
    <3>1. CASE rpc' = [rpc EXCEPT ![r] = "done"] /\ UNCHANGED ctxVars
      BY <1>a, <2>1, <3>1 DEF ContextInv, ctxVars
    <3>2. CASE /\ ctx # Nil /\ ctxOk[ctx]
               /\ lock' = r /\ ctx' = Nil /\ UNCHANGED ctxOk
               /\ rpc' = [rpc EXCEPT ![r] = "waiting"]
      BY <1>a, <2>1, <2>2, <3>2 DEF ContextInv
    <3>3. CASE /\ ~(ctx # Nil /\ ctxOk[ctx])
               /\ lock' = r /\ UNCHANGED <<ctxOk, ctx>>
               /\ rpc' = [rpc EXCEPT ![r] = "newctx"]
      <4>1. Active = {}
        BY <1>a, <2>3, <3>3 DEF ReconnectEnter, ContextInv
      <4> QED
        BY <2>1, <4>1 DEF ContextInv
    <3> QED
      BY <2>3, <3>1, <3>2, <3>3 DEF ReconnectEnter
  <2>4. CASE ReconnectWait(r)
    <3>1. CASE wg = 0
      <4>1. Active = {}
        BY <1>a, <3>1, NobodyActive
      <4> QED
        BY <2>1, <4>1 DEF ContextInv
    <3>2. CASE wg # 0
      BY <1>a, <2>1, <2>4, <3>2 DEF ReconnectWait, ContextInv, ctxVars
    <3> QED
      BY <3>1, <3>2
  <2>5. CASE ReconnectReleased(r) \/ ReconnectFinish(r)
    <3>1. Active = {}
      BY <1>a, <2>5 DEF ReconnectReleased, ReconnectFinish, ContextInv
    <3> QED
      BY <2>1, <3>1 DEF ContextInv
  <2> QED
    BY <1>12, <2>3, <2>4, <2>5 DEF ReconnectStep
<1>13. CASE UNCHANGED vars
  <2>1. Active' = Active
    BY <1>13 DEF vars, dialVars, poolVars, Active, Using, InDial, Waiters
  <2> QED
    BY <1>d, <1>13, <2>1 DEF vars, dialVars, ctxVars
<1> QED
  BY <1>1, <1>2, <1>3, <1>4, <1>5, <1>6, <1>7, <1>8, <1>9, <1>10, <1>11, <1>12, <1>13
  DEF Next, DialProgress, SessionStep, SessionCancelled

(* The inductive invariant of the transport holds, whatever the number of
   dials and reconnects and whatever their order. *)
THEOREM InvHolds == Spec => []Inv
<1>1. Inv /\ [Next]_vars => Inv'
  BY TypeNext, LockInvNext, SessionInvNext, WaitGroupNext, ContextInvNext DEF Inv
<1> QED
  BY InvInit, <1>1, PTL DEF Spec

-----------------------------------------------------------------------------
(***************************************************************************)
(* What follows from the invariant.                                        *)
(***************************************************************************)

(* Nothing is ever tunneled through a session of another context: neither  *)
(* by a Dial that runs across a Reconnect, nor after it.                   *)
THEOREM ContextIsolated == Spec => []ContextIsolation
<1>1. Inv => ContextIsolation
  <2> SUFFICES ASSUME Inv PROVE ContextIsolation
    OBVIOUS
  <2>1. \A d \in Using : dsess[d] # Nil => dctx[dsess[d]] = dctx[d]
    BY DEF Inv, SessionInv, Using, InDial
  <2> QED
    BY <2>1 DEF Inv, ContextInv, ContextIsolation
<1> QED
  BY <1>1, InvHolds, PTL

(* The state shown to the user says "not configured" exactly when the      *)
(* current context is not usable, unless a Reconnect is at work.           *)
LEMMA ConnStateNext == Inv /\ ConnStateFollowsConfig /\ [Next]_vars
                       => ConnStateFollowsConfig'
<1> SUFFICES ASSUME Inv, ConnStateFollowsConfig, [Next]_vars
             PROVE  ConnStateFollowsConfig'
  OBVIOUS
<1>a. TypeOK /\ SessionInv /\ ContextInv
  BY DEF Inv
<1>1. CASE UNCHANGED <<lock, ctx, ctxOk, connState>>
  BY <1>1 DEF ConnStateFollowsConfig
<1>2. ASSUME UNCHANGED <<lock, ctx, ctxOk>>, NEW x \in Active,
             connState' \in {"trying", "established"}
      PROVE  ConnStateFollowsConfig'
  BY <1>a, <1>2 DEF ContextInv, ConnStateFollowsConfig
<1>3. ASSUME NEW d \in Dials, Handshake(d) PROVE ConnStateFollowsConfig'
  <2>1. d \in Active
    BY <1>3 DEF Handshake, Active, Using, InDial
  <2> QED
    BY <1>2, <1>3, <2>1 DEF Handshake, ctxVars
<1>4. ASSUME NEW s \in Dials, Reap(s) PROVE ConnStateFollowsConfig'
  <2>1. s \in Active
    BY <1>4 DEF Reap, Active, Waiters
  <2>2. CASE connState' = "trying"
    BY <1>2, <1>4, <2>1, <2>2 DEF Reap, ctxVars
  <2>3. CASE connState' = connState
    BY <1>1, <1>4, <2>3 DEF Reap, ctxVars
  <2> QED
    BY <1>4, <2>2, <2>3 DEF Reap
<1>5. ASSUME NEW r \in Reconnects, ReconnectStep(r) PROVE ConnStateFollowsConfig'
  <2>1. r # Nil /\ r \in Contexts
    BY ContextAssumption DEF Contexts
  <2>2. CASE ReconnectEnter(r)
    BY <2>1, <2>2 DEF ReconnectEnter, ctxVars, ConnStateFollowsConfig
  <2>3. CASE ReconnectWait(r)
    BY <1>1, <2>3 DEF ReconnectWait, ctxVars
  <2>4. CASE ReconnectReleased(r)
    BY <2>1, <2>4 DEF ReconnectReleased, ConnStateFollowsConfig, Inv, LockInv
  <2>5. CASE ReconnectFinish(r)
    <3>1. PICK ok \in OkOutcomes[param[r]] :
             ctxOk' = [ctxOk EXCEPT ![r] = ok] /\ connState' = StateFor(ok)
      BY <2>5 DEF ReconnectFinish
    <3>2. ctx' = r /\ ctxOk'[r] = ok
      BY <1>a, <2>1, <2>5, <3>1 DEF ReconnectFinish, TypeOK
    <3> QED
      BY <3>1, <3>2 DEF StateFor, ConnStateFollowsConfig
  <2> QED
    BY <1>5, <2>2, <2>3, <2>4, <2>5 DEF ReconnectStep
<1>6. CASE UNCHANGED vars
  BY <1>1, <1>6 DEF vars, ctxVars
<1>7. ASSUME NEW d \in Dials,
             \/ DialEnter(d) \/ DialReadContext(d) \/ GetSession(d)
             \/ GetSessionAgain(d) \/ Connect(d) \/ Insert(d)
             \/ NewSessionFails(d) \/ NewSessionReady(d) \/ Cleanup(d)
             \/ TunnelOpens(d) \/ TunnelFails(d) \/ DialReturn(d) \/ Close(d)
             \/ SessionDrops(d) \/ ReapSignal(d) \/ ReapDone(d)
      PROVE  ConnStateFollowsConfig'
  BY <1>1, <1>7
  DEF DialEnter, DialReadContext, GetSession, GetSessionAgain, Connect, Insert,
      NewSessionFails, NewSessionReady, Cleanup, TunnelOpens, TunnelFails,
      DialReturn, Close, SessionDrops, ReapSignal, ReapDone, ctxVars
<1> QED
  BY <1>3, <1>4, <1>5, <1>6, <1>7
  DEF Next, DialProgress, SessionStep, SessionCancelled, ReconnectStep

(* Hence the state shown to the user never contradicts the configuration. *)
THEOREM ConnStateCorrect == Spec => []ConnStateFollowsConfig
<1>1. Init => ConnStateFollowsConfig
  BY DEF Init, ConnStateFollowsConfig, StateFor, Contexts
<1> QED
  BY <1>1, ConnStateNext, InvHolds, PTL DEF Spec
=============================================================================
