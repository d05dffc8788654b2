--------------------------- MODULE SSHPoolProofs ---------------------------
(***************************************************************************)
(* Machine-checked proofs about the session pool of SSHTransport: its      *)
(* counters, the limit of connections per session, and the absence of lost *)
(* wake-ups, for all values of the constants.                              *)
(***************************************************************************)
EXTENDS SSHTransportProofs

(* The sets that are counted are sets of calls. *)
LEMMA CountedTypes ==
    /\ Counted \in SUBSET Dials /\ Cardinality(Counted) \in Nat
    /\ Planning \in SUBSET Dials /\ Cardinality(Planning) \in Nat
    /\ \A s : Holders(s) \in SUBSET Dials /\ Cardinality(Holders(s)) \in Nat
<1>1. Counted \in SUBSET Dials /\ Planning \in SUBSET Dials
  BY DEF Counted, Planning
<1>2. \A s : Holders(s) \in SUBSET Dials
  BY DEF Holders
<1> QED
  BY <1>1, <1>2, FiniteParts

(* Every step keeps the counters of the pool exact. *)
LEMMA AccountingNext == Inv /\ Accounting /\ [Next]_vars => Accounting'
<1> SUFFICES ASSUME Inv, Accounting, [Next]_vars PROVE Accounting'
  OBVIOUS
<1>a. TypeOK /\ SessionInv
  BY DEF Inv
<1>b. "dial" \in DialPC /\ "returnErr" \in DialPC /\ "closed" \in DialPC
  BY DEF DialPC
<1>c. sessions \in SUBSET Dials /\ Cardinality(sessions) \in Nat
  BY <1>a, FiniteParts DEF TypeOK
<1>d. /\ connCount = Cardinality(Counted)
      /\ sessionsCount = Cardinality(sessions) + Cardinality(Planning)
      /\ \A s \in Dials : refcnt[s] = Cardinality(Holders(s))
  BY DEF Accounting
<1>e. ASSUME UNCHANGED <<Counted, Planning, sessions, refcnt, connCount, sessionsCount>>,
             \A s \in Dials : Holders(s)' = Holders(s)
      PROVE  Accounting'
  BY <1>d, <1>e DEF Accounting
<1>1. ASSUME NEW d \in Dials,
             \/ DialEnter(d) \/ DialReadContext(d) \/ Connect(d) \/ Handshake(d)
             \/ NewSessionFails(d) \/ TunnelOpens(d) \/ DialReturn(d)
      PROVE  Accounting'
  <2>1. UNCHANGED <<sessions, refcnt, connCount, sessionsCount, dsess>>
    BY <1>1 DEF DialEnter, DialReadContext, Connect, Handshake, NewSessionFails,
                TunnelOpens, DialReturn, poolVars
  <2>2. \/ pc[d] = "idle" /\ pc' = [pc EXCEPT ![d] = "rlock"]
        \/ pc[d] = "rlock" /\ \E n \in {"get", "returnErr"} : pc' = [pc EXCEPT ![d] = n]
        \/ pc[d] = "connect" /\ pc' = [pc EXCEPT ![d] = "handshake"]
        \/ pc[d] = "handshake" /\ pc' = [pc EXCEPT ![d] = "insert"]
        \/ pc[d] \in {"connect", "handshake"} /\ pc' = [pc EXCEPT ![d] = "cleanup"]
        \/ pc[d] = "dial" /\ pc' = [pc EXCEPT ![d] = "returnConn"]
        \/ pc[d] = "returnConn" /\ pc' = [pc EXCEPT ![d] = "open"]
        \/ pc[d] = "returnErr" /\ pc' = [pc EXCEPT ![d] = "failed"]
    BY <1>1 DEF DialEnter, DialReadContext, Connect, Handshake, NewSessionFails,
                TunnelOpens, DialReturn
  <2>3. Counted' = Counted /\ Planning' = Planning
    BY <1>a, <2>2 DEF TypeOK, Counted, Planning
  <2>4. \A s \in Dials : Holders(s)' = Holders(s)
    BY <1>a, <2>1, <2>2 DEF TypeOK, Holders
  <2> QED
    BY <1>e, <2>1, <2>3, <2>4
<1>2. ASSUME NEW d \in Dials, NEW n, Again(d, n), pc[d] \in {"get", "woken"},
             UNCHANGED <<sessions, dctx>>,
             connCount' = IF pc[d] = "get" THEN connCount + 1 ELSE connCount
      PROVE  Accounting'
  <2>1. /\ pc'[d] \in {"dial", "wait", "connect"}
        /\ \A e \in Dials \ {d} : pc'[e] = pc[e] \/ (pc[e] = "wait" /\ pc'[e] = "woken")
    BY <1>2, <1>a, AgainStep DEF Bystanders
  <2>2. connCount' = Cardinality(Counted')
    <3>1. CASE pc[d] = "get"
      <4>1. d \notin Counted /\ Counted' = Counted \cup {d}
        BY <2>1, <3>1 DEF Counted
      <4> QED
        BY <1>2, <1>d, <3>1, <4>1, CountAdd, CountedTypes
    <3>2. CASE pc[d] = "woken"
      <4>1. Counted' = Counted
        BY <2>1, <3>2 DEF Counted
      <4> QED
        BY <1>2, <1>d, <3>2, <4>1
    <3> QED
      BY <1>2, <3>1, <3>2
  <2>3. CASE \E s \in sessions :
                 /\ refcnt' = [refcnt EXCEPT ![s] = @ + 1]
                 /\ dsess' = [dsess EXCEPT ![d] = s]
                 /\ pc'[d] = "dial"
                 /\ sessionsCount' = sessionsCount
    <3>1. PICK s \in sessions :
                 /\ refcnt' = [refcnt EXCEPT ![s] = @ + 1]
                 /\ dsess' = [dsess EXCEPT ![d] = s]
                 /\ pc'[d] = "dial"
                 /\ sessionsCount' = sessionsCount
      BY <2>3
    <3>2. Planning' = Planning
      BY <1>2, <2>1, <3>1 DEF Planning
    <3>3. \A e \in Dials \ {d} : dsess'[e] = dsess[e]
      BY <1>a, <3>1 DEF TypeOK
    <3>4. dsess'[d] = s
      BY <1>a, <3>1 DEF TypeOK
    <3>5. d \notin Holders(s) /\ Holders(s)' = Holders(s) \cup {d}
      BY <1>2, <2>1, <3>1, <3>3, <3>4 DEF Holders
    <3>6. \A t \in Dials \ {s} : Holders(t)' = Holders(t)
      BY <1>2, <2>1, <3>1, <3>3, <3>4 DEF Holders
    <3>7. \A t \in Dials : refcnt'[t] = Cardinality(Holders(t)')
      <4>1. refcnt'[s] = refcnt[s] + 1 /\ s \in Dials
        BY <1>a, <1>c, <3>1 DEF TypeOK
      <4>2. Cardinality(Holders(s)') = Cardinality(Holders(s)) + 1
        BY <3>5, CountAdd, CountedTypes
      <4>3. \A t \in Dials \ {s} : refcnt'[t] = refcnt[t]
        BY <1>a, <3>1 DEF TypeOK
      <4> QED
        BY <1>d, <3>6, <4>1, <4>2, <4>3
    <3> QED
      BY <1>2, <1>d, <2>2, <3>1, <3>2, <3>7 DEF Accounting
  <2>4. CASE pc'[d] = "wait" /\ UNCHANGED <<refcnt, dsess, sessionsCount>>
    <3>1. Planning' = Planning /\ \A s \in Dials : Holders(s)' = Holders(s)
      BY <1>2, <2>1, <2>4 DEF Planning, Holders
    <3> QED
      BY <1>2, <1>d, <2>2, <2>4, <3>1 DEF Accounting
  <2>5. CASE /\ pc'[d] = "connect"
             /\ sessionsCount' = sessionsCount + 1
             /\ UNCHANGED <<refcnt, dsess>>
    <3>1. d \notin Planning /\ Planning' = Planning \cup {d}
      BY <1>2, <2>1, <2>5 DEF Planning
    <3>2. Cardinality(Planning') = Cardinality(Planning) + 1
      BY <3>1, CountAdd, CountedTypes
    <3>3. \A s \in Dials : Holders(s)' = Holders(s)
      BY <1>2, <2>1, <2>5 DEF Holders
    <3> QED
      BY <1>2, <1>c, <1>d, <2>2, <2>5, <3>2, <3>3, CountedTypes DEF Accounting
  <2> QED
    BY <1>a, <1>2, <2>3, <2>4, <2>5, AgainStep
<1>3. ASSUME NEW d \in Dials, GetSession(d) \/ GetSessionAgain(d) PROVE Accounting'
  BY <1>2, <1>3 DEF GetSession, GetSessionAgain
<1>4. ASSUME NEW d \in Dials, Insert(d) PROVE Accounting'
  <2>1. d \notin sessions /\ d # Nil /\ \A e \in Dials : dsess[e] # d
    BY <1>a, <1>4, DialsAssumption DEF Insert, SessionInv, Inserted
  <2>2. /\ pc[d] = "insert" /\ pc'[d] = "inserted" /\ dsess'[d] = d
        /\ \A e \in Dials \ {d} : pc'[e] = pc[e] /\ dsess'[e] = dsess[e]
    BY <1>a, <1>4 DEF Insert, TypeOK
  <2>3. Counted' = Counted
    BY <2>2 DEF Counted
  <2>4. d \in Planning /\ Planning' = Planning \ {d}
    BY <2>2 DEF Planning
  <2>5. Cardinality(Planning') = Cardinality(Planning) - 1
    BY <2>4, CountRemove, CountedTypes
  <2>6. Cardinality(sessions') = Cardinality(sessions) + 1
    BY <1>c, <1>4, <2>1, CountAdd DEF Insert
  <2>7. Holders(d)' = {d}
    BY <2>1, <2>2 DEF Holders
  <2>8. \A s \in Dials \ {d} : Holders(s)' = Holders(s)
    BY <2>1, <2>2 DEF Holders
  <2>9. \A s \in Dials : refcnt'[s] = Cardinality(Holders(s)')
    <3>1. refcnt'[d] = 1 /\ \A s \in Dials \ {d} : refcnt'[s] = refcnt[s]
      BY <1>a, <1>4 DEF Insert, TypeOK
    <3>2. Cardinality({d}) = 1
      BY FS_Singleton
    <3> QED
      BY <1>d, <2>7, <2>8, <3>1, <3>2
  <2> QED
    BY <1>c, <1>d, <1>4, <2>3, <2>5, <2>6, <2>9, CountedTypes DEF Insert, Accounting
<1>5. ASSUME NEW d \in Dials, NewSessionReady(d) PROVE Accounting'
  <2>1. pc[d] = "inserted" /\ pc'[d] = "dial" /\ Bystanders(d)
    BY <1>a, <1>b, <1>5, SignalFrom DEF NewSessionReady, Bystanders, TypeOK
  <2>2. UNCHANGED <<sessions, refcnt, connCount, sessionsCount, dsess>>
    BY <1>5 DEF NewSessionReady, poolVars
  <2>3. Counted' = Counted /\ Planning' = Planning
    BY <2>1 DEF Counted, Planning, Bystanders
  <2>4. \A s \in Dials : Holders(s)' = Holders(s)
    BY <2>1, <2>2 DEF Holders, Bystanders
  <2> QED
    BY <1>e, <2>2, <2>3, <2>4
<1>6. ASSUME NEW d \in Dials, Cleanup(d) PROVE Accounting'
  <2>1. pc[d] = "cleanup" /\ pc'[d] = "returnErr" /\ Bystanders(d)
    BY <1>a, <1>b, <1>6, SignalFrom DEF Cleanup, Bystanders, TypeOK
  <2>2. d \in Counted /\ Counted' = Counted \ {d}
    BY <2>1 DEF Counted, Bystanders
  <2>3. d \in Planning /\ Planning' = Planning \ {d}
    BY <2>1 DEF Planning, Bystanders
  <2>4. \A s \in Dials : Holders(s)' = Holders(s)
    BY <1>6, <2>1 DEF Cleanup, Holders, Bystanders
  <2>5. /\ Cardinality(Counted') = Cardinality(Counted) - 1
        /\ Cardinality(Planning') = Cardinality(Planning) - 1
    BY <2>2, <2>3, CountRemove, CountedTypes
  <2> QED
    BY <1>c, <1>d, <1>6, <2>4, <2>5, CountedTypes DEF Cleanup, Accounting
<1>7. ASSUME NEW d \in Dials, NEW next \in {"returnErr", "closed"}, Unref(d, next),
             pc[d] \in {"dial", "open"}, UNCHANGED <<dsess, sessions, sessionsCount>>
      PROVE  Accounting'
  <2>1. pc'[d] = next /\ Bystanders(d)
    <3>1. next \in DialPC /\ next # "wait" /\ pc[d] # "wait"
      BY <1>b, <1>7
    <3> QED
      BY <1>a, <1>7, <3>1, SignalFrom DEF Unref, Bystanders, TypeOK
  <2>2. PICK s \in Dials : s = dsess[d]
    BY <1>a, <1>7 DEF SessionInv, TypeOK
  <2>3. d \in Counted /\ Counted' = Counted \ {d}
    BY <1>7, <2>1 DEF Counted, Bystanders
  <2>4. Planning' = Planning
    BY <1>7, <2>1 DEF Planning, Bystanders
  <2>5. d \in Holders(s) /\ Holders(s)' = Holders(s) \ {d}
    BY <1>7, <2>1, <2>2 DEF Holders, Bystanders
  <2>6. \A t \in Dials \ {s} : Holders(t)' = Holders(t)
    BY <1>7, <2>1, <2>2 DEF Holders, Bystanders
  <2>7. Cardinality(Counted') = Cardinality(Counted) - 1
    BY <2>3, CountRemove, CountedTypes
  <2>8. Cardinality(Holders(s)') = Cardinality(Holders(s)) - 1
    BY <2>5, CountRemove, CountedTypes
  <2>9. \A t \in Dials : refcnt'[t] = Cardinality(Holders(t)')
    <3>1. /\ refcnt'[s] = refcnt[s] - 1
          /\ \A t \in Dials \ {s} : refcnt'[t] = refcnt[t]
      BY <1>a, <1>7, <2>2 DEF Unref, TypeOK
    <3> QED
      BY <1>d, <2>6, <2>8, <3>1
  <2>10. connCount' = connCount - 1
    BY <1>7 DEF Unref
  <2> QED
    BY <1>c, <1>d, <1>7, <2>4, <2>7, <2>9, <2>10, CountedTypes DEF Accounting
<1>8. ASSUME NEW d \in Dials, TunnelFails(d) \/ Close(d) PROVE Accounting'
  BY <1>7, <1>8 DEF TunnelFails, Close
<1>9. ASSUME NEW s \in Dials, SessionDrops(s) \/ ReapDone(s) PROVE Accounting'
  BY <1>e, <1>9 DEF SessionDrops, ReapDone, dialVars, Counted, Planning, Holders
<1>10. ASSUME NEW s \in Dials, Reap(s) PROVE Accounting'
  <2>1. /\ Counted' = Counted /\ Planning' = Planning
        /\ \A t \in Dials : Holders(t)' = Holders(t)
    BY <1>10 DEF Reap, dialVars, Counted, Planning, Holders
  <2>2. Cardinality(sessions') = Cardinality(sessions) - 1
    BY <1>c, <1>10, CountRemove DEF Reap
  <2> QED
    BY <1>c, <1>d, <1>10, <2>1, <2>2, CountedTypes DEF Reap, Accounting
<1>11. ASSUME NEW s \in Dials, ReapSignal(s) PROVE Accounting'
  <2>1. \A e \in Dials : pc'[e] = pc[e] \/ (pc[e] = "wait" /\ pc'[e] = "woken")
    BY <1>a, <1>11, SignalStep DEF ReapSignal, TypeOK
  <2>2. Counted' = Counted /\ Planning' = Planning
    BY <2>1 DEF Counted, Planning
  <2>3. \A t \in Dials : Holders(t)' = Holders(t)
    BY <1>11, <2>1 DEF ReapSignal, Holders
  <2> QED
    BY <1>e, <1>11, <2>2, <2>3 DEF ReapSignal
<1>12. ASSUME UNCHANGED <<dialVars, poolVars>> PROVE Accounting'
  BY <1>e, <1>12 DEF dialVars, poolVars, Counted, Planning, Holders
<1>13. ASSUME NEW r \in Reconnects, ReconnectStep(r) PROVE Accounting'
  BY <1>12, <1>13
  DEF ReconnectStep, ReconnectEnter, ReconnectWait, ReconnectReleased, ReconnectFinish
<1>14. CASE UNCHANGED vars
  BY <1>12, <1>14 DEF vars
<1> QED
  BY <1>1, <1>3, <1>4, <1>5, <1>6, <1>8, <1>9, <1>10, <1>11, <1>13, <1>14
  DEF Next, DialProgress, SessionStep, SessionCancelled

(* The counters of the pool are exact at every moment. *)
THEOREM AccountingExact == Spec => []Accounting
<1>1. Init => Accounting
  <2> SUFFICES ASSUME Init PROVE Accounting
    OBVIOUS
  <2>1. Counted = {} /\ Planning = {} /\ sessions = {} /\ \A s : Holders(s) = {}
    BY DEF Init, Counted, Planning, Holders
  <2>2. Cardinality({}) = 0
    BY FS_EmptySet
  <2>3. connCount = 0 /\ sessionsCount = 0 /\ \A s \in Dials : refcnt[s] = 0
    BY DEF Init
  <2> QED
    BY <2>1, <2>2, <2>3 DEF Accounting
<1> QED
  BY <1>1, AccountingNext, InvHolds, PTL DEF Spec

-----------------------------------------------------------------------------
(* No session is ever given to more calls than MaxConn. *)
LEMMA RefcntNext == TypeOK /\ SessionInv /\ RefcntBounded /\ [Next]_vars => RefcntBounded'
<1> SUFFICES ASSUME TypeOK, SessionInv, RefcntBounded, [Next]_vars PROVE RefcntBounded'
  OBVIOUS
<1> USE DEF TypeOK
<1>1. CASE UNCHANGED refcnt
  BY <1>1 DEF RefcntBounded
<1>2. ASSUME NEW d \in Dials, GetSession(d) \/ GetSessionAgain(d) PROVE RefcntBounded'
  <2>1. PICK n : Again(d, n) /\ pc[d] \in {"get", "woken"}
    BY <1>2 DEF GetSession, GetSessionAgain
  <2>2. \/ refcnt' = refcnt
        \/ \E s \in sessions : /\ refcnt[s] < MaxConn
                               /\ refcnt' = [refcnt EXCEPT ![s] = @ + 1]
    BY <2>1, AgainStep
  <2>3. ASSUME NEW s \in sessions, refcnt[s] < MaxConn,
               refcnt' = [refcnt EXCEPT ![s] = @ + 1]
        PROVE  RefcntBounded'
    BY <2>3, MaxConnAssumption DEF RefcntBounded
  <2> QED
    BY <1>1, <2>2, <2>3
<1>3. ASSUME NEW d \in Dials, Insert(d) PROVE RefcntBounded'
  BY <1>3, MaxConnAssumption DEF Insert, RefcntBounded
<1>4. ASSUME NEW d \in Dials, TunnelFails(d) \/ Close(d) PROVE RefcntBounded'
  <2>1. refcnt' = [refcnt EXCEPT ![dsess[d]] = @ - 1] /\ dsess[d] \in Dials
    BY <1>4 DEF TunnelFails, Close, Unref, SessionInv
  <2> QED
    BY <2>1, MaxConnAssumption DEF RefcntBounded
<1>5. ASSUME NEW d \in Dials,
             \/ DialEnter(d) \/ DialReadContext(d) \/ Connect(d) \/ Handshake(d)
             \/ NewSessionFails(d) \/ NewSessionReady(d) \/ Cleanup(d)
             \/ TunnelOpens(d) \/ DialReturn(d) \/ SessionDrops(d) \/ Reap(d)
             \/ ReapSignal(d) \/ ReapDone(d)
      PROVE  UNCHANGED refcnt
  BY <1>5
  DEF DialEnter, DialReadContext, Connect, Handshake, NewSessionFails,
      NewSessionReady, Cleanup, TunnelOpens, DialReturn, SessionDrops, Reap,
      ReapSignal, ReapDone, poolVars
<1>6. ASSUME NEW r \in Reconnects, ReconnectStep(r) PROVE UNCHANGED refcnt
  BY <1>6
  DEF ReconnectStep, ReconnectEnter, ReconnectWait, ReconnectReleased,
      ReconnectFinish, poolVars
<1>7. CASE UNCHANGED vars
  BY <1>1, <1>7 DEF vars, poolVars
<1> QED
  BY <1>1, <1>2, <1>3, <1>4, <1>5, <1>6, <1>7
  DEF Next, DialProgress, SessionStep, SessionCancelled

(* Hence the limit of SSH_MAX_CONN_PER_CLIENT is never exceeded. *)
THEOREM RefcntNeverExceeds == Spec => []RefcntBounded
<1>1. Init => RefcntBounded
  BY MaxConnAssumption DEF Init, RefcntBounded
<1>2. Inv => TypeOK /\ SessionInv
  BY DEF Inv
<1> QED
  BY <1>1, <1>2, RefcntNext, InvHolds, PTL DEF Spec

-----------------------------------------------------------------------------
(* A Reconnect that disconnects installs the new context only after every  *)
(* session of the old one has gone, and while none is planned.             *)
THEOREM DisconnectsCompletely == Spec => []DisconnectComplete
<1>1. Inv /\ Accounting => DisconnectComplete
  <2> SUFFICES ASSUME Inv, Accounting, NEW r \in Reconnects, rpc[r] = "newctx"
               PROVE  /\ sessions = {}
                      /\ sessionsCount = 0
                      /\ \A d \in Dials : sstate[d] \in {"none", "gone"}
    BY DEF DisconnectComplete
  <2>1. Using = {} /\ Waiters = {}
    BY DEF Inv, ContextInv, Active
  <2>2. sessions = {} /\ Planning = {}
    BY <2>1 DEF Waiters, Using, InDial, Planning
  <2>3. Cardinality(sessions) = 0 /\ Cardinality(Planning) = 0
    BY <2>2, FS_EmptySet
  <2>4. sessionsCount = 0
    BY <2>3 DEF Accounting
  <2>5. ASSUME NEW d \in Dials PROVE sstate[d] \in {"none", "gone"}
    <3>1. pc[d] # "insert" /\ d \notin Waiters
      BY <2>1 DEF Using, InDial
    <3> QED
      BY <3>1 DEF Inv, TypeOK, SessionState, SessionInv, Waiters
  <2> QED
    BY <2>2, <2>4, <2>5
<1> QED
  BY <1>1, InvHolds, AccountingExact, PTL

-----------------------------------------------------------------------------
(* With one more session, or one more call awake, the capacity grows by    *)
(* MaxConn.                                                                *)
LEMMA CapacityGrows ==
    ASSUME NEW k \in Int
    PROVE  /\ MaxConn * (k + 1) = MaxConn * k + MaxConn
           /\ MaxConn * k \in Int
           /\ MaxConn \in Int
           /\ MaxConn >= 1
  BY MaxConnAssumption

(* The sets that WakeInv counts. *)
LEMMA WakeTypes ==
    /\ Woken \in SUBSET Dials /\ Cardinality(Woken) \in Nat
    /\ Reaped \in SUBSET Dials /\ Cardinality(Reaped) \in Nat
<1>1. Woken \in SUBSET Dials /\ Reaped \in SUBSET Dials
  BY DEF Woken, Reaped
<1> QED
  BY <1>1, FiniteParts

Waiting == {d \in Dials : pc[d] = "wait"}

(* A call d that signals, and is neither waiting nor awake after that:     *)
(* either nobody waits any more, or one more call is awake than before,    *)
(* not counting d itself.                                                  *)
LEMMA SignalWakes ==
    ASSUME pc \in [Dials -> DialPC], NEW d \in Dials, NEW next \in DialPC,
           next \notin {"wait", "woken"}, pc[d] # "wait",
           pc' \in Signal([pc EXCEPT ![d] = next])
    PROVE  \/ Waiting' = {}
           \/ \E w \in Dials \ (Woken \cup {d}) : Woken' = (Woken \ {d}) \cup {w}
<1> DEFINE f == [pc EXCEPT ![d] = next]
           W == {e \in Dials : f[e] = "wait"}
<1>1. CASE W = {}
  <2>1. pc' = f
    BY <1>1 DEF Signal
  <2> QED
    BY <1>1, <2>1 DEF Waiting
<1>2. CASE W # {}
  <2>1. PICK w \in W : pc' = [f EXCEPT ![w] = "woken"]
    BY <1>2 DEF Signal
  <2>2. w \in Dials \ (Woken \cup {d})
    BY <2>1 DEF Woken
  <2>3. Woken' = (Woken \ {d}) \cup {w}
    BY <2>1, <2>2 DEF Woken
  <2> QED
    BY <2>2, <2>3
<1> QED
  BY <1>1, <1>2

(* How many are awake after such a signal, if somebody still waits. *)
LEMMA SignalCounts ==
    ASSUME pc \in [Dials -> DialPC], NEW d \in Dials, NEW next \in DialPC,
           next \notin {"wait", "woken"}, pc[d] # "wait",
           pc' \in Signal([pc EXCEPT ![d] = next]),
           Waiting' # {}
    PROVE  /\ Woken' # {}
           /\ Cardinality(Woken') =
                 IF pc[d] = "woken" THEN Cardinality(Woken) ELSE Cardinality(Woken) + 1
<1>1. PICK w \in Dials \ (Woken \cup {d}) : Woken' = (Woken \ {d}) \cup {w}
  BY SignalWakes
<1>2. Woken \ {d} \in SUBSET Dials /\ w \notin Woken \ {d}
  BY WakeTypes
<1>3. Cardinality(Woken') = Cardinality(Woken \ {d}) + 1
  BY <1>1, <1>2, CountAdd
<1>4. CASE pc[d] = "woken"
  <2>1. d \in Woken
    BY <1>4 DEF Woken
  <2>2. Cardinality(Woken \ {d}) = Cardinality(Woken) - 1
    BY <2>1, WakeTypes, CountRemove
  <2> QED
    BY <1>1, <1>3, <1>4, <2>2, WakeTypes
<1>5. CASE pc[d] # "woken"
  <2>1. Woken \ {d} = Woken
    BY <1>5 DEF Woken
  <2> QED
    BY <1>1, <1>3, <1>5, <2>1
<1> QED
  BY <1>4, <1>5

(* The call d signals and goes on at the program counter next. *)
Signals(d, next) == pc' \in Signal([pc EXCEPT ![d] = next])

(* Every step that leaves a call waiting leaves enough capacity, planned or
   about to be planned, and leaves somebody who looks after a spare session. *)
LEMMA WakeNext == Inv /\ WakeInv /\ [Next]_vars => WakeInv'
<1> SUFFICES ASSUME Inv, WakeInv, [Next]_vars, Waiting' # {}
             PROVE  /\ connCount' <= MaxConn * (sessionsCount' + Cardinality(Woken')
                                                + Cardinality(Reaped'))
                    /\ Spare' # {} =>
                          \/ Woken' # {}
                          \/ Reaped' # {}
                          \/ \E d \in Dials : pc'[d] \in {"inserted", "cleanup"}
  BY DEF WakeInv, Waiting
<1> DEFINE K == sessionsCount + Cardinality(Woken) + Cardinality(Reaped)
           Pending == \/ Woken # {}
                      \/ Reaped # {}
                      \/ \E d \in Dials : pc[d] \in {"inserted", "cleanup"}
           Enough == connCount <= MaxConn * K
           Tended == Spare # {} => Pending
<1> HIDE DEF K
<1>a. TypeOK /\ SessionInv
  BY DEF Inv
<1>b. "dial" \in DialPC /\ "returnErr" \in DialPC /\ "closed" \in DialPC
  BY DEF DialPC
<1>c. Waiting # {} => Enough /\ Tended
  BY DEF WakeInv, Waiting, K
<1>d. /\ K \in Int /\ K' = sessionsCount' + Cardinality(Woken') + Cardinality(Reaped')
      /\ K = sessionsCount + Cardinality(Woken) + Cardinality(Reaped)
      /\ connCount \in Int /\ sessionsCount \in Int
      /\ MaxConn * (K + 1) = MaxConn * K + MaxConn
      /\ MaxConn * K \in Int
      /\ MaxConn \in Int /\ MaxConn >= 1
  <2>1. connCount \in Int /\ sessionsCount \in Int
    BY <1>a DEF TypeOK
  <2>2. K \in Int
    BY <2>1, WakeTypes DEF K
  <2>3. /\ K' = sessionsCount' + Cardinality(Woken') + Cardinality(Reaped')
        /\ K = sessionsCount + Cardinality(Woken) + Cardinality(Reaped)
    BY DEF K
  <2> QED
    BY <2>1, <2>2, <2>3, CapacityGrows
<1>w. /\ Cardinality(Woken') \in Nat /\ Cardinality(Reaped') \in Nat
      /\ connCount' \in Int /\ sessionsCount' \in Int
      /\ K' \in Int
  <2>1. Woken' \in SUBSET Dials /\ Reaped' \in SUBSET Dials
    BY DEF Woken, Reaped
  <2>2. Cardinality(Woken') \in Nat /\ Cardinality(Reaped') \in Nat
    BY <2>1, FiniteParts
  <2>3. connCount' \in Int /\ sessionsCount' \in Int
    BY <1>a, TypeNext DEF TypeOK
  <2> QED
    BY <1>d, <2>2, <2>3
<1> SUFFICES Enough' /\ Tended'
  BY <1>d
<1>1. ASSUME NEW d \in Dials, NEW next \in {"dial", "returnErr", "closed"},
             pc[d] \notin {"wait", "woken"},
             Signals(d, next),
             UNCHANGED <<sstate, sessions>>
      PROVE  /\ Waiting # {}
             /\ Woken' # {}
             /\ K' = K + 1 + (sessionsCount' - sessionsCount)
  <2>1. next \in DialPC /\ next \notin {"wait", "woken"} /\ pc[d] # "wait"
    BY <1>b, <1>1
  <2>2. Woken' # {} /\ Cardinality(Woken') = Cardinality(Woken) + 1
    BY <1>a, <1>1, <2>1, SignalCounts DEF Signals, TypeOK
  <2>3. Waiting # {}
    <3>1. pc'[d] = next /\ Bystanders(d)
      BY <1>a, <1>1, <2>1, SignalFrom DEF Signals, Bystanders, TypeOK
    <3>2. PICK e \in Dials : pc'[e] = "wait"
      BY DEF Waiting
    <3> QED
      BY <2>1, <3>1, <3>2 DEF Waiting, Bystanders
  <2>4. Reaped' = Reaped
    BY <1>1 DEF Reaped
  <2> QED
    BY <1>d, <1>w, <2>2, <2>3, <2>4, WakeTypes
<1>2. ASSUME NEW d \in Dials,
             \/ DialEnter(d) \/ DialReadContext(d) \/ Connect(d) \/ Handshake(d)
             \/ NewSessionFails(d) \/ TunnelOpens(d) \/ DialReturn(d)
      PROVE  Enough' /\ Tended'
  <2>1. /\ \A e \in Dials \ {d} : pc'[e] = pc[e]
        /\ pc[d] \notin {"wait", "woken", "inserted", "cleanup"}
        /\ pc'[d] \notin {"wait", "woken"}
        /\ UNCHANGED <<sessions, refcnt, connCount, sessionsCount>>
    BY <1>a, <1>2
    DEF DialEnter, DialReadContext, Connect, Handshake, NewSessionFails, TunnelOpens,
        DialReturn, poolVars, TypeOK
  <2>2. Reaped' = Reaped
    BY <1>a, <1>2
    DEF DialEnter, DialReadContext, Connect, Handshake, NewSessionFails, TunnelOpens,
        DialReturn, poolVars, Reaped, SessionInv, TypeOK
  <2>3. Waiting' = Waiting /\ Woken' = Woken
    BY <2>1 DEF Waiting, Woken
  <2>4. Spare' = Spare /\ Pending => Pending'
    BY <2>1, <2>2, <2>3
  <2>5. K' = K
    BY <1>d, <2>1, <2>2, <2>3
  <2>6. Spare' = Spare
    BY <2>1 DEF Spare
  <2> QED
    BY <1>c, <2>1, <2>3, <2>4, <2>5, <2>6
<1>3. ASSUME NEW d \in Dials, GetSession(d) \/ GetSessionAgain(d)
      PROVE  Enough' /\ Tended'
  <2> DEFINE n == IF pc[d] = "get" THEN connCount + 1 ELSE connCount
  <2>1. /\ Again(d, n) /\ pc[d] \in {"get", "woken"} /\ connCount' = n
        /\ UNCHANGED <<sstate, sessions>>
    BY <1>3 DEF GetSession, GetSessionAgain
  <2> HIDE DEF n
  <2>2. Reaped' = Reaped
    BY <2>1 DEF Reaped
  <2>3. n \in Int /\ n = IF pc[d] = "get" THEN connCount + 1 ELSE connCount
    BY <1>d DEF n
  <2>4. CASE /\ pc'[d] = "dial"
             /\ pc' \in Signal([pc EXCEPT ![d] = "dial"])
             /\ sessionsCount' = sessionsCount
    <3>1. /\ Woken' # {}
          /\ Cardinality(Woken') =
                IF pc[d] = "woken" THEN Cardinality(Woken) ELSE Cardinality(Woken) + 1
      BY <1>a, <1>b, <2>1, <2>4, SignalCounts DEF TypeOK
    <3>2. Waiting # {}
      BY <1>a, <1>b, <2>1, <2>4, SignalFrom DEF Waiting, TypeOK
    <3>3. K' = IF pc[d] = "woken" THEN K ELSE K + 1
      BY <1>d, <2>2, <2>4, <3>1, WakeTypes
    <3>4. n <= MaxConn * K'
      BY <1>c, <1>d, <2>1, <2>3, <3>2, <3>3
    <3> QED
      BY <2>1, <3>1, <3>4
  <2>5. CASE /\ pc'[d] = "wait" /\ Spare = {} /\ EnoughSessions(n)
             /\ UNCHANGED <<refcnt, sessionsCount>>
    <3>1. n <= MaxConn * sessionsCount
      BY <1>d, <2>3, <2>5, CapacityGrows DEF EnoughSessions
    <3>2. sessionsCount <= K'
      BY <1>d, <1>w, <2>5
    <3>3. MaxConn * sessionsCount <= MaxConn * K'
      BY <1>d, <1>w, <3>2, MaxConnAssumption
    <3>4. n <= MaxConn * K'
      BY <1>d, <1>w, <2>3, <3>1, <3>3, CapacityGrows
    <3>5. Spare' = {}
      BY <2>1, <2>5 DEF Spare
    <3> QED
      BY <2>1, <3>4, <3>5
  <2>6. CASE /\ pc'[d] = "connect" /\ Spare = {}
             /\ \A e \in Dials \ {d} : pc'[e] = pc[e]
             /\ sessionsCount' = sessionsCount + 1
             /\ UNCHANGED refcnt
    <3>1. Waiting # {}
      BY <2>6 DEF Waiting
    <3>2. ASSUME pc[d] = "woken" PROVE Enough'
      <4>1. d \in Woken /\ Woken' = Woken \ {d}
        BY <2>6, <3>2 DEF Woken
      <4>2. Cardinality(Woken') = Cardinality(Woken) - 1
        BY <4>1, CountRemove, WakeTypes
      <4>3. K' = K
        BY <1>d, <2>2, <2>6, <4>2, WakeTypes
      <4> QED
        BY <1>c, <2>1, <2>3, <3>1, <3>2, <4>3
    <3>3. ASSUME pc[d] = "get" PROVE Enough'
      <4>1. Woken' = Woken
        BY <2>6, <3>3 DEF Woken
      <4>2. K' = K + 1
        BY <1>d, <2>2, <2>6, <4>1, WakeTypes
      <4> QED
        BY <1>c, <1>d, <2>1, <2>3, <3>1, <3>3, <4>2
    <3>4. Enough'
      BY <2>1, <3>2, <3>3
    <3>5. Spare' = {}
      BY <2>1, <2>6 DEF Spare
    <3> QED
      BY <3>4, <3>5
  <2> QED
    BY <1>a, <2>1, <2>4, <2>5, <2>6, AgainStep
<1>4. ASSUME NEW d \in Dials, Insert(d) PROVE Enough' /\ Tended'
  <2>1. /\ \A e \in Dials \ {d} : pc'[e] = pc[e]
        /\ pc[d] = "insert" /\ pc'[d] = "inserted"
        /\ UNCHANGED <<sstate, connCount, sessionsCount>>
    BY <1>a, <1>4 DEF Insert, TypeOK
  <2>2. Waiting' = Waiting /\ Woken' = Woken /\ Reaped' = Reaped
    BY <2>1 DEF Waiting, Woken, Reaped
  <2>3. K' = K
    BY <1>d, <2>1, <2>2
  <2> QED
    BY <1>c, <2>1, <2>2, <2>3
<1>5. ASSUME NEW d \in Dials, NewSessionReady(d) PROVE Enough' /\ Tended'
  <2>1. /\ pc[d] = "inserted" /\ Signals(d, "dial")
        /\ UNCHANGED <<sstate, sessions, connCount, sessionsCount>>
    BY <1>5 DEF NewSessionReady, poolVars, Signals
  <2>2. Waiting # {} /\ Woken' # {} /\ K' = K + 1
    BY <1>1, <1>d, <2>1
  <2> QED
    BY <1>c, <1>d, <2>1, <2>2
<1>6. ASSUME NEW d \in Dials, Cleanup(d) PROVE Enough' /\ Tended'
  <2>1. /\ pc[d] = "cleanup" /\ Signals(d, "returnErr")
        /\ connCount' = connCount - 1 /\ sessionsCount' = sessionsCount - 1
        /\ UNCHANGED <<sstate, sessions>>
    BY <1>6 DEF Cleanup, Signals
  <2>2. Waiting # {} /\ Woken' # {} /\ K' = K
    BY <1>1, <1>d, <2>1
  <2> QED
    BY <1>c, <1>d, <2>1, <2>2
<1>7. ASSUME NEW d \in Dials, TunnelFails(d) \/ Close(d) PROVE Enough' /\ Tended'
  <2>1. PICK next \in {"returnErr", "closed"} :
           /\ pc[d] \in {"dial", "open"} /\ Signals(d, next)
           /\ connCount' = connCount - 1 /\ sessionsCount' = sessionsCount
           /\ UNCHANGED <<sstate, sessions>>
    BY <1>7 DEF TunnelFails, Close, Unref, Signals
  <2>2. Waiting # {} /\ Woken' # {} /\ K' = K + 1
    BY <1>1, <1>d, <2>1
  <2> QED
    BY <1>c, <1>d, <2>1, <2>2
<1>8. ASSUME NEW s \in Dials, SessionDrops(s) \/ ReapDone(s) PROVE Enough' /\ Tended'
  <2>1. UNCHANGED <<pc, sessions, refcnt, connCount, sessionsCount>>
    BY <1>8 DEF SessionDrops, ReapDone, dialVars
  <2>2. Reaped' = Reaped
    BY <1>a, <1>8 DEF SessionDrops, ReapDone, Reaped, TypeOK
  <2>3. Waiting' = Waiting /\ Woken' = Woken /\ Spare' = Spare
    BY <2>1 DEF Waiting, Woken, Spare
  <2>4. K' = K
    BY <1>d, <2>1, <2>2, <2>3
  <2> QED
    BY <1>c, <2>1, <2>2, <2>3, <2>4
<1>9. ASSUME NEW s \in Dials, Reap(s) PROVE Enough' /\ Tended'
  <2>1. UNCHANGED <<pc, connCount>> /\ sessionsCount' = sessionsCount - 1
    BY <1>9 DEF Reap, dialVars
  <2>2. s \notin Reaped /\ Reaped' = Reaped \cup {s}
    BY <1>a, <1>9 DEF Reap, Reaped, TypeOK
  <2>3. Waiting' = Waiting /\ Woken' = Woken
    BY <2>1 DEF Waiting, Woken
  <2>4. Cardinality(Reaped') = Cardinality(Reaped) + 1
    BY <2>2, CountAdd, WakeTypes
  <2>5. K' = K
    BY <1>d, <2>1, <2>3, <2>4, WakeTypes
  <2> QED
    BY <1>c, <2>1, <2>2, <2>3, <2>5
<1>10. ASSUME NEW s \in Dials, ReapSignal(s) PROVE Enough' /\ Tended'
  <2>1. UNCHANGED <<connCount, sessionsCount>>
    BY <1>10 DEF ReapSignal
  <2>2. s \in Reaped /\ Reaped' = Reaped \ {s}
    BY <1>a, <1>10 DEF ReapSignal, Reaped, TypeOK
  <2>3. Cardinality(Reaped') = Cardinality(Reaped) - 1
    BY <2>2, CountRemove, WakeTypes
  <2>4. Waiting # {} /\ \E w \in Waiting : pc' = [pc EXCEPT ![w] = "woken"]
    <3>1. pc' \in Signal(pc)
      BY <1>10 DEF ReapSignal
    <3>2. Waiting # {}
      BY <1>a, <3>1, SignalStep DEF Waiting, TypeOK
    <3> QED
      BY <3>1, <3>2 DEF Signal, Waiting
  <2>5. PICK w \in Waiting : pc' = [pc EXCEPT ![w] = "woken"]
    BY <2>4
  <2>6. w \in Dials \ Woken /\ Woken' = Woken \cup {w}
    BY <1>a, <2>5 DEF Waiting, Woken, TypeOK
  <2>7. Cardinality(Woken') = Cardinality(Woken) + 1
    BY <2>6, CountAdd, WakeTypes
  <2>8. K' = K
    BY <1>d, <2>1, <2>3, <2>7, WakeTypes
  <2> QED
    BY <1>c, <2>1, <2>4, <2>6, <2>8
<1>11. ASSUME UNCHANGED <<dialVars, poolVars>> PROVE Enough' /\ Tended'
  <2>1. UNCHANGED <<pc, sstate, sessions, refcnt, connCount, sessionsCount>>
    BY <1>11 DEF dialVars, poolVars
  <2>2. Waiting' = Waiting /\ Woken' = Woken /\ Reaped' = Reaped /\ Spare' = Spare
    BY <2>1 DEF Waiting, Woken, Reaped, Spare
  <2>3. K' = K
    BY <1>d, <2>1, <2>2
  <2> QED
    BY <1>c, <2>1, <2>2, <2>3
<1>12. ASSUME NEW r \in Reconnects, ReconnectStep(r) PROVE Enough' /\ Tended'
  BY <1>11, <1>12
  DEF ReconnectStep, ReconnectEnter, ReconnectWait, ReconnectReleased, ReconnectFinish
<1>13. CASE UNCHANGED vars
  BY <1>11, <1>13 DEF vars
<1> QED
  BY <1>2, <1>3, <1>4, <1>5, <1>6, <1>7, <1>8, <1>9, <1>10, <1>12, <1>13
  DEF Next, DialProgress, SessionStep, SessionCancelled

(* A call that waits for a session is never forgotten: Signal, which wakes *)
(* one call only, is always passed on to where it is needed.               *)
THEOREM WakeupsAreNotLost == Spec => []NoLostWakeup
<1>1. Init => WakeInv
  BY DEF Init, WakeInv
<1>2. Inv /\ WakeInv => NoLostWakeup
  <2> SUFFICES ASSUME Inv, WakeInv, \E d \in Dials : pc[d] = "wait",
                      Spare # {} \/ ~EnoughSessions(connCount),
                      Woken = {}, Reaped = {}
               PROVE  \E d \in Dials : pc[d] \in {"inserted", "cleanup"}
    BY DEF NoLostWakeup, Woken, Reaped
  <2>1. Cardinality(Woken) = 0 /\ Cardinality(Reaped) = 0
    BY FS_EmptySet
  <2>2. sessionsCount \in Int /\ connCount \in Int /\ MaxConn \in Int
    BY MaxConnAssumption DEF Inv, TypeOK
  <2>3. connCount <= MaxConn * sessionsCount
    BY <2>1, <2>2 DEF WakeInv
  <2>4. EnoughSessions(connCount)
    BY <2>2, <2>3 DEF EnoughSessions
  <2> QED
    BY <2>4 DEF WakeInv
<1> QED
  BY <1>1, <1>2, WakeNext, InvHolds, PTL DEF Spec
=============================================================================
