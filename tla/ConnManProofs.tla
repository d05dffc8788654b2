--------------------------- MODULE ConnManProofs ---------------------------
(***************************************************************************)
(* Proofs about the connection manager, as MCEnv has it: the statistics    *)
(* counter and the tables are exact, whoever races to close a connection.  *)
(***************************************************************************)
EXTENDS MCEnv, FiniteSetTheorems, TLAPS

(* ConnMan takes Cardinality from FiniteSets, so its instance has one too. *)
LEMMA SameCardinality == ASSUME NEW U PROVE C!Cardinality(U) = Cardinality(U)
BY Zenon DEF C!Cardinality, Cardinality

(* At startup there are no connections. *)
LEMMA InvInit == C!Init => C!Inv
<1> SUFFICES ASSUME C!Init PROVE C!Inv
  OBVIOUS
<1>1. C!TypeOK
  <2>1. notice \in BOOLEAN /\ owed \in BOOLEAN /\ blind \in BOOLEAN
    BY Zenon DEF C!Init
  <2>2. victims \in SUBSET (Conns \X {"closed", "disconnected"})
    BY DEF C!Init
  <2> QED
    BY <2>1, <2>2 DEF C!Init, C!TypeOK
<1>2. C!Added = {}
  BY DEF C!Init, C!Added
<1>3. C!LifeInv /\ C!TablesExact
  BY <1>2 DEF C!Init, C!LifeInv, C!TablesExact
<1>4. C!Live = {}
  BY DEF C!Init, C!Live, C!Made
<1>5. C!CounterExact
  BY <1>4, FS_EmptySet, SameCardinality DEF C!Init, C!CounterExact
<1> QED
  BY <1>1, <1>3, <1>5 DEF C!Inv

(* Every step keeps the types. *)
LEMMA TypeNext == C!TypeOK /\ [C!Next]_(C!vars) => C!TypeOK'
<1> SUFFICES ASSUME C!TypeOK, [C!Next]_(C!vars) PROVE C!TypeOK'
  OBVIOUS
<1> USE DEF C!TypeOK, C!dialVars, C!connVars, C!goVars, C!envVars
<1>1. ASSUME NEW c \in Conns, NEW reason \in {"closed", "disconnected"}, C!Abort(c, reason)
      PROVE  /\ errptr' \in [Conns -> {"open", "closed", "disconnected"}]
             /\ dels' \in SUBSET Conns
             /\ counter' \in Int
  BY <1>1 DEF C!Abort
<1>2. ASSUME NEW c \in Conns, NEW x \in Contexts, C!Dial(c, x) PROVE C!TypeOK'
  BY <1>2 DEF C!Dial
<1>3. ASSUME NEW c \in Conns, C!Connected(c) \/ C!DialFails(c) PROVE C!TypeOK'
  BY <1>3 DEF C!Connected, C!DialFails
<1>4. ASSUME NEW c \in Conns, C!Close(c) PROVE C!TypeOK'
  BY <1>1, <1>4 DEF C!Close
<1>5. ASSUME NEW c \in Conns, NEW reason \in {"closed", "disconnected"}, C!AbortVictim(c, reason)
      PROVE  C!TypeOK'
  <2>1. victims' \in SUBSET (Conns \X {"closed", "disconnected"})
    BY <1>5 DEF C!AbortVictim
  <2> QED
    BY <1>1, <1>5, <2>1 DEF C!AbortVictim
<1>6. ASSUME NEW c \in Conns, C!CmdAdd(c) \/ C!CmdDel(c) PROVE C!TypeOK'
  BY <1>6 DEF C!CmdAdd, C!CmdDel
<1>7. CASE C!Subscribe
  BY <1>7 DEF C!Subscribe
<1>14. CASE C!AddrChanged
  <2>1. addrChgCount' \in Nat
    BY <1>14 DEF C!AddrChanged
  <2>2. owed' \in BOOLEAN /\ notice' \in BOOLEAN /\ blind' \in BOOLEAN
    BY <1>14, Zenon DEF C!AddrChanged
  <2>3. goroutine' \in {"start", "select", "recheck"}
    BY <1>14, Zenon DEF C!AddrChanged
  <2> QED
    BY <1>14, <2>1, <2>2, <2>3, Zenon DEF C!AddrChanged
<1>8. CASE C!Recheck
  BY <1>8 DEF C!Recheck
<1>9. ASSUME NEW x \in Contexts, C!ContextDone(x) PROVE C!TypeOK'
  BY <1>9 DEF C!ContextDone
<1>10. ASSUME NEW x \in Contexts, C!Cancel(x) PROVE C!TypeOK'
  BY <1>10 DEF C!Cancel
<1>11. ASSUME NEW a \in Addrs, C!ChangeAddr(a) PROVE C!TypeOK'
  BY <1>11 DEF C!ChangeAddr
<1>12. CASE C!RaiseIpAddrChanged
  BY <1>12 DEF C!RaiseIpAddrChanged
<1>13. CASE UNCHANGED C!vars
  BY <1>13 DEF C!vars
<1> QED
  BY <1>2, <1>3, <1>4, <1>5, <1>6, <1>7, <1>8, <1>9, <1>10, <1>11, <1>12, <1>13, <1>14 DEF C!Next

(* A connection is aborted, once, and only after it was added. *)
LEMMA LifeNext == C!Inv /\ [C!Next]_(C!vars) => C!LifeInv'
<1> SUFFICES ASSUME C!Inv, [C!Next]_(C!vars) PROVE C!LifeInv'
  OBVIOUS
<1> USE DEF C!Inv, C!TypeOK, C!LifeInv, C!Added, C!dialVars, C!connVars, C!goVars, C!envVars
<1>1. ASSUME NEW c \in Conns, NEW x \in Contexts, C!Dial(c, x) PROVE C!LifeInv'
  BY <1>1 DEF C!Dial
<1>2. ASSUME NEW c \in Conns, C!Connected(c) \/ C!DialFails(c) PROVE C!LifeInv'
  BY <1>2 DEF C!Connected, C!DialFails
<1>3. ASSUME NEW c \in Conns, C!Close(c) PROVE C!LifeInv'
  BY <1>3 DEF C!Close, C!Abort
<1>4. ASSUME NEW c \in Conns, NEW reason \in {"closed", "disconnected"}, C!AbortVictim(c, reason)
      PROVE  C!LifeInv'
  <2>1. c \in C!Added
    BY <1>4 DEF C!AbortVictim
  <2> QED
    BY <1>4, <2>1 DEF C!AbortVictim, C!Abort
<1>5. ASSUME NEW c \in Conns, C!CmdAdd(c) \/ C!CmdDel(c) PROVE C!LifeInv'
  BY <1>5 DEF C!CmdAdd, C!CmdDel
<1>6. CASE C!Subscribe \/ C!AddrChanged \/ C!RaiseIpAddrChanged \/ UNCHANGED C!vars
  BY <1>6 DEF C!Subscribe, C!AddrChanged, C!RaiseIpAddrChanged, C!vars
<1>7. CASE C!Recheck
  <2>1. \A v \in victims' : v \in victims \/ v[1] \in byAddr
    BY <1>7 DEF C!Recheck
  <2>2. byAddr \subseteq C!Added
    BY DEF C!TablesExact
  <2> QED
    BY <1>7, <2>1, <2>2 DEF C!Recheck
<1>8. ASSUME NEW x \in Contexts, C!ContextDone(x) PROVE C!LifeInv'
  <2>1. \A v \in victims' : v \in victims \/ v[1] \in byCtx
    BY <1>8 DEF C!ContextDone
  <2>2. byCtx \subseteq C!Added
    BY DEF C!TablesExact
  <2> QED
    BY <1>8, <2>1, <2>2 DEF C!ContextDone
<1>9. ASSUME NEW x \in Contexts, C!Cancel(x) PROVE C!LifeInv'
  BY <1>9 DEF C!Cancel
<1>10. ASSUME NEW a \in Addrs, C!ChangeAddr(a) PROVE C!LifeInv'
  BY <1>10 DEF C!ChangeAddr
<1> QED
  BY <1>1, <1>2, <1>3, <1>4, <1>5, <1>6, <1>7, <1>8, <1>9, <1>10 DEF C!Next

(* The counter follows the connections that are open. *)
LEMMA CounterNext ==
    ASSUME C!Inv, [C!Next]_(C!vars) PROVE C!CounterExact'
<1> USE DEF C!Inv, C!TypeOK, C!dialVars, C!connVars, C!goVars, C!envVars
<1>1. IsFiniteSet(C!Live) /\ C!Live \subseteq Conns
  BY ConnAssumption, FS_Subset DEF C!Live, C!Made
<1>2. ASSUME counter' = counter, C!Live' = C!Live PROVE C!CounterExact'
  BY <1>2 DEF C!CounterExact
<1>3. ASSUME NEW c \in Conns, NEW reason \in {"closed", "disconnected"}, C!Abort(c, reason),
             c \in C!Made, C!Made' = C!Made
      PROVE  C!CounterExact'
  <2>1. CASE errptr[c] = "open"
    <3>1. errptr' = [errptr EXCEPT ![c] = reason] /\ reason # "open"
      BY <1>3, <2>1 DEF C!Abort
    <3>4. c \in C!Live /\ C!Live' = C!Live \ {c}
      <4>1. \A d \in C!Made : errptr'[d] = "open" <=> errptr[d] = "open" /\ d # c
        BY <3>1, <2>1 DEF C!Made
      <4> QED
        BY <1>3, <2>1, <4>1, Zenon DEF C!Live
    <3>2. Cardinality(C!Live') = Cardinality(C!Live) - 1
      BY <1>1, <3>4, FS_RemoveElement
    <3> QED
      BY <1>3, <2>1, <3>2, SameCardinality DEF C!Abort, C!CounterExact
  <2>2. CASE errptr[c] # "open"
    BY <1>2, <1>3, <2>2 DEF C!Abort, C!Live
  <2> QED
    BY <2>1, <2>2
<1>4. ASSUME NEW c \in Conns, NEW x \in Contexts, C!Dial(c, x) PROVE C!CounterExact'
  BY <1>2, <1>4 DEF C!Dial, C!Live, C!Made
<1>5. ASSUME NEW c \in Conns, C!Connected(c) PROVE C!CounterExact'
  <2>1. errptr[c] = "open"
    BY <1>5 DEF C!Connected, C!LifeInv, C!Added
  <2>2. c \notin C!Live /\ C!Live' = C!Live \cup {c}
    BY <1>5, <2>1 DEF C!Connected, C!Live, C!Made
  <2>3. Cardinality(C!Live') = Cardinality(C!Live) + 1
    BY <1>1, <2>2, FS_AddElement
  <2> QED
    BY <1>5, <2>3, SameCardinality DEF C!Connected, C!CounterExact
<1>6. ASSUME NEW c \in Conns, C!DialFails(c) PROVE C!CounterExact'
  BY <1>2, <1>6 DEF C!DialFails, C!Live, C!Made
<1>7. ASSUME NEW c \in Conns, C!Close(c) PROVE C!CounterExact'
  <2>1. c \in C!Made /\ C!Made' = C!Made
    BY <1>7 DEF C!Close, C!Made
  <2> QED
    BY <1>3, <1>7, <2>1 DEF C!Close
<1>8. ASSUME NEW c \in Conns, NEW reason \in {"closed", "disconnected"}, C!AbortVictim(c, reason)
      PROVE  C!CounterExact'
  <2>1. c \in C!Added
    BY <1>8 DEF C!AbortVictim, C!LifeInv
  <2>2. c \in C!Made /\ C!Made' = C!Made
    BY <1>8, <2>1 DEF C!AbortVictim, C!Made, C!Added
  <2> QED
    BY <1>3, <1>8, <2>2 DEF C!AbortVictim
<1>9. ASSUME NEW c \in Conns, C!CmdAdd(c) \/ C!CmdDel(c) PROVE C!CounterExact'
  BY <1>2, <1>9 DEF C!CmdAdd, C!CmdDel, C!Live, C!Made
<1>10. CASE C!Subscribe \/ C!AddrChanged \/ C!Recheck \/ C!RaiseIpAddrChanged \/ UNCHANGED C!vars
  BY <1>2, <1>10 DEF C!Subscribe, C!AddrChanged, C!Recheck, C!RaiseIpAddrChanged, C!vars, C!Live, C!Made
<1>11. ASSUME NEW x \in Contexts, C!ContextDone(x) \/ C!Cancel(x) PROVE C!CounterExact'
  BY <1>2, <1>11 DEF C!ContextDone, C!Cancel, C!Live, C!Made
<1>12. ASSUME NEW a \in Addrs, C!ChangeAddr(a) PROVE C!CounterExact'
  BY <1>2, <1>12 DEF C!ChangeAddr, C!Live, C!Made
<1> QED
  BY <1>4, <1>5, <1>6, <1>7, <1>8, <1>9, <1>10, <1>11, <1>12 DEF C!Next

(* The tables follow the connections that are open. *)
LEMMA TablesNext == C!Inv /\ [C!Next]_(C!vars) => C!TablesExact'
<1> SUFFICES ASSUME C!Inv, [C!Next]_(C!vars) PROVE C!TablesExact'
  OBVIOUS
<1> USE DEF C!Inv, C!TypeOK, C!dialVars, C!connVars, C!goVars, C!envVars
<1>1. \A d \in Conns : d \in byAddr <=> d \in C!Added /\ (errptr[d] = "open" \/ d \in dels)
  BY DEF C!TablesExact, C!Added
<1>2. byCtx \subseteq byAddr
  BY DEF C!TablesExact
<1>3. ASSUME NEW d \in byAddr \ byCtx
      PROVE  cctx[d] \in cancelled /\ (errptr[d] # "open" \/ <<d, "closed">> \in victims)
  BY DEF C!TablesExact
<1>4. ASSUME byAddr' \in SUBSET Conns, byCtx' \subseteq byAddr',
             \A d \in Conns : d \in byAddr' <=> d \in C!Added' /\ (errptr'[d] = "open" \/ d \in dels'),
             \A d \in byAddr' \ byCtx' :
                /\ cctx'[d] \in cancelled'
                /\ errptr'[d] # "open" \/ <<d, "closed">> \in victims'
      PROVE  C!TablesExact'
  <2>1. byAddr' = {d \in C!Added' : errptr'[d] = "open" \/ d \in dels'}
    BY <1>4, Zenon DEF C!Added
  <2> QED
    BY <1>4, <2>1, Zenon DEF C!TablesExact
<1>5. ASSUME NEW c \in Conns, NEW x \in Contexts, C!Dial(c, x) PROVE C!TablesExact'
  <2>1. c \notin C!Added /\ C!Added' = C!Added
    BY <1>5 DEF C!Dial, C!Added
  <2>2. \A d \in byAddr : cctx'[d] = cctx[d]
    BY <1>1, <1>5, <2>1 DEF C!Dial
  <2> QED
    BY <1>1, <1>2, <1>3, <1>4, <1>5, <2>1, <2>2 DEF C!Dial
<1>6. ASSUME NEW c \in Conns, C!Connected(c) \/ C!DialFails(c) PROVE C!TablesExact'
  <2>1. C!Added' = C!Added
    BY <1>6 DEF C!Connected, C!DialFails, C!Added
  <2> QED
    BY <1>1, <1>2, <1>3, <1>4, <1>6, <2>1 DEF C!Connected, C!DialFails
<1>7. ASSUME NEW c \in C!Added, NEW reason \in {"closed", "disconnected"}, C!Abort(c, reason)
      PROVE  /\ errptr'[c] # "open"
             /\ \A d \in Conns : errptr'[d] = "open" => errptr[d] = "open"
             /\ \A d \in Conns : /\ errptr'[d] = "open" \/ d \in dels'
                                 <=> errptr[d] = "open" \/ d \in dels
  <2>1. c \in Conns
    BY DEF C!Added
  <2>2. CASE errptr[c] = "open"
    <3>1. errptr' = [errptr EXCEPT ![c] = reason] /\ dels' = dels \cup {c}
      BY <1>7, <2>2 DEF C!Abort
    <3> QED
      BY <2>1, <2>2, <3>1
  <2>3. CASE errptr[c] # "open"
    BY <1>7, <2>3 DEF C!Abort
  <2> QED
    BY <2>2, <2>3
<1>8. ASSUME NEW c \in Conns, C!Close(c) PROVE C!TablesExact'
  <2>1. c \in C!Added /\ C!Added' = C!Added
    BY <1>8 DEF C!Close, C!Added
  <2>2. /\ \A d \in Conns : errptr'[d] = "open" => errptr[d] = "open"
        /\ \A d \in Conns : (errptr'[d] = "open" \/ d \in dels')
                              <=> errptr[d] = "open" \/ d \in dels
    BY <1>7, <1>8, <2>1 DEF C!Close
  <2> QED
    BY <1>1, <1>2, <1>3, <1>4, <1>8, <2>1, <2>2 DEF C!Close
<1>9. ASSUME NEW c \in Conns, NEW reason \in {"closed", "disconnected"}, C!AbortVictim(c, reason)
      PROVE  C!TablesExact'
  <2>1. c \in C!Added /\ C!Added' = C!Added
    BY <1>9 DEF C!AbortVictim, C!LifeInv, C!Added
  <2>2. /\ errptr'[c] # "open"
        /\ \A d \in Conns : errptr'[d] = "open" => errptr[d] = "open"
        /\ \A d \in Conns : (errptr'[d] = "open" \/ d \in dels')
                              <=> errptr[d] = "open" \/ d \in dels
    BY <1>7, <1>9, <2>1 DEF C!AbortVictim
  <2>3. ASSUME NEW d \in byAddr \ byCtx
        PROVE  errptr'[d] # "open" \/ <<d, "closed">> \in victims'
    <3>1. CASE d = c
      BY <2>2, <3>1
    <3>2. CASE d # c
      BY <1>3, <1>9, <2>2, <3>2 DEF C!AbortVictim
    <3> QED
      BY <3>1, <3>2
  <2> QED
    BY <1>1, <1>2, <1>3, <1>4, <1>9, <2>1, <2>2, <2>3 DEF C!AbortVictim
<1>10. ASSUME NEW c \in Conns, C!CmdAdd(c) PROVE C!TablesExact'
  <2>1. c \notin C!Added /\ C!Added' = C!Added \cup {c}
    BY <1>10 DEF C!CmdAdd, C!Added
  <2>2. errptr[c] = "open"
    BY <2>1 DEF C!LifeInv
  <2> QED
    BY <1>1, <1>2, <1>3, <1>4, <1>10, <2>1, <2>2 DEF C!CmdAdd
<1>11. ASSUME NEW c \in Conns, C!CmdDel(c) PROVE C!TablesExact'
  <2>1. C!Added' = C!Added
    BY <1>11 DEF C!CmdDel, C!Added
  <2>2. errptr[c] # "open"
    BY <1>11 DEF C!CmdDel, C!LifeInv
  <2> QED
    BY <1>1, <1>2, <1>3, <1>4, <1>11, <2>1, <2>2 DEF C!CmdDel
<1>12. CASE C!Subscribe \/ C!AddrChanged \/ C!RaiseIpAddrChanged \/ UNCHANGED C!vars
  <2>1. C!Added' = C!Added
    BY <1>12 DEF C!Subscribe, C!AddrChanged, C!RaiseIpAddrChanged, C!vars, C!Added
  <2> QED
    BY <1>1, <1>2, <1>3, <1>4, <1>12, <2>1
    DEF C!Subscribe, C!AddrChanged, C!RaiseIpAddrChanged, C!vars
<1>13. CASE C!Recheck
  <2>1. C!Added' = C!Added /\ victims \subseteq victims'
    BY <1>13 DEF C!Recheck, C!Added
  <2> QED
    BY <1>1, <1>2, <1>3, <1>4, <1>13, <2>1 DEF C!Recheck
<1>14. ASSUME NEW x \in Contexts, C!ContextDone(x) PROVE C!TablesExact'
  <2> DEFINE set == {c \in byCtx : cctx[c] = x}
  <2>1. C!Added' = C!Added /\ byCtx' = byCtx \ set
    BY <1>14 DEF C!ContextDone, C!Added
  <2>2. victims \subseteq victims' /\ \A d \in set : <<d, "closed">> \in victims'
    BY <1>14 DEF C!ContextDone
  <2>3. \A d \in set : cctx[d] \in cancelled
    BY <1>14 DEF C!ContextDone
  <2>4. \A d \in byAddr \ byCtx' : d \in byAddr \ byCtx \/ d \in set
    BY <2>1
  <2> HIDE DEF set
  <2>5. ASSUME NEW d \in byAddr \ byCtx'
        PROVE  cctx[d] \in cancelled /\ (errptr[d] # "open" \/ <<d, "closed">> \in victims')
    BY <1>3, <2>2, <2>3, <2>4
  <2> QED
    BY <1>1, <1>2, <1>4, <1>14, <2>1, <2>5 DEF C!ContextDone
<1>15. ASSUME NEW x \in Contexts, C!Cancel(x) PROVE C!TablesExact'
  <2>1. C!Added' = C!Added
    BY <1>15 DEF C!Cancel, C!Added
  <2> QED
    BY <1>1, <1>2, <1>3, <1>4, <1>15, <2>1 DEF C!Cancel
<1>16. ASSUME NEW a \in Addrs, C!ChangeAddr(a) PROVE C!TablesExact'
  <2>1. C!Added' = C!Added
    BY <1>16 DEF C!ChangeAddr, C!Added
  <2> QED
    BY <1>1, <1>2, <1>3, <1>4, <1>16, <2>1 DEF C!ChangeAddr
<1> QED
  BY <1>5, <1>6, <1>8, <1>9, <1>10, <1>11, <1>12, <1>13, <1>14, <1>15, <1>16 DEF C!Next

(* The conjunction of the four is an inductive invariant. *)
THEOREM InvHolds == C!Spec => []C!Inv
<1>1. C!Inv /\ [C!Next]_(C!vars) => C!Inv'
  BY TypeNext, LifeNext, CounterNext, TablesNext DEF C!Inv
<1> QED
  BY <1>1, InvInit, PTL DEF C!Spec

(* However many goroutines race to close a connection, the statistics      *)
(* counter is always the number of connections that are open.              *)
THEOREM CounterIsExact == C!Spec => []CounterExact
<1>1. C!Inv => CounterExact
  BY DEF C!Inv, CounterExact
<1> QED
  BY <1>1, InvHolds, PTL

(* The tables never leak a closed connection and never forget an open one. *)
THEOREM TablesAreExact == C!Spec => []TablesExact
<1>1. C!Inv => TablesExact
  BY DEF C!Inv, TablesExact
<1> QED
  BY <1>1, InvHolds, PTL
=============================================================================
