--------------------------- MODULE FTPProxyProofs ---------------------------
(***************************************************************************)
(* No two requests ever use one connection to an FTP server, although the  *)
(* goroutine that expires connections does not take idleLock.              *)
(***************************************************************************)
EXTENDS FTPProxy, TLAPS

ownVars == <<pc, site, conn, bucket, lost, reused>>

(* A connection is idle if it is in a bucket or lost.                      *)
LEMMA IdleMember ==
    ASSUME TypeOK PROVE \A c : c \in Idle <=> (\E s \in Sites : c \in bucket[s]) \/ c \in lost
BY DEF Idle, TypeOK

(* The same in the state after a step.                                     *)
LEMMA IdleMemberNext ==
    ASSUME TypeOK' PROVE \A c : c \in Idle' <=> (\E s \in Sites : c \in bucket'[s]) \/ c \in lost'
BY DEF Idle, TypeOK

(* In the beginning there are no connections.                              *)
LEMMA InvInit == Init => Inv
<1> SUFFICES ASSUME Init PROVE Inv
  OBVIOUS
<1>1. TypeOK
  BY DEF Init, TypeOK, Never
<1>2. Idle = {} /\ Working = {}
  BY DEF Init, Idle, Working
<1>3. ExclusiveUse /\ OwnershipInv /\ WalkInv
  BY <1>2 DEF Init, ExclusiveUse, OwnershipInv, MayDial, WalkInv
<1> QED BY <1>1, <1>3 DEF Inv

-----------------------------------------------------------------------------
(* Every step of a request keeps the types.                                *)
LEMMA TypeHandle ==
    ASSUME Inv, NEW h \in Requests,
           (\E s \in Sites : Request(h, s)) \/ Handle(h) \/ Send(h)
    PROVE  TypeOK' /\ WalkInv'
<1> USE DEF Inv, TypeOK, WalkInv, Goto, Never
<1>a. pc[h] # "idle" => site[h] \in Sites
  BY DEF OwnershipInv
<1>b. h \in Working => conn[h] \in Requests
  BY DEF OwnershipInv
<1>1. CASE \E s \in Sites : Request(h, s)
  BY <1>1 DEF Request, poolVars, timeVars, scanVars
<1>2. CASE \E c \in Requests : GetConn(h, c)
  <2> PICK c \in Requests : GetConn(h, c)
    BY <1>2
  <2>1. /\ pc' = [pc EXCEPT ![h] = "work"]
        /\ conn' = [conn EXCEPT ![h] = c]
        /\ reused' = reused \cup {c}
        /\ bucket' = [bucket EXCEPT ![site[h]] = @ \ {c}]
        /\ expires' = [expires EXCEPT ![c] = 0]
        /\ eleft' = eleft \ {c}
    BY DEF GetConn
  <2>2. table' \in SUBSET Sites /\ left' \in SUBSET Sites /\ stale' \in BOOLEAN
    BY DEF GetConn, Remove
  <2>3. UNCHANGED <<site, closed, lock, lost, puts, clock, timer, timerC,
                    epc, ebucket, econn, now, next>>
    BY DEF GetConn, timeVars
  <2> QED BY <1>a, <2>1, <2>2, <2>3
<1>3. CASE GetNothing(h)
  BY <1>3 DEF GetNothing, Remove, timeVars
<1>4. CASE Dial(h)
  BY <1>4 DEF Dial, poolVars, timeVars, scanVars
<1>5. CASE Serve(h)
  BY <1>b, <1>5 DEF Serve, Working, poolVars, timeVars, scanVars
<1>6. CASE Fail(h)
  BY <1>b, <1>6 DEF Fail, Working, poolVars, timeVars, scanVars
<1>7. CASE PutConn(h)
  BY <1>7 DEF PutConn, poolVars, timeVars, scanVars
<1>8. CASE Lookup(h)
  BY <1>a, <1>8 DEF Lookup, timeVars
<1>9. CASE Insert(h)
  BY <1>a, <1>b, <1>9 DEF Insert, Working, timeVars
<1>10. CASE Send(h)
  BY <1>10 DEF Send, BeginWalk, timeVars
<1> QED BY <1>1, <1>2, <1>3, <1>4, <1>5, <1>6, <1>7, <1>8, <1>9, <1>10 DEF Handle

(* Every step of the goroutine and of the clock keeps the types.           *)
LEMMA TypeWalk ==
    ASSUME TypeOK, WalkInv, Walk \/ TimerWakes \/ Tick \/ GoesOff
    PROVE  TypeOK' /\ WalkInv'
<1> USE DEF TypeOK, WalkInv, Never
<1>1. CASE \E s \in Sites : EnterBucket(s)
  BY <1>1 DEF EnterBucket, poolVars, timeVars
<1>2. CASE \E c \in Requests : Look(c)
  BY <1>2 DEF Look, Earlier, poolVars, timeVars
<1>3. CASE CloseExpired
  BY <1>3 DEF CloseExpired, poolVars, timeVars
<1>4. CASE DeleteExpired
  BY <1>4 DEF DeleteExpired, timeVars
<1>5. CASE EndBucket
  BY <1>5 DEF EndBucket, poolVars, timeVars
<1>6. CASE DropBucket
  BY <1>6 DEF DropBucket, timeVars
<1>7. CASE EndWalk
  BY <1>7 DEF EndWalk, poolVars
<1>8. CASE TimerWakes
  BY <1>8 DEF TimerWakes, BeginWalk, poolVars
<1>9. CASE Tick
  BY <1>9 DEF Tick, poolVars, scanVars
<1>10. CASE GoesOff
  BY <1>10 DEF GoesOff, poolVars, scanVars
<1> QED BY <1>1, <1>2, <1>3, <1>4, <1>5, <1>6, <1>7, <1>8, <1>9, <1>10 DEF Walk

-----------------------------------------------------------------------------
(* Steps that leave alone who owns which connection.                       *)
LEMMA OwnUnchanged ==
    ASSUME ExclusiveUse, OwnershipInv, UNCHANGED ownVars
    PROVE  ExclusiveUse' /\ OwnershipInv'
<1>1. UNCHANGED <<Working, Idle, MayDial>>
  BY DEF ownVars, Working, Idle, MayDial
<1> QED BY <1>1 DEF ownVars, ExclusiveUse, OwnershipInv

(* A connection is taken out of one bucket only, and nobody else uses it.  *)
LEMMA OwnGetConn ==
    ASSUME Inv, TypeOK', NEW h \in Requests, NEW c \in Requests, GetConn(h, c)
    PROVE  ExclusiveUse' /\ OwnershipInv'
<1> DEFINE s == site[h]
<1>1. /\ pc[h] = "get" /\ pc' = [pc EXCEPT ![h] = "work"]
      /\ conn' = [conn EXCEPT ![h] = c]
      /\ reused' = reused \cup {c}
      /\ c \in bucket[s] /\ bucket' = [bucket EXCEPT ![s] = @ \ {c}]
      /\ UNCHANGED <<site, lost>>
  BY DEF GetConn, Oldest, Goto
<1>2. s \in Sites /\ site[c] = s /\ c \in Idle /\ c \notin lost
  BY <1>1, IdleMember DEF Inv, OwnershipInv, ExclusiveUse
<1>3. Idle' = Idle \ {c}
  BY <1>1, <1>2 DEF Idle, Inv, TypeOK, ExclusiveUse
<1>4. Working' = Working \cup {h} /\ h \notin Working
  BY <1>1 DEF Working, Inv, TypeOK
<1>5. h \in MayDial /\ c # h /\ c \notin MayDial /\ MayDial' = MayDial
  BY <1>1, <1>2 DEF MayDial, Inv, TypeOK, OwnershipInv
<1>6. ExclusiveUse'
  BY <1>1, <1>2, <1>3, <1>4 DEF ExclusiveUse, Inv, TypeOK
<1>7. OwnershipInv'
  <2>1. \A k \in Working' : conn'[k] \in Requests
    BY <1>1, <1>4 DEF OwnershipInv, Inv, TypeOK
  <2>2. \A k \in Requests : pc'[k] # "idle" => site'[k] \in Sites
    BY <1>1, <1>2 DEF OwnershipInv, Inv, TypeOK
  <2>3. \A t \in Sites : bucket'[t] \cap lost' = {}
    BY <1>1 DEF OwnershipInv, Inv, TypeOK
  <2>4. \A k \in MayDial' : /\ k \notin Idle' \cup reused'
                            /\ \A g \in Working' : conn'[g] # k
    BY <1>1, <1>3, <1>4, <1>5 DEF OwnershipInv, Working, Inv, TypeOK
  <2>5. \A k \in Requests : pc'[k] = "work" /\ conn'[k] = k => k \notin reused'
    <3> SUFFICES ASSUME NEW k \in Requests, pc'[k] = "work", conn'[k] = k
                 PROVE  k \notin reused'
      OBVIOUS
    <3>1. k # h /\ pc[k] = "work" /\ conn[k] = k
      BY <1>1, <1>5 DEF Inv, TypeOK
    <3>2. k # c
      BY <3>1, <1>2 DEF Inv, ExclusiveUse, Working
    <3> QED BY <3>1, <3>2, <1>1 DEF Inv, OwnershipInv
  <2> QED BY <2>1, <2>2, <2>3, <2>4, <2>5 DEF OwnershipInv
<1> QED BY <1>6, <1>7

(* A request that dials makes a connection that nobody knows of.           *)
LEMMA OwnDial ==
    ASSUME Inv, TypeOK', NEW h \in Requests, Dial(h)
    PROVE  ExclusiveUse' /\ OwnershipInv'
<1> USE DEF Inv, TypeOK
<1>1. pc[h] = "dial" /\ h \in MayDial /\ h \notin Working
  BY DEF Dial, MayDial, Working
<1>2. UNCHANGED <<site, bucket, lost, reused>> /\ Idle' = Idle
  BY DEF Dial, poolVars, Idle
<1>3. site[h] \in Sites /\ h \notin Idle \cup reused
  BY <1>1 DEF OwnershipInv
<1>4. CASE conn' = [conn EXCEPT ![h] = h] /\ pc' = [pc EXCEPT ![h] = "work"]
  <2>1. Working' = Working \cup {h}
    BY <1>4 DEF Working
  <2>2. MayDial' = MayDial \ {h}
    BY <1>4 DEF MayDial
  <2>3. ExclusiveUse'
    BY <1>1, <1>2, <1>3, <1>4, <2>1 DEF ExclusiveUse, OwnershipInv
  <2>4. OwnershipInv'
    BY <1>1, <1>2, <1>3, <1>4, <2>1, <2>2 DEF OwnershipInv
  <2> QED BY <2>3, <2>4
<1>5. CASE conn' = conn /\ pc' = [pc EXCEPT ![h] = "done"]
  <2>1. Working' = Working /\ MayDial' = MayDial \ {h}
    BY <1>1, <1>5 DEF Working, MayDial
  <2> QED BY <1>1, <1>2, <1>5, <2>1 DEF ExclusiveUse, OwnershipInv
<1> QED BY <1>4, <1>5 DEF Dial, Goto

(* A connection that was dialed by the request and fails is not tried      *)
(* again; after a reused one the request may still dial.                   *)
LEMMA OwnFail ==
    ASSUME Inv, TypeOK', NEW h \in Requests, Fail(h)
    PROVE  ExclusiveUse' /\ OwnershipInv'
<1> USE DEF Inv, TypeOK
<1>1. pc[h] = "work" /\ h \in Working
  BY DEF Fail, Working
<1>2. UNCHANGED <<site, bucket, lost, reused>> /\ Idle' = Idle
  BY DEF Fail, poolVars, Idle
<1>3. CASE conn[h] \in reused
  <2>1. pc' = [pc EXCEPT ![h] = "get"] /\ conn' = [conn EXCEPT ![h] = Nil]
    BY <1>3 DEF Fail, Goto
  <2>2. h \in MayDial
    BY <1>1, <1>3 DEF OwnershipInv, MayDial
  <2>3. Working' = Working \ {h} /\ MayDial' = MayDial
    BY <2>1, <2>2 DEF Working, MayDial
  <2> QED BY <1>1, <1>2, <2>1, <2>3 DEF ExclusiveUse, OwnershipInv
<1>4. CASE conn[h] \notin reused
  <2>1. pc' = [pc EXCEPT ![h] = "put"] /\ conn' = conn
    BY <1>4 DEF Fail, Goto
  <2>2. Working' = Working /\ MayDial' \subseteq MayDial
    BY <1>1, <2>1 DEF Working, MayDial
  <2> QED BY <1>1, <1>2, <2>1, <2>2 DEF ExclusiveUse, OwnershipInv
<1> QED BY <1>3, <1>4

(* The other steps of a request before its connection is put.              *)
LEMMA OwnSimple ==
    ASSUME Inv, TypeOK', NEW h \in Requests,
           \/ \E s \in Sites : Request(h, s)
           \/ GetNothing(h) \/ Serve(h) \/ PutConn(h) \/ Lookup(h) \/ Send(h)
    PROVE  ExclusiveUse' /\ OwnershipInv'
<1> USE DEF Inv, TypeOK
<1>1. ASSUME NEW s \in Sites, Request(h, s)
      PROVE  ExclusiveUse' /\ OwnershipInv'
  <2>1. /\ pc[h] = "idle" /\ pc' = [pc EXCEPT ![h] = "get"]
        /\ site' = [site EXCEPT ![h] = s]
        /\ UNCHANGED <<conn, bucket, lost, reused>> /\ Idle' = Idle
    BY <1>1 DEF Request, Goto, poolVars, Idle
  <2>2. Working' = Working /\ MayDial' = MayDial /\ h \in MayDial
    BY <2>1 DEF Working, MayDial
  <2>3. h \notin Idle /\ \A g \in Working : g # h /\ conn[g] # h
    BY <2>1, <2>2 DEF OwnershipInv, Working
  <2>4. ExclusiveUse'
    BY <2>1, <2>2, <2>3, IdleMember DEF ExclusiveUse, OwnershipInv
  <2>5. OwnershipInv'
    BY <2>1, <2>2 DEF OwnershipInv
  <2> QED BY <2>4, <2>5
<1>2. CASE GetNothing(h)
  <2>1. /\ pc[h] = "get" /\ pc' = [pc EXCEPT ![h] = "dial"]
        /\ UNCHANGED <<site, conn, bucket, lost, reused>> /\ Idle' = Idle
    BY <1>2 DEF GetNothing, Goto, Idle
  <2>2. Working' = Working /\ MayDial' = MayDial
    BY <2>1 DEF Working, MayDial
  <2> QED BY <2>1, <2>2 DEF ExclusiveUse, OwnershipInv
<1>3. CASE Serve(h) \/ Lookup(h)
  <2>1. /\ pc[h] \in {"work", "lookup"}
        /\ \E l \in {"put", "insert"} : pc' = [pc EXCEPT ![h] = l]
        /\ UNCHANGED <<site, conn, bucket, lost, reused>> /\ Idle' = Idle
    BY <1>3 DEF Serve, Lookup, Goto, poolVars, Idle
  <2>2. Working' = Working /\ MayDial' \subseteq MayDial
    BY <2>1 DEF Working, MayDial
  <2> QED BY <2>1, <2>2 DEF ExclusiveUse, OwnershipInv
<1>4. CASE PutConn(h) \/ Send(h)
  <2>1. /\ pc[h] \in {"put", "send"}
        /\ \/ pc' = [pc EXCEPT ![h] = "done"] /\ conn' = [conn EXCEPT ![h] = Nil]
           \/ pc[h] = "put" /\ pc' = [pc EXCEPT ![h] = "lookup"] /\ conn' = conn
        /\ UNCHANGED <<site, bucket, lost, reused>> /\ Idle' = Idle
    BY <1>4 DEF PutConn, Send, Goto, poolVars, Idle
  <2>2. MayDial' = MayDial /\ Working' \subseteq Working
        /\ \A g \in Working' : conn'[g] = conn[g]
    BY <2>1 DEF Working, MayDial
  <2> QED BY <2>1, <2>2 DEF ExclusiveUse, OwnershipInv
<1> QED BY <1>1, <1>2, <1>3, <1>4

(* The connection of the request becomes idle, in a bucket or lost.        *)
LEMMA OwnInsert ==
    ASSUME Inv, TypeOK', NEW h \in Requests, Insert(h)
    PROVE  ExclusiveUse' /\ OwnershipInv'
<1> USE DEF Inv, TypeOK
<1> DEFINE s == site[h]
           c == conn[h]
<1>1. /\ pc[h] = "insert" /\ pc' = [pc EXCEPT ![h] = "send"]
      /\ UNCHANGED <<site, conn, reused>>
      /\ \/ bucket' = [bucket EXCEPT ![s] = @ \cup {c}] /\ lost' = lost
         \/ lost' = lost \cup {c} /\ bucket' = bucket
  BY DEF Insert, Goto
<1>2. h \in Working /\ Working' = Working \ {h} /\ MayDial' = MayDial
  BY <1>1 DEF Working, MayDial
<1>3. s \in Sites /\ c \in Requests /\ site[c] = s /\ c \notin Idle
  BY <1>1, <1>2 DEF OwnershipInv, ExclusiveUse
<1>4. Idle' = Idle \cup {c}
  BY <1>1, <1>3 DEF Idle
<1>5. c \notin MayDial /\ c \notin lost /\ \A t \in Sites : c \notin bucket[t]
  BY <1>2, <1>3, IdleMember DEF OwnershipInv
<1>6. ExclusiveUse'
  BY <1>1, <1>2, <1>3, <1>4 DEF ExclusiveUse
<1>7. OwnershipInv'
  <2>1. \A k \in Requests : pc'[k] # "idle" => site'[k] \in Sites
    BY <1>1, <1>3 DEF OwnershipInv
  <2>2. \A t \in Sites : bucket'[t] \cap lost' = {}
    BY <1>1, <1>5 DEF OwnershipInv
  <2>3. \A k \in MayDial' : /\ k \notin Idle' \cup reused'
                            /\ \A g \in Working' : conn'[g] # k
    BY <1>1, <1>2, <1>4, <1>5 DEF OwnershipInv
  <2> QED BY <1>1, <1>2, <2>1, <2>2, <2>3 DEF OwnershipInv
<1> QED BY <1>6, <1>7

(* The goroutine only takes connections out of buckets, or buckets out of  *)
(* the table.                                                              *)
LEMMA OwnWalk ==
    ASSUME Inv, TypeOK', DeleteExpired \/ DropBucket
    PROVE  ExclusiveUse' /\ OwnershipInv'
<1> USE DEF Inv, TypeOK
<1>1. /\ UNCHANGED <<pc, site, conn, reused>>
      /\ \A s \in Sites : bucket'[s] \subseteq bucket[s] /\ bucket'[s] \cap lost' = {}
      /\ Idle' \subseteq Idle
  <2>1. CASE DeleteExpired
    <3>1. UNCHANGED <<pc, site, conn, reused, lost>>
          /\ \A s \in Sites : bucket'[s] \subseteq bucket[s]
      BY <2>1 DEF DeleteExpired
    <3> QED BY <3>1 DEF OwnershipInv, Idle
  <2>2. CASE DropBucket
    <3>1. /\ UNCHANGED <<pc, site, conn, reused>> /\ ebucket \in Sites
          /\ lost' = lost \cup bucket[ebucket]
          /\ bucket' = [bucket EXCEPT ![ebucket] = {}]
      BY <2>2 DEF DropBucket, WalkInv
    <3>2. \A s \in Sites : s # ebucket => bucket[s] \cap bucket[ebucket] = {}
      BY <3>1 DEF ExclusiveUse
    <3> QED BY <3>1, <3>2 DEF OwnershipInv, Idle
  <2> QED BY <2>1, <2>2
<1>2. UNCHANGED <<Working, MayDial>>
  BY <1>1 DEF Working, MayDial
<1> QED BY <1>1, <1>2 DEF ExclusiveUse, OwnershipInv

-----------------------------------------------------------------------------
(* Every step keeps the inductive invariant.                               *)
LEMMA InvNext == Inv /\ [Next]_vars => Inv'
<1> SUFFICES ASSUME Inv, [Next]_vars PROVE Inv'
  OBVIOUS
<1>1. ASSUME NEW h \in Requests,
             (\E s \in Sites : Request(h, s)) \/ Handle(h) \/ Send(h)
      PROVE  Inv'
  <2>1. TypeOK' /\ WalkInv'
    BY <1>1, TypeHandle
  <2>2. ExclusiveUse' /\ OwnershipInv'
    BY <1>1, <2>1, OwnGetConn, OwnDial, OwnFail, OwnSimple, OwnInsert DEF Handle
  <2> QED BY <2>1, <2>2 DEF Inv
<1>2. ASSUME Walk \/ TimerWakes \/ Tick \/ GoesOff PROVE Inv'
  <2>1. TypeOK' /\ WalkInv'
    BY <1>2, TypeWalk DEF Inv
  <2>2. DeleteExpired \/ DropBucket \/ UNCHANGED ownVars
    BY <1>2 DEF Walk, EnterBucket, Look, CloseExpired, EndBucket, EndWalk,
                TimerWakes, BeginWalk, Tick, GoesOff, poolVars, ownVars
  <2>3. ExclusiveUse' /\ OwnershipInv'
    BY <2>1, <2>2, OwnUnchanged, OwnWalk DEF Inv
  <2> QED BY <2>1, <2>3 DEF Inv
<1>3. CASE UNCHANGED vars
  <2>1. TypeOK' /\ WalkInv'
    BY <1>3 DEF Inv, TypeOK, WalkInv, vars, poolVars, timeVars, scanVars
  <2>2. UNCHANGED ownVars
    BY <1>3 DEF vars, poolVars, ownVars
  <2> QED BY <2>1, <2>2, OwnUnchanged DEF Inv
<1> QED BY <1>1, <1>2, <1>3 DEF Next

(* The inductive invariant of the FTP proxy holds.                         *)
THEOREM InvHolds == Spec => []Inv
BY InvInit, InvNext, PTL DEF Spec

(* For any requests and sites: a connection is used by one request at a    *)
(* time, and is not among the idle ones meanwhile (getConn and putConn),   *)
(* however the steps of the goroutine that takes no lock are interleaved.  *)
THEOREM ConnectionsAreExclusive == Spec => []ExclusiveUse
<1>1. Inv => ExclusiveUse
  BY DEF Inv
<1> QED BY InvHolds, <1>1, PTL
=============================================================================
