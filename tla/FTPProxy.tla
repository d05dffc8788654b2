------------------------------ MODULE FTPProxy ------------------------------
(***************************************************************************)
(* The FTP proxy (src/ftp.go): requests that share idle connections, and   *)
(* the goroutine that closes connections that were idle for too long.      *)
(*                                                                         *)
(* The goroutine walks through the idle connections without idleLock, so   *)
(* its steps are interleaved with those of requests that hold the lock.    *)
(* The Go runtime may also notice that maps are used concurrently and end  *)
(* the process, and everything here with it: behaviours in which it does   *)
(* are those that stop, and the liveness properties are about the others.  *)
(*                                                                         *)
(* Every element of Requests is one call of Handle, together with the      *)
(* connection that it dials, if it does.  Time is counted in connections   *)
(* that become idle: each is put later than the one before, and expires    *)
(* later.                                                                  *)
(***************************************************************************)
EXTENDS Integers

CONSTANTS
    Requests, (* calls of Handle                                           *)
    Sites,    (* sites they are for                                        *)
    Nil

ASSUME NilAssumption == Nil \notin Requests \cup Sites

VARIABLES
    pc,      (* pc[h]: where the request is                                *)
    site,    (* site[h]: the site of the request and of its connection     *)
    conn,    (* conn[h]: local variable conn                               *)
    lock,    (* who holds idleLock                                         *)
    table,   (* the sites that idleConnections has a bucket for            *)
    bucket,  (* bucket[s]: idleConnections[s]                              *)
    lost,    (* connections in buckets that are no longer in the table     *)
    closed,  (* connections with the flag closed                           *)
    reused,  (* connections with the flag reused                           *)
    expires, (* expires[c]: when the idle connection expires               *)
    puts,    (* connections that became idle so far                        *)
    clock,   (* the time                                                   *)
    timer,   (* when the timer goes off; Never if it does not              *)
    timerC,  (* timer.C is ready                                           *)
    epc,     (* where expireIdleConnections is                             *)
    left,    (* sites it has still to walk through                         *)
    ebucket, (* the site whose bucket it is walking through                *)
    stale,   (* that bucket is no longer in the table                      *)
    eleft,   (* connections of that site it has still to look at           *)
    econn,   (* the connection it closes                                   *)
    now,     (* its local variable now                                     *)
    next     (* its local variable next; Never if nothing will expire      *)

poolVars == <<lock, table, bucket, lost, reused, expires, puts>>
timeVars == <<clock, timer, timerC>>
scanVars == <<epc, left, ebucket, stale, eleft, econn, now, next>>
vars     == <<pc, site, conn, closed, poolVars, timeVars, scanVars>>

Never == 0

TypeOK ==
    /\ pc \in [Requests -> {"idle", "get", "dial", "work", "put", "lookup",
                            "insert", "send", "done"}]
    /\ site \in [Requests -> Sites \cup {Nil}]
    /\ conn \in [Requests -> Requests \cup {Nil}]
    /\ lock \in Requests \cup {Nil}
    /\ table \in SUBSET Sites
    /\ bucket \in [Sites -> SUBSET Requests]
    /\ lost \in SUBSET Requests
    /\ closed \in SUBSET Requests
    /\ reused \in SUBSET Requests
    /\ expires \in [Requests -> Nat]
    /\ puts \in Nat /\ clock \in Nat
    /\ timer \in Nat /\ timerC \in BOOLEAN
    /\ epc \in {"select", "buckets", "conns", "close", "delete", "drop"}
    /\ left \in SUBSET Sites
    /\ ebucket \in Sites \cup {Nil} /\ stale \in BOOLEAN
    /\ eleft \in SUBSET Requests
    /\ econn \in Requests \cup {Nil}
    /\ now \in Nat /\ next \in Nat

Init ==
    /\ pc = [h \in Requests |-> "idle"]
    /\ site = [h \in Requests |-> Nil]
    /\ conn = [h \in Requests |-> Nil]
    /\ lock = Nil
    /\ table = {} /\ bucket = [s \in Sites |-> {}] /\ lost = {}
    /\ closed = {} /\ reused = {}
    /\ expires = [c \in Requests |-> Never]
    /\ puts = 0 /\ clock = 0
    /\ timer = Never /\ timerC = FALSE
    /\ epc = "select"
    /\ left = {} /\ ebucket = Nil /\ stale = FALSE /\ eleft = {} /\ econn = Nil
    /\ now = 0 /\ next = Never

(* A bucket is removed from the table by a request that holds the lock. *)
Remove(s) ==
    /\ table' = table \ {s}
    /\ left' = left \ {s}
    /\ stale' = (stale \/ (s \in table /\ s = ebucket))

Goto(h, label) == pc' = [pc EXCEPT ![h] = label]

-----------------------------------------------------------------------------
(***************************************************************************)
(* Handle.                                                                 *)
(***************************************************************************)
Request(h, s) ==
    /\ pc[h] = "idle"
    /\ site' = [site EXCEPT ![h] = s]
    /\ Goto(h, "get")
    /\ UNCHANGED <<conn, closed, poolVars, timeVars, scanVars>>

(* The connections of a bucket that expire first. *)
Oldest(b) == {c \in b : \A d \in b : expires[c] <= expires[d]}

(* Fault: the connection is left in its bucket. *)
GetConnKept(h, c) ==
    /\ pc[h] = "get" /\ lock = Nil
    /\ c \in Oldest(bucket[site[h]])
    /\ conn' = [conn EXCEPT ![h] = c]
    /\ reused' = reused \cup {c}
    /\ Goto(h, "work")
    /\ UNCHANGED <<site, closed, lock, table, bucket, lost, expires, puts,
                   timeVars, scanVars>>

(***************************************************************************)
(* getConn takes a connection that expires first.  A bucket that is empty, *)
(* then, is removed: a walk that is in it finds nothing more there.        *)
(***************************************************************************)
GetConn(h, c) ==
    LET s == site[h] IN
    /\ pc[h] = "get" /\ lock = Nil
    /\ c \in Oldest(bucket[s])
    /\ conn' = [conn EXCEPT ![h] = c]
    /\ reused' = reused \cup {c}
    /\ bucket' = [bucket EXCEPT ![s] = @ \ {c}]
    /\ expires' = [expires EXCEPT ![c] = Never]
    /\ eleft' = eleft \ {c}
    /\ IF bucket[s] = {c} THEN Remove(s) ELSE UNCHANGED <<table, left, stale>>
    /\ Goto(h, "work")
    /\ UNCHANGED <<site, closed, lock, lost, puts, timeVars, epc, ebucket,
                   econn, now, next>>

GetNothing(h) ==
    /\ pc[h] = "get" /\ lock = Nil /\ bucket[site[h]] = {}
    /\ Remove(site[h])
    /\ Goto(h, "dial")
    /\ UNCHANGED <<site, conn, closed, lock, bucket, lost, reused, expires,
                   puts, timeVars, epc, ebucket, eleft, econn, now, next>>

(* dialConn connects and logs in, or fails. *)
Dial(h) ==
    /\ pc[h] = "dial"
    /\ \/ conn' = [conn EXCEPT ![h] = h] /\ Goto(h, "work")
       \/ UNCHANGED conn /\ Goto(h, "done")
    /\ UNCHANGED <<site, closed, poolVars, timeVars, scanVars>>

(* The file or the directory is sent; the return to "/" may fail.          *)
Serve(h) ==
    /\ pc[h] = "work" /\ conn[h] \notin closed
    /\ closed' \in {closed, closed \cup {conn[h]}}
    /\ Goto(h, "put")
    /\ UNCHANGED <<site, conn, poolVars, timeVars, scanVars>>

(* An error closes the connection.  If it was reused, another is tried.    *)
Fail(h) ==
    /\ pc[h] = "work"
    /\ closed' = closed \cup {conn[h]}
    /\ IF conn[h] \in reused
       THEN Goto(h, "get") /\ conn' = [conn EXCEPT ![h] = Nil]
       ELSE Goto(h, "put") /\ UNCHANGED conn
    /\ UNCHANGED <<site, poolVars, timeVars, scanVars>>

-----------------------------------------------------------------------------
(***************************************************************************)
(* putConn, deferred by Handle.  What it does for connections of earlier   *)
(* attempts is left out: they are closed, and it returns.                  *)
(***************************************************************************)
PutConn(h) ==
    /\ pc[h] = "put"
    /\ IF conn[h] \in closed
       THEN Goto(h, "done") /\ conn' = [conn EXCEPT ![h] = Nil]
       ELSE Goto(h, "lookup") /\ UNCHANGED conn
    /\ UNCHANGED <<site, closed, poolVars, timeVars, scanVars>>

(* The lock is taken, and a bucket created unless there is one.  A walk    *)
(* may or may not come upon a new bucket.                                  *)
Lookup(h) ==
    /\ pc[h] = "lookup" /\ lock = Nil
    /\ lock' = h
    /\ table' = table \cup {site[h]}
    /\ IF site[h] \in table \/ epc = "select"
       THEN UNCHANGED left
       ELSE left' \in {left, left \cup {site[h]}}
    /\ Goto(h, "insert")
    /\ UNCHANGED <<site, conn, closed, bucket, lost, reused, expires, puts,
                   timeVars, epc, ebucket, stale, eleft, econn, now, next>>

(* The connection is put into the bucket, which may have been removed      *)
(* meanwhile.                                                              *)
Insert(h) ==
    LET s == site[h]  c == conn[h] IN
    /\ pc[h] = "insert"
    /\ IF s \in table
       THEN /\ bucket' = [bucket EXCEPT ![s] = @ \cup {c}]
            /\ UNCHANGED lost
       ELSE /\ lost' = lost \cup {c}
            /\ UNCHANGED bucket
    /\ IF s \in table /\ s = ebucket /\ ~stale
       THEN eleft' \in {eleft, eleft \cup {c}}
       ELSE UNCHANGED eleft
    /\ puts' = puts + 1
    /\ expires' = [expires EXCEPT ![c] = puts + 1]
    /\ Goto(h, "send")
    /\ UNCHANGED <<site, conn, closed, lock, table, reused, timeVars,
                   epc, left, ebucket, stale, econn, now, next>>

-----------------------------------------------------------------------------
(***************************************************************************)
(* expireIdleConnections.                                                  *)
(***************************************************************************)
BeginWalk ==
    /\ epc = "select"
    /\ epc' = "buckets"
    /\ left' = table
    /\ now' = clock
    /\ next' = Never
    /\ UNCHANGED <<ebucket, stale, eleft, econn>>

(* putConn sends, under the lock, and the goroutine receives. *)
Send(h) ==
    /\ pc[h] = "send"
    /\ BeginWalk
    /\ lock' = Nil
    /\ Goto(h, "done")
    /\ conn' = [conn EXCEPT ![h] = Nil]
    /\ UNCHANGED <<site, closed, table, bucket, lost, reused, expires,
                   puts, timeVars>>

TimerWakes ==
    /\ timerC
    /\ timerC' = FALSE
    /\ BeginWalk
    /\ UNCHANGED <<pc, site, conn, closed, poolVars, clock, timer>>

(* Fault: the lock is taken for the walk, after the channel was received    *)
(* from.                                                                   *)
EnterBucketLocked(s) ==
    /\ epc = "buckets" /\ s \in left
    /\ lock = Nil
    /\ epc' = "conns"
    /\ left' = left \ {s}
    /\ ebucket' = s
    /\ eleft' = bucket[s]
    /\ UNCHANGED <<pc, site, conn, closed, poolVars, timeVars, stale, econn,
                   now, next>>

EnterBucket(s) ==
    /\ epc = "buckets" /\ s \in left
    /\ epc' = "conns"
    /\ left' = left \ {s}
    /\ ebucket' = s
    /\ eleft' = bucket[s]
    /\ UNCHANGED <<pc, site, conn, closed, poolVars, timeVars, stale, econn,
                   now, next>>

Earlier(t, u) == IF t = Never \/ u < t THEN u ELSE t

Look(c) ==
    /\ epc = "conns" /\ c \in eleft
    /\ eleft' = eleft \ {c}
    /\ IF expires[c] <= now
       THEN epc' = "close" /\ econn' = c /\ UNCHANGED next
       ELSE next' = Earlier(next, expires[c]) /\ UNCHANGED <<epc, econn>>
    /\ UNCHANGED <<pc, site, conn, closed, poolVars, timeVars, left, ebucket,
                   stale, now>>

CloseExpired ==
    /\ epc = "close"
    /\ closed' = closed \cup {econn}
    /\ epc' = "delete"
    /\ UNCHANGED <<pc, site, conn, poolVars, timeVars, left, ebucket, stale,
                   eleft, econn, now, next>>

DeleteExpired ==
    /\ epc = "delete"
    /\ IF stale \/ econn \notin bucket[ebucket]
       THEN UNCHANGED <<bucket, expires>>
       ELSE /\ bucket' = [bucket EXCEPT ![ebucket] = @ \ {econn}]
            /\ expires' = [expires EXCEPT ![econn] = Never]
    /\ econn' = Nil
    /\ epc' = "conns"
    /\ UNCHANGED <<pc, site, conn, closed, lock, table, lost, reused, puts,
                   timeVars, left, ebucket, stale, eleft, now, next>>

EndBucket ==
    /\ epc = "conns" /\ eleft = {}
    /\ IF stale \/ bucket[ebucket] = {}
       THEN epc' = "drop" /\ UNCHANGED <<ebucket, stale>>
       ELSE epc' = "buckets" /\ ebucket' = Nil /\ stale' = FALSE
    /\ UNCHANGED <<pc, site, conn, closed, poolVars, timeVars, left, eleft,
                   econn, now, next>>

(* The bucket was empty: whatever bucket the table has now is removed. *)
DropBucket ==
    /\ epc = "drop"
    /\ table' = table \ {ebucket}
    /\ left' = left \ {ebucket}
    /\ lost' = lost \cup bucket[ebucket]
    /\ bucket' = [bucket EXCEPT ![ebucket] = {}]
    /\ ebucket' = Nil /\ stale' = FALSE
    /\ epc' = "buckets"
    /\ UNCHANGED <<pc, site, conn, closed, lock, reused, expires, puts,
                   timeVars, eleft, econn, now, next>>

(* Fault: the timer is not set again. *)
EndWalkIdly ==
    /\ epc = "buckets" /\ left = {}
    /\ epc' = "select"
    /\ now' = 0 /\ next' = Never
    /\ UNCHANGED <<pc, site, conn, closed, poolVars, timeVars, left, ebucket,
                   stale, eleft, econn>>

EndWalk ==
    /\ epc = "buckets" /\ left = {}
    /\ epc' = "select"
    /\ timer' = IF table = {} THEN timer ELSE next
    /\ now' = 0 /\ next' = Never
    /\ UNCHANGED <<pc, site, conn, closed, poolVars, clock, timerC, left,
                   ebucket, stale, eleft, econn>>

-----------------------------------------------------------------------------
(***************************************************************************)
(* Time passes, and the timer goes off.                                    *)
(***************************************************************************)
Tick ==
    /\ clock < puts
    /\ clock' = clock + 1
    /\ UNCHANGED <<pc, site, conn, closed, poolVars, timer, timerC, scanVars>>

GoesOff ==
    /\ timer # Never /\ timer <= clock
    /\ timer' = Never
    /\ timerC' = TRUE
    /\ UNCHANGED <<pc, site, conn, closed, poolVars, clock, scanVars>>

-----------------------------------------------------------------------------
Handle(h) ==
    \/ \E c \in Requests : GetConn(h, c)
    \/ GetNothing(h) \/ Dial(h) \/ Serve(h) \/ Fail(h) \/ PutConn(h)
    \/ Lookup(h) \/ Insert(h)

Walk ==
    \/ \E s \in Sites : EnterBucket(s)
    \/ \E c \in Requests : Look(c)
    \/ CloseExpired \/ DeleteExpired \/ EndBucket \/ DropBucket \/ EndWalk

Next ==
    \/ \E h \in Requests :
          \/ \E s \in Sites : Request(h, s)
          \/ Handle(h) \/ Send(h)
    \/ Walk \/ TimerWakes
    \/ Tick \/ GoesOff

Spec == Init /\ [][Next]_vars

(***************************************************************************)
(* What has started goes on (network calls end, the mutex and the channel  *)
(* serve everyone in the end), time passes, and select does not pass over  *)
(* a channel that is ready again and again.                                *)
(***************************************************************************)
Fairness ==
    /\ \A h \in Requests : SF_vars(Handle(h) \/ Send(h))
    /\ WF_vars(Walk) /\ SF_vars(TimerWakes)
    /\ WF_vars(Tick) /\ WF_vars(GoesOff)

FairSpec == Spec /\ Fairness

-----------------------------------------------------------------------------
(***************************************************************************)
(* Properties.                                                             *)
(***************************************************************************)
Working == {h \in Requests : pc[h] \in {"work", "put", "lookup", "insert"}}
Idle    == {c \in Requests : \E s \in Sites : c \in bucket[s]} \cup lost

(* A connection is used by one request at a time, of the site it was       *)
(* dialed for, and nobody finds it idle meanwhile: its responses would be  *)
(* mixed up (getConn, putConn; putConn panics at ftp.go:468 otherwise).    *)
ExclusiveUse ==
    /\ \A h \in Working :
          /\ conn[h] \notin Idle
          /\ site[conn[h]] = site[h]
          /\ \A g \in Working : g # h => conn[g] # conn[h]
    /\ \A s \in Sites : \A c \in bucket[s] : site[c] = s

(* Requests are answered: none waits for ever for idleLock, or for the     *)
(* goroutine to receive the signal of putConn (ftp.go:473), and none tries *)
(* reused connections for ever.                                            *)
RequestsAnswered == []<>(\A h \in Requests : pc[h] \in {"idle", "done"})

(* Connections do not stay in the table of idle connections for ever: the  *)
(* timer is set whenever there is one (ftp.go:524).                        *)
IdleExpires == []<>(\A s \in Sites : bucket[s] = {})

-----------------------------------------------------------------------------
(***************************************************************************)
(* What the proof of ExclusiveUse rests on: every connection is in one     *)
(* place, and a request that may still dial has not dialed yet.            *)
(***************************************************************************)
MayDial == {h \in Requests : \/ pc[h] \in {"idle", "get", "dial"}
                             \/ pc[h] = "work" /\ conn[h] # h}

OwnershipInv ==
    /\ \A h \in Working : conn[h] \in Requests
    /\ \A h \in Requests : pc[h] # "idle" => site[h] \in Sites
    /\ \A s \in Sites : bucket[s] \cap lost = {}
    /\ \A h \in MayDial : /\ h \notin Idle \cup reused
                          /\ \A g \in Working : conn[g] # h
    /\ \A h \in Requests : pc[h] = "work" /\ conn[h] = h => h \notin reused

(* The goroutine knows the bucket it walks through and what it closes. *)
WalkInv ==
    /\ epc \in {"conns", "close", "delete", "drop"} => ebucket \in Sites
    /\ epc \in {"close", "delete"} => econn \in Requests

Inv == TypeOK /\ WalkInv /\ ExclusiveUse /\ OwnershipInv
=============================================================================
