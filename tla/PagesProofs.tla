----------------------------- MODULE PagesProofs -----------------------------
(***************************************************************************)
(* A request that polls never misses a change of its resource, a page that *)
(* is connected polls what it shows, and what the script of the page of    *)
(* sites marks and counts is what it shows.                                *)
(***************************************************************************)
EXTENDS MCPages, Integers, Sequences, FiniteSets, FiniteSetTheorems, SequenceTheorems,
        WellFoundedInduction, TLAPS

-----------------------------------------------------------------------------
(***************************************************************************)
(* Polling requests (Poll).                                                *)
(***************************************************************************)
(* In the beginning nobody is subscribed and no event is raised.           *)
LEMMA InvInit == Init => Inv
BY EventAssumption
   DEF Init, Inv, TypeOK, Tags, SubscriptionInv, RaisingInv,
       Bus!Init, Bus!ClientState

(* A request that changes the resource does not touch subscriptions.       *)
LEMMA InvWriters ==
    ASSUME Inv, NEW w \in Writers, Change(w) \/ Notify(w) \/ Notified(w)
    PROVE  Inv'
<1> USE DEF Inv
<1>1. CASE Change(w)
  BY <1>1 DEF Change, busVars, TypeOK, Tags, SubscriptionInv, RaisingInv, Bus!ClientState
<1>2. CASE Notify(w)
  <2>1. TypeOK'
    BY <1>2 DEF Notify, Bus!Call, TypeOK, Tags, Bus!ClientState
  <2>2. SubscriptionInv'
    BY <1>2 DEF Notify, Bus!Call, SubscriptionInv
  <2>3. RaisingInv'
    BY <1>2 DEF Notify, Bus!Call, RaisingInv, TypeOK
  <2> QED BY <2>1, <2>2, <2>3
<1>3. CASE Notified(w)
  <2>1. TypeOK'
    BY <1>3 DEF Notified, Bus!Raise, TypeOK, Tags, Bus!ClientState
  <2>2. SubscriptionInv'
    BY <1>3 DEF Notified, Bus!Raise, SubscriptionInv
  <2>3. RaisingInv'
    BY <1>3 DEF Notified, Bus!Raise, RaisingInv, TypeOK
  <2> QED BY <2>1, <2>2, <2>3
<1> QED BY <1>1, <1>2, <1>3

(* A request that has just begun is not subscribed.                        *)
LEMMA InvRequest ==
    ASSUME Inv, NEW p \in Pollers, NEW tag \in Tags, Request(p, tag)
    PROVE  Inv'
BY DEF Request, Inv, busVars, TypeOK, Tags, SubscriptionInv, RaisingInv, Bus!ClientState

(* The steps of ServeHTTP keep the subscription until they end.            *)
LEMMA InvServe ==
    ASSUME Inv, NEW p \in Pollers, Serve(p) PROVE Inv'
<1> USE DEF Inv
<1>1. CASE Subscribe(p)
  <2>1. list' = [list EXCEPT ![p] = {Changed}]
    BY <1>1 DEF Subscribe, Bus!Sub, TypeOK
  <2>2. TypeOK'
    BY <1>1, <2>1 DEF Subscribe, Bus!Sub, TypeOK, Tags, Bus!ClientState
  <2>3. SubscriptionInv'
    BY <1>1, <2>1 DEF Subscribe, Bus!Sub, SubscriptionInv, TypeOK
  <2>4. RaisingInv'
    BY <1>1 DEF Subscribe, Bus!Sub, RaisingInv
  <2> QED BY <2>2, <2>3, <2>4
<1>2. CASE Read(p)
  <2>1. data # NoTag
    BY TagAssumption DEF TypeOK
  <2> QED
    BY <1>2, <2>1 DEF Read, busVars, TypeOK, Tags, SubscriptionInv, RaisingInv, Bus!ClientState
<1>3. CASE Wait(p)
  BY <1>3 DEF Wait, Bus!Listen, TypeOK, Tags, SubscriptionInv, RaisingInv, Bus!ClientState
<1>4. CASE Wake(p)
  <2>1. TypeOK'
    BY <1>4 DEF Wake, Bus!Deliver, TypeOK, Tags, Bus!ClientState
  <2>2. SubscriptionInv'
    BY <1>4 DEF Wake, Bus!Deliver, SubscriptionInv, TypeOK
  <2>3. RaisingInv'
    BY <1>4 DEF Wake, Bus!Deliver, RaisingInv
  <2> QED BY <2>1, <2>2, <2>3
<1>5. CASE Drop(p)
  BY <1>5 DEF Drop, Bus!Unsub, TypeOK, Tags, SubscriptionInv, RaisingInv, Bus!ClientState
<1>6. CASE Answer(p)
  <2>1. TypeOK'
    BY <1>6 DEF Answer, Bus!Unsub, busVars, TypeOK, Tags, Bus!ClientState
  <2>2. SubscriptionInv'
    BY <1>6 DEF Answer, Bus!Unsub, busVars, SubscriptionInv, TypeOK
  <2>3. RaisingInv'
    BY <1>6 DEF Answer, Bus!Unsub, busVars, RaisingInv
  <2> QED BY <2>1, <2>2, <2>3
<1> QED BY <1>1, <1>2, <1>3, <1>4, <1>5, <1>6 DEF Serve

(* A client that goes away, and a step of nobody, change nothing here.     *)
LEMMA InvRest ==
    ASSUME Inv, UNCHANGED vars \/ \E p \in Pollers : Disconnect(p)
    PROVE  Inv'
BY DEF vars, busVars, Disconnect, Inv, TypeOK, SubscriptionInv, RaisingInv, Bus!ClientState

LEMMA InvNext == Inv /\ [Next]_vars => Inv'
BY InvWriters, InvRequest, InvServe, InvRest DEF Next

(* For any requests, writers and contents: a request that has a tag is     *)
(* subscribed from before it reads the resource until it is answered or    *)
(* dropped (handler.go:53-55), and waits only with a tag.                  *)
THEOREM InvHolds == Spec => []Inv
BY InvInit, InvNext, PTL DEF Spec

-----------------------------------------------------------------------------
(* No step of the program makes a request miss a change.                   *)
LEMMA NoMissedChangeStep ==
    ASSUME Inv, NoMissedChange, Failing = {}, [Next]_vars
    PROVE  NoMissedChange'
<1> USE DEF NoMissedChange, Waiting
<1>1. ASSUME NEW w \in Writers, Change(w) PROVE NoMissedChange'
  BY <1>1 DEF Change, Inv, TypeOK
<1>2. ASSUME NEW w \in Writers, Notify(w) PROVE NoMissedChange'
  BY <1>2 DEF Notify, Inv, TypeOK
(* The event is raised: every request that waits has subscribed to it.     *)
<1>3. ASSUME NEW w \in Writers, Notified(w) PROVE NoMissedChange'
  <2> SUFFICES ASSUME NEW p \in Pollers, ppc'[p] \in {"listen", "wait"}
               PROVE  Changed \in todo'[p]
    OBVIOUS
  <2>1. client[p] \in {"busy", "listening"} /\ list[p] = {Changed}
    BY <1>3 DEF Notified, Inv, SubscriptionInv
  <2>2. raising[w] = Changed
    BY <1>3 DEF Notified, Inv, RaisingInv
  <2> QED BY <1>3, <2>1, <2>2 DEF Notified, Bus!Raise, Bus!Subscribed, Bus!Wanted
<1>4. ASSUME NEW p \in Pollers, NEW tag \in Tags, Request(p, tag)
      PROVE  NoMissedChange'
  BY <1>4 DEF Request, busVars, Inv, TypeOK
<1>5. ASSUME NEW p \in Pollers, Serve(p) PROVE NoMissedChange'
  <2>1. CASE Subscribe(p)
    BY <2>1 DEF Subscribe, Bus!Sub, Inv, TypeOK
  <2>2. CASE Read(p)
    BY <2>2 DEF Read, busVars, Inv, TypeOK
  <2>3. CASE Wait(p)
    BY <2>3 DEF Wait, Bus!Listen, Inv, TypeOK
  <2>4. CASE Wake(p)
    BY <2>4 DEF Wake, Bus!Deliver, Inv, TypeOK
  <2>5. CASE Drop(p)
    BY <2>5 DEF Drop, Bus!Unsub, Inv, TypeOK
  <2>6. CASE Answer(p)
    BY <2>6 DEF Answer, Bus!Unsub, busVars, Inv, TypeOK
  <2> QED BY <1>5, <2>1, <2>2, <2>3, <2>4, <2>5, <2>6 DEF Serve
<1>6. ASSUME NEW p \in Pollers, Disconnect(p) PROVE NoMissedChange'
  BY <1>6 DEF Disconnect, busVars
<1>7. CASE UNCHANGED vars
  BY <1>7 DEF vars, busVars
<1> QED BY <1>1, <1>2, <1>3, <1>4, <1>5, <1>6, <1>7 DEF Next

(* As long as every change that is made is also notified of, a request     *)
(* that waits on an outdated tag is owed the event or will be, for any     *)
(* number of requests, writers and contents: the handler subscribes before *)
(* it reads (handler.go:53-61).                                            *)
THEOREM ChangesAreNotMissed ==
    ASSUME Failing = {} PROVE Spec => []NoMissedChange
<1>1. Init => NoMissedChange
  BY DEF Init, NoMissedChange, Waiting
<1>2. Inv /\ NoMissedChange /\ [Next]_vars => NoMissedChange'
  BY NoMissedChangeStep
<1> QED BY InvHolds, <1>1, <1>2, PTL DEF Spec
-----------------------------------------------------------------------------
(***************************************************************************)
(* The poll socket (PollSocket).                                           *)
(***************************************************************************)
(* The tags of a path tell its contents apart, and no tag is none.         *)
LEMMA TagsDiffer ==
    ASSUME NEW p \in Paths, NEW q \in Paths, NEW c \in SockContents, NEW d
    PROVE  T!Tag(p, c) # NoTag /\ (T!Tag(p, c) = T!Tag(q, d) => p = q /\ c = d)
BY SocketAssumption DEF T!Tag

LEMMA SocketInit == T!Init => T!Inv
BY DEF T!Init, T!Inv, T!TypeOK, T!Tags, T!SocketInv, T!TagInv, T!PollsWhatIsShown

LEMMA SocketChange == ASSUME T!Inv, NEW p \in Paths, T!Change(p) PROVE T!Inv'
<1> USE DEF T!Inv, T!Change, T!Step, T!pollVars
<1>1. T!TypeOK' /\ T!SocketInv'
  BY TagsDiffer DEF T!TypeOK, T!SocketInv, T!TagInv, T!Tags, T!Tag
<1>2. T!TagInv'
  BY <1>1, TagsDiffer DEF T!TypeOK, T!SocketInv, T!TagInv
<1>3. T!PollsWhatIsShown'
  BY <1>1, <1>2 DEF T!TypeOK, T!SocketInv, T!TagInv, T!PollsWhatIsShown
<1> QED BY <1>1, <1>2, <1>3

LEMMA SocketOnMessage == ASSUME T!Inv, NEW p \in Paths, T!OnMessage(p) PROVE T!Inv'
<1> USE DEF T!Inv, T!OnMessage, T!Step
<1>1. T!TypeOK' /\ T!SocketInv'
  BY TagsDiffer DEF T!TypeOK, T!SocketInv, T!TagInv, T!Tags, T!Tag
<1>2. T!TagInv'
  BY <1>1, TagsDiffer DEF T!TypeOK, T!SocketInv, T!TagInv
<1>3. T!PollsWhatIsShown'
  BY <1>1, <1>2 DEF T!TypeOK, T!SocketInv, T!TagInv, T!PollsWhatIsShown
<1> QED BY <1>1, <1>2, <1>3

LEMMA SocketNewRequest == ASSUME T!Inv, NEW p \in Paths, T!NewRequest(p) PROVE T!Inv'
<1> USE DEF T!Inv, T!NewRequest, T!Step
<1>1. T!TypeOK' /\ T!SocketInv'
  BY TagsDiffer DEF T!TypeOK, T!SocketInv, T!TagInv, T!Tags, T!Tag
<1>2. T!TagInv'
  BY <1>1, TagsDiffer DEF T!TypeOK, T!SocketInv, T!TagInv
<1>3. T!PollsWhatIsShown'
  BY <1>1, <1>2 DEF T!TypeOK, T!SocketInv, T!TagInv, T!PollsWhatIsShown
<1> QED BY <1>1, <1>2, <1>3

LEMMA SocketSetTag == ASSUME T!Inv, NEW p \in Paths, T!SetTag(p) PROVE T!Inv'
<1> USE DEF T!Inv, T!SetTag, T!Step
<1>1. T!TypeOK' /\ T!SocketInv'
  BY TagsDiffer DEF T!TypeOK, T!SocketInv, T!TagInv, T!Tags, T!Tag
<1>2. T!TagInv'
  BY <1>1, TagsDiffer DEF T!TypeOK, T!SocketInv, T!TagInv
<1>3. T!PollsWhatIsShown'
  BY <1>1, <1>2 DEF T!TypeOK, T!SocketInv, T!TagInv, T!PollsWhatIsShown
<1> QED BY <1>1, <1>2, <1>3

LEMMA SocketServeHTTP == ASSUME T!Inv, NEW p \in Paths, T!ServeHTTP(p) PROVE T!Inv'
<1> USE DEF T!Inv, T!ServeHTTP, T!Step
<1>1. T!TypeOK' /\ T!SocketInv'
  BY TagsDiffer DEF T!TypeOK, T!SocketInv, T!TagInv, T!Tags, T!Tag
<1>2. T!TagInv'
  BY <1>1, TagsDiffer DEF T!TypeOK, T!SocketInv, T!TagInv
<1>3. T!PollsWhatIsShown'
  BY <1>1, <1>2 DEF T!TypeOK, T!SocketInv, T!TagInv, T!PollsWhatIsShown
<1> QED BY <1>1, <1>2, <1>3

LEMMA SocketAnswer == ASSUME T!Inv, NEW p \in Paths, T!Answer(p) PROVE T!Inv'
<1> USE DEF T!Inv, T!Answer, T!Step
<1>1. T!TypeOK' /\ T!SocketInv'
  BY TagsDiffer DEF T!TypeOK, T!SocketInv, T!TagInv, T!Tags, T!Tag
<1>2. T!TagInv'
  BY <1>1, TagsDiffer DEF T!TypeOK, T!SocketInv, T!TagInv
<1>3. T!PollsWhatIsShown'
  BY <1>1, <1>2 DEF T!TypeOK, T!SocketInv, T!TagInv, T!PollsWhatIsShown
<1> QED BY <1>1, <1>2, <1>3

LEMMA SocketExit == ASSUME T!Inv, T!Exit PROVE T!Inv'
<1> USE DEF T!Inv, T!Exit, T!Lose, T!pollVars
<1>1. T!TypeOK' /\ T!SocketInv'
  BY TagsDiffer DEF T!TypeOK, T!SocketInv, T!TagInv, T!Tags, T!Tag
<1>2. T!TagInv'
  BY <1>1, TagsDiffer DEF T!TypeOK, T!SocketInv, T!TagInv
<1>3. T!PollsWhatIsShown'
  BY <1>1, <1>2 DEF T!TypeOK, T!SocketInv, T!TagInv, T!PollsWhatIsShown
<1> QED BY <1>1, <1>2, <1>3

LEMMA SocketRestart == ASSUME T!Inv, T!Restart PROVE T!Inv'
<1> USE DEF T!Inv, T!Restart, T!Lose, T!pollVars
<1>1. T!TypeOK' /\ T!SocketInv'
  BY TagsDiffer DEF T!TypeOK, T!SocketInv, T!TagInv, T!Tags, T!Tag
<1>2. T!TagInv'
  BY <1>1, TagsDiffer DEF T!TypeOK, T!SocketInv, T!TagInv
<1>3. T!PollsWhatIsShown'
  BY <1>1, <1>2 DEF T!TypeOK, T!SocketInv, T!TagInv, T!PollsWhatIsShown
<1> QED BY <1>1, <1>2, <1>3

LEMMA SocketOnOpen == ASSUME T!Inv, T!OnOpen PROVE T!Inv'
<1> USE DEF T!Inv, T!OnOpen, T!Lose, T!pollVars
<1>1. T!TypeOK' /\ T!SocketInv'
  BY TagsDiffer DEF T!TypeOK, T!SocketInv, T!TagInv, T!Tags, T!Tag
<1>2. T!TagInv'
  BY <1>1, TagsDiffer DEF T!TypeOK, T!SocketInv, T!TagInv
<1>3. T!PollsWhatIsShown'
  BY <1>1, <1>2 DEF T!TypeOK, T!SocketInv, T!TagInv, T!PollsWhatIsShown
<1> QED BY <1>1, <1>2, <1>3

LEMMA SocketOnClose == ASSUME T!Inv, T!OnClose PROVE T!Inv'
<1> USE DEF T!Inv, T!OnClose, T!Lose, T!pollVars
<1>1. T!TypeOK' /\ T!SocketInv'
  BY TagsDiffer DEF T!TypeOK, T!SocketInv, T!TagInv, T!Tags, T!Tag
<1>2. T!TagInv'
  BY <1>1, TagsDiffer DEF T!TypeOK, T!SocketInv, T!TagInv
<1>3. T!PollsWhatIsShown'
  BY <1>1, <1>2 DEF T!TypeOK, T!SocketInv, T!TagInv, T!PollsWhatIsShown
<1> QED BY <1>1, <1>2, <1>3

LEMMA SocketReload == ASSUME T!Inv, T!Reload PROVE T!Inv'
<1> USE DEF T!Inv, T!Reload, T!Lose, T!pollVars
<1>1. T!TypeOK' /\ T!SocketInv'
  BY TagsDiffer DEF T!TypeOK, T!SocketInv, T!TagInv, T!Tags, T!Tag
<1>2. T!TagInv'
  BY <1>1, TagsDiffer DEF T!TypeOK, T!SocketInv, T!TagInv
<1>3. T!PollsWhatIsShown'
  BY <1>1, <1>2 DEF T!TypeOK, T!SocketInv, T!TagInv, T!PollsWhatIsShown
<1> QED BY <1>1, <1>2, <1>3

LEMMA SocketNext == T!Inv /\ [T!Next]_(T!vars) => T!Inv'
<1> SUFFICES ASSUME T!Inv, [T!Next]_(T!vars) PROVE T!Inv'
  OBVIOUS
<1>1. CASE UNCHANGED T!vars
  BY <1>1
     DEF T!vars, T!pollVars, T!Inv, T!TypeOK, T!Tags, T!SocketInv, T!TagInv, T!PollsWhatIsShown
<1>2. CASE T!Next
  BY <1>2, SocketChange, SocketOnMessage, SocketNewRequest, SocketSetTag, SocketServeHTTP,
     SocketAnswer, SocketExit, SocketRestart, SocketOnOpen, SocketOnClose, SocketReload, Zenon
     DEF T!Next, T!Serve
<1> QED BY <1>1, <1>2

-----------------------------------------------------------------------------
(***************************************************************************)
(* The script of the page of sites (Page).                                 *)
(***************************************************************************)
(* A state of the script with the same rows. *)
SameRows(q, p) ==
    /\ q \in P!Pages
    /\ q.host = p.host /\ q.text = p.text /\ q.hostname = p.hostname
    /\ q.rq = p.rq /\ q.textChanged = p.textChanged

(* What is counted apart from the requests of clicks and what was counted  *)
(* off twice.                                                              *)
Checks(p) == p.rq_count - Len(p.updates) + p.twice

LEMMA NatMin == ASSUME NEW U \in SUBSET Nat, U # {} PROVE \E x \in U : \A y \in U : x <= y
<1>1. IsWellFoundedOn(OpToRel(<, Nat), Nat)
  BY NatLessThanWellFounded
<1>2. PICK x \in U : \A y \in U : ~ (<<y, x>> \in OpToRel(<, Nat))
  BY <1>1, WFMin, Zenon
<1>3. \A y \in U : ~ (y < x)
  BY <1>2, Zenon DEF OpToRel
<1> QED BY <1>3

LEMMA MinOf == ASSUME NEW U \in SUBSET Nat, U # {} PROVE P!Min(U) \in U
BY NatMin DEF P!Min

LEMMA IntFieldType ==
    ASSUME NEW p \in P!Pages, NEW k \in Int PROVE [p EXCEPT !.rq_count = k] \in P!Pages
BY DEF P!Pages

(* A request is counted when it starts. *)
LEMMA StartedCounts ==
    ASSUME NEW p \in P!Pages, NEW b \in BOOLEAN
    PROVE  LET q == P!Started(p, b)
           IN  SameRows(q, p) /\ q.rq_count = p.rq_count + 1 /\ q.twice = p.twice
               /\ q.updates = p.updates /\ q.UiQueue = p.UiQueue
<1>1. p.rq_count \in Int /\ p.ui \in Int /\ p.ui + 1 \in Int
  BY DEF P!Pages
<1>2. PICK u \in Int : P!Started(p, b) = [p EXCEPT !.rq_count = @ + 1, !.ui = u]
  BY <1>1, Zenon DEF P!Started
<1> DEFINE q == [p EXCEPT !.rq_count = @ + 1, !.ui = u]
<1>3. q \in P!Pages
  <2>1. [p EXCEPT !.rq_count = p.rq_count + 1] \in P!Pages
    BY <1>1, IntFieldType
  <2>2. [[p EXCEPT !.rq_count = @ + 1] EXCEPT !.ui = u] \in P!Pages
    BY <2>1 DEF P!Pages
  <2> QED BY <2>2
<1>4. /\ q.host = p.host /\ q.text = p.text /\ q.hostname = p.hostname
      /\ q.rq = p.rq /\ q.textChanged = p.textChanged
      /\ q.rq_count = p.rq_count + 1 /\ q.updates = p.updates /\ q.UiQueue = p.UiQueue
      /\ q.twice = p.twice
  BY DEF P!Pages
<1> QED BY <1>2, <1>3, <1>4, Zenon DEF SameRows

(* A click adds one request and one to the count.                          *)
LEMMA ClickStarts ==
    ASSUME NEW p \in P!Pages, NEW n \in P!Rows
    PROVE  LET q == P!TableButtonClicked(p, n)
           IN  SameRows(q, p) /\ Checks(q) = Checks(p) /\ q.rq_count = p.rq_count + 1
<1> DEFINE u == [host |-> p.host[n], hostname |-> p.hostname[n], text |-> p.text[n]]
           c == [p EXCEPT !.updates = Append(@, u)]
<1>1. u \in P!Updates
  BY DEF P!Pages, P!Updates
<1>2. p.updates \in Seq(P!Updates)
  BY DEF P!Pages
<1>3. Append(p.updates, u) \in Seq(P!Updates) /\ Len(Append(p.updates, u)) = Len(p.updates) + 1
  BY <1>1, <1>2, AppendProperties
<1> HIDE DEF u
<1>4. /\ SameRows(c, p) /\ c.rq_count = p.rq_count /\ c.updates = Append(p.updates, u)
      /\ c.twice = p.twice
  BY <1>3 DEF P!Pages, SameRows
<1>5. P!TableButtonClicked(p, n) = P!Started(c, TRUE)
  BY DEF P!TableButtonClicked, u
<1> HIDE DEF c
<1> DEFINE q == P!Started(c, TRUE)
<1>6. /\ SameRows(q, p) /\ q.rq_count = p.rq_count + 1 /\ q.updates = Append(p.updates, u)
      /\ q.twice = p.twice
  BY <1>4, StartedCounts DEF SameRows
<1> HIDE DEF q
<1>7. Len(p.updates) \in Nat /\ p.rq_count \in Int /\ p.twice \in Nat
  BY <1>2, LenProperties DEF P!Pages
<1>8. Checks(q) = Checks(p)
  <2>1. Len(q.updates) = Len(p.updates) + 1 /\ q.rq_count = p.rq_count + 1 /\ q.twice = p.twice
    BY <1>3, <1>6, Zenon
  <2>2. \A k, l \in Int, t \in Nat : (k + 1) - (l + 1) + t = k - l + t
    OBVIOUS
  <2>3. Checks(q) = (p.rq_count + 1) - (Len(p.updates) + 1) + p.twice
    BY <2>1, Zenon DEF Checks
  <2>4. Len(p.updates) \in Int
    BY <1>7
  <2> QED BY <1>7, <2>2, <2>3, <2>4, Zenon DEF Checks
<1> QED BY <1>5, <1>6, <1>8, Zenon DEF q

(* Clicks run when the count is zero, so that then none waits.             *)
LEMMA UiQueueRunCounts ==
    ASSUME NEW p \in P!Pages
    PROVE  LET q == P!UiQueueRun(p)
           IN  SameRows(q, p) /\ Checks(q) = Checks(p) /\ (q.rq_count = 0 => q.UiQueue = <<>>)
<1> DEFINE starting == {i \in DOMAIN p.UiQueue : p.hostname[p.UiQueue[i]] # P!Invalid}
<1>1. CASE p.rq_count # 0
  BY <1>1 DEF P!UiQueueRun, SameRows
<1>2. CASE p.rq_count = 0 /\ starting = {}
  <2>1. P!UiQueueRun(p) = [p EXCEPT !.UiQueue = <<>>]
    BY <1>2 DEF P!UiQueueRun
  <2>2. [p EXCEPT !.UiQueue = <<>>] \in P!Pages
    BY EmptySeq DEF P!Pages
  <2> QED BY <2>1, <2>2, <1>2 DEF SameRows, P!Pages, Checks
<1>3. CASE p.rq_count = 0 /\ starting # {}
  <2> DEFINE i == P!Min(starting)
             rest == SubSeq(p.UiQueue, i + 1, Len(p.UiQueue))
             c == [p EXCEPT !.UiQueue = rest]
  <2>1. p.UiQueue \in Seq(P!Rows) /\ DOMAIN p.UiQueue = 1..Len(p.UiQueue) /\ Len(p.UiQueue) \in Nat
    BY DEF P!Pages
  <2>2. i \in starting
    <3>1. starting \in SUBSET Nat
      BY <2>1
    <3> HIDE DEF starting
    <3> QED BY <1>3, <3>1, MinOf
  <2>3. i \in 1..Len(p.UiQueue) /\ p.UiQueue[i] \in P!Rows
    BY <2>1, <2>2, ElementOfSeq
  <2>4. P!UiQueueRun(p) = P!TableButtonClicked(c, p.UiQueue[i])
    BY <1>3 DEF P!UiQueueRun
  <2> HIDE DEF i, starting
  <2>5. rest \in Seq(P!Rows)
    BY <2>1, <2>3, SubSeqProperties, ElementOfSeq
  <2> HIDE DEF rest
  <2>6. SameRows(c, p) /\ Checks(c) = Checks(p) /\ c.rq_count = 0
    BY <2>5, <1>3 DEF SameRows, P!Pages, Checks
  <2> HIDE DEF c
  <2>7. LET q == P!TableButtonClicked(c, p.UiQueue[i])
        IN  SameRows(q, c) /\ Checks(q) = Checks(c) /\ q.rq_count = c.rq_count + 1
    BY <2>3, <2>6, ClickStarts DEF SameRows
  <2> QED BY <2>4, <2>6, <2>7 DEF SameRows
<1> QED BY <1>1, <1>2, <1>3

LEMMA FinishedCounts ==
    ASSUME NEW p \in P!Pages, NEW b \in BOOLEAN
    PROVE  LET q == P!Finished(p, b)
           IN  SameRows(q, p) /\ Checks(q) = Checks(p) - 1 /\ (q.rq_count = 0 => q.UiQueue = <<>>)
<1>a. p.rq_count \in Int /\ p.ui \in Int /\ p.ui - 1 \in Int
  BY DEF P!Pages
<1>1. PICK u \in Int :
        P!Finished(p, b) = P!UiQueueRun([p EXCEPT !.rq_count = @ - 1, !.ui = u])
  BY <1>a, Zenon DEF P!Finished
<1> DEFINE c == [p EXCEPT !.rq_count = @ - 1, !.ui = u]
<1>b. c \in P!Pages
  <2>1. [p EXCEPT !.rq_count = p.rq_count - 1] \in P!Pages
    BY <1>a, IntFieldType
  <2>2. [[p EXCEPT !.rq_count = @ - 1] EXCEPT !.ui = u] \in P!Pages
    BY <2>1 DEF P!Pages
  <2> QED BY <2>2
<1>2. SameRows(c, p) /\ c.rq_count = p.rq_count - 1 /\ c.updates = p.updates /\ c.twice = p.twice
  BY <1>b DEF SameRows, P!Pages
<1> HIDE DEF c
<1>3. Checks(c) = Checks(p) - 1
  <2>1. Len(p.updates) \in Nat /\ p.rq_count \in Int /\ p.twice \in Nat
    BY LenProperties DEF P!Pages
  <2> QED BY <1>2, <2>1 DEF Checks
<1>4. LET q == P!UiQueueRun(c)
      IN  SameRows(q, c) /\ Checks(q) = Checks(c) /\ (q.rq_count = 0 => q.UiQueue = <<>>)
  BY <1>2, UiQueueRunCounts DEF SameRows
<1> QED BY <1>1, <1>2, <1>3, <1>4 DEF SameRows, c

(* A check that is given up is counted off, once but for what finishes     *)
(* twice.                                                                  *)
LEMMA CancelCounts ==
    ASSUME NEW p \in P!Pages, NEW n \in P!Rows
    PROVE  LET q == P!Cancel(p, n)
           IN  /\ q \in P!Pages
               /\ q.host = p.host /\ q.text = p.text /\ q.hostname = p.hostname
               /\ q.textChanged = p.textChanged /\ q.rq = [p.rq EXCEPT ![n] = P!NoRq]
               /\ Checks(q) = IF n \in P!Active(p) THEN Checks(p) - 1 ELSE Checks(p)
<1> DEFINE c == P!Cleared(p, n)
           b == p.rq[n].ui
<1>1. p.rq[n] \in P!Rqs /\ p.rq \in [P!Rows -> P!Rqs]
  BY DEF P!Pages
<1>2. P!NoRq \in P!Rqs
  BY DEF P!NoRq, P!Rqs, P!Texts
<1>3. /\ c \in P!Pages
      /\ c.host = p.host /\ c.text = p.text /\ c.hostname = p.hostname
      /\ c.textChanged = p.textChanged /\ c.rq = [p.rq EXCEPT ![n] = P!NoRq]
      /\ c.rq_count = p.rq_count /\ c.updates = p.updates
      /\ c.twice = IF p.rq[n].state \in {"sent", "failed"} THEN p.twice + 1 ELSE p.twice
  <2>1. PICK k \in Nat :
          /\ k = IF p.rq[n].state \in {"sent", "failed"} THEN p.twice + 1 ELSE p.twice
          /\ c = [p EXCEPT !.rq[n] = P!NoRq, !.twice = k]
    <3>1. p.twice \in Nat
      BY DEF P!Pages
    <3>2. (IF p.rq[n].state \in {"sent", "failed"} THEN p.twice + 1 ELSE p.twice) \in Nat
      BY <3>1
    <3> QED BY <3>2, Zenon DEF P!Cleared
  <2> HIDE DEF c
  <2>2. [p EXCEPT !.rq[n] = P!NoRq] \in P!Pages
    BY <1>2 DEF P!Pages
  <2>3. [[p EXCEPT !.rq[n] = P!NoRq] EXCEPT !.twice = k] \in P!Pages
    BY <2>2 DEF P!Pages
  <2> QED BY <2>1, <2>3 DEF P!Pages
<1>4. b \in BOOLEAN /\ p.rq[n].state \in {"none", "new", "sent", "failed"}
  BY <1>1 DEF P!Rqs
<1>5. /\ Checks(c) = IF p.rq[n].state \in {"sent", "failed"} THEN Checks(p) + 1 ELSE Checks(p)
      /\ Checks(p) \in Int
  <2>1. Len(p.updates) \in Nat /\ p.rq_count \in Int /\ p.twice \in Nat
    BY LenProperties DEF P!Pages
  <2> QED BY <1>3, <2>1 DEF Checks
<1> DEFINE f == P!Finished(c, b)
           g == P!Finished(f, b)
<1>6. P!Cancel(p, n) = CASE p.rq[n].state = "none" -> c
                         [] p.rq[n].state = "sent" -> g
                         [] p.rq[n].state \in {"new", "failed"} -> f
  BY Zenon DEF P!Cancel
<1>7. n \in P!Active(p) <=> p.rq[n].state \in {"new", "sent"}
  BY DEF P!Active
<1> HIDE DEF c, b
<1>8. SameRows(f, c) /\ Checks(f) = Checks(c) - 1
  BY <1>3, <1>4, FinishedCounts
<1> HIDE DEF f
<1>9. SameRows(g, f) /\ Checks(g) = Checks(f) - 1
  BY <1>4, <1>8, FinishedCounts DEF SameRows
<1> HIDE DEF g
<1>10. CASE p.rq[n].state = "none"
  <2>1. P!Cancel(p, n) = c
    BY <1>6, <1>10
  <2> QED BY <1>3, <1>5, <1>7, <1>10, <2>1
<1>11. CASE p.rq[n].state \in {"new", "failed"}
  <2>1. P!Cancel(p, n) = f
    BY <1>6, <1>11
  <2> QED BY <1>3, <1>5, <1>7, <1>8, <1>11, <2>1 DEF SameRows
<1>12. CASE p.rq[n].state = "sent"
  <2>1. P!Cancel(p, n) = g
    BY <1>6, <1>12
  <2> QED BY <1>3, <1>5, <1>7, <1>8, <1>9, <1>12, <2>1 DEF SameRows
<1> QED BY <1>4, <1>10, <1>11, <1>12

(* A check that starts has the text of its row. *)
LEMMA FireCounts ==
    ASSUME NEW p \in P!Pages, NEW n \in P!Rows
    PROVE  LET q == P!Fire(p, n)
           IN  /\ q \in P!Pages
               /\ q.host = p.host /\ q.text = p.text /\ q.hostname = p.hostname
               /\ q.textChanged = p.textChanged
               /\ \E chk \in P!Rqs : chk.state = "new" /\ chk.text = p.text[n]
                                   /\ q.rq = [p.rq EXCEPT ![n] = chk]
               /\ Checks(q) = Checks(p) + 1
<1>1. PICK b \in BOOLEAN : b = (p.UiQueue # <<>>)
  OBVIOUS
<1> DEFINE chk == [state |-> "new", text |-> p.text[n], ui |-> b]
           c == [p EXCEPT !.rq[n] = chk]
<1>2. P!Fire(p, n) = P!Started(c, b)
  BY <1>1, Zenon DEF P!Fire
<1>3. chk \in P!Rqs /\ chk.state = "new" /\ chk.text = p.text[n]
  BY DEF P!Pages, P!Rqs
<1> HIDE DEF chk
<1>4. /\ c \in P!Pages
      /\ c.host = p.host /\ c.text = p.text /\ c.hostname = p.hostname
      /\ c.textChanged = p.textChanged /\ c.rq = [p.rq EXCEPT ![n] = chk]
      /\ c.rq_count = p.rq_count /\ c.updates = p.updates /\ c.twice = p.twice
  BY <1>3 DEF P!Pages
<1> HIDE DEF c
<1> DEFINE q == P!Started(c, b)
<1>5. SameRows(q, c) /\ q.rq_count = c.rq_count + 1 /\ q.updates = c.updates /\ q.twice = c.twice
  BY <1>4, StartedCounts
<1> HIDE DEF q
<1>6. Checks(q) = Checks(p) + 1
  <2>1. Len(p.updates) \in Nat /\ p.rq_count \in Int /\ p.twice \in Nat
    BY LenProperties DEF P!Pages
  <2> QED BY <1>4, <1>5, <2>1 DEF Checks
<1>7. /\ q \in P!Pages
      /\ q.host = p.host /\ q.text = p.text /\ q.hostname = p.hostname
      /\ q.textChanged = p.textChanged /\ q.rq = [p.rq EXCEPT ![n] = chk]
  BY <1>4, <1>5 DEF SameRows
<1> QED BY <1>2, <1>3, <1>6, <1>7, Zenon DEF q

-----------------------------------------------------------------------------
(* What is counted apart from the checks and the clicks that are active    *)
(* and what was counted off twice: nothing.                                *)
Excess(p) == Checks(p) - Cardinality(P!Active(p))

(* Rows that are active are counted. *)
LEMMA ActiveCount ==
    ASSUME NEW p, NEW n \in P!Rows
    PROVE  /\ Cardinality(P!Active(p)) \in Nat
           /\ Cardinality(P!Active(p) \cup {n})
                = IF n \in P!Active(p) THEN Cardinality(P!Active(p)) ELSE Cardinality(P!Active(p)) + 1
           /\ Cardinality(P!Active(p) \ {n}) \in Nat
           /\ Cardinality(P!Active(p) \ {n})
                = IF n \in P!Active(p) THEN Cardinality(P!Active(p)) - 1 ELSE Cardinality(P!Active(p))
<1>1. IsFiniteSet(P!Rows)
  BY PageAssumption, FS_Interval DEF P!Rows
<1>2. IsFiniteSet(P!Active(p))
  BY <1>1, FS_Subset DEF P!Active
<1>3. IsFiniteSet(P!Active(p) \ {n})
  BY <1>2, FS_RemoveElement
<1> QED BY <1>2, <1>3, FS_CardinalityType, FS_AddElement, FS_RemoveElement

LEMMA ChecksType == ASSUME NEW p \in P!Pages PROVE Checks(p) \in Int
<1>1. Len(p.updates) \in Nat /\ p.rq_count \in Int /\ p.twice \in Nat
  BY LenProperties DEF P!Pages
<1> QED BY <1>1 DEF Checks

(* A row that is updated has a check of its text; the other rows stay.     *)
LEMMA UpdateRowChecks ==
    ASSUME NEW p \in P!Pages, NEW s \in [P!Rows -> P!Hosts], NEW n \in P!Rows
    PROVE  LET q == P!UpdateRow(p, s, n)
           IN  /\ q \in P!Pages
               /\ q.rq[n].state = "new" /\ q.rq[n].text = q.text[n]
               /\ \A m \in P!Rows \ {n} : q.rq[m] = p.rq[m] /\ q.text[m] = p.text[m]
               /\ Excess(q) = Excess(p)
<1> DEFINE a == [p EXCEPT !.text[n] = s[n], !.host[n] = s[n]]
           b == P!Cancel(a, n)
           c == [b EXCEPT !.textChanged[n] = FALSE]
           q == P!Fire(c, n)
<1>1. P!UpdateRow(p, s, n) = q
  BY Zenon DEF P!UpdateRow, P!BgWatch
<1>2. s[n] \in P!Hosts /\ s[n] \in P!Texts
  BY DEF P!Texts
<1>3. a \in P!Pages
  <2>1. [p EXCEPT !.text[n] = s[n]] \in P!Pages
    BY <1>2 DEF P!Pages
  <2>2. [[p EXCEPT !.text[n] = s[n]] EXCEPT !.host[n] = s[n]] \in P!Pages
    BY <1>2, <2>1 DEF P!Pages
  <2> QED BY <2>2
<1>4. /\ a.text = [p.text EXCEPT ![n] = s[n]] /\ a.rq = p.rq
      /\ a.rq_count = p.rq_count /\ a.updates = p.updates /\ a.twice = p.twice
  BY DEF P!Pages
<1>5. Checks(a) = Checks(p) /\ P!Active(a) = P!Active(p)
  BY <1>4 DEF Checks, P!Active
<1> HIDE DEF a
<1>6. /\ b \in P!Pages /\ b.text = a.text /\ b.rq = [a.rq EXCEPT ![n] = P!NoRq]
      /\ Checks(b) = IF n \in P!Active(a) THEN Checks(a) - 1 ELSE Checks(a)
  BY <1>3, CancelCounts
<1> HIDE DEF b
<1>7. /\ c \in P!Pages /\ c.text = b.text /\ c.rq = b.rq
      /\ c.rq_count = b.rq_count /\ c.updates = b.updates /\ c.twice = b.twice
  BY <1>6 DEF P!Pages
<1>8. Checks(c) = Checks(b)
  BY <1>7 DEF Checks
<1> HIDE DEF c
<1>9. PICK chk \in P!Rqs : /\ chk.state = "new" /\ chk.text = c.text[n]
                         /\ q.rq = [c.rq EXCEPT ![n] = chk]
  BY <1>7, FireCounts
<1>10. q \in P!Pages /\ q.text = c.text /\ Checks(q) = Checks(c) + 1
  BY <1>7, FireCounts
<1> HIDE DEF q
<1>11. p.rq \in [P!Rows -> P!Rqs] /\ p.text \in [P!Rows -> P!Texts]
  BY DEF P!Pages
<1>12. q.rq = [p.rq EXCEPT ![n] = chk]
  BY <1>4, <1>6, <1>7, <1>9, <1>11
<1>13. P!Active(q) = P!Active(p) \cup {n}
  BY <1>9, <1>11, <1>12 DEF P!Active
<1>14. Excess(q) = Excess(p)
  <2>1. Checks(p) \in Int /\ Checks(b) \in Int /\ Checks(q) \in Int
    BY <1>6, <1>10, ChecksType
  <2>2. CASE n \in P!Active(p)
    <3>1. Cardinality(P!Active(q)) = Cardinality(P!Active(p)) /\ Cardinality(P!Active(p)) \in Nat
      BY <1>13, <2>2, ActiveCount
    <3>2. Checks(q) = Checks(p)
      BY <1>5, <1>6, <1>8, <1>10, <2>1, <2>2
    <3> QED BY <2>1, <3>1, <3>2 DEF Excess
  <2>3. CASE n \notin P!Active(p)
    <3>1. /\ Cardinality(P!Active(q)) = Cardinality(P!Active(p)) + 1
          /\ Cardinality(P!Active(p)) \in Nat
      BY <1>13, <2>3, ActiveCount
    <3>2. Checks(q) = Checks(p) + 1
      BY <1>5, <1>6, <1>8, <1>10, <2>1, <2>3
    <3> QED BY <2>1, <3>1, <3>2 DEF Excess
  <2> QED BY <2>2, <2>3
<1>15. q.rq[n].state = "new" /\ q.rq[n].text = q.text[n]
  BY <1>9, <1>10, <1>11, <1>12
<1>16. \A m \in P!Rows \ {n} : q.rq[m] = p.rq[m] /\ q.text[m] = p.text[m]
  BY <1>4, <1>6, <1>7, <1>10, <1>11, <1>12
<1> QED BY <1>1, <1>10, <1>14, <1>15, <1>16, Zenon

(***************************************************************************)
(* The rows up to k, one after the other.  The recursive function of       *)
(* UpdateTable exists, as there is no least k without one, and neither is  *)
(* there a least row that goes without its check.                          *)
(***************************************************************************)
IsUpto(f, p, s, k) ==
    f = [n \in 0..k |-> IF n = 0 THEN p ELSE P!UpdateRow(f[n-1], s, n)]

LEMMA UptoExists == ASSUME NEW p, NEW s, NEW k \in Nat PROVE \E f : IsUpto(f, p, s, k)
<1> DEFINE bad == {m \in Nat : ~ \E f : IsUpto(f, p, s, m)}
<1> SUFFICES ASSUME bad # {} PROVE FALSE
  OBVIOUS
<1>1. PICK m \in bad : \A y \in bad : m <= y
  <2>1. bad \in SUBSET Nat
    OBVIOUS
  <2> HIDE DEF bad
  <2> QED BY <2>1, NatMin
<1>2. m # 0
  <2>1. IsUpto([n \in 0..0 |-> p], p, s, 0)
    BY DEF IsUpto
  <2> QED BY <1>1, <2>1
<1>3. m - 1 \in Nat /\ m - 1 \notin bad
  BY <1>1, <1>2
<1>4. PICK g : IsUpto(g, p, s, m - 1)
  BY <1>3
<1> DEFINE f == [n \in 0..m |-> IF n = m THEN P!UpdateRow(g[m-1], s, m) ELSE g[n]]
<1>5. m \in Nat
  BY <1>1
<1>6. ASSUME NEW n \in 0..m
      PROVE  f[n] = IF n = 0 THEN p ELSE P!UpdateRow(f[n-1], s, n)
  <2>1. CASE n = m
    <3>1. m - 1 \in 0..m /\ m - 1 # m
      BY <1>2, <1>5
    <3>2. f[m-1] = g[m-1]
      BY <3>1
    <3> QED BY <1>2, <2>1, <3>2
  <2>2. CASE n # m
    <3>1. n \in 0..(m - 1)
      BY <1>5, <2>2
    <3>2. f[n] = g[n] /\ g[n] = IF n = 0 THEN p ELSE P!UpdateRow(g[n-1], s, n)
      BY <1>4, <2>2, <3>1 DEF IsUpto
    <3>3. n # 0 => n - 1 \in 0..m /\ n - 1 # m
      BY <1>5, <3>1
    <3>4. n # 0 => f[n-1] = g[n-1]
      BY <3>3
    <3> QED BY <3>2, <3>4
  <2> QED BY <2>1, <2>2
<1>7. IsUpto(f, p, s, m)
  <2>1. f = [n \in 0..m |-> f[n]]
    OBVIOUS
  <2> HIDE DEF f
  <2> QED BY <1>6, <2>1 DEF IsUpto
<1> QED BY <1>1, <1>7

LEMMA UpdateTableIsUpto ==
    ASSUME NEW p, NEW s
    PROVE  \E f : IsUpto(f, p, s, NRows) /\ P!UpdateTable(p, s) = f[NRows]
<1> DEFINE f == CHOOSE f : f = [n \in 0..NRows |-> IF n = 0 THEN p ELSE P!UpdateRow(f[n-1], s, n)]
<1>1. \E g : g = [n \in 0..NRows |-> IF n = 0 THEN p ELSE P!UpdateRow(g[n-1], s, n)]
  <2>1. \E g : IsUpto(g, p, s, NRows)
    BY UptoExists, PageAssumption
  <2> QED BY <2>1 DEF IsUpto
<1>2. f = [n \in 0..NRows |-> IF n = 0 THEN p ELSE P!UpdateRow(f[n-1], s, n)]
  BY <1>1, Zenon
<1>3. P!UpdateTable(p, s) = f[NRows]
  BY Zenon DEF P!UpdateTable
<1> HIDE DEF f
<1> QED BY <1>2, <1>3, Zenon DEF IsUpto

(* The update of the table leaves every row with a check of its text.      *)
LEMMA UpdateTableChecks ==
    ASSUME NEW p \in P!Pages, NEW s \in [P!Rows -> P!Hosts], Excess(p) = 0
    PROVE  LET q == P!UpdateTable(p, s)
           IN  /\ q \in P!Pages /\ Excess(q) = 0
               /\ NRows = 0 => q = p
               /\ \A m \in P!Rows : q.rq[m].state = "new" /\ q.rq[m].text = q.text[m]
<1>1. PICK f : IsUpto(f, p, s, NRows) /\ P!UpdateTable(p, s) = f[NRows]
  BY UpdateTableIsUpto
<1> DEFINE Done(k) == /\ f[k] \in P!Pages /\ Excess(f[k]) = 0
                      /\ \A m \in 1..k : f[k].rq[m].state = "new" /\ f[k].rq[m].text = f[k].text[m]
           bad == {k \in 0..NRows : ~Done(k)}
<1>2. Done(0)
  BY <1>1, PageAssumption DEF IsUpto
<1>3. ASSUME NEW k \in 0..NRows, k # 0, Done(k - 1) PROVE Done(k)
  <2>1. k \in P!Rows /\ k - 1 \in Nat /\ NRows \in Nat
    BY <1>3, PageAssumption DEF P!Rows
  <2>2. f[k] = P!UpdateRow(f[k-1], s, k)
    BY <1>1, <1>3 DEF IsUpto
  <2> DEFINE a == f[k-1]
             q == P!UpdateRow(a, s, k)
  <2>3. /\ q \in P!Pages
        /\ q.rq[k].state = "new" /\ q.rq[k].text = q.text[k]
        /\ \A m \in P!Rows \ {k} : q.rq[m] = a.rq[m] /\ q.text[m] = a.text[m]
        /\ Excess(q) = Excess(a)
    BY <1>3, <2>1, UpdateRowChecks
  <2>4. Excess(q) = 0
    <3>1. Checks(q) \in Int /\ Checks(a) \in Int
      BY <1>3, <2>3, ChecksType
    <3>2. Cardinality(P!Active(q)) \in Nat /\ Cardinality(P!Active(a)) \in Nat
      BY <2>1, ActiveCount
    <3>3. Excess(q) \in Int /\ Excess(a) \in Int
      BY <3>1, <3>2 DEF Excess
    <3> QED BY <1>3, <2>3, <3>3
  <2>5. ASSUME NEW m \in 1..k PROVE q.rq[m].state = "new" /\ q.rq[m].text = q.text[m]
    <3>1. CASE m = k
      BY <2>3, <3>1
    <3>2. CASE m # k
      <4>1. m \in 1..k - 1 /\ m \in P!Rows \ {k}
        BY <2>1, <3>2 DEF P!Rows
      <4>2. a.rq[m].state = "new" /\ a.rq[m].text = a.text[m]
        BY <1>3, <4>1
      <4> HIDE DEF a, q
      <4> QED BY <2>3, <4>1, <4>2
    <3> QED BY <3>1, <3>2
  <2> QED BY <2>2, <2>3, <2>4, <2>5
<1>4. bad = {}
  <2> SUFFICES ASSUME bad # {} PROVE FALSE
    OBVIOUS
  <2>1. bad \in SUBSET Nat
    BY PageAssumption
  <2>2. PICK k \in bad : \A y \in bad : k <= y
    <3> HIDE DEF bad
    <3> QED BY <2>1, NatMin
  <2> HIDE DEF Done
  <2>3. k # 0 /\ k \in 0..NRows /\ ~Done(k)
    BY <1>2, <2>2
  <2>4. k - 1 \in 0..NRows /\ k - 1 \notin bad
    BY <2>2, <2>3, PageAssumption
  <2> QED BY <1>3, <2>3, <2>4
<1>5. Done(NRows)
  BY <1>4, PageAssumption
<1>6. f[0] = p
  BY <1>1, PageAssumption DEF IsUpto
<1> QED BY <1>1, <1>5, <1>6 DEF P!Rows

-----------------------------------------------------------------------------
(* The invariant, of a state of the script. *)
Checked(p, m) ==
    /\ p.rq[m] = P!NoRq => p.hostname[m] = p.text[m]
    /\ m \in P!Active(p) /\ ~p.textChanged[m] => p.rq[m].text = p.text[m]

Good(p) ==
    /\ p \in P!Pages
    /\ \A m \in P!Rows : Checked(p, m)
    /\ Excess(p) = 0
    /\ p.UiQueue # <<>> /\ p.rq_count = 0 => P!Active(p) # {} \/ p.updates # <<>>

LEMMA SameCardinality == ASSUME NEW S PROVE P!Cardinality(S) = Cardinality(S)
BY Zenon DEF P!Cardinality, Cardinality

LEMMA ExcessType ==
    ASSUME NEW p \in P!Pages
    PROVE  /\ Excess(p) \in Int /\ Checks(p) \in Int /\ Len(p.updates) \in Nat /\ p.rq_count \in Int
           /\ p.twice \in Nat
           /\ Cardinality(P!Active(p)) \in Nat
<1>1. IsFiniteSet(P!Active(p))
  <2>1. IsFiniteSet(P!Rows)
    BY PageAssumption, FS_Interval DEF P!Rows
  <2> QED BY <2>1, FS_Subset DEF P!Active
<1>2. Cardinality(P!Active(p)) \in Nat
  BY <1>1, FS_CardinalityType
<1>3. Len(p.updates) \in Nat /\ p.rq_count \in Int /\ p.twice \in Nat
  BY LenProperties DEF P!Pages
<1> QED BY <1>2, <1>3, ChecksType DEF Excess

LEMMA InvIsGood == P!Inv <=> Good(script) /\ messages \in Nat /\ actions \in Nat
<1>1. P!TypeOK <=> script \in P!Pages /\ messages \in Nat /\ actions \in Nat
  BY DEF P!TypeOK
<1>2. P!CheckInv /\ P!CheckedIsShown <=> \A m \in P!Rows : Checked(script, m)
  BY DEF P!CheckInv, P!CheckedIsShown, Checked, P!Active
<1>3. ASSUME script \in P!Pages
      PROVE  P!RequestsCounted <=>
               /\ Excess(script) = 0
               /\ script.UiQueue # <<>> /\ script.rq_count = 0 =>
                    P!Active(script) # {} \/ script.updates # <<>>
  <2> DEFINE c == Cardinality(P!Active(script))
             l == Len(script.updates)
             k == script.rq_count
             d == script.twice
  <2>1. c \in Nat /\ l \in Nat /\ k \in Int /\ d \in Nat
    BY <1>3, ExcessType
  <2>2. Excess(script) = 0 <=> k = c + l - d
    BY <2>1 DEF Excess, Checks
  <2>3. c = 0 <=> P!Active(script) = {}
    <3>1. IsFiniteSet(P!Rows)
      BY PageAssumption, FS_Interval DEF P!Rows
    <3>2. IsFiniteSet(P!Active(script))
      BY <3>1, FS_Subset DEF P!Active
    <3> QED BY <3>2, FS_EmptySet
  <2>4. l = 0 <=> script.updates = <<>>
    BY <1>3, EmptySeq DEF P!Pages
  <2>5. P!Cardinality(P!Active(script)) = c
    BY SameCardinality
  <2>6. P!RequestsCounted <=>
          /\ k = c + l - d
          /\ script.UiQueue # <<>> /\ k >= 0 => P!Active(script) # {} \/ script.updates # <<>>
    BY <2>5, Zenon DEF P!RequestsCounted
  <2> HIDE DEF c, l, k, d
  <2>7. k = c + l - d /\ k > 0 => P!Active(script) # {} \/ script.updates # <<>>
    BY <2>1, <2>3, <2>4
  <2>8. k >= 0 <=> k = 0 \/ k > 0
    BY <2>1
  <2> QED BY <2>2, <2>6, <2>7, <2>8 DEF k
<1> QED BY <1>1, <1>2, <1>3, Zenon DEF P!Inv, Good

LEMMA GoodNext ==
    ASSUME Good(script'), messages \in Nat, actions \in Nat,
           messages' \in {messages, messages + 1}, actions' \in {actions, actions + 1}
    PROVE  P!Inv'
<1>1. (P!Inv <=> Good(script) /\ messages \in Nat /\ actions \in Nat)'
  BY InvIsGood, PTL
<1> QED BY <1>1

(* A state whose rows are as they should be is good after clicks have run. *)
LEMMA RunIsGood ==
    ASSUME NEW p \in P!Pages, NEW q, SameRows(q, p), Excess(q) = 0,
           q.rq_count = 0 => q.UiQueue = <<>>, \A m \in P!Rows : Checked(p, m)
    PROVE  Good(q)
<1>1. \A m \in P!Rows : Checked(q, m)
  BY DEF Checked, SameRows, P!Active
<1> QED BY <1>1 DEF SameRows, Good

LEMMA FinishedIsGood ==
    ASSUME NEW p \in P!Pages, NEW b \in BOOLEAN, Excess(p) = 1, \A m \in P!Rows : Checked(p, m)
    PROVE  Good(P!Finished(p, b))
<1> DEFINE q == P!Finished(p, b)
<1>1. SameRows(q, p) /\ Checks(q) = Checks(p) - 1 /\ (q.rq_count = 0 => q.UiQueue = <<>>)
  BY FinishedCounts
<1> HIDE DEF q
<1>2. P!Active(q) = P!Active(p)
  BY <1>1 DEF P!Active, SameRows
<1>3. Excess(q) = 0
  BY <1>1, <1>2, ExcessType DEF Excess
<1>4. Good(q)
  BY <1>1, <1>3, RunIsGood
<1> QED BY <1>4 DEF q

(* With a check in every row, nothing waits in vain.                       *)
LEMMA UpdatedIsGood ==
    ASSUME NEW p, NEW q \in P!Pages, Excess(q) = 0,
           NRows = 0 => q = p,
           \A m \in P!Rows : q.rq[m].state = "new" /\ q.rq[m].text = q.text[m],
           Good(p) \/ p.UiQueue = <<>>
    PROVE  Good(q)
<1>1. \A m \in P!Rows : Checked(q, m)
  BY DEF Checked, P!NoRq
<1>2. CASE NRows = 0
  BY <1>1, <1>2 DEF Good
<1>3. CASE NRows # 0
  <2>1. 1 \in P!Active(q)
    BY <1>3, PageAssumption DEF P!Active, P!Rows
  <2> QED BY <1>1, <2>1 DEF Good
<1> QED BY <1>2, <1>3

-----------------------------------------------------------------------------
LEMMA PageInit == P!Init => P!Inv
<1> SUFFICES ASSUME P!Init PROVE P!Inv
  OBVIOUS
<1>1. PICK s \in P!Sites :
        script = P!UpdateTable(
            [host |-> s, text |-> s, hostname |-> [n \in P!Rows |-> P!Invalid],
             rq |-> [n \in P!Rows |-> P!NoRq], textChanged |-> [n \in P!Rows |-> FALSE],
             rq_count |-> 0, ui |-> 0, UiQueue |-> <<>>, updates |-> <<>>, twice |-> 0], s)
  BY Zenon DEF P!Init
<1> DEFINE p == [host |-> s, text |-> s, hostname |-> [n \in P!Rows |-> P!Invalid],
                 rq |-> [n \in P!Rows |-> P!NoRq], textChanged |-> [n \in P!Rows |-> FALSE],
                 rq_count |-> 0, ui |-> 0, UiQueue |-> <<>>, updates |-> <<>>, twice |-> 0]
<1>2. s \in [P!Rows -> P!Hosts] /\ s \in [P!Rows -> P!Texts]
  BY DEF P!Sites, P!Texts
<1>3. P!NoRq \in P!Rqs
  BY DEF P!NoRq, P!Rqs, P!Texts
<1>4. p \in P!Pages
  BY <1>2, <1>3, EmptySeq DEF P!Pages, P!Texts
<1>5. P!Active(p) = {}
  BY DEF P!Active, P!NoRq
<1>6. Checks(p) = 0
  BY DEF Checks
<1>7. p.UiQueue = <<>>
  OBVIOUS
<1> HIDE DEF p
<1>8. Excess(p) = 0
  BY <1>5, <1>6, FS_EmptySet DEF Excess
<1> DEFINE q == P!UpdateTable(p, s)
<1>9. /\ q \in P!Pages /\ Excess(q) = 0
      /\ NRows = 0 => q = p
      /\ \A m \in P!Rows : q.rq[m].state = "new" /\ q.rq[m].text = q.text[m]
  BY <1>2, <1>4, <1>8, UpdateTableChecks
<1>10. script = q
  BY <1>1, Zenon DEF p
<1> HIDE DEF q
<1>11. Good(q)
  BY <1>7, <1>9, UpdatedIsGood
<1> QED BY <1>10, <1>11, InvIsGood DEF P!Init

LEMMA PageMessage == ASSUME P!Inv, P!Message PROVE P!Inv'
<1>1. PICK s \in P!Sites : script' = P!UpdateTable(script, s)
  BY DEF P!Message
<1>2. s \in [P!Rows -> P!Hosts]
  BY DEF P!Sites
<1>3. Good(script) /\ messages \in Nat /\ actions \in Nat
  BY InvIsGood
<1> DEFINE q == P!UpdateTable(script, s)
<1>4. /\ q \in P!Pages /\ Excess(q) = 0
      /\ NRows = 0 => q = script
      /\ \A m \in P!Rows : q.rq[m].state = "new" /\ q.rq[m].text = q.text[m]
  BY <1>2, <1>3, UpdateTableChecks DEF Good
<1> HIDE DEF q
<1>5. Good(q)
  BY <1>3, <1>4, UpdatedIsGood
<1>6. Good(script')
  BY <1>1, <1>5 DEF q
<1> QED BY <1>3, <1>6, GoodNext DEF P!Message

(* The user edits a host: it is checked at once, or when the check that is *)
(* active has been answered.                                               *)
LEMMA PageOnInput ==
    ASSUME P!Inv, NEW n \in P!Rows, NEW t \in P!Texts, P!OnInput(n, t) PROVE P!Inv'
<1>1. Good(script) /\ messages \in Nat /\ actions \in Nat
  BY InvIsGood
<1> DEFINE p == [script EXCEPT !.text[n] = t]
<1>2. /\ p \in P!Pages /\ p.text = [script.text EXCEPT ![n] = t]
      /\ p.hostname = script.hostname /\ p.rq = script.rq /\ p.textChanged = script.textChanged
      /\ p.rq_count = script.rq_count /\ p.updates = script.updates /\ p.UiQueue = script.UiQueue
      /\ p.twice = script.twice
  BY <1>1 DEF Good, P!Pages
<1>3. Excess(p) = Excess(script) /\ P!Active(p) = P!Active(script)
  BY <1>2 DEF Excess, Checks, P!Active
<1>4. script.text \in [P!Rows -> P!Texts] /\ script.rq \in [P!Rows -> P!Rqs]
      /\ script.textChanged \in [P!Rows -> BOOLEAN]
  BY <1>1 DEF Good, P!Pages
<1>5. script' = IF p.rq[n] = P!NoRq THEN P!Fire(p, n) ELSE [p EXCEPT !.textChanged[n] = TRUE]
  BY Zenon DEF P!OnInput
<1> HIDE DEF p
<1>6. CASE p.rq[n] = P!NoRq
  <2> DEFINE q == P!Fire(p, n)
  <2>1. PICK chk \in P!Rqs : /\ chk.state = "new" /\ chk.text = p.text[n]
                           /\ q.rq = [p.rq EXCEPT ![n] = chk]
    BY <1>2, FireCounts
  <2>2. /\ q \in P!Pages /\ q.text = p.text /\ q.hostname = p.hostname
        /\ q.textChanged = p.textChanged /\ Checks(q) = Checks(p) + 1
    BY <1>2, FireCounts
  <2>3. script' = q
    BY <1>5, <1>6
  <2> HIDE DEF q
  <2>4. P!Active(q) = P!Active(p) \cup {n} /\ n \notin P!Active(p) /\ n \in P!Active(q)
    BY <1>2, <1>4, <1>6, <2>1 DEF P!Active, P!NoRq
  <2>5. Excess(q) = 0
    <3>1. Cardinality(P!Active(q)) = Cardinality(P!Active(p)) + 1
      BY <2>4, ActiveCount
    <3>2. Excess(p) = 0 /\ Checks(p) \in Int /\ Cardinality(P!Active(p)) \in Nat
      BY <1>1, <1>2, <1>3, ExcessType DEF Good
    <3> QED BY <2>2, <3>1, <3>2 DEF Excess
  <2>6. ASSUME NEW m \in P!Rows PROVE Checked(q, m)
    <3>1. CASE m = n
      BY <1>2, <1>4, <2>1, <2>2, <3>1 DEF Checked, P!NoRq
    <3>2. CASE m # n
      BY <1>1, <1>2, <1>4, <2>1, <2>2, <3>2 DEF Good, Checked, P!Active
    <3> QED BY <3>1, <3>2
  <2>7. Good(q)
    BY <2>2, <2>4, <2>5, <2>6 DEF Good
  <2> QED BY <1>1, <2>3, <2>7, GoodNext DEF P!OnInput
<1>7. CASE p.rq[n] # P!NoRq
  <2> DEFINE q == [p EXCEPT !.textChanged[n] = TRUE]
  <2>1. /\ q \in P!Pages /\ q.text = p.text /\ q.hostname = p.hostname /\ q.rq = p.rq
        /\ q.textChanged = [p.textChanged EXCEPT ![n] = TRUE]
        /\ q.rq_count = p.rq_count /\ q.updates = p.updates /\ q.UiQueue = p.UiQueue
        /\ q.twice = p.twice
    BY <1>2 DEF P!Pages
  <2>2. script' = q
    BY <1>5, <1>7
  <2> HIDE DEF q
  <2>3. P!Active(q) = P!Active(p) /\ Excess(q) = Excess(p)
    BY <2>1 DEF P!Active, Excess, Checks
  <2>4. ASSUME NEW m \in P!Rows PROVE Checked(q, m)
    <3>1. CASE m = n
      BY <1>2, <1>4, <1>7, <2>1, <3>1 DEF Checked
    <3>2. CASE m # n
      BY <1>1, <1>2, <1>4, <2>1, <2>3, <3>2 DEF Good, Checked, P!Active
    <3> QED BY <3>1, <3>2
  <2>5. Good(q)
    BY <1>1, <1>2, <1>3, <2>1, <2>3, <2>4 DEF Good
  <2> QED BY <1>1, <2>2, <2>5, GoodNext DEF P!OnInput
<1> QED BY <1>6, <1>7

LEMMA PageUi == ASSUME P!Inv, NEW n \in P!Rows, P!Ui(n) PROVE P!Inv'
<1>1. Good(script) /\ messages \in Nat /\ actions \in Nat
  BY InvIsGood
<1> DEFINE p == [script EXCEPT !.UiQueue = Append(@, n)]
           q == P!UiQueueRun(p)
<1>2. Append(script.UiQueue, n) \in Seq(P!Rows)
  BY <1>1, AppendProperties DEF Good, P!Pages
<1>3. /\ SameRows(p, script) /\ p.rq_count = script.rq_count /\ p.updates = script.updates
      /\ p.twice = script.twice
  BY <1>1, <1>2 DEF Good, P!Pages, SameRows
<1>4. script' = q
  BY Zenon DEF P!Ui
<1> HIDE DEF p
<1>5. SameRows(q, p) /\ Checks(q) = Checks(p) /\ (q.rq_count = 0 => q.UiQueue = <<>>)
  BY <1>3, UiQueueRunCounts DEF SameRows
<1> HIDE DEF q
<1>6. SameRows(q, script) /\ Checks(q) = Checks(script) /\ P!Active(q) = P!Active(script)
  BY <1>3, <1>5 DEF SameRows, Checks, P!Active
<1>7. Excess(q) = 0
  BY <1>1, <1>6 DEF Good, Excess
<1>8. Good(q)
  BY <1>1, <1>5, <1>6, <1>7, RunIsGood DEF Good
<1> QED BY <1>1, <1>4, <1>8, GoodNext DEF P!Ui

LEMMA PageSend == ASSUME P!Inv, NEW n \in P!Rows, P!Send(n) PROVE P!Inv'
<1>1. Good(script) /\ messages \in Nat /\ actions \in Nat
  BY InvIsGood
<1> DEFINE q == [script EXCEPT !.rq[n].state = "sent"]
           chk == [script.rq[n] EXCEPT !.state = "sent"]
<1>2. script.rq \in [P!Rows -> P!Rqs] /\ script.rq[n] \in P!Rqs
  BY <1>1 DEF Good, P!Pages
<1>3. chk \in P!Rqs /\ chk.state = "sent" /\ chk.text = script.rq[n].text
  BY <1>2 DEF P!Rqs
<1>4. q = [script EXCEPT !.rq[n] = chk]
  BY Zenon
<1> HIDE DEF chk
<1>5. /\ q \in P!Pages /\ q.text = script.text /\ q.hostname = script.hostname
      /\ q.rq = [script.rq EXCEPT ![n] = chk] /\ q.textChanged = script.textChanged
      /\ q.rq_count = script.rq_count /\ q.updates = script.updates /\ q.twice = script.twice
      /\ q.UiQueue = script.UiQueue
  BY <1>1, <1>3, <1>4 DEF Good, P!Pages
<1>6. script' = q /\ script.rq[n].state = "new"
  BY DEF P!Send
<1> HIDE DEF q
<1>7. P!Active(q) = P!Active(script) /\ Excess(q) = Excess(script)
  BY <1>2, <1>3, <1>5, <1>6 DEF P!Active, Excess, Checks
<1>8. ASSUME NEW m \in P!Rows PROVE Checked(q, m)
  <2>1. CASE m = n
    BY <1>1, <1>2, <1>3, <1>5, <1>6, <1>7, <2>1 DEF Good, Checked, P!NoRq, P!Active
  <2>2. CASE m # n
    BY <1>1, <1>2, <1>5, <1>7, <2>2 DEF Good, Checked
  <2> QED BY <2>1, <2>2
<1>9. Good(q)
  BY <1>1, <1>5, <1>7, <1>8 DEF Good
<1> QED BY <1>1, <1>6, <1>9, GoodNext DEF P!Send

(* A check is answered: the next one starts, or the row has none.          *)
LEMMA PageOnSuccess == ASSUME P!Inv, NEW n \in P!Rows, P!OnSuccess(n) PROVE P!Inv'
<1>1. Good(script) /\ messages \in Nat /\ actions \in Nat
  BY InvIsGood
<1> DEFINE rq == script.rq[n]
           fired == IF script.textChanged[n] THEN P!Fire(script, n)
                    ELSE [script EXCEPT !.rq[n] = P!NoRq]
           a == [fired EXCEPT !.textChanged[n] = FALSE]
           p == [a EXCEPT !.hostname[n] = rq.text]
<1>2. script' = P!Finished(p, rq.ui) /\ rq.state = "sent"
  BY Zenon DEF P!OnSuccess
<1>3. /\ script.rq \in [P!Rows -> P!Rqs] /\ script.text \in [P!Rows -> P!Texts]
      /\ script.hostname \in [P!Rows -> P!Texts] /\ script.textChanged \in [P!Rows -> BOOLEAN]
  BY <1>1 DEF Good, P!Pages
<1>4. rq.ui \in BOOLEAN /\ rq.text \in P!Texts
  BY <1>3 DEF P!Rqs
<1>5. n \in P!Active(script)
  BY <1>2 DEF P!Active
<1>6. PICK chk \in P!Rqs :
        /\ fired \in P!Pages /\ fired.rq = [script.rq EXCEPT ![n] = chk]
        /\ fired.text = script.text /\ fired.hostname = script.hostname
        /\ fired.textChanged = script.textChanged
        /\ \/ /\ chk.state = "new" /\ chk.text = script.text[n]
              /\ Checks(fired) = Checks(script) + 1
           \/ /\ chk = P!NoRq /\ rq.text = script.text[n]
              /\ Checks(fired) = Checks(script)
  <2>1. CASE script.textChanged[n]
    <3>1. fired = P!Fire(script, n)
      BY <2>1, Zenon
    <3> HIDE DEF fired
    <3>2. PICK chk \in P!Rqs : /\ chk.state = "new" /\ chk.text = script.text[n]
                             /\ fired.rq = [script.rq EXCEPT ![n] = chk]
      <4>1. \E chk \in P!Rqs : /\ chk.state = "new" /\ chk.text = script.text[n]
                            /\ P!Fire(script, n).rq = [script.rq EXCEPT ![n] = chk]
        BY <1>1, FireCounts DEF Good
      <4> QED BY <3>1, <4>1, Zenon
    <3>3. /\ fired \in P!Pages /\ fired.text = script.text
          /\ fired.hostname = script.hostname /\ fired.textChanged = script.textChanged
          /\ Checks(fired) = Checks(script) + 1
      BY <1>1, <3>1, FireCounts DEF Good
    <3> QED BY <3>2, <3>3, Zenon
  <2>2. CASE ~script.textChanged[n]
    <3>1. fired = [script EXCEPT !.rq[n] = P!NoRq]
      BY <2>2, Zenon
    <3> HIDE DEF fired
    <3>2. P!NoRq \in P!Rqs
      BY DEF P!NoRq, P!Rqs, P!Texts
    <3>3. /\ fired \in P!Pages /\ fired.rq = [script.rq EXCEPT ![n] = P!NoRq]
          /\ fired.text = script.text /\ fired.hostname = script.hostname
          /\ fired.textChanged = script.textChanged
          /\ fired.rq_count = script.rq_count /\ fired.updates = script.updates
          /\ fired.twice = script.twice
      BY <1>1, <3>1, <3>2 DEF Good, P!Pages
    <3>4. rq.text = script.text[n]
      BY <1>1, <1>5, <2>2 DEF Good, Checked
    <3>5. Checks(fired) = Checks(script)
      BY <3>3 DEF Checks
    <3> QED BY <3>2, <3>3, <3>4, <3>5, Zenon
  <2> QED BY <2>1, <2>2
<1> HIDE DEF fired, rq
<1>7. /\ a \in P!Pages /\ a.rq = fired.rq /\ a.text = fired.text /\ a.hostname = fired.hostname
      /\ a.textChanged = [fired.textChanged EXCEPT ![n] = FALSE]
      /\ a.rq_count = fired.rq_count /\ a.updates = fired.updates /\ a.twice = fired.twice
  BY <1>6 DEF P!Pages
<1> HIDE DEF a
<1>8. /\ p \in P!Pages /\ p.rq = a.rq /\ p.text = a.text /\ p.textChanged = a.textChanged
      /\ p.hostname = [a.hostname EXCEPT ![n] = rq.text]
      /\ p.rq_count = a.rq_count /\ p.updates = a.updates /\ p.twice = a.twice
  BY <1>4, <1>7 DEF P!Pages
<1> HIDE DEF p
<1>9. Checks(p) = Checks(fired)
  BY <1>7, <1>8 DEF Checks
<1>10. Excess(p) = 1
  <2>1. Excess(script) = 0 /\ Checks(script) \in Int /\ Cardinality(P!Active(script)) \in Nat
    BY <1>1, ExcessType DEF Good
  <2>2. CASE chk.state = "new"
    <3>1. P!Active(p) = P!Active(script)
      BY <1>3, <1>5, <1>6, <1>7, <1>8, <2>2 DEF P!Active
    <3>2. Checks(p) = Checks(script) + 1
      BY <1>6, <1>9, <2>2 DEF P!NoRq
    <3> QED BY <2>1, <3>1, <3>2 DEF Excess
  <2>3. CASE chk = P!NoRq
    <3>1. P!Active(p) = P!Active(script) \ {n}
      BY <1>3, <1>6, <1>7, <1>8, <2>3 DEF P!Active, P!NoRq
    <3>2. Checks(p) = Checks(script)
      BY <1>6, <1>9, <2>3 DEF P!NoRq
    <3>3. Cardinality(P!Active(p)) = Cardinality(P!Active(script)) - 1
      BY <1>5, <3>1, ActiveCount
    <3> QED BY <2>1, <3>2, <3>3 DEF Excess
  <2> QED BY <1>6, <2>2, <2>3
<1>11. ASSUME NEW m \in P!Rows PROVE Checked(p, m)
  <2>1. CASE m = n
    BY <1>3, <1>6, <1>7, <1>8, <2>1 DEF Checked, P!NoRq, P!Active
  <2>2. CASE m # n
    BY <1>1, <1>3, <1>6, <1>7, <1>8, <2>2 DEF Good, Checked, P!Active
  <2> QED BY <2>1, <2>2
<1>12. Good(script')
  BY <1>2, <1>4, <1>8, <1>10, <1>11, FinishedIsGood
<1> QED BY <1>1, <1>12, GoodNext DEF P!OnSuccess

(* A check that fails is counted off.                                      *)
LEMMA PageOnError == ASSUME P!Inv, NEW n \in P!Rows, P!OnError(n) PROVE P!Inv'
<1>1. Good(script) /\ messages \in Nat /\ actions \in Nat
  BY InvIsGood
<1> DEFINE chk == [script.rq[n] EXCEPT !.state = "failed", !.text = P!Invalid]
           b == script.rq[n].ui
           p == [script EXCEPT !.rq[n] = chk]
<1>2. script' = P!Finished(p, b) /\ script.rq[n].state = "sent"
  BY Zenon DEF P!OnError
<1>3. script.rq \in [P!Rows -> P!Rqs] /\ script.rq[n] \in P!Rqs
  BY <1>1 DEF Good, P!Pages
<1>4. chk \in P!Rqs /\ chk.state = "failed" /\ b \in BOOLEAN
  BY <1>3 DEF P!Rqs, P!Texts
<1> HIDE DEF chk, b
<1>5. /\ p \in P!Pages /\ p.rq = [script.rq EXCEPT ![n] = chk]
      /\ p.text = script.text /\ p.hostname = script.hostname
      /\ p.textChanged = script.textChanged
      /\ p.rq_count = script.rq_count /\ p.updates = script.updates /\ p.twice = script.twice
  BY <1>1, <1>4 DEF Good, P!Pages
<1> HIDE DEF p
<1>6. P!Active(p) = P!Active(script) \ {n} /\ n \in P!Active(script)
  BY <1>2, <1>3, <1>4, <1>5 DEF P!Active
<1>7. Checks(p) = Checks(script)
  BY <1>5 DEF Checks
<1>8. Excess(p) = 1
  <2>1. Excess(script) = 0 /\ Checks(script) \in Int /\ Cardinality(P!Active(script)) \in Nat
    BY <1>1, ExcessType DEF Good
  <2>2. Cardinality(P!Active(p)) = Cardinality(P!Active(script)) - 1
    BY <1>6, ActiveCount
  <2> QED BY <1>7, <2>1, <2>2 DEF Excess
<1>9. ASSUME NEW m \in P!Rows PROVE Checked(p, m)
  <2>1. CASE m = n
    BY <1>3, <1>4, <1>5, <2>1 DEF Checked, P!NoRq, P!Active
  <2>2. CASE m # n
    BY <1>1, <1>3, <1>5, <2>2 DEF Good, Checked, P!Active
  <2> QED BY <2>1, <2>2
<1>10. Good(script')
  BY <1>2, <1>4, <1>5, <1>8, <1>9, FinishedIsGood
<1> QED BY <1>1, <1>10, GoodNext DEF P!OnError

(* A click that is answered is counted off.                                *)
LEMMA PageUpdated == ASSUME P!Inv, P!Updated PROVE P!Inv'
<1>1. Good(script) /\ messages \in Nat /\ actions \in Nat
  BY InvIsGood
<1>2. PICK i \in DOMAIN script.updates :
        script' = P!Finished([script EXCEPT !.updates = SubSeq(@, 1, i-1)
                                                        \o SubSeq(@, i+1, Len(@))], TRUE)
  BY Zenon DEF P!Updated
<1> DEFINE u == script.updates
           before == SubSeq(u, 1, i-1)
           after == SubSeq(u, i+1, Len(u))
           p == [script EXCEPT !.updates = before \o after]
<1>3. u \in Seq(P!Updates)
  BY <1>1 DEF Good, P!Pages
<1>4. Len(u) \in Nat /\ i \in 1..Len(u)
  BY <1>3, LenProperties
<1> HIDE DEF u
<1>5. before \in Seq(P!Updates) /\ Len(before) = i - 1
  BY <1>3, <1>4, ElementOfSeq, SubSeqProperties
<1>6. after \in Seq(P!Updates) /\ Len(after) = Len(u) - i
  BY <1>3, <1>4, ElementOfSeq, SubSeqProperties
<1>7. script' = P!Finished(p, TRUE)
  BY <1>2, Zenon DEF u
<1> HIDE DEF before, after
<1>8. before \o after \in Seq(P!Updates) /\ Len(before \o after) = Len(u) - 1
  <2>1. Len(before \o after) = Len(before) + Len(after) /\ before \o after \in Seq(P!Updates)
    BY <1>5, <1>6, ConcatProperties
  <2> QED BY <1>4, <1>5, <1>6, <2>1
<1>9. /\ SameRows(p, script) /\ p.rq_count = script.rq_count /\ p.twice = script.twice
      /\ p.updates = before \o after
  BY <1>1, <1>8 DEF Good, SameRows, P!Pages
<1> HIDE DEF p
<1>10. Len(p.updates) = Len(script.updates) - 1 /\ P!Active(p) = P!Active(script)
  BY <1>8, <1>9 DEF u, SameRows, P!Active
<1>11. Excess(p) = 1
  <2>1. Excess(script) = 0 /\ Cardinality(P!Active(script)) \in Nat
        /\ Len(script.updates) \in Nat /\ script.rq_count \in Int /\ script.twice \in Nat
    BY <1>1, ExcessType DEF Good
  <2> QED BY <1>9, <1>10, <2>1 DEF Excess, Checks
<1>12. ASSUME NEW m \in P!Rows PROVE Checked(p, m)
  BY <1>1, <1>9 DEF Good, Checked, SameRows, P!Active
<1>13. Good(P!Finished(p, TRUE))
  BY <1>9, <1>11, <1>12, FinishedIsGood DEF SameRows
<1>14. Good(script')
  BY <1>7, <1>13, Zenon
<1> QED BY <1>1, <1>14, GoodNext DEF P!Updated

LEMMA PageNext == P!Inv /\ [P!Next]_(P!vars) => P!Inv'
<1> SUFFICES ASSUME P!Inv, [P!Next]_(P!vars) PROVE P!Inv'
  OBVIOUS
<1>1. CASE UNCHANGED P!vars
  <2>1. Good(script) /\ messages \in Nat /\ actions \in Nat
    BY InvIsGood
  <2>2. script' = script /\ messages' = messages /\ actions' = actions
    BY <1>1 DEF P!vars
  <2> QED BY <2>1, <2>2, GoodNext
<1>2. CASE P!Next
  BY <1>2, PageMessage, PageUpdated, PageOnInput, PageUi, PageSend, PageOnSuccess, PageOnError,
     Zenon DEF P!Next
<1> QED BY <1>1, <1>2

(* The invariant of the script, for any number of rows and hosts and any   *)
(* messages, edits and clicks (api.js, sites.js).                          *)
LEMMA PageHolds == P!Spec => []P!Inv
BY PageInit, PageNext, PTL DEF P!Spec

(* The mark of a row is that of the text it shows, unless a check is       *)
(* active or has failed (api.js:606-627, 643-647).                         *)
THEOREM MarksAreShown == P!Spec => []CheckedIsShown
<1>1. P!Inv => CheckedIsShown
  BY DEF P!Inv, CheckedIsShown
<1> QED BY PageHolds, <1>1, PTL

(* Requests are counted exactly while they are active, but for those that  *)
(* finish twice, each of which leaves the count one too low; a click waits *)
(* for no request only when the count is negative (api.js:92-96, 98-124,   *)
(* 173).                                                                   *)
THEOREM RequestsAreCounted == P!Spec => []RequestsCounted
<1>1. P!Inv => RequestsCounted
  BY DEF P!Inv, RequestsCounted
<1> QED BY PageHolds, <1>1, PTL

(* A poll of a connected page that waits for a change waits for one of     *)
(* what the page shows, although the goroutines of a socket share their    *)
(* request (webapi.go:366).                                                *)
THEOREM WaitingPollsAreCurrent == T!Spec => []T!PollsWhatIsShown
<1>1. T!Inv => T!PollsWhatIsShown
  BY DEF T!Inv
<1> QED BY SocketInit, SocketNext, <1>1, PTL DEF T!Spec

-----------------------------------------------------------------------------
(***************************************************************************)
(* All parts together.                                                     *)
(***************************************************************************)
(* Each part keeps its own invariant and leaves those of the others alone: *)
(* requests that poll (handler.go:53-55), the poll socket of a page        *)
(* (webapi.go:366) and the script that works on its messages               *)
(* (api.js:98-124, 606-627).                                               *)
THEOREM PagesHold == MCSpec => []PagesInv
<1>1. MCInit => PagesInv
  BY InvInit, SocketInit, PageInit DEF MCInit, PagesInv
<1>2. PagesInv /\ [MCNext]_MCVars => PagesInv'
  <2> SUFFICES ASSUME PagesInv, [MCNext]_MCVars PROVE PagesInv'
    OBVIOUS
  <2>1. \/ Next \/ UNCHANGED vars
    BY DEF MCNext, MCVars
  <2>2. \/ T!Next \/ UNCHANGED T!vars
    BY DEF MCNext, MCVars, sockVars, T!vars, T!pollVars
  <2>3. \/ P!Next \/ UNCHANGED P!vars
    BY DEF MCNext, MCVars, pageVars, P!vars
  <2> QED BY <2>1, <2>2, <2>3, InvNext, SocketNext, PageNext DEF PagesInv
<1> QED BY <1>1, <1>2, PTL DEF MCSpec
==============================================================================
