----------------------------- MODULE EbusProofs -----------------------------
(***************************************************************************)
(* Proofs about the event bus, as MCPages has it: its wake-ups are exact,  *)
(* its offers are valid, and it implements the abstract EventBus but for   *)
(* the event of startup.                                                   *)
(***************************************************************************)
EXTENDS MCPages, FiniteSetTheorems, WellFoundedInduction, TLAPS

(* next() finds a bit if there is one, so that the loop of ebus.go:208     *)
(* ends.  (The sets of bits below a bit are ordered by inclusion, which is *)
(* well-founded.)                                                          *)
LEMMA LowestIsMember ==
    ASSUME B!ConstantsOK, NEW bits \in SUBSET Events, bits # {}
    PROVE  B!Lowest(bits) \in bits
<1> DEFINE Below(e) == {f \in bits : f < e}
<1>1. bits \subseteq Nat
  BY DEF B!ConstantsOK
<1>2. PICK m \in bits : TRUE
  OBVIOUS
<1>3. IsFiniteSet(0..m)
  BY <1>1, FS_Interval
<1> DEFINE Chain == {Below(e) : e \in {f \in bits : f <= m}}
<1>4. Chain \subseteq SUBSET (0..m) /\ Chain # {}
  <2>1. \A e \in bits : e <= m => Below(e) \subseteq 0..m
    <3> SUFFICES ASSUME NEW e \in bits, e <= m, NEW f \in Below(e)
                 PROVE  f \in 0..m
      OBVIOUS
    <3>1. e \in Nat /\ f \in Nat /\ m \in Nat /\ f < e
      BY <1>1
    <3> QED BY <3>1
  <2>2. Below(m) \in Chain
    BY <1>1
  <2> QED
    BY <2>1, <2>2
<1>5. PICK x \in Chain : \A y \in Chain : <<y, x>> \notin StrictSubsetOrdering(0..m)
  <2>1. Chain \subseteq FiniteSubsetsOf(0..m)
    BY <1>3, <1>4, FS_FiniteSubsetsOfFinite
  <2> HIDE DEF Chain
  <2> QED
    BY <1>4, <2>1, FS_StrictSubsetOrderingWellFounded, WFMin, Zenon
<1>6. PICK e \in bits : e <= m /\ x = Below(e)
  OBVIOUS
<1>7. ASSUME NEW f \in bits, f < e PROVE FALSE
  <2>1. Below(f) \in Chain
    BY <1>1, <1>6, <1>7
  <2>2. Below(f) \subseteq x /\ Below(f) # x
    <3>1. Below(f) \subseteq Below(e)
      <4> SUFFICES ASSUME NEW g \in Below(f) PROVE g \in Below(e)
        OBVIOUS
      <4>1. e \in Nat /\ f \in Nat /\ g \in Nat /\ g < f
        BY <1>1
      <4> QED BY <1>7, <4>1
    <3>2. f \in Below(e) /\ f \notin Below(f)
      BY <1>1, <1>7
    <3> QED BY <1>6, <3>1, <3>2
  <2>3. <<Below(f), x>> \in StrictSubsetOrdering(0..m)
    BY <1>4, <2>1, <2>2 DEF StrictSubsetOrdering
  <2> QED
    BY <1>5, <2>1, <2>3
<1>8. \A f \in bits : e <= f
  BY <1>1, <1>7
<1> QED
  BY <1>8 DEF B!Lowest

(* What the goroutine offers after a refill was pending for the subscriber. *)
LEMMA RefillOffers ==
    ASSUME B!ConstantsOK, NEW new \in [Subscribers -> SUBSET Events], B!Refill(new)
    PROVE  /\ spending' = new
           /\ offered' \in [Subscribers -> Events \cup {NoEvent}]
           /\ \A s \in Subscribers :
                 /\ s \notin subscribers => offered'[s] = NoEvent
                 /\ offered'[s] # NoEvent => offered'[s] \in new[s]
<1>1. \A s \in Subscribers : new[s] # {} => B!Lowest(new[s]) \in new[s]
  BY LowestIsMember
<1>2. \A s \in Subscribers : new[s] \subseteq Events
  OBVIOUS
<1> QED
  BY <1>1, <1>2 DEF B!ConstantsOK, B!Refill

(* At startup there are no subscribers and nothing is pending. *)
LEMMA InvInit == ASSUME B!ConstantsOK, B!Init PROVE B!Inv
<1>1. B!TypeOK /\ B!SentInv /\ B!RaiserInv /\ B!OffersPending
  BY DEF B!ConstantsOK, B!Init, B!TypeOK, B!SentInv, B!RaiserInv, B!OffersPending
<1>2. B!SubscriberInv
  BY DEF B!Init, B!SubscriberInv
<1>3. B!WakeupExact
  BY DEF B!Init, B!WakeupExact
<1> QED
  BY <1>1, <1>2, <1>3 DEF B!Inv

(* What Distribute hands out are sets of events. *)
Distributed == [s \in Subscribers |->
                  IF s \in subscribers THEN spending[s] \cup (pending \cap B!Mask(s))
                  ELSE spending[s]]

(* Every step keeps the types. *)
LEMMA TypeNext == ASSUME B!ConstantsOK, B!Inv, [B!Next]_(B!vars) PROVE B!TypeOK'
<1> USE DEF B!Inv, B!TypeOK, B!busVars, B!goVars, B!clientVars
<1>1. CASE UNCHANGED B!vars
  BY <1>1 DEF B!vars
<1>2. ASSUME NEW s \in Subscribers, B!Sub(s) \/ B!Listen(s) \/ B!Unsub(s) PROVE B!TypeOK'
  BY <1>2 DEF B!Sub, B!Listen, B!Unsub
<1>3. ASSUME NEW s \in Subscribers, B!Send(s) PROVE B!TypeOK'
  BY <1>3 DEF B!Send
<1>4. ASSUME NEW q \in Raisers, B!Call(q) \/ B!Raise(q) \/ B!Wake(q) PROVE B!TypeOK'
  BY <1>4 DEF B!Call, B!Raise, B!Wake
<1>5. CASE B!Distribute
  <2>1. Distributed \in [Subscribers -> SUBSET Events]
    BY DEF Distributed
  <2>2. B!Refill(Distributed)
    BY <1>5 DEF B!Distribute, Distributed
  <2> QED
    BY <1>5, <2>1, <2>2, RefillOffers DEF B!Distribute, B!Refill
<1>6. CASE B!Sent
  <2>1. [spending EXCEPT ![choosen] = @ \ {offered[choosen]}] \in [Subscribers -> SUBSET Events]
    OBVIOUS
  <2> QED
    BY <1>6, <2>1, RefillOffers DEF B!Sent, B!Refill
<1> QED
  BY <1>1, <1>2, <1>3, <1>4, <1>5, <1>6 DEF B!Next

(* The wake-up stays exact: only the call of Raise that makes the word     *)
(* non-zero blocks, and the word is zeroed only after its wake-up was      *)
(* received.                                                               *)
LEMMA WakeupNext == B!Inv /\ [B!Next]_(B!vars) => B!WakeupExact' /\ B!RaiserInv'
<1> SUFFICES ASSUME B!Inv, [B!Next]_(B!vars) PROVE B!WakeupExact' /\ B!RaiserInv'
  OBVIOUS
<1> USE DEF B!Inv, B!TypeOK
<1>1. ASSUME UNCHANGED <<pending, raiser, braising>>,
             goroutine' = "received" <=> goroutine = "received"
      PROVE  B!WakeupExact' /\ B!RaiserInv'
  BY <1>1 DEF B!WakeupExact, B!RaiserInv
<1>2. CASE UNCHANGED B!vars
  BY <1>1, <1>2 DEF B!vars, B!busVars, B!goVars
<1>3. ASSUME NEW s \in Subscribers, B!Sub(s) \/ B!Listen(s) \/ B!Unsub(s) \/ B!Send(s)
      PROVE  B!WakeupExact' /\ B!RaiserInv'
  BY <1>1, <1>3 DEF B!Sub, B!Listen, B!Unsub, B!Send, B!busVars, B!goVars
<1>4. ASSUME NEW q \in Raisers, B!Call(q) PROVE B!WakeupExact' /\ B!RaiserInv'
  BY <1>4 DEF B!Call, B!goVars, B!WakeupExact, B!RaiserInv
<1>5. ASSUME NEW q \in Raisers, B!Raise(q) PROVE B!WakeupExact' /\ B!RaiserInv'
  <2>1. braising[q] \in Events /\ pending' # {} /\ goroutine' = goroutine
    BY <1>5 DEF B!Raise, B!goVars
  <2>2. B!RaiserInv'
    BY <1>5 DEF B!Raise, B!RaiserInv
  <2>3. CASE pending = {}
    <3>1. \A o \in Raisers : raiser[o] # "waking"
      BY <2>3 DEF B!WakeupExact
    <3>2. {o \in Raisers : raiser'[o] = "waking"} = {q}
      BY <1>5, <2>3, <3>1 DEF B!Raise
    <3> QED
      BY <2>1, <2>2, <2>3, <3>2 DEF B!WakeupExact
  <2>4. CASE pending # {}
    <3>1. \A o \in Raisers : raiser'[o] = "waking" <=> raiser[o] = "waking"
      BY <1>5, <2>4 DEF B!Raise, B!RaiserInv
    <3>2. {o \in Raisers : raiser'[o] = "waking"} = {o \in Raisers : raiser[o] = "waking"}
      BY <3>1
    <3> QED
      BY <2>1, <2>2, <2>4, <3>2 DEF B!WakeupExact
  <2> QED
    BY <2>3, <2>4
<1>6. ASSUME NEW q \in Raisers, B!Wake(q) PROVE B!WakeupExact' /\ B!RaiserInv'
  <2>1. pending # {} /\ {o \in Raisers : raiser[o] = "waking"} = {q}
    BY <1>6 DEF B!Wake, B!WakeupExact
  <2>2. {o \in Raisers : raiser'[o] = "waking"} = {}
    BY <1>6, <2>1 DEF B!Wake
  <2> QED
    BY <1>6, <2>1, <2>2 DEF B!Wake, B!WakeupExact, B!RaiserInv
<1>7. CASE B!Distribute
  <2>1. {o \in Raisers : raiser'[o] = "waking"} = {}
    BY <1>7 DEF B!Distribute, B!WakeupExact
  <2> QED
    BY <1>7, <2>1 DEF B!Distribute, B!Refill, B!WakeupExact, B!RaiserInv
<1>8. CASE B!Sent
  BY <1>1, <1>8 DEF B!Sent, B!Refill, B!busVars
<1> QED
  BY <1>2, <1>3, <1>4, <1>5, <1>6, <1>7, <1>8 DEF B!Next

(* Offers stay valid, and the table follows the subscribers.               *)
LEMMA OffersNext ==
    ASSUME B!ConstantsOK, B!Inv, [B!Next]_(B!vars)
    PROVE  B!SubscriberInv' /\ B!SentInv' /\ B!OffersPending'
<1> USE DEF B!Inv, B!TypeOK, B!Mask
<1>1. ASSUME UNCHANGED <<B!goVars, B!clientVars>>
      PROVE  B!SubscriberInv' /\ B!SentInv' /\ B!OffersPending'
  BY <1>1 DEF B!goVars, B!clientVars, B!SubscriberInv, B!SentInv, B!OffersPending
<1>2. ASSUME NEW s \in Subscribers, B!Sub(s) \/ B!Listen(s) \/ B!Unsub(s)
      PROVE  B!SubscriberInv' /\ B!SentInv' /\ B!OffersPending'
  <2>1. B!SentInv'
    BY <1>2 DEF B!Sub, B!Listen, B!Unsub, B!goVars, B!SentInv
  <2>2. CASE B!Sub(s)
    BY <2>1, <2>2 DEF B!Sub, B!goVars, B!SubscriberInv, B!OffersPending
  <2>3. CASE B!Listen(s)
    BY <2>1, <2>3 DEF B!Listen, B!goVars, B!SubscriberInv, B!OffersPending
  <2>4. CASE B!Unsub(s)
    BY <2>1, <2>4 DEF B!Unsub, B!goVars, B!SubscriberInv, B!OffersPending
  <2> QED
    BY <1>2, <2>2, <2>3, <2>4
<1>3. ASSUME NEW s \in Subscribers, B!Send(s)
      PROVE  B!SubscriberInv' /\ B!SentInv' /\ B!OffersPending'
  BY <1>3 DEF B!ConstantsOK, B!Send, B!SubscriberInv, B!SentInv, B!OffersPending
<1>4. ASSUME NEW q \in Raisers, B!Call(q) \/ B!Raise(q)
      PROVE  B!SubscriberInv' /\ B!SentInv' /\ B!OffersPending'
  BY <1>1, <1>4 DEF B!Call, B!Raise
<1>5. ASSUME NEW q \in Raisers, B!Wake(q)
      PROVE  B!SubscriberInv' /\ B!SentInv' /\ B!OffersPending'
  BY <1>5 DEF B!Wake, B!clientVars, B!SubscriberInv, B!SentInv, B!OffersPending
<1>6. ASSUME NEW new \in [Subscribers -> SUBSET Events], B!Refill(new), UNCHANGED B!clientVars,
             \A s \in Subscribers :
                /\ s \in subscribers => new[s] \subseteq B!Mask(s)
                /\ bclient[s] = "none" => new[s] = {}
      PROVE  B!SubscriberInv' /\ B!SentInv' /\ B!OffersPending'
  <2>1. B!SentInv'
    BY <1>6 DEF B!Refill, B!SentInv
  <2>2. B!SubscriberInv'
    BY <1>6, RefillOffers DEF B!clientVars, B!SubscriberInv
  <2>3. B!OffersPending'
    BY <1>6, RefillOffers DEF B!clientVars, B!OffersPending
  <2> QED
    BY <2>1, <2>2, <2>3
<1>7. CASE B!Distribute
  <2>1. Distributed \in [Subscribers -> SUBSET Events]
    BY DEF Distributed
  <2>2. B!Refill(Distributed) /\ UNCHANGED B!clientVars
    BY <1>7 DEF B!Distribute, Distributed
  <2>3. \A s \in Subscribers :
           /\ s \in subscribers => Distributed[s] \subseteq B!Mask(s)
           /\ bclient[s] = "none" => Distributed[s] = {}
    BY DEF Distributed, B!SubscriberInv
  <2> QED
    BY <1>6, <2>1, <2>2, <2>3
<1>8. CASE B!Sent
  <2> DEFINE new == [spending EXCEPT ![choosen] = @ \ {offered[choosen]}]
  <2>1. new \in [Subscribers -> SUBSET Events]
    OBVIOUS
  <2>2. B!Refill(new) /\ UNCHANGED B!clientVars
    BY <1>8 DEF B!Sent
  <2>3. \A s \in Subscribers : new[s] \subseteq spending[s]
    OBVIOUS
  <2>4. \A s \in Subscribers :
           /\ s \in subscribers => new[s] \subseteq B!Mask(s)
           /\ bclient[s] = "none" => new[s] = {}
    BY <2>3 DEF B!SubscriberInv
  <2> HIDE DEF new
  <2> QED
    BY <1>6, <2>1, <2>2, <2>4
<1>9. CASE UNCHANGED B!vars
  BY <1>1, <1>9 DEF B!vars
<1> QED
  BY <1>2, <1>3, <1>4, <1>5, <1>7, <1>8, <1>9 DEF B!Next

(* The inductive invariant of the bus. *)
THEOREM InvHolds == B!Spec => []B!Inv
<1>1. B!Inv /\ [B!Next]_(B!vars) => B!Inv'
  BY BusAssumption, TypeNext, WakeupNext, OffersNext DEF B!Inv
<1> QED
  BY BusAssumption, InvInit, <1>1, PTL DEF B!Spec

(* No wake-up is lost and no caller of Raise is blocked without reason,    *)
(* whatever the number of callers.                                         *)
THEOREM WakeupsAreExact == B!Spec => []WakeupExact
<1>1. B!Inv => WakeupExact
  BY DEF B!Inv, WakeupExact
<1> QED
  BY InvHolds, <1>1, PTL

(* The goroutine only offers what is pending and asked for.                *)
THEOREM OffersArePending == B!Spec => []B!OffersPending
<1>1. B!Inv => B!OffersPending
  BY DEF B!Inv
<1> QED
  BY InvHolds, <1>1, PTL

-----------------------------------------------------------------------------
(***************************************************************************)
(* The refinement: Sub, Listen, Call, Raise, Send and Unsub are the        *)
(* abstract steps, and Wake, Distribute and Sent move events that remain   *)
(* undelivered, which the abstract bus does not see.                       *)
(***************************************************************************)

(* What Undelivered depends on. *)
TodoFrame == UNCHANGED <<pending, B!goVars, subscribers, blist>>

(* A step that leaves that alone neither adds nor delivers an event. *)
LEMMA TodoUnchanged == TodoFrame => B!Todo' = B!Todo
  BY DEF TodoFrame, B!Todo, B!Undelivered, B!Mask, B!goVars

(* A new bus owes nothing to anybody. *)
LEMMA BusInit == B!Init => B!Kept!Init
  BY DEF B!Init, B!Kept!Init, B!Todo, B!Undelivered

(* Every step of the bus is an abstract step or none. *)
LEMMA BusNext == ASSUME B!ConstantsOK, B!Inv, [B!Next]_(B!vars) PROVE [B!Kept!Next]_(B!Kept!vars)
<1> USE DEF B!Inv, B!TypeOK, B!Kept!vars
<1>1. CASE UNCHANGED B!vars
  <2>1. B!Todo' = B!Todo
    BY <1>1, TodoUnchanged DEF B!vars, B!busVars, B!goVars, B!clientVars, TodoFrame
  <2> QED
    BY <1>1, <2>1 DEF B!vars, B!busVars, B!clientVars
<1>2. ASSUME NEW s \in Subscribers, B!Sub(s) PROVE B!Kept!Sub(s)
  <2>1. B!Undelivered(s)' \in SUBSET Events
    BY <1>2 DEF B!Sub, B!Undelivered, B!Mask, B!busVars, B!goVars
  <2>2. \A t \in Subscribers \ {s} : B!Undelivered(t)' = B!Undelivered(t)
    BY <1>2 DEF B!Sub, B!Undelivered, B!Mask, B!busVars, B!goVars
  <2>3. B!Todo' = [B!Todo EXCEPT ![s] = B!Undelivered(s)']
    BY <2>2 DEF B!Todo
  <2> QED
    BY <1>2, <2>1, <2>3 DEF B!Sub, B!Kept!Sub, B!busVars
<1>3. ASSUME NEW s \in Subscribers, B!Listen(s) PROVE B!Kept!Listen(s)
  <2>1. B!Todo' = B!Todo
    BY <1>3, TodoUnchanged DEF B!Listen, B!busVars, B!goVars, TodoFrame
  <2> QED
    BY <1>3, <2>1 DEF B!Listen, B!Kept!Listen, B!busVars
<1>4. ASSUME NEW s \in Subscribers, B!Unsub(s) PROVE B!Kept!Unsub(s)
  <2>1. s \in B!Kept!Subscribed
    BY <1>4 DEF B!Unsub, B!Kept!Subscribed
  <2>2. B!Undelivered(s)' = {}
    BY <1>4 DEF B!Unsub, B!Undelivered
  <2>3. \A t \in Subscribers \ {s} : B!Undelivered(t)' = B!Undelivered(t)
    BY <1>4 DEF B!Unsub, B!Undelivered, B!Mask, B!busVars, B!goVars
  <2>4. B!Todo' = [B!Todo EXCEPT ![s] = {}]
    BY <2>2, <2>3 DEF B!Todo
  <2> QED
    BY <1>4, <2>1, <2>4 DEF B!Unsub, B!Kept!Unsub, B!busVars
<1>5. ASSUME NEW q \in Raisers, B!Call(q) PROVE B!Kept!Call(q)
  <2>1. B!Todo' = B!Todo
    BY <1>5, TodoUnchanged DEF B!Call, B!clientVars, B!goVars, TodoFrame
  <2> QED
    BY <1>5, <2>1 DEF B!Call, B!Kept!Call, B!clientVars
<1>6. ASSUME NEW q \in Raisers, B!Raise(q) PROVE B!Kept!Raise(q)
  <2>1. braising[q] \in Events
    BY <1>6 DEF B!Raise
  <2>2. B!Kept!Subscribed = subscribers
    BY DEF B!SubscriberInv, B!Kept!Subscribed
  <2>3. \A s \in Subscribers : B!Kept!Wanted(s) = B!Mask(s)
    BY DEF B!Kept!Wanted, B!Mask
  <2>4. ASSUME NEW s \in Subscribers
        PROVE  B!Undelivered(s)' = IF s \in B!Kept!Subscribed /\ braising[q] \in B!Kept!Wanted(s)
                                 THEN B!Undelivered(s) \cup {braising[q]} ELSE B!Undelivered(s)
    <3>1. B!Mask(s)' = B!Mask(s)
      BY <1>6 DEF B!Raise, B!clientVars, B!Mask
    <3>2. CASE s \notin subscribers
      BY <1>6, <2>2, <3>2 DEF B!Raise, B!clientVars, B!Undelivered
    <3>3. CASE s \in subscribers
      <4>1. pending' \cap B!Mask(s)' = IF braising[q] \in B!Mask(s)
                                     THEN (pending \cap B!Mask(s)) \cup {braising[q]}
                                     ELSE pending \cap B!Mask(s)
        BY <1>6, <3>1 DEF B!Raise
      <4> QED
        BY <1>6, <2>2, <2>3, <3>3, <4>1 DEF B!Raise, B!goVars, B!clientVars, B!Undelivered
    <3> QED
      BY <3>2, <3>3
  <2>5. B!Todo' = [s \in Subscribers |->
                   IF s \in B!Kept!Subscribed /\ braising[q] \in B!Kept!Wanted(s)
                   THEN B!Todo[s] \cup {braising[q]} ELSE B!Todo[s]]
    BY <2>4 DEF B!Todo
  <2> QED
    BY <1>6, <2>5 DEF B!Raise, B!Kept!Raise, B!clientVars
<1>7. ASSUME NEW q \in Raisers, B!Wake(q) PROVE UNCHANGED B!Kept!vars
  <2>1. \A s \in Subscribers : B!Undelivered(s)' = B!Undelivered(s)
    BY <1>7 DEF B!Wake, B!clientVars, B!Undelivered, B!Mask
  <2> QED
    BY <1>7, <2>1 DEF B!Wake, B!clientVars, B!Todo
<1>8. CASE B!Distribute
  <2>1. Distributed \in [Subscribers -> SUBSET Events]
    BY DEF Distributed
  <2>2. spending' = Distributed /\ goroutine' = "select" /\ pending' = {}
    BY <1>8, <2>1, RefillOffers DEF B!Distribute, Distributed, B!Refill
  <2>3. \A s \in Subscribers : B!Mask(s)' = B!Mask(s)
    BY <1>8 DEF B!Distribute, B!clientVars, B!Mask
  <2>4. \A s \in Subscribers : B!Undelivered(s)' = B!Undelivered(s)
    BY <1>8, <2>2, <2>3 DEF B!Distribute, Distributed, B!clientVars, B!Undelivered
  <2> QED
    BY <1>8, <2>4 DEF B!Distribute, B!clientVars, B!Todo
<1>9. ASSUME NEW s \in Subscribers, B!Send(s) PROVE B!Kept!Deliver(s)
  <2> DEFINE e == offered[s]
  <2>1. s \in subscribers /\ e \in spending[s] /\ e \in B!Mask(s) /\ e \in Events
    BY <1>9 DEF B!Send, B!SubscriberInv, B!OffersPending
  <2>2. e \in B!Todo[s]
    BY <1>9, <2>1 DEF B!Send, B!Todo, B!Undelivered
  <2>3. \A t \in Subscribers \ {s} : B!Undelivered(t)' = B!Undelivered(t)
    BY <1>9 DEF B!Send, B!Undelivered, B!Mask, B!busVars
  <2>4. B!Undelivered(s)' = (pending \cap B!Mask(s)) \cup (spending[s] \ {e})
    BY <1>9, <2>1 DEF B!Send, B!Undelivered, B!Mask, B!busVars
  <2>5. B!Undelivered(s) = (pending \cap B!Mask(s)) \cup spending[s]
    BY <1>9, <2>1 DEF B!Send, B!Undelivered
  <2>6. B!Undelivered(s)' = B!Undelivered(s) \/ B!Undelivered(s)' = B!Undelivered(s) \ {e}
    BY <2>1, <2>4, <2>5
  <2>7. B!Todo' \in {B!Todo, [B!Todo EXCEPT ![s] = @ \ {e}]}
    BY <2>3, <2>6 DEF B!Todo
  <2> QED
    BY <1>9, <2>2, <2>7 DEF B!Send, B!Kept!Deliver, B!busVars
<1>10. CASE B!Sent
  <2>1. [spending EXCEPT ![choosen] = @ \ {offered[choosen]}] \in [Subscribers -> SUBSET Events]
    OBVIOUS
  <2>2. choosen \in Subscribers
    BY <1>10 DEF B!Sent, B!SentInv
  <2>3. /\ spending' = [spending EXCEPT ![choosen] = @ \ {offered[choosen]}]
        /\ goroutine' = "select"
    BY <1>10, <2>1, RefillOffers DEF B!Sent, B!Refill
  <2>4. \A s \in Subscribers : B!Undelivered(s)' = B!Undelivered(s)
    BY <1>10, <2>2, <2>3 DEF B!Sent, B!busVars, B!clientVars, B!Undelivered, B!Mask
  <2> QED
    BY <1>10, <2>4 DEF B!Sent, B!busVars, B!clientVars, B!Todo
<1> QED
  BY <1>1, <1>2, <1>3, <1>4, <1>5, <1>6, <1>7, <1>8, <1>9, <1>10 DEF B!Next, B!Kept!Next

(* The bus of the code implements the abstract bus but for the startup     *)
(* event, which a subscriber that lists no events is not sent although     *)
(* ebus.go:93 promises all: no event raised after Sub is lost, and nothing *)
(* is delivered that was not raised.                                       *)
THEOREM EbusImplementsAllButStartup == B!Spec => ImplementsAllButStartup
<1>1. B!Spec => B!Kept!Spec
  BY BusAssumption, InvHolds, BusInit, BusNext, PTL DEF B!Spec, B!Kept!Spec
<1> QED
  BY <1>1 DEF ImplementsAllButStartup, B!ImplementsAllButStartup
=============================================================================
