-------------------------------- MODULE Ebus --------------------------------
(***************************************************************************)
(* The event bus (src/ebus.go): Raise sets a bit of ebus.pending without a *)
(* lock and wakes the delivery goroutine up if the word was zero; the      *)
(* goroutine distributes the bits to the subscribers under the lock, and   *)
(* waits with one select statement for subscribers to receive and for the  *)
(* next wake-up.                                                           *)
(*                                                                         *)
(* Events are bit numbers.  The lock is held by the goroutine except while *)
(* it selects, so that what it does from a select to the next one is one   *)
(* action, and so is each critical section of Sub and Unsub.               *)
(***************************************************************************)
EXTENDS Integers, FiniteSets

CONSTANTS
    Raisers,      (* goroutines that call Raise, each as often as it likes *)
    Subscribers,  (* calls of Sub, each with the goroutine that receives   *)
    Events,       (* kinds of events, by number                            *)
    NoEvent,      (* no event: raised, offered or received                 *)
    Nil           (* no subscriber                                         *)

EventStartup == 0

(* What is assumed of the constants. *)
ConstantsOK == Events \subseteq Nat /\ NoEvent \notin Events /\ Nil \notin Subscribers

VARIABLES
    pending,      (* ebus.pending                                          *)
    raising,      (* raising[r]: the argument of a call of Raise that has  *)
                  (* not set its bit yet                                   *)
    raiser,       (* raiser[r]: is r blocked in ebus.wake <- struct{}{}    *)
    goroutine,    (* the delivery goroutine: in select, or past it, having *)
                  (* received a wake-up or sent an event                   *)
    choosen,      (* the subscriber it has sent to                         *)
    subscribers,  (* ebus.subscribers                                      *)
    spending,     (* spending[s]: s.pending                                *)
    offered,      (* offered[s]: the event of the select case for s, which *)
                  (* is s.last, or NoEvent if there is no such case        *)
    client,       (* client[s]: what the receiving goroutine is doing      *)
    list,         (* list[s]: the arguments of the call of Sub             *)
    event         (* event[s]: the last event received                     *)

busVars    == <<pending, raising, raiser>>
goVars     == <<goroutine, choosen, spending, offered>>
clientVars == <<subscribers, client, list, event>>
vars       == <<busVars, goVars, clientVars>>

TypeOK ==
    /\ pending \in SUBSET Events
    /\ raising \in [Raisers -> Events \cup {NoEvent}]
    /\ raiser \in [Raisers -> {"idle", "waking"}]
    /\ goroutine \in {"select", "received", "sent"}
    /\ choosen \in Subscribers \cup {Nil}
    /\ subscribers \in SUBSET Subscribers
    /\ spending \in [Subscribers -> SUBSET Events]
    /\ offered \in [Subscribers -> Events \cup {NoEvent}]
    /\ client \in [Subscribers -> {"none", "busy", "listening", "gone"}]
    /\ list \in [Subscribers -> SUBSET Events]
    /\ event \in [Subscribers -> Events \cup {NoEvent}]

(* The mask of a subscriber: what it asked for or, without arguments, all  *)
(* bits but bit 0.                                                         *)
Mask(s) == IF list[s] = {} THEN Events \ {EventStartup} ELSE list[s]

Init ==
    /\ pending = {}
    /\ raising = [r \in Raisers |-> NoEvent]
    /\ raiser = [r \in Raisers |-> "idle"]
    /\ goroutine = "select"
    /\ choosen = Nil
    /\ subscribers = {}
    /\ spending = [s \in Subscribers |-> {}]
    /\ offered = [s \in Subscribers |-> NoEvent]
    /\ client = [s \in Subscribers |-> "none"]
    /\ list = [s \in Subscribers |-> {}]
    /\ event = [s \in Subscribers |-> NoEvent]

-----------------------------------------------------------------------------
(***************************************************************************)
(* Subscribers.                                                            *)
(***************************************************************************)

Sub(s) ==
    /\ client[s] = "none"
    /\ subscribers' = subscribers \cup {s}
    /\ \E l \in SUBSET Events : list' = [list EXCEPT ![s] = l]
    /\ client' = [client EXCEPT ![s] = "busy"]
    /\ UNCHANGED <<busVars, goVars, event>>

(* The subscriber comes to receive from its channel. *)
Listen(s) ==
    /\ client[s] = "busy"
    /\ client' = [client EXCEPT ![s] = "listening"]
    /\ UNCHANGED <<busVars, goVars, subscribers, list, event>>

(* The subscriber leaves; the goroutine may still have a case for it. *)
Unsub(s) ==
    /\ client[s] \in {"busy", "listening"}
    /\ subscribers' = subscribers \ {s}
    /\ client' = [client EXCEPT ![s] = "gone"]
    /\ UNCHANGED <<busVars, goVars, list, event>>

-----------------------------------------------------------------------------
(***************************************************************************)
(* Raise.  The compare-and-swap loop is one step; only the caller that has *)
(* found the word empty goes on to wake the goroutine up.                  *)
(***************************************************************************)
Call(r) ==
    /\ raiser[r] = "idle"
    /\ raising[r] = NoEvent
    /\ \E e \in Events : raising' = [raising EXCEPT ![r] = e]
    /\ UNCHANGED <<pending, raiser, goVars, clientVars>>

(* Fault: the wake-up is sent only if the goroutine is ready for it. *)
RaiseNonBlocking(r) ==
    /\ raising[r] # NoEvent
    /\ raising' = [raising EXCEPT ![r] = NoEvent]
    /\ pending' = pending \cup {raising[r]}
    /\ raiser' = [raiser EXCEPT ![r] =
                    IF pending = {} /\ goroutine = "select" THEN "waking" ELSE "idle"]
    /\ UNCHANGED <<goVars, clientVars>>

(* Fault: a wake-up for every new bit. *)
RaiseEveryBit(r) ==
    /\ raising[r] # NoEvent
    /\ raising' = [raising EXCEPT ![r] = NoEvent]
    /\ pending' = pending \cup {raising[r]}
    /\ raiser' = [raiser EXCEPT ![r] = IF raising[r] \in pending THEN "idle" ELSE "waking"]
    /\ UNCHANGED <<goVars, clientVars>>

Raise(r) ==
    /\ raising[r] # NoEvent
    /\ raising' = [raising EXCEPT ![r] = NoEvent]
    /\ pending' = pending \cup {raising[r]}
    /\ raiser' = [raiser EXCEPT ![r] = IF pending = {} THEN "waking" ELSE "idle"]
    /\ UNCHANGED <<goVars, clientVars>>

-----------------------------------------------------------------------------
(***************************************************************************)
(* The delivery goroutine.                                                 *)
(***************************************************************************)

(* next(): the lowest bit of a non-empty set of pending events. *)
Lowest(bits) == CHOOSE e \in bits : \A f \in bits : e <= f

(* The select cases are refilled, after s.pending has become new[s]. *)
Refill(new) ==
    /\ spending' = new
    /\ offered' = [s \in Subscribers |->
                     IF s \in subscribers /\ new[s] # {} THEN Lowest(new[s])
                     ELSE NoEvent]
    /\ goroutine' = "select"
    /\ choosen' = Nil

(* Select chooses the wake-up channel. *)
Wake(r) ==
    /\ goroutine = "select"
    /\ raiser[r] = "waking"
    /\ raiser' = [raiser EXCEPT ![r] = "idle"]
    /\ goroutine' = "received"
    /\ UNCHANGED <<pending, raising, choosen, spending, offered, clientVars>>

(* Pending events are distributed to those who are subscribed now. *)
Distribute ==
    /\ goroutine = "received"
    /\ pending' = {}
    /\ Refill([s \in Subscribers |->
                 IF s \in subscribers THEN spending[s] \cup (pending \cap Mask(s))
                 ELSE spending[s]])
    /\ UNCHANGED <<raising, raiser, clientVars>>

(* Select chooses the channel of a subscriber that is receiving. *)
Send(s) ==
    /\ goroutine = "select"
    /\ offered[s] # NoEvent
    /\ client[s] = "listening"
    /\ event' = [event EXCEPT ![s] = offered[s]]
    /\ client' = [client EXCEPT ![s] = "busy"]
    /\ goroutine' = "sent"
    /\ choosen' = s
    /\ UNCHANGED <<busVars, spending, offered, subscribers, list>>

(* Fault: all that is pending for the subscriber is cleared. *)
SentAll ==
    /\ goroutine = "sent"
    /\ Refill([spending EXCEPT ![choosen] = {}])
    /\ UNCHANGED <<busVars, clientVars>>

(* The event sent is not pending any more. *)
Sent ==
    /\ goroutine = "sent"
    /\ Refill([spending EXCEPT ![choosen] = @ \ {offered[choosen]}])
    /\ UNCHANGED <<busVars, clientVars>>

-----------------------------------------------------------------------------
Next ==
    \/ \E s \in Subscribers : Sub(s) \/ Listen(s) \/ Unsub(s) \/ Send(s)
    \/ \E r \in Raisers : Call(r) \/ Raise(r) \/ Wake(r)
    \/ Distribute
    \/ Sent

Spec == Init /\ [][Next]_vars

(***************************************************************************)
(* The goroutine keeps running, a subscriber keeps receiving, and select   *)
(* chooses at random among the ready cases, so that none that is ready     *)
(* again and again is passed over for ever.  Nobody has to raise an event. *)
(***************************************************************************)
Fairness ==
    /\ \A r \in Raisers : WF_vars(Wake(r))
    /\ WF_vars(Distribute)
    /\ WF_vars(Sent)
    /\ \A s \in Subscribers : WF_vars(Listen(s)) /\ SF_vars(Send(s))

FairSpec == Spec /\ Fairness

-----------------------------------------------------------------------------
(***************************************************************************)
(* Properties.                                                             *)
(***************************************************************************)

(* Events on their way to the subscriber s: raised and not yet distributed *)
(* to it, or distributed and not yet sent.                                 *)
Undelivered(s) ==
    IF s \in subscribers
    THEN (pending \cap Mask(s)) \cup
         (spending[s] \ (IF goroutine = "sent" /\ choosen = s THEN {offered[s]} ELSE {}))
    ELSE {}

Todo == [s \in Subscribers |-> Undelivered(s)]

(* As long as events are pending somebody is on the way to distribute      *)
(* them: one caller of Raise is blocked in the wake-up, or the goroutine   *)
(* has received it.  Nobody else is ever blocked: of concurrent Raises     *)
(* exactly one sends the wake-up.                                          *)
WakeupExact ==
    LET waking == {r \in Raisers : raiser[r] = "waking"}
    IN  IF pending = {} THEN waking = {} /\ goroutine # "received"
        ELSE IF goroutine = "received" THEN waking = {}
        ELSE \E r \in Raisers : waking = {r}

(* An offer to a subscriber is for an event it asked for and that is still *)
(* pending for it, although Sub, Unsub and Raise run while the goroutine   *)
(* is in select.                                                           *)
OffersPending ==
    \A s \in subscribers : offered[s] # NoEvent =>
        /\ offered[s] \in spending[s]
        /\ offered[s] \in Mask(s)

(* What the bus promises: every event raised after Sub reaches the         *)
(* subscriber, however the raises, deliveries and other subscriptions      *)
(* interleave, and "if no events are specified, subscriber will receive    *)
(* all events" (ebus.go:93).  The last is not so, as Mask shows.           *)
Bus == INSTANCE EventBus WITH
    Everything <- Events,
    todo <- Todo
ImplementsEventBus == Bus!Spec

(* What the code keeps of that promise: a subscriber that lists no events  *)
(* receives all but EventStartup (ebus.go:96), and otherwise the promise   *)
(* is kept.                                                                *)
Kept == INSTANCE EventBus WITH
    Everything <- Events \ {EventStartup},
    todo <- Todo
ImplementsAllButStartup == Kept!Spec

(* The lowest event that a subscriber asked for is delivered, whatever     *)
(* else is raised.  (Higher ones can be delayed for as long as lower ones  *)
(* keep being raised: next() starts from bit 0.)                           *)
LowestDelivered ==
    \A s \in Subscribers : \A e \in Events :
        client[s] = "listening" /\ e \in Undelivered(s) /\ e = Lowest(Mask(s))
        ~> (event[s] = e /\ client[s] = "busy") \/ client[s] = "gone"

-----------------------------------------------------------------------------
(***************************************************************************)
(* The inductive invariant: the table of subscribers follows their         *)
(* goroutines, what is pending for a subscriber it asked for, and between  *)
(* a send and the next select there is exactly one subscriber to update.   *)
(***************************************************************************)
SubscriberInv ==
    \A s \in Subscribers :
        /\ s \in subscribers <=> client[s] \in {"busy", "listening"}
        /\ client[s] = "none" => spending[s] = {} /\ offered[s] = NoEvent
        /\ s \in subscribers => spending[s] \subseteq Mask(s)

SentInv ==
    /\ goroutine = "sent" <=> choosen # Nil
    /\ goroutine = "sent" => offered[choosen] # NoEvent

RaiserInv == \A r \in Raisers : raising[r] # NoEvent => raiser[r] = "idle"

Inv ==
    /\ TypeOK
    /\ SubscriberInv
    /\ SentInv
    /\ RaiserInv
    /\ WakeupExact
    /\ OffersPending
=============================================================================
