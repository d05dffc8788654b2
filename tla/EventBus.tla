------------------------------ MODULE EventBus ------------------------------
(***************************************************************************)
(* What the event bus of Froxy promises to its subscribers.                *)
(*                                                                         *)
(* A subscriber that is told of an event learns that the event was raised  *)
(* at least once since it was told of it last; an event raised after Sub   *)
(* has returned stays undelivered until the subscriber takes it.  An event *)
(* is a flag, not a message: raised several times before it is taken, it   *)
(* may be delivered once.  It may also be delivered once more than needed, *)
(* and a new subscriber may get an event that was raised shortly before.   *)
(***************************************************************************)
CONSTANTS
    Raisers,      (* goroutines that call Raise                            *)
    Subscribers,  (* calls of Sub, each with the goroutine that receives   *)
    Events,       (* kinds of events                                       *)
    Everything,   (* the events sent to a subscriber that lists none       *)
    NoEvent       (* no call of Raise in progress, or nothing received yet *)

VARIABLES
    raising, (* raising[r]: the event that r is about to raise             *)
    client,  (* client[s]: what the subscriber is doing                    *)
    list,    (* list[s]: the arguments of its call of Sub                  *)
    event,   (* event[s]: the last event it received                       *)
    todo     (* todo[s]: events raised and not yet delivered to it         *)

vars == <<raising, client, list, event, todo>>

ClientState == {"none", "busy", "listening", "gone"}
Subscribed  == {s \in Subscribers : client[s] \in {"busy", "listening"}}
Wanted(s)   == IF list[s] = {} THEN Everything ELSE list[s]

Init ==
    /\ raising = [r \in Raisers |-> NoEvent]
    /\ client = [s \in Subscribers |-> "none"]
    /\ list = [s \in Subscribers |-> {}]
    /\ event = [s \in Subscribers |-> NoEvent]
    /\ todo = [s \in Subscribers |-> {}]

Sub(s) ==
    /\ client[s] = "none"
    /\ client' = [client EXCEPT ![s] = "busy"]
    /\ \E l \in SUBSET Events : list' = [list EXCEPT ![s] = l]
    /\ \E recent \in SUBSET Events : todo' = [todo EXCEPT ![s] = recent]
    /\ UNCHANGED <<raising, event>>

(* The subscriber waits for an event. *)
Listen(s) ==
    /\ client[s] = "busy"
    /\ client' = [client EXCEPT ![s] = "listening"]
    /\ UNCHANGED <<raising, list, event, todo>>

Call(r) ==
    /\ raising[r] = NoEvent
    /\ \E e \in Events : raising' = [raising EXCEPT ![r] = e]
    /\ UNCHANGED <<client, list, event, todo>>

(* The event is raised: every subscriber that wants it is owed it. *)
Raise(r) ==
    /\ raising[r] # NoEvent
    /\ raising' = [raising EXCEPT ![r] = NoEvent]
    /\ todo' = [s \in Subscribers |->
                  IF s \in Subscribed /\ raising[r] \in Wanted(s)
                  THEN todo[s] \cup {raising[r]} ELSE todo[s]]
    /\ UNCHANGED <<client, list, event>>

(* A waiting subscriber receives an event that it was owed. *)
Deliver(s) ==
    /\ client[s] = "listening"
    /\ client' = [client EXCEPT ![s] = "busy"]
    /\ \E e \in todo[s] :
          /\ event' = [event EXCEPT ![s] = e]
          /\ todo' \in {todo, [todo EXCEPT ![s] = @ \ {e}]}
    /\ UNCHANGED <<raising, list>>

Unsub(s) ==
    /\ s \in Subscribed
    /\ client' = [client EXCEPT ![s] = "gone"]
    /\ todo' = [todo EXCEPT ![s] = {}]
    /\ UNCHANGED <<raising, list, event>>

Next ==
    \/ \E s \in Subscribers : Sub(s) \/ Listen(s) \/ Deliver(s) \/ Unsub(s)
    \/ \E r \in Raisers : Call(r) \/ Raise(r)

Spec == Init /\ [][Next]_vars
=============================================================================
