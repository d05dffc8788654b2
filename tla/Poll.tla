-------------------------------- MODULE Poll --------------------------------
(***************************************************************************)
(* Polling for changes (src/handler.go): a GET request that carries the    *)
(* tag of the content the client knows waits until the content has another *)
(* tag.  The handler learns of changes from the event bus, whose promise   *)
(* (EventBus) is composed with this module; the changes are made by the    *)
(* other requests to the same resource (src/webapi.go).                    *)
(*                                                                         *)
(* Every element of Pollers is one GET request.  The tag of a content is   *)
(* the content itself: its hash tells contents apart.                      *)
(***************************************************************************)
CONSTANTS
    Pollers,  (* GET requests                                              *)
    Writers,  (* goroutines that serve requests that change the resource   *)
    Failing,  (* those whose change may fail when it is half done          *)
    Contents, (* contents of the resource                                  *)
    Changed,  (* the event that notifies of its change                     *)
    NoTag,    (* a request without a tag; or nothing was answered          *)
    NoEvent

ASSUME FailingAssumption == Failing \subseteq Writers
ASSUME TagAssumption == NoTag \notin Contents
ASSUME EventAssumption == NoEvent # Changed

VARIABLES
    data,    (* content of the resource                                    *)
    wpc,     (* wpc[w]: what the writer is doing                           *)
    ppc,     (* ppc[p]: where the request is in ServeHTTP                  *)
    rqTag,   (* rqTag[p]: tag in the request                               *)
    rspTag,  (* rspTag[p]: tag of the content read last, in w2             *)
    done,    (* requests whose context is done: the client has gone        *)
    raising, client, list, event, todo  (* the event bus                   *)

busVars == <<raising, client, list, event, todo>>
vars    == <<data, wpc, ppc, rqTag, rspTag, done, busVars>>

Bus == INSTANCE EventBus WITH
    Raisers <- Writers, Subscribers <- Pollers,
    Events <- {Changed}, Everything <- {}

Tags == Contents \cup {NoTag}

TypeOK ==
    /\ data \in Contents
    /\ wpc \in [Writers -> {"idle", "changed", "raising"}]
    /\ ppc \in [Pollers -> {"idle", "sub", "read", "listen", "wait", "answer",
                            "answered", "dropped"}]
    /\ rqTag \in [Pollers -> Tags]
    /\ rspTag \in [Pollers -> Tags]
    /\ done \in SUBSET Pollers
    /\ raising \in [Writers -> {Changed, NoEvent}]
    /\ client \in [Pollers -> Bus!ClientState]
    /\ list \in [Pollers -> SUBSET {Changed}]
    /\ event \in [Pollers -> {Changed, NoEvent}]
    /\ todo \in [Pollers -> SUBSET {Changed}]

Init ==
    /\ data \in Contents
    /\ wpc = [w \in Writers |-> "idle"]
    /\ ppc = [p \in Pollers |-> "idle"]
    /\ rqTag = [p \in Pollers |-> NoTag]
    /\ rspTag = [p \in Pollers |-> NoTag]
    /\ done = {}
    /\ Bus!Init

-----------------------------------------------------------------------------
(***************************************************************************)
(* Requests that change the resource: the change, and then the event.      *)
(***************************************************************************)

(***************************************************************************)
(* A key that is modified or deleted is changed in memory first.  If it    *)
(* cannot be changed on disk, an error is answered and no event is raised. *)
(***************************************************************************)
Change(w) ==
    /\ wpc[w] = "idle"
    /\ data' \in Contents
    /\ \/ wpc' = [wpc EXCEPT ![w] = "changed"]
       \/ w \in Failing /\ UNCHANGED wpc
    /\ UNCHANGED <<ppc, rqTag, rspTag, done, busVars>>

Notify(w) ==
    /\ wpc[w] = "changed"
    /\ wpc' = [wpc EXCEPT ![w] = "raising"]
    /\ Bus!Call(w)
    /\ UNCHANGED <<data, ppc, rqTag, rspTag, done>>

Notified(w) ==
    /\ wpc[w] = "raising"
    /\ wpc' = [wpc EXCEPT ![w] = "idle"]
    /\ Bus!Raise(w)
    /\ UNCHANGED <<data, ppc, rqTag, rspTag, done>>

-----------------------------------------------------------------------------
(***************************************************************************)
(* ServeHTTP for a GET request.                                            *)
(***************************************************************************)
Request(p, tag) ==
    /\ ppc[p] = "idle"
    /\ rqTag' = [rqTag EXCEPT ![p] = tag]
    /\ ppc' = [ppc EXCEPT ![p] = IF tag = NoTag THEN "read" ELSE "sub"]
    /\ UNCHANGED <<data, wpc, rspTag, done, busVars>>

(* Fault: the handler subscribes only when it is about to wait. *)
SubscribeLate(p) ==
    /\ \/ /\ ppc[p] = "sub"
          /\ ppc' = [ppc EXCEPT ![p] = "read"]
          /\ UNCHANGED busVars
       \/ /\ ppc[p] = "listen"
          /\ Bus!Sub(p)
          /\ list'[p] = {Changed}
          /\ UNCHANGED ppc
    /\ UNCHANGED <<data, wpc, rqTag, rspTag, done>>

Subscribe(p) ==
    /\ ppc[p] = "sub"
    /\ ppc' = [ppc EXCEPT ![p] = "read"]
    /\ Bus!Sub(p)
    /\ list'[p] = {Changed}
    /\ UNCHANGED <<data, wpc, rqTag, rspTag, done>>

(* The handler of the resource is called (again), and the tags compared. *)
Read(p) ==
    /\ ppc[p] = "read"
    /\ rspTag' = [rspTag EXCEPT ![p] = data]
    /\ ppc' = [ppc EXCEPT ![p] = IF rqTag[p] = data THEN "listen" ELSE "answer"]
    /\ UNCHANGED <<data, wpc, rqTag, done, busVars>>

(* The select statement is entered. *)
Wait(p) ==
    /\ ppc[p] = "listen"
    /\ ppc' = [ppc EXCEPT ![p] = "wait"]
    /\ Bus!Listen(p)
    /\ UNCHANGED <<data, wpc, rqTag, rspTag, done>>

(* Fault: the event is received, but the resource is not read again. *)
WakeIdly(p) ==
    /\ ppc[p] = "wait"
    /\ ppc' = [ppc EXCEPT ![p] = "listen"]
    /\ Bus!Deliver(p)
    /\ UNCHANGED <<data, wpc, rqTag, rspTag, done>>

Wake(p) ==
    /\ ppc[p] = "wait"
    /\ ppc' = [ppc EXCEPT ![p] = "read"]
    /\ Bus!Deliver(p)
    /\ UNCHANGED <<data, wpc, rqTag, rspTag, done>>

(* Fault: the handler returns, but stays subscribed. *)
DropSubscribed(p) ==
    /\ ppc[p] = "wait"
    /\ p \in done
    /\ ppc' = [ppc EXCEPT ![p] = "dropped"]
    /\ UNCHANGED <<data, wpc, rqTag, rspTag, done, busVars>>

(* Nothing is answered to a client that has gone. *)
Drop(p) ==
    /\ ppc[p] = "wait"
    /\ p \in done
    /\ ppc' = [ppc EXCEPT ![p] = "dropped"]
    /\ Bus!Unsub(p)
    /\ UNCHANGED <<data, wpc, rqTag, rspTag, done>>

(* The answer is sent; the deferred Unsub, if there was a Sub. *)
Answer(p) ==
    /\ ppc[p] = "answer"
    /\ ppc' = [ppc EXCEPT ![p] = "answered"]
    /\ IF rqTag[p] = NoTag THEN UNCHANGED busVars ELSE Bus!Unsub(p)
    /\ UNCHANGED <<data, wpc, rqTag, rspTag, done>>

(* The client goes away. *)
Disconnect(p) ==
    /\ p \notin done
    /\ done' = done \cup {p}
    /\ UNCHANGED <<data, wpc, ppc, rqTag, rspTag, busVars>>

-----------------------------------------------------------------------------
Serve(p) ==
    \/ Subscribe(p) \/ Read(p) \/ Wait(p) \/ Wake(p) \/ Drop(p) \/ Answer(p)

Next ==
    \/ \E w \in Writers : Change(w) \/ Notify(w) \/ Notified(w)
    \/ \E p \in Pollers :
          \/ \E tag \in Tags : Request(p, tag)
          \/ Serve(p)
          \/ Disconnect(p)

Spec == Init /\ [][Next]_vars

(***************************************************************************)
(* A request that is being served goes on, as does one that has changed    *)
(* the resource, and select does not pass over the context of a client     *)
(* that has gone.  Nobody has to change the resource.                      *)
(***************************************************************************)
Fairness ==
    /\ \A w \in Writers : WF_vars(Notify(w)) /\ WF_vars(Notified(w))
    /\ \A p \in Pollers : WF_vars(Serve(p)) /\ SF_vars(Drop(p))

FairSpec == Spec /\ Fairness

-----------------------------------------------------------------------------
(***************************************************************************)
(* Properties.                                                             *)
(***************************************************************************)

(* Requests that have compared the tags and wait for a change. *)
Waiting == {p \in Pollers : ppc[p] \in {"listen", "wait"}}

(* A request never waits on an outdated tag for longer than it takes to    *)
(* tell it: if the content differs from what the client knows, the event   *)
(* is on its way to the request, or a writer is about to raise it          *)
(* (handler.go subscribes before it reads).                                *)
NoMissedChange ==
    \A p \in Waiting : rqTag[p] # data =>
        Changed \in todo[p] \/ \E w \in Writers : wpc[w] # "idle"

(* "the handler waits until calculated hash of response content becomes    *)
(* different from hash in request" (handler.go:30-32, webapi.go:432-434):  *)
(* a request that waits on an outdated tag is answered, unless the client  *)
(* goes away or the content changes back.                                  *)
ChangeAnswered ==
    \A p \in Pollers : p \in Waiting /\ rqTag[p] # data
                       ~> \/ ppc[p] \in {"answered", "dropped"}
                          \/ rqTag[p] = data

(* A request that a client has abandoned does not wait for ever, whatever  *)
(* events keep coming, so that its subscription is released.               *)
AbandonedEnds ==
    \A p \in Pollers : p \in done /\ ppc[p] = "wait" ~> client[p] = "gone"

-----------------------------------------------------------------------------
(***************************************************************************)
(* What the proof of NoMissedChange rests on: a request that has a tag is  *)
(* subscribed to the event as long as it is served, and a request waits    *)
(* only with a tag.                                                        *)
(***************************************************************************)
SubscriptionInv ==
    \A p \in Pollers :
        /\ ppc[p] \in {"idle", "sub"} => client[p] = "none"
        /\ ppc[p] \in {"listen", "wait"} => rqTag[p] # NoTag
        /\ ppc[p] \in {"read", "listen", "wait", "answer"} /\ rqTag[p] # NoTag
              => client[p] \in {"busy", "listening"} /\ list[p] = {Changed}

RaisingInv ==
    \A w \in Writers :
        raising[w] = IF wpc[w] = "raising" THEN Changed ELSE NoEvent

Inv == TypeOK /\ SubscriptionInv /\ RaisingInv
=============================================================================
