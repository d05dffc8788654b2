------------------------------ MODULE MCPages ------------------------------
(***************************************************************************)
(* How a page follows Froxy: the event bus (Ebus), a polling request that  *)
(* takes the promise of the bus for granted (Poll), the socket that        *)
(* carries the polls of a page (PollSocket, which takes the promise of     *)
(* Poll for granted), and the script that works on the messages (Page).  A *)
(* behaviour of this module is a behaviour of one of them; the others stay *)
(* in their initial state.                                                 *)
(***************************************************************************)
EXTENDS Poll, Naturals

CONSTANTS
    Raisers, Subscribers, Events,          (* Ebus       *)
    Paths, SockContents,                   (* PollSocket *)
    NRows, NHosts, MaxMessages, MaxActions (* Page       *)

ASSUME SocketAssumption == NoTag \notin Paths \X SockContents
ASSUME PageAssumption == NRows \in Nat /\ NHosts \in Nat

VARIABLES
    part,
    pending, braising, raiser, goroutine, choosen, subscribers, spending, offered,
    bclient, blist, bevent,                         (* Ebus       *)
    up, content, page, shown, pc, in, r, hTag, out, (* PollSocket *)
    script, messages, actions                       (* Page       *)

B == INSTANCE Ebus WITH
    Nil <- NoTag, raising <- braising, client <- bclient, list <- blist, event <- bevent
T == INSTANCE PollSocket WITH
    Contents <- SockContents, None <- NoTag, data <- content, rqTag <- hTag
P == INSTANCE Page WITH page <- script

(* The bus has the event of startup, number 0, and two others. *)
MCEvents == 0..2
ASSUME BusAssumption == B!ConstantsOK

ebusVars == <<pending, braising, raiser, goroutine, choosen, subscribers, spending, offered,
              bclient, blist, bevent>>
sockVars == <<up, content, page, shown, pc, in, r, hTag, out>>
pageVars == <<script, messages, actions>>
MCVars   == <<part, vars, ebusVars, sockVars, pageVars>>

MCInit ==
    /\ part \in {"bus", "poll", "socket", "script"}
    /\ Init /\ (part # "poll" => data = CHOOSE c \in Contents : TRUE)
    /\ B!Init
    /\ T!Init /\ (part # "socket" => content = [p \in Paths |-> CHOOSE c \in SockContents : TRUE])
    /\ P!Init /\ (part # "script" => script.host[1] = 1 /\ script.host[2] = 2)

MCNext ==
    /\ UNCHANGED part
    /\ \/ part = "bus" /\ B!Next /\ UNCHANGED <<vars, sockVars, pageVars>>
       \/ part = "poll" /\ Next /\ UNCHANGED <<ebusVars, sockVars, pageVars>>
       \/ part = "socket" /\ T!Next /\ UNCHANGED <<vars, ebusVars, pageVars>>
       \/ part = "script" /\ P!Next /\ UNCHANGED <<vars, ebusVars, sockVars>>

MCSpec == MCInit /\ [][MCNext]_MCVars /\ B!Fairness /\ Fairness /\ T!Fairness

-----------------------------------------------------------------------------
(* The inductive invariants of the parts: a request that polls is          *)
(* subscribed as long as it is served (Inv of Poll, handler.go:53-55); the *)
(* polls of a connected page wait for changes of what it shows (Inv of     *)
(* PollSocket, webapi.go:366); the checks, marks and counts of the script  *)
(* are those of what the page shows (Inv of Page, api.js:98-124, 606-647). *)
PagesInv == Inv /\ T!Inv /\ P!Inv

(* A connected page comes to show the content (api.js:682-708).            *)
PageFollows == T!PageFollows

(* The mark of a row is that of its text (api.js:606-627, 643-647).        *)
CheckedIsShown == P!CheckedIsShown

(* Requests are counted while they are active, but for those that finish   *)
(* twice (api.js:92-96, 98-124, 173).                                      *)
RequestsCounted == P!RequestsCounted

(* Of the goroutines that raise events exactly one wakes the bus up.       *)
WakeupExact == B!WakeupExact

(* The bus keeps its promise, but for EventStartup (ebus.go:93, 96).       *)
ImplementsAllButStartup == B!ImplementsAllButStartup

(* A subscriber is told of the lowest event that it asked for.             *)
LowestDelivered == B!LowestDelivered
=============================================================================
