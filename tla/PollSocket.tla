---------------------------- MODULE PollSocket ----------------------------
(***************************************************************************)
(* The poll socket between a page (BgPoll of static/js/api.js) and Froxy   *)
(* (handlePoll of src/webapi.go): for every path that the page follows one *)
(* message goes to Froxy with the tag of the content shown, a goroutine    *)
(* performs a GET request and answers when the content has another tag     *)
(* (Poll), and the page asks again.  A page that has lost its socket is    *)
(* loaded again as soon as Froxy answers; what is left of the goroutines   *)
(* of the lost socket has no effect on it.                                 *)
(*                                                                         *)
(* The goroutines of a socket share the variable r, the request that they  *)
(* perform.  That a concurrent access to its headers can abort Froxy is    *)
(* one of the reasons for Exit.                                            *)
(***************************************************************************)
CONSTANTS
    Paths,    (* what the page follows                                     *)
    Contents, (* contents of a path                                        *)
    None

VARIABLES
    up,    (* Froxy runs                                                   *)
    data,  (* data[p]: content of the path in Froxy                        *)
    page,  (* what the page does                                           *)
    shown, (* shown[p]: content that the page shows                        *)
    pc,    (* pc[p]: where the poll of the path is                         *)
    in,    (* in[p]: tag in the message to Froxy                           *)
    r,     (* tag in the header of the shared request                      *)
    rqTag, (* rqTag[p]: tag that the handler has got                       *)
    out    (* out[p]: content in the answer                                *)

pollVars == <<pc, in, r, rqTag, out>>
vars     == <<up, data, page, shown, pollVars>>

(* The hash of the answer for a path with a content tells both. *)
Tag(p, c) == <<p, c>>
Tags == (Paths \X Contents) \cup {None}

TypeOK ==
    /\ up \in BOOLEAN
    /\ data \in [Paths -> Contents]
    /\ page \in {"connecting", "connected", "lost"}
    /\ shown \in [Paths -> Contents \cup {None}]
    /\ pc \in [Paths -> {"none", "sent", "set", "serve", "wait", "answered"}]
    /\ in \in [Paths -> Tags]
    /\ r \in Tags
    /\ rqTag \in [Paths -> Tags]
    /\ out \in [Paths -> Contents \cup {None}]

Init ==
    /\ up = TRUE
    /\ data \in [Paths -> Contents]
    /\ page = "connecting"
    /\ shown = [p \in Paths |-> None]
    /\ pc = [p \in Paths |-> "none"]
    /\ in = [p \in Paths |-> None]
    /\ r = None
    /\ rqTag = [p \in Paths |-> None]
    /\ out = [p \in Paths |-> None]

Step(p, from, to) == pc[p] = from /\ pc' = [pc EXCEPT ![p] = to]

-----------------------------------------------------------------------------
(***************************************************************************)
(* Froxy.                                                                  *)
(***************************************************************************)
Change(p) ==
    /\ up
    /\ \E c \in Contents \ {data[p]} : data' = [data EXCEPT ![p] = c]
    /\ UNCHANGED <<up, page, shown, pollVars>>

(* A message has been read and a goroutine started: http.NewRequest. *)
NewRequest(p) ==
    /\ Step(p, "sent", "set")
    /\ r' = None
    /\ UNCHANGED <<up, data, page, shown, in, rqTag, out>>

SetTag(p) ==
    /\ Step(p, "set", "serve")
    /\ r' = in[p]
    /\ UNCHANGED <<up, data, page, shown, in, rqTag, out>>

(* Fault: one request at a time is served. *)
ServeHTTPLocked(p) ==
    /\ Step(p, "serve", "wait")
    /\ \A q \in Paths : pc[q] # "wait"
    /\ rqTag' = [rqTag EXCEPT ![p] = r]
    /\ UNCHANGED <<up, data, page, shown, in, r, out>>

ServeHTTP(p) ==
    /\ Step(p, "serve", "wait")
    /\ rqTag' = [rqTag EXCEPT ![p] = r]
    /\ UNCHANGED <<up, data, page, shown, in, r, out>>

(* What a GET request with a tag promises (ChangeAnswered of Poll). *)
Answer(p) ==
    /\ Step(p, "wait", "answered")
    /\ rqTag[p] # Tag(p, data[p])
    /\ out' = [out EXCEPT ![p] = data[p]]
    /\ UNCHANGED <<up, data, page, shown, in, r, rqTag>>

(* All polls of the page end with the socket. *)
Lose ==
    /\ page' = "lost"
    /\ pc' = [p \in Paths |-> "none"]
    /\ in' = [p \in Paths |-> None]
    /\ r' = None
    /\ rqTag' = [p \in Paths |-> None]
    /\ out' = [p \in Paths |-> None]

Exit ==
    /\ up
    /\ up' = FALSE
    /\ Lose
    /\ UNCHANGED <<data, shown>>

Restart ==
    /\ ~up
    /\ up' = TRUE
    /\ UNCHANGED <<data, page, shown, pollVars>>

-----------------------------------------------------------------------------
(***************************************************************************)
(* The page.                                                               *)
(***************************************************************************)

(* poll_sock_onopen: all paths are asked for. *)
OnOpen ==
    /\ up /\ page = "connecting"
    /\ page' = "connected"
    /\ pc' = [p \in Paths |-> "sent"]
    /\ UNCHANGED <<up, data, shown, in, r, rqTag, out>>

(* Fault: the same content that comes again is not asked for again. *)
OnMessageChanged(p) ==
    /\ Step(p, "answered", IF shown[p] = out[p] THEN "none" ELSE "sent")
    /\ shown' = [shown EXCEPT ![p] = out[p]]
    /\ in' = [in EXCEPT ![p] = Tag(p, out[p])]
    /\ UNCHANGED <<up, data, page, r, rqTag, out>>

(* poll_sock_onmessage: the content is shown and asked for with its tag. *)
OnMessage(p) ==
    /\ Step(p, "answered", "sent")
    /\ shown' = [shown EXCEPT ![p] = out[p]]
    /\ in' = [in EXCEPT ![p] = Tag(p, out[p])]
    /\ UNCHANGED <<up, data, page, r, rqTag, out>>

(* poll_sock_onerror and _onclose: the socket breaks or cannot be made. *)
OnClose ==
    /\ page \in {"connecting", "connected"}
    /\ Lose
    /\ UNCHANGED <<up, data, shown>>

(* BgReloadWhenReady: the page is loaded again. *)
Reload ==
    /\ up /\ page = "lost"
    /\ page' = "connecting"
    /\ shown' = [p \in Paths |-> None]
    /\ UNCHANGED <<up, data, pollVars>>

-----------------------------------------------------------------------------
Serve(p) == NewRequest(p) \/ SetTag(p) \/ ServeHTTP(p) \/ Answer(p)

Next ==
    \/ \E p \in Paths : Change(p) \/ OnMessage(p) \/ Serve(p)
    \/ Exit \/ Restart \/ OnOpen \/ OnClose \/ Reload

(* Goroutines run, and so does the browser. *)
Fairness == \A p \in Paths : WF_vars(Serve(p)) /\ WF_vars(OnMessage(p))

Spec == Init /\ [][Next]_vars /\ Fairness

-----------------------------------------------------------------------------
(***************************************************************************)
(* Properties.                                                             *)
(***************************************************************************)

(* Every path that a connected page follows has its poll, and a poll that  *)
(* waits for a change waits for one of what the page shows, although a     *)
(* request may go to the handler with the tag of another (webapi.go:366).  *)
PollsWhatIsShown ==
    page = "connected" =>
        \A p \in Paths :
            /\ pc[p] # "none"
            /\ pc[p] = "wait" /\ rqTag[p] = Tag(p, data[p]) => shown[p] = data[p]

(* A connected page comes to show the content, however often it has been   *)
(* answered with a content it shows already, unless the content changes    *)
(* again or the socket is lost.                                            *)
PageFollows ==
    \A p \in Paths, c \in Contents :
        page = "connected" /\ data[p] = c
        ~> shown[p] = c \/ data[p] # c \/ page # "connected"
-----------------------------------------------------------------------------
(***************************************************************************)
(* The inductive invariant: no poll outlives its socket; a message carries *)
(* the tag of what is shown; an answer has a content; and a request that   *)
(* carries a tag of its own path carries that of what is shown, for the    *)
(* goroutine has made a new request since.                                 *)
(***************************************************************************)
SocketInv ==
    /\ page # "connected" => r = None /\ \A p \in Paths : pc[p] = "none" /\ in[p] = None
    /\ page = "connected" => \A p \in Paths : pc[p] # "none" /\ in[p] \in {None, Tag(p, shown[p])}
    /\ \A p \in Paths : pc[p] = "answered" => out[p] \in Contents

TagInv ==
    \A p \in Paths, c \in Contents :
        /\ pc[p] \in {"set", "serve"} /\ r = Tag(p, c) => c = shown[p]
        /\ pc[p] = "wait" /\ rqTag[p] = Tag(p, c) => c = shown[p]

Inv == TypeOK /\ SocketInv /\ TagInv /\ PollsWhatIsShown
=============================================================================
