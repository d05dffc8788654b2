----------------------------- MODULE Requests -----------------------------
(***************************************************************************)
(* How a request that reaches the listener is handled (src/froxy.go,       *)
(* src/listener.go, src/responsewriter.go, src/io.go): what is answered,   *)
(* what is counted, and how a tunnel made by CONNECT ends.                 *)
(*                                                                         *)
(* A connection of a user carries one request at a time.  Two goroutines   *)
(* copy the data of a tunnel: "up" to the destination, "down" to the user. *)
(***************************************************************************)
EXTENDS Naturals, FiniteSets

CONSTANTS
    Conns,      (* connections of users                                    *)
    MaxRequests (* bound on the number of requests                         *)

VARIABLES
    pc,       (* pc[c]: where the request on the connection is             *)
    kind,     (* kind[c]: its kind                                         *)
    parts,    (* parts[c]: number of bodies written in answer to it        *)
    skipBody, (* skipBody[c]: of ResponseWriterWithHooks                   *)
    gone,     (* connections whose user has gone                           *)
    closed,   (* connections that are closed                               *)
    dest,     (* dest[c]: the connection to the destination of a tunnel    *)
    copying,  (* copying[c]: goroutines of the tunnel at work              *)
    Counters

vars == <<pc, kind, parts, skipBody, gone, closed, dest, copying, Counters>>

Kinds   == {"page", "regular", "upgrade", "connect", "ftp"}
Counted == {"UserConnections", "HTTPRqReceived", "HTTPRqPending",
            "HTTPRqDirect", "HTTPRqForwarded", "HTTPRqBlocked"}

TypeOK ==
    /\ pc \in [Conns -> {"none", "idle", "page", "body", "route", "choose", "handle", "hijack",
                         "answered", "tunnel"}]
    /\ kind \in [Conns -> Kinds]
    /\ parts \in [Conns -> 0..2]
    /\ skipBody \in [Conns -> BOOLEAN]
    /\ gone \subseteq Conns
    /\ closed \subseteq Conns
    /\ dest \in [Conns -> {"none", "open", "ended", "closed"}]
    /\ copying \in [Conns -> SUBSET {"up", "down"}]
    /\ Counters \in [Counted -> Nat]

Init ==
    /\ pc = [c \in Conns |-> "none"]
    /\ kind = [c \in Conns |-> "page"]
    /\ parts = [c \in Conns |-> 0]
    /\ skipBody = [c \in Conns |-> FALSE]
    /\ gone = {}
    /\ closed = {}
    /\ dest = [c \in Conns |-> "none"]
    /\ copying = [c \in Conns |-> {}]
    /\ Counters = [n \in Counted |-> 0]

tunnelVars == <<dest, copying>>
connVars   == <<gone, closed>>

Goto(c, to) == pc' = [pc EXCEPT ![c] = to]
Answer(c)   == Goto(c, "answered") /\ parts' = [parts EXCEPT ![c] = @ + 1]

IncCounter(n) == Counters' = [Counters EXCEPT ![n] = @ + 1]
DecCounter(n) == Counters' = [Counters EXCEPT ![n] = @ - 1]

-----------------------------------------------------------------------------
(***************************************************************************)
(* Connections of users.                                                   *)
(***************************************************************************)
Accept(c) ==
    /\ pc[c] = "none"
    /\ Goto(c, "idle")
    /\ IncCounter("UserConnections")
    /\ UNCHANGED <<kind, parts, skipBody, connVars, tunnelVars>>

Close(c) ==
    /\ closed' = closed \cup {c}
    /\ IF c \in closed THEN UNCHANGED Counters ELSE DecCounter("UserConnections")

(* The HTTP server closes a connection that it reads from, when the user   *)
(* has gone or for reasons of its own, perhaps more than once.             *)
ServerCloses(c) ==
    /\ pc[c] = "idle"
    /\ Close(c)
    /\ UNCHANGED <<pc, kind, parts, skipBody, gone, tunnelVars>>

UserGoes(c) ==
    /\ pc[c] # "none" /\ c \notin gone
    /\ gone' = gone \cup {c}
    /\ UNCHANGED <<pc, kind, parts, skipBody, closed, tunnelVars, Counters>>

Request(c, k) ==
    /\ pc[c] = "idle" /\ c \notin closed \cup gone
    /\ kind' = [kind EXCEPT ![c] = k]
    /\ parts' = [parts EXCEPT ![c] = 0]
    /\ skipBody' = [skipBody EXCEPT ![c] = FALSE]
    /\ Goto(c, IF k = "page" THEN "page" ELSE "route")
    /\ UNCHANGED <<connVars, tunnelVars, Counters>>

-----------------------------------------------------------------------------
(***************************************************************************)
(* handleLocalRequest.                                                     *)
(***************************************************************************)

(* The API and the redirection of the home page write their own answer. *)
handleLocalRequest(c) ==
    /\ pc[c] = "page"
    /\ Answer(c)
    /\ UNCHANGED <<kind, skipBody, connVars, tunnelVars, Counters>>

(* The file server writes a header; the hook of an error writes the error  *)
(* page in place of the body.                                              *)
WriteHeader(c) ==
    /\ pc[c] = "page"
    /\ Goto(c, "body")
    /\ \E error \in BOOLEAN :
          /\ skipBody' = [skipBody EXCEPT ![c] = error]
          /\ parts' = [parts EXCEPT ![c] = IF error THEN 1 ELSE 0]
    /\ UNCHANGED <<kind, connVars, tunnelVars, Counters>>

Write(c) ==
    /\ pc[c] = "body"
    /\ IF skipBody[c] THEN Goto(c, "answered") /\ UNCHANGED parts ELSE Answer(c)
    /\ UNCHANGED <<kind, skipBody, connVars, tunnelVars, Counters>>

-----------------------------------------------------------------------------
(***************************************************************************)
(* httpHandler, for requests to others.                                    *)
(***************************************************************************)
Receive(c) ==
    /\ pc[c] = "route"
    /\ Counters["HTTPRqReceived"] < MaxRequests
    /\ Goto(c, "choose")
    /\ Counters' = [Counters EXCEPT !["HTTPRqReceived"] = @ + 1, !["HTTPRqPending"] = @ + 1]
    /\ UNCHANGED <<kind, parts, skipBody, connVars, tunnelVars>>

(* What the router has answered: the transport is chosen, or the request   *)
(* is blocked.                                                             *)
httpHandler(c) ==
    /\ pc[c] = "choose"
    /\ \/ \E n \in {"HTTPRqDirect", "HTTPRqForwarded"} :
             Goto(c, "handle") /\ IncCounter(n) /\ UNCHANGED parts
       \/ Answer(c) /\ IncCounter("HTTPRqBlocked")
    /\ UNCHANGED <<kind, skipBody, connVars, tunnelVars>>

(* Without an upgrade one answer is written, that of the server or an      *)
(* error.  A request to upgrade is answered with an error and then sent to *)
(* the server all the same: an answer that switches protocols writes       *)
(* nothing, any other is written behind the error.                         *)
handleRegularHttp(c) ==
    /\ pc[c] = "handle" /\ kind[c] \in {"regular", "upgrade"}
    /\ Goto(c, "answered")
    /\ \E switching \in BOOLEAN :
          parts' = [parts EXCEPT ![c] = (IF kind[c] = "upgrade" THEN 1 ELSE 0)
                                        + (IF switching THEN 0 ELSE 1)]
    /\ UNCHANGED <<kind, skipBody, connVars, tunnelVars, Counters>>

(* ftpProxy.Handle: see FTPProxy. *)
HandleFtp(c) ==
    /\ pc[c] = "handle" /\ kind[c] = "ftp"
    /\ Answer(c)
    /\ UNCHANGED <<kind, skipBody, connVars, tunnelVars, Counters>>

handleConnect(c) ==
    /\ pc[c] = "handle" /\ kind[c] = "connect"
    /\ \/ Answer(c) /\ UNCHANGED dest
       \/ Goto(c, "hijack") /\ dest' = [dest EXCEPT ![c] = "open"] /\ UNCHANGED parts
    /\ UNCHANGED <<kind, skipBody, connVars, copying, Counters>>

(* The connection is taken from the HTTP server and the tunnel begins. *)
Hijack(c) ==
    /\ pc[c] = "hijack"
    /\ Goto(c, "tunnel")
    /\ copying' = [copying EXCEPT ![c] = {"up", "down"}]
    /\ DecCounter("HTTPRqPending")
    /\ UNCHANGED <<kind, parts, skipBody, connVars, dest>>

(* Fault: a blocked request stays pending. *)
ReturnBlocked(c) ==
    /\ pc[c] = "answered"
    /\ Goto(c, "idle")
    /\ \/ kind[c] # "page" /\ DecCounter("HTTPRqPending")
       \/ UNCHANGED Counters
    /\ UNCHANGED <<kind, parts, skipBody, connVars, tunnelVars>>

(* The handler returns; the deferred DecCounter. *)
Return(c) ==
    /\ pc[c] = "answered"
    /\ Goto(c, "idle")
    /\ IF kind[c] = "page" THEN UNCHANGED Counters ELSE DecCounter("HTTPRqPending")
    /\ UNCHANGED <<kind, parts, skipBody, connVars, tunnelVars>>

-----------------------------------------------------------------------------
(***************************************************************************)
(* ioTransferData: a goroutine copies until its Read of one connection     *)
(* returns an end or an error, or its Write to the other fails, and then   *)
(* closes the one it writes to.  A Read returns when that connection has   *)
(* ended or this side has closed it; as long as it has not, the goroutine  *)
(* stays blocked, whatever has become of the other connection.  A Write    *)
(* needs data to write, which may never come.                              *)
(***************************************************************************)
DestinationEnds(c) ==
    /\ dest[c] = "open"
    /\ dest' = [dest EXCEPT ![c] = "ended"]
    /\ UNCHANGED <<pc, kind, parts, skipBody, connVars, copying, Counters>>

UserEnded(c)        == c \in gone \cup closed
DestinationEnded(c) == dest[c] # "open"

StopUp(c) ==
    /\ "up" \in copying[c]
    /\ copying' = [copying EXCEPT ![c] = @ \ {"up"}]
    /\ dest' = [dest EXCEPT ![c] = "closed"]
    /\ UNCHANGED <<pc, kind, parts, skipBody, connVars, Counters>>

(* Fault: the goroutine closes the connection it has read from. *)
StopDownSource(c) ==
    /\ "down" \in copying[c]
    /\ copying' = [copying EXCEPT ![c] = @ \ {"down"}]
    /\ dest' = [dest EXCEPT ![c] = "closed"]
    /\ UNCHANGED <<pc, kind, parts, skipBody, connVars, Counters>>

StopDown(c) ==
    /\ "down" \in copying[c]
    /\ copying' = [copying EXCEPT ![c] = @ \ {"down"}]
    /\ Close(c)
    /\ UNCHANGED <<pc, kind, parts, skipBody, gone, dest>>

(* The Read of the goroutine returns. *)
EndUp(c)   == UserEnded(c) /\ StopUp(c)
EndDown(c) == DestinationEnded(c) /\ StopDown(c)

(* The goroutine has read something and its Write fails. *)
BreakUp(c)   == DestinationEnded(c) /\ StopUp(c)
BreakDown(c) == UserEnded(c) /\ StopDown(c)

-----------------------------------------------------------------------------
Next ==
    \E c \in Conns :
        \/ Accept(c) \/ ServerCloses(c) \/ UserGoes(c)
        \/ \E k \in Kinds : Request(c, k)
        \/ handleLocalRequest(c) \/ WriteHeader(c) \/ Write(c)
        \/ Receive(c) \/ httpHandler(c) \/ handleRegularHttp(c) \/ HandleFtp(c)
        \/ handleConnect(c) \/ Hijack(c) \/ Return(c)
        \/ DestinationEnds(c) \/ EndUp(c) \/ EndDown(c) \/ BreakUp(c) \/ BreakDown(c)

(* A goroutine of a tunnel whose Read has something to return runs.  That  *)
(* there is ever data to write to a connection that has ended, so that the *)
(* Write fails, is not assumed.                                            *)
Fairness == \A c \in Conns : WF_vars(EndUp(c)) /\ WF_vars(EndDown(c))

Spec == Init /\ [][Next]_vars /\ Fairness

-----------------------------------------------------------------------------
(***************************************************************************)
(* Properties.                                                             *)
(***************************************************************************)

(* Connections that are open, and those whose request to others is in S.   *)
OpenConns == {c \in Conns \ closed : pc[c] # "none"}
At(S)     == {c \in Conns : pc[c] \in S /\ kind[c] # "page"}

(* The counters shown to the user agree with what happens, whatever ways   *)
(* requests and connections end: a connection is counted until it is       *)
(* closed by whoever has it then, the HTTP server or a tunnel              *)
(* (listener.go:96-103), a request is pending until its handler returns    *)
(* (froxy.go:419-420), and every request received is counted once more,    *)
(* by what has become of it.                                               *)
CountersAgree ==
    /\ Counters["UserConnections"] = Cardinality(OpenConns)
    /\ Counters["HTTPRqPending"] = Cardinality(At({"choose", "handle", "hijack", "answered"}))
    /\ Counters["HTTPRqReceived"] = Counters["HTTPRqDirect"] + Counters["HTTPRqForwarded"]
                                    + Counters["HTTPRqBlocked"] + Cardinality(At({"choose"}))

(* A request other than an upgrade gets one body in answer: an error page  *)
(* never comes in addition to a page or an answer of a server, and no      *)
(* handler returns without an answer, unless the server switches protocols *)
(* unasked (froxy.go:187, responsewriter.go:95-111).                       *)
OneBody ==
    \A c \in Conns : pc[c] = "answered" =>
        \/ parts[c] = 1
        \/ kind[c] = "upgrade"
        \/ kind[c] = "regular" /\ parts[c] = 0

(* When either side of a tunnel has ended, both connections are closed in  *)
(* the end (io.go:17-25), though one of the goroutines stays blocked in    *)
(* Read of a connection that is silent: the other one must close that very *)
(* connection.  (What has been read is taken to be written in the end.)    *)
TunnelEnds ==
    \A c \in Conns :
        pc[c] = "tunnel" /\ (UserEnded(c) \/ DestinationEnded(c))
            ~> c \in closed /\ dest[c] = "closed"

-----------------------------------------------------------------------------
(***************************************************************************)
(* The inductive invariant.                                                *)
(***************************************************************************)

(* What is closed was accepted once, and data is copied in a tunnel only.  *)
ConnInv ==
    /\ \A c \in closed : pc[c] # "none"
    /\ \A c \in Conns : copying[c] # {} => pc[c] = "tunnel"

(* A request goes the way of its kind, and nothing has been written in     *)
(* answer to it before the handler that writes.                            *)
AnswerInv ==
    \A c \in Conns :
        /\ pc[c] \in {"page", "body"} => kind[c] = "page"
        /\ pc[c] \in {"route", "choose", "handle", "hijack"} => kind[c] # "page"
        /\ pc[c] \in {"page", "route", "choose", "handle"} => parts[c] = 0
        /\ pc[c] = "body" => parts[c] = IF skipBody[c] THEN 1 ELSE 0

Inv == TypeOK /\ ConnInv /\ AnswerInv /\ CountersAgree /\ OneBody
=============================================================================
