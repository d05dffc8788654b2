------------------------------- MODULE Page -------------------------------
(***************************************************************************)
(* The script of the page of sites (src/internal/pages/static/js/api.js    *)
(* and sites.js): a row of the table shows a site, its host may be edited  *)
(* and is then checked by the server, and a click on "update" sends the    *)
(* host that was checked.  Clicks wait until no request is active.         *)
(*                                                                         *)
(* The browser runs one callback at a time: each is an action on the       *)
(* record page.  The number of sites does not change here: rows are        *)
(* neither added nor removed, nor is the form that adds a site used.       *)
(***************************************************************************)
EXTENDS Integers, Sequences, FiniteSets, FiniteSetsExt

CONSTANTS
    NRows,       (* number of rows of the table                            *)
    NHosts,      (* hosts are the numbers 1..NHosts                        *)
    MaxMessages, (* bound on the messages with new sites                   *)
    MaxActions   (* bound on the edits and clicks of the user              *)

VARIABLES
    page,    (* state of the script: host[n], text[n], hostname[n] of row n; *)
             (* rq[n] and textChanged[n] of its watch; rq_count, ui and      *)
             (* UiQueue of froxy._; updates: the requests of clicks; twice   *)
             (* is a history: the number of requests that finished twice     *)
    messages, (* number of messages with sites                               *)
    actions   (* number of edits and clicks                                  *)

vars == <<page, messages, actions>>

Rows    == 1..NRows
Hosts   == 1..NHosts
Invalid == 0 (* a text that is no host; no host *)
Texts   == Hosts \cup {Invalid}
NoRq    == [state |-> "none", text |-> Invalid, ui |-> FALSE]

(* Requests to check a host and to update a site; states of the script.    *)
Rqs     == [state : {"none", "new", "sent", "failed"}, text : Texts, ui : BOOLEAN]
Updates == [host : Hosts, hostname : Texts, text : Texts]
Pages   == [host : [Rows -> Hosts], text : [Rows -> Texts], hostname : [Rows -> Texts],
            rq : [Rows -> Rqs], textChanged : [Rows -> BOOLEAN],
            rq_count : Int, ui : Int, UiQueue : Seq(Rows), updates : Seq(Updates), twice : Nat]

TypeOK == page \in Pages /\ messages \in Nat /\ actions \in Nat

-----------------------------------------------------------------------------
(***************************************************************************)
(* Requests, and clicks that wait for them.                                *)
(***************************************************************************)
Started(p, ui) == [p EXCEPT !.rq_count = @ + 1, !.ui = IF ui THEN @ + 1 ELSE @]

(* The host that was checked last is sent, if there is one. *)
TableButtonClicked(p, n) ==
    Started([p EXCEPT !.updates = Append(@, [host |-> p.host[n], hostname |-> p.hostname[n],
                                             text |-> p.text[n]])], TRUE)

(* Clicks run, in order, until one of them starts a request. *)
UiQueueRun(p) ==
    LET starting == {i \in DOMAIN p.UiQueue : p.hostname[p.UiQueue[i]] # Invalid}
    IN  CASE p.rq_count # 0 -> p
          [] p.rq_count = 0 /\ starting = {} -> [p EXCEPT !.UiQueue = <<>>]
          [] OTHER ->
                LET i == Min(starting)
                IN  TableButtonClicked([p EXCEPT !.UiQueue = SubSeq(@, i + 1, Len(@))],
                                       p.UiQueue[i])

Finished(p, ui) == UiQueueRun([p EXCEPT !.rq_count = @ - 1, !.ui = IF ui THEN @ - 1 ELSE @])

(* The watch of row n has no request any more.                             *)
Cleared(p, n) ==
    [p EXCEPT !.rq[n] = NoRq,
              !.twice = IF p.rq[n].state \in {"sent", "failed"} THEN @ + 1 ELSE @]

(* Fault: a request that has not been sent yet is not counted off. *)
CancelUncounted(p, n) ==
    LET cleared == Cleared(p, n)
        ui      == p.rq[n].ui
    IN  CASE p.rq[n].state \in {"none", "new"} -> cleared
          [] p.rq[n].state = "sent" -> Finished(Finished(cleared, ui), ui)
          [] p.rq[n].state = "failed" -> Finished(cleared, ui)

(* A request that has been sent finishes twice, as abort() calls           *)
(* onreadystatechange, and so does one that has failed before.             *)
Cancel(p, n) ==
    LET cleared == Cleared(p, n)
        ui      == p.rq[n].ui
    IN  CASE p.rq[n].state = "none" -> cleared
          [] p.rq[n].state = "sent" -> Finished(Finished(cleared, ui), ui)
          [] p.rq[n].state \in {"new", "failed"} -> Finished(cleared, ui)

-----------------------------------------------------------------------------
(***************************************************************************)
(* Watches.                                                                *)
(***************************************************************************)

(* watch.fire: a request with the current text; it belongs to the user if  *)
(* a click waits.                                                          *)
Fire(p, n) ==
    LET ui == p.UiQueue # <<>>
    IN  Started([p EXCEPT !.rq[n] = [state |-> "new", text |-> p.text[n], ui |-> ui]], ui)

BgWatch(p, n) == Fire([Cancel(p, n) EXCEPT !.textChanged[n] = FALSE], n)

(* Row n shows a site and watches its host. *)
UpdateRow(p, sites, n) ==
    BgWatch([p EXCEPT !.text[n] = sites[n], !.host[n] = sites[n]], n)

(* All rows, from the first to the last. *)
UpdateTable(p, sites) ==
    LET upto[n \in 0..NRows] == IF n = 0 THEN p ELSE UpdateRow(upto[n-1], sites, n)
    IN  upto[NRows]

(* The sites are sorted. *)
Sites == {s \in [Rows -> Hosts] : \A m, n \in Rows : m < n => s[m] < s[n]}

Init ==
    /\ messages = 1 /\ actions = 0
    /\ \E s \in Sites :
          page = UpdateTable(
            [host |-> s, text |-> s, hostname |-> [n \in Rows |-> Invalid],
             rq |-> [n \in Rows |-> NoRq], textChanged |-> [n \in Rows |-> FALSE],
             rq_count |-> 0, ui |-> 0, UiQueue |-> <<>>, updates |-> <<>>, twice |-> 0], s)

-----------------------------------------------------------------------------
(***************************************************************************)
(* Callbacks.                                                              *)
(***************************************************************************)

(* A message of the poll socket. *)
Message ==
    /\ messages < MaxMessages
    /\ messages' = messages + 1
    /\ \E s \in Sites : page' = UpdateTable(page, s)
    /\ UNCHANGED actions

(* The user edits a host. *)
OnInput(n, t) ==
    /\ t # page.text[n] /\ actions < MaxActions
    /\ actions' = actions + 1
    /\ LET p == [page EXCEPT !.text[n] = t]
       IN  page' = IF p.rq[n] = NoRq THEN Fire(p, n) ELSE [p EXCEPT !.textChanged[n] = TRUE]
    /\ UNCHANGED messages

(* The user clicks; the click is dropped while a request of the user is    *)
(* active.                                                                 *)
Ui(n) ==
    /\ page.ui = 0 /\ actions < MaxActions
    /\ actions' = actions + 1
    /\ page' = UiQueueRun([page EXCEPT !.UiQueue = Append(@, n)])
    /\ UNCHANGED messages

(* The timer of http_request. *)
Send(n) ==
    /\ page.rq[n].state = "new"
    /\ page' = [page EXCEPT !.rq[n].state = "sent"]
    /\ UNCHANGED <<messages, actions>>

(* Fault: a change of the text is forgotten. *)
OnSuccessOnce(n) ==
    /\ page.rq[n].state = "sent"
    /\ LET rq == page.rq[n]
       IN  page' = Finished([page EXCEPT !.textChanged[n] = FALSE, !.hostname[n] = rq.text,
                                         !.rq[n] = NoRq], rq.ui)
    /\ UNCHANGED <<messages, actions>>

(* The host has been checked: DomainChecked, after another request if the  *)
(* text has changed.                                                       *)
OnSuccess(n) ==
    /\ page.rq[n].state = "sent"
    /\ LET rq    == page.rq[n]
           fired == IF page.textChanged[n] THEN Fire(page, n)
                    ELSE [page EXCEPT !.rq[n] = NoRq]
       IN  page' = Finished([fired EXCEPT !.textChanged[n] = FALSE, !.hostname[n] = rq.text],
                            rq.ui)
    /\ UNCHANGED <<messages, actions>>

(* Nothing is done about a request that fails: the watch keeps it. *)
OnError(n) ==
    /\ page.rq[n].state = "sent"
    /\ page' = Finished([page EXCEPT !.rq[n] = [@ EXCEPT !.state = "failed", !.text = Invalid]], page.rq[n].ui)
    /\ UNCHANGED <<messages, actions>>

(* An update has been answered. *)
Updated ==
    /\ \E i \in DOMAIN page.updates :
          page' = Finished([page EXCEPT !.updates = SubSeq(@, 1, i-1) \o SubSeq(@, i+1, Len(@))],
                           TRUE)
    /\ UNCHANGED <<messages, actions>>

Next ==
    \/ Message \/ Updated
    \/ \E n \in Rows :
          \/ \E t \in Texts : OnInput(n, t)
          \/ Ui(n) \/ Send(n) \/ OnSuccess(n) \/ OnError(n)

Spec == Init /\ [][Next]_vars

-----------------------------------------------------------------------------
(***************************************************************************)
(* Properties.                                                             *)
(***************************************************************************)

(* The mark of a row (a valid host, or none) is that of the text it shows, *)
(* whatever the user types and the server sends meanwhile, unless a check  *)
(* is still active or has failed (api.js:606-627, 643-647).                *)
CheckedIsShown ==
    \A n \in Rows : page.rq[n] = NoRq => page.hostname[n] = page.text[n]

(* Rows whose check is active. *)
Active(p) == {n \in Rows : p.rq[n].state \in {"new", "sent"}}

(* Every check and update is counted from its start until it is answered   *)
(* or given up, once, and a request that finishes twice leaves the count   *)
(* one too low for good (api.js:92-96, 113-124, 173); clicks run when the  *)
(* count is zero, so that one waits for no request only if the count is    *)
(* below that.                                                             *)
RequestsCounted ==
    /\ page.rq_count = Cardinality(Active(page)) + Len(page.updates) - page.twice
    /\ page.UiQueue # <<>> /\ page.rq_count >= 0 =>
          Active(page) # {} \/ page.updates # <<>>

(* "Queue of Ui callbacks, differed until completion of HTTP requests      *)
(* being executed" (api.js:370-371): a click that waits waits for a        *)
(* request.  It does not when requests have finished twice: the count is   *)
(* below zero then, and UiQueueRun wants it to be zero.                    *)
ClicksWaitForRequests ==
    page.UiQueue # <<>> => Active(page) # {} \/ page.updates # <<>>

(* "Wrapping input events handlers into this wrapper ensures proper        *)
(* synchronization between handling user actions and asynchronous          *)
(* execution of http requests" (api.js:400-402): a click on "update" sends *)
(* the host that was checked for the text of that row.                     *)
UpdateSendsWhatIsShown ==
    \A i \in DOMAIN page.updates : page.updates[i].hostname = page.updates[i].text
-----------------------------------------------------------------------------
(* The inductive invariant: a check that is active has the text of its row *)
(* unless that has changed since.                                          *)
CheckInv ==
    \A n \in Active(page) : ~page.textChanged[n] => page.rq[n].text = page.text[n]

Inv == TypeOK /\ CheckInv /\ CheckedIsShown /\ RequestsCounted
=============================================================================
