------------------------------- MODULE Sites -------------------------------
(***************************************************************************)
(* The list of sites (src/env.go) and the router (src/router.go).  SetSite *)
(* and DelSite replace the list by a changed copy under stateLock; Route   *)
(* walks through the list that was current when it started, without the    *)
(* lock, while other requests change it.                                   *)
(*                                                                         *)
(* A host is the sequence of its labels, the top one first.                *)
(***************************************************************************)
EXTENDS Naturals, SequencesExt

CONSTANTS
    Hosts,     (* names of hosts                                           *)
    NoHost,    (* the empty name: a site that is searched by it is new     *)
    Walkers,   (* goroutines that route a request                          *)
    MaxChanges (* bound on the changes of the list                         *)

VARIABLES
    heap,    (* the arrays that held the list; the last one is current     *)
    walk     (* walk[w]: the local variables of Route                      *)

vars == <<heap, walk>>

SiteParams == [host : Hosts, rec : BOOLEAN, block : BOOLEAN]
sites == Last(heap)

(* i is the element visited next, site a copy of the one visited last;     *)
(* seen is what GetSites has returned.                                     *)
NoWalk == [pc |-> "idle", host |-> <<>>, arr |-> 0, i |-> 0, site |-> <<>>,
           found |-> FALSE, answer |-> "none", seen |-> <<>>]

Walks  == [pc : {"idle", "walk", "done"}, host : Hosts \cup {<<>>}, arr : Nat, i : Nat,
           site : SiteParams \cup {<<>>}, found : BOOLEAN,
           answer : {"none", "bypass", "block", "forward"}, seen : Seq(SiteParams)]

TypeOK ==
    /\ heap \in Seq(Seq(SiteParams)) /\ heap # <<>>
    /\ walk \in [Walkers -> Walks]

Init ==
    /\ heap = << <<>> >>
    /\ walk = [w \in Walkers |-> NoWalk]

-----------------------------------------------------------------------------
(* The first entry of that name, 0 if there is none. *)
Position(list, host) == SelectInSeq(list, LAMBDA s : s.host = host)

WithSite(list, host, site) ==
    LET pos == Position(list, host)
    IN  IF pos = 0 THEN Append(list, site) ELSE ReplaceAt(list, pos, site)

(* A site that is listed as it is stays in the list that is current. *)
SetSite(host, site) ==
    /\ Len(heap) <= MaxChanges
    /\ WithSite(sites, host, site) # sites
    /\ heap' = Append(heap, WithSite(sites, host, site))
    /\ UNCHANGED walk

(* Fault: the array is shifted without being copied. *)
DelSiteInPlace(host) ==
    LET pos == Position(sites, host)
    IN  /\ Len(heap) <= MaxChanges
        /\ pos # 0
        /\ heap' = Append([heap EXCEPT ![Len(heap)] = Append(RemoveAt(sites, pos), Last(sites))],
                          RemoveAt(sites, pos))
        /\ UNCHANGED walk

DelSite(host) ==
    LET pos == Position(sites, host)
    IN  /\ Len(heap) <= MaxChanges
        /\ pos # 0
        /\ heap' = Append(heap, RemoveAt(sites, pos))
        /\ UNCHANGED walk

-----------------------------------------------------------------------------
(***************************************************************************)
(* Route.                                                                  *)
(***************************************************************************)
GetSites(w, host) ==
    /\ walk[w].pc = "idle"
    /\ walk' = [walk EXCEPT ![w] =
                  [pc |-> "walk", host |-> host, arr |-> Len(heap), i |-> 1, site |-> <<>>,
                   found |-> FALSE, answer |-> "none", seen |-> sites]]
    /\ UNCHANGED heap

(* site is the host or, if it is recursive, a domain of it. *)
Exact(site, host) == site.host = host
Below(site, host) == site.rec /\ IsStrictPrefix(site.host, host)

(* One round of the loop.  found points to the loop variable, so that it   *)
(* is never shorter than the site that is visited.                         *)
Visit(w) ==
    LET r == walk[w]
        site == heap[r.arr][r.i]
    IN  /\ r.pc = "walk" /\ r.i <= Len(r.seen)
        /\ walk' = [walk EXCEPT ![w] = [r EXCEPT
                      !.site = site,
                      !.found = r.found \/ Exact(site, r.host) \/ Below(site, r.host),
                      !.i = IF Exact(site, r.host) THEN Len(r.seen) + 1 ELSE r.i + 1]]
        /\ UNCHANGED heap

Answer(w) ==
    LET r == walk[w]
    IN  /\ r.pc = "walk" /\ r.i > Len(r.seen)
        /\ walk' = [walk EXCEPT ![w] = [r EXCEPT
                      !.pc = "done",
                      !.answer = CASE ~r.found -> "bypass"
                                   [] r.found /\ r.site.block -> "block"
                                   [] r.found /\ ~r.site.block -> "forward"]]
        /\ UNCHANGED heap

(* A request PUT may name no site, a request DEL names one. *)
handleSites ==
    \/ \E host \in Hosts \cup {NoHost}, site \in SiteParams : SetSite(host, site)
    \/ \E host \in Hosts : DelSite(host)

Next ==
    \/ handleSites
    \/ \E w \in Walkers :
          \/ \E host \in Hosts : GetSites(w, host)
          \/ Visit(w) \/ Answer(w)

Spec == Init /\ [][Next]_vars

-----------------------------------------------------------------------------
(***************************************************************************)
(* Properties.                                                             *)
(***************************************************************************)
Answered == {w \in Walkers : walk[w].pc = "done"}
Matching(w) == {s \in ToSet(walk[w].seen) : Exact(s, walk[w].host) \/ Below(s, walk[w].host)}

(* Whatever changes the list meanwhile, the router answers for the list it *)
(* started with: bypass exactly if no site matches, and otherwise as the   *)
(* first site with the name of the host says, if there is one.             *)
RouteMatches ==
    \A w \in Answered :
        LET r == walk[w]
            pos == Position(r.seen, r.host)
        IN  /\ r.answer = "bypass" <=> Matching(w) = {}
            /\ pos # 0 => r.answer = IF r.seen[pos].block THEN "block" ELSE "forward"

(* "More specific match wins" (router.go:75): a host that is not listed    *)
(* itself is treated as the nearest of its domains that are.               *)
MoreSpecificWins ==
    \A w \in Answered : \A s \in Matching(w) :
        (\A t \in Matching(w) \ {s} : Len(t.host) < Len(s.host))
        => walk[w].answer = IF s.block THEN "block" ELSE "forward"
-----------------------------------------------------------------------------
(***************************************************************************)
(* The inductive invariant.                                                *)
(***************************************************************************)

(* An array that was current once is never changed: a walk sees the list   *)
(* it started with.                                                        *)
HeapInv ==
    \A w \in Walkers : walk[w].pc # "idle" =>
        walk[w].arr \in 1..Len(heap) /\ walk[w].seen = heap[walk[w].arr]

(* A walk has passed no site of that name, and found tells whether it has  *)
(* passed one above it, or it has ended at the first site of that name.    *)
Searched(r) ==
    \/ /\ r.i \in 1..Len(r.seen) + 1
       /\ \A j \in 1..r.i - 1 : ~Exact(r.seen[j], r.host)
       /\ r.found <=> \E j \in 1..r.i - 1 : Below(r.seen[j], r.host)
    \/ /\ r.i = Len(r.seen) + 1 /\ r.found
       /\ \E k \in 1..Len(r.seen) :
             /\ r.site = r.seen[k] /\ Exact(r.site, r.host)
             /\ \A j \in 1..k - 1 : ~Exact(r.seen[j], r.host)

WalkInv == \A w \in Walkers : walk[w].pc # "idle" => Searched(walk[w])

AnswerInv ==
    \A w \in Answered :
        /\ walk[w].i > Len(walk[w].seen)
        /\ walk[w].answer = IF ~walk[w].found THEN "bypass"
                           ELSE IF walk[w].site.block THEN "block" ELSE "forward"

Inv == TypeOK /\ HeapInv /\ WalkInv /\ AnswerInv
=============================================================================
