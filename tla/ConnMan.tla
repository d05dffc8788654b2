------------------------------ MODULE ConnMan ------------------------------
(***************************************************************************)
(* The connection manager (src/connman.go): every outgoing TCP connection  *)
(* is closed when its dial context is cancelled and when its local address *)
(* goes away.  Dialers register connections with a goroutine, over an      *)
(* unbuffered channel; the goroutine listens to that channel, to the       *)
(* contexts of its connections, and to the event bus, whose promise        *)
(* (EventBus) is the variable owed.                                        *)
(*                                                                         *)
(* Every element of Conns is one call of DialContext and the connection it *)
(* makes.                                                                  *)
(***************************************************************************)
EXTENDS Integers, FiniteSets

CONSTANTS
    Conns,      (* calls of DialContext                                    *)
    Contexts,   (* contexts they are made with                             *)
    Addrs,      (* addresses of local interfaces                           *)
    MaxChanges, (* bound on the changes of local addresses                 *)
    Nil

VARIABLES
    pc,           (* pc[c]: where the call c of DialContext is             *)
    cctx,         (* cctx[c]: conn.ctx                                     *)
    laddr,        (* laddr[c]: local address of the connection             *)
    snapshot,     (* snapshot[c]: addrChgCount when the call was made      *)
    errptr,       (* errptr[c]: conn.errptr, "open" for a null pointer,    *)
                  (* else the reason: none ("closed") or "disconnected"    *)
    dels,         (* connections whose connManCmdDel is being sent         *)
    counter,      (* the statistics counter passed to DialContext          *)
    goroutine,    (* the goroutine: has it subscribed, where is it         *)
    addrChgCount, (* connman.addrChgCount                                  *)
    byCtx,        (* connections in the map byCtx                          *)
    byAddr,       (* connections in the map byAddr                         *)
    victims,      (* <<c, reason>>: c is to be aborted by a goroutine that *)
                  (* the manager has started                               *)
    cancelled,    (* cancelled contexts                                    *)
    addrs,        (* addresses that local interfaces have                  *)
    notice,       (* the system has a change of address to report          *)
    owed,         (* EventIpAddrChanged is on its way to the goroutine     *)
    blind         (* a change was missed: its event came before Sub, or    *)
                  (* the addresses could not be listed (history variable)  *)

dialVars == <<pc, cctx, laddr, snapshot>>
connVars == <<errptr, dels, counter>>
goVars   == <<goroutine, addrChgCount, byCtx, byAddr, victims>>
envVars  == <<cancelled, addrs, notice, owed, blind>>
vars     == <<dialVars, connVars, goVars, envVars>>

TypeOK ==
    /\ pc \in [Conns -> {"idle", "dialing", "adding", "returned", "closed", "failed"}]
    /\ cctx \in [Conns -> Contexts \cup {Nil}]
    /\ laddr \in [Conns -> Addrs \cup {Nil}]
    /\ snapshot \in [Conns -> Nat]
    /\ errptr \in [Conns -> {"open", "closed", "disconnected"}]
    /\ dels \in SUBSET Conns
    /\ counter \in Int
    /\ goroutine \in {"start", "select", "recheck"}
    /\ addrChgCount \in Nat
    /\ byCtx \in SUBSET Conns
    /\ byAddr \in SUBSET Conns
    /\ victims \in SUBSET (Conns \X {"closed", "disconnected"})
    /\ cancelled \in SUBSET Contexts
    /\ addrs \in SUBSET Addrs
    /\ notice \in BOOLEAN
    /\ owed \in BOOLEAN
    /\ blind \in BOOLEAN

Init ==
    /\ pc = [c \in Conns |-> "idle"]
    /\ cctx = [c \in Conns |-> Nil]
    /\ laddr = [c \in Conns |-> Nil]
    /\ snapshot = [c \in Conns |-> 0]
    /\ errptr = [c \in Conns |-> "open"]
    /\ dels = {}
    /\ counter = 0
    /\ goroutine = "start"
    /\ addrChgCount = 0
    /\ byCtx = {}
    /\ byAddr = {}
    /\ victims = {}
    /\ cancelled = {}
    /\ addrs = Addrs
    /\ notice = FALSE
    /\ owed = FALSE
    /\ blind = FALSE

-----------------------------------------------------------------------------
(***************************************************************************)
(* DialContext.                                                            *)
(***************************************************************************)
Dial(c, x) ==
    /\ pc[c] = "idle"
    /\ pc' = [pc EXCEPT ![c] = "dialing"]
    /\ cctx' = [cctx EXCEPT ![c] = x]
    /\ snapshot' = [snapshot EXCEPT ![c] = addrChgCount]
    /\ UNCHANGED <<laddr, connVars, goVars, envVars>>

(* The connection is made from a local address, and counted; the command   *)
(* to add it is being sent.                                                *)
Connected(c) ==
    /\ pc[c] = "dialing"
    /\ cctx[c] \notin cancelled
    /\ \E a \in addrs : laddr' = [laddr EXCEPT ![c] = a]
    /\ counter' = counter + 1
    /\ pc' = [pc EXCEPT ![c] = "adding"]
    /\ UNCHANGED <<cctx, snapshot, errptr, dels, goVars, envVars>>

DialFails(c) ==
    /\ pc[c] = "dialing"
    /\ pc' = [pc EXCEPT ![c] = "failed"]
    /\ UNCHANGED <<cctx, laddr, snapshot, connVars, goVars, envVars>>

-----------------------------------------------------------------------------
(***************************************************************************)
(* Abort, called by the owner of a connection (Close) or by a goroutine    *)
(* that the manager has started: the first caller wins, the others do      *)
(* nothing.                                                                *)
(***************************************************************************)

(* Fault: the outcome of the compare-and-swap is ignored. *)
AbortUnchecked(c, reason) ==
    /\ errptr' = [errptr EXCEPT ![c] = reason]
    /\ counter' = counter - 1
    /\ dels' = dels \cup {c}

Abort(c, reason) ==
    IF errptr[c] = "open"
    THEN /\ errptr' = [errptr EXCEPT ![c] = reason]
         /\ counter' = counter - 1
         /\ dels' = dels \cup {c}
    ELSE UNCHANGED connVars

Close(c) ==
    /\ pc[c] = "returned"
    /\ pc' = [pc EXCEPT ![c] = "closed"]
    /\ Abort(c, "closed")
    /\ UNCHANGED <<cctx, laddr, snapshot, goVars, envVars>>

AbortVictim(c, reason) ==
    /\ <<c, reason>> \in victims
    /\ victims' = victims \ {<<c, reason>>}
    /\ Abort(c, reason)
    /\ UNCHANGED <<dialVars, goroutine, addrChgCount, byCtx, byAddr, envVars>>

-----------------------------------------------------------------------------
(***************************************************************************)
(* The goroutine.                                                          *)
(***************************************************************************)

(* The bus may still deliver an event that was raised before Sub.          *)
Subscribe ==
    /\ goroutine = "start"
    /\ goroutine' = "select"
    /\ owed' \in BOOLEAN
    /\ UNCHANGED <<dialVars, connVars, addrChgCount, byCtx, byAddr, victims,
                   cancelled, addrs, notice, blind>>

AddrChanged ==
    /\ goroutine = "select"
    /\ owed
    /\ owed' = FALSE
    /\ addrChgCount' = addrChgCount + 1
    /\ goroutine' = "recheck"
    /\ UNCHANGED <<dialVars, connVars, byCtx, byAddr, victims, cancelled, addrs,
                   notice, blind>>

(* Fault: a connection whose context is done is not watched. *)
CmdAddUnlessDone(c) ==
    /\ goroutine = "select"
    /\ pc[c] = "adding"
    /\ pc' = [pc EXCEPT ![c] = "returned"]
    /\ byCtx' = IF cctx[c] \in cancelled THEN byCtx ELSE byCtx \cup {c}
    /\ byAddr' = byAddr \cup {c}
    /\ goroutine' = IF snapshot[c] # addrChgCount THEN "recheck" ELSE "select"
    /\ UNCHANGED <<cctx, laddr, snapshot, connVars, addrChgCount, victims, envVars>>

(* Fault: the snapshot of addrChgCount is not compared. *)
CmdAddUnchecked(c) ==
    /\ goroutine = "select"
    /\ pc[c] = "adding"
    /\ pc' = [pc EXCEPT ![c] = "returned"]
    /\ byCtx' = byCtx \cup {c}
    /\ byAddr' = byAddr \cup {c}
    /\ UNCHANGED <<cctx, laddr, snapshot, connVars, goroutine, addrChgCount,
                   victims, envVars>>

(* connManCmdAdd: addresses that have changed since the dial are checked,  *)
(* and the dialer returns.                                                 *)
CmdAdd(c) ==
    /\ goroutine = "select"
    /\ pc[c] = "adding"
    /\ pc' = [pc EXCEPT ![c] = "returned"]
    /\ byCtx' = byCtx \cup {c}
    /\ byAddr' = byAddr \cup {c}
    /\ goroutine' = IF snapshot[c] # addrChgCount THEN "recheck" ELSE "select"
    /\ UNCHANGED <<cctx, laddr, snapshot, connVars, addrChgCount, victims, envVars>>

(* Fault: only the map of contexts is updated. *)
CmdDelByCtx(c) ==
    /\ goroutine = "select"
    /\ c \in dels
    /\ dels' = dels \ {c}
    /\ byCtx' = byCtx \ {c}
    /\ UNCHANGED <<dialVars, errptr, counter, goroutine, addrChgCount, byAddr,
                   victims, envVars>>

CmdDel(c) ==
    /\ goroutine = "select"
    /\ c \in dels
    /\ dels' = dels \ {c}
    /\ byCtx' = byCtx \ {c}
    /\ byAddr' = byAddr \ {c}
    /\ UNCHANGED <<dialVars, errptr, counter, goroutine, addrChgCount, victims,
                   envVars>>

(* Fault: the manager closes the connections itself, and waits for itself  *)
(* to receive the command of the first one that was open.                  *)
ContextDoneInline(x) ==
    /\ goroutine = "select"
    /\ x \in cancelled
    /\ LET set == {c \in byCtx : cctx[c] = x}
       IN  /\ set # {}
           /\ byCtx' = byCtx \ set
           /\ \/ /\ \A c \in set : errptr[c] # "open"
                 /\ UNCHANGED <<connVars, goroutine>>
              \/ \E c \in set : /\ errptr[c] = "open" /\ Abort(c, "closed")
                                /\ goroutine' = "blocked"
    /\ UNCHANGED <<dialVars, addrChgCount, byAddr, victims, envVars>>

(* The context x is done: its connections leave byCtx and will be closed   *)
(* by a goroutine that the manager starts.                                 *)
ContextDone(x) ==
    /\ goroutine = "select"
    /\ x \in cancelled
    /\ LET set == {c \in byCtx : cctx[c] = x}
       IN  /\ set # {}
           /\ byCtx' = byCtx \ set
           /\ victims' = victims \cup (set \X {"closed"})
    /\ UNCHANGED <<dialVars, connVars, goroutine, addrChgCount, byAddr, envVars>>

(* recheckAddresses: the connections whose address is not listed any more  *)
(* will be aborted; nothing is done if addresses cannot be listed.         *)
Recheck ==
    /\ goroutine = "recheck"
    /\ goroutine' = "select"
    /\ \/ LET dead == {c \in byAddr : laddr[c] \notin addrs}
          IN  /\ victims' = victims \cup (dead \X {"disconnected"})
              /\ UNCHANGED blind
       \/ /\ blind' = TRUE
          /\ UNCHANGED victims
    /\ UNCHANGED <<dialVars, connVars, addrChgCount, byCtx, byAddr, cancelled,
                   addrs, notice, owed>>

-----------------------------------------------------------------------------
(***************************************************************************)
(* The environment: contexts are cancelled, interfaces lose and get        *)
(* addresses, and the system reports that some time later.                 *)
(***************************************************************************)
Cancel(x) ==
    /\ x \notin cancelled
    /\ cancelled' = cancelled \cup {x}
    /\ UNCHANGED <<dialVars, connVars, goVars, addrs, notice, owed, blind>>

ChangeAddr(a) ==
    /\ addrChgCount + (IF owed THEN 1 ELSE 0) + (IF notice THEN 1 ELSE 0) < MaxChanges
    /\ addrs' = IF a \in addrs THEN addrs \ {a} ELSE addrs \cup {a}
    /\ notice' = TRUE
    /\ UNCHANGED <<dialVars, connVars, goVars, cancelled, owed, blind>>

(* sysEventCallback raises EventIpAddrChanged. *)
RaiseIpAddrChanged ==
    /\ notice
    /\ notice' = FALSE
    /\ IF goroutine = "start"
       THEN blind' = TRUE /\ UNCHANGED owed
       ELSE owed' = TRUE /\ UNCHANGED blind
    /\ UNCHANGED <<dialVars, connVars, goVars, cancelled, addrs>>

-----------------------------------------------------------------------------
Next ==
    \/ \E c \in Conns :
          \/ \E x \in Contexts : Dial(c, x)
          \/ Connected(c) \/ DialFails(c) \/ Close(c)
          \/ \E reason \in {"closed", "disconnected"} : AbortVictim(c, reason)
          \/ CmdAdd(c) \/ CmdDel(c)
    \/ Subscribe \/ AddrChanged \/ Recheck
    \/ \E x \in Contexts : ContextDone(x) \/ Cancel(x)
    \/ \E a \in Addrs : ChangeAddr(a)
    \/ RaiseIpAddrChanged

Spec == Init /\ [][Next]_vars

(***************************************************************************)
(* The goroutines run, select serves every case that stays ready, and the  *)
(* system reports a change.  Nobody has to dial, close, or cancel.         *)
(***************************************************************************)
Fairness ==
    /\ \A c \in Conns :
          /\ WF_vars(CmdAdd(c))
          /\ WF_vars(CmdDel(c))
          /\ WF_vars(\E reason \in {"closed", "disconnected"} : AbortVictim(c, reason))
    /\ WF_vars(Subscribe)
    /\ WF_vars(AddrChanged)
    /\ WF_vars(Recheck)
    /\ \A x \in Contexts : WF_vars(ContextDone(x))
    /\ WF_vars(RaiseIpAddrChanged)

FairSpec == Spec /\ Fairness

-----------------------------------------------------------------------------
(***************************************************************************)
(* Properties.                                                             *)
(***************************************************************************)
Made  == {c \in Conns : pc[c] \in {"adding", "returned", "closed"}}
Added == {c \in Conns : pc[c] \in {"returned", "closed"}}
Live  == {c \in Made : errptr[c] = "open"}

(* The statistics counter shows the connections that are open: whoever     *)
(* races to close a connection, it is counted down once.                   *)
CounterExact == counter = Cardinality(Live)

(* The maps hold exactly the connections that are open, or closed with the *)
(* command to delete them still on its way; a connection leaves byCtx      *)
(* early only if its context is done, and then it is closed or about to be *)
(* closed.  So nothing leaks, and nothing is forgotten.                    *)
TablesExact ==
    /\ byAddr = {c \in Added : errptr[c] = "open" \/ c \in dels}
    /\ byCtx \subseteq byAddr
    /\ \A c \in byAddr \ byCtx :
          /\ cctx[c] \in cancelled
          /\ errptr[c] # "open" \/ <<c, "closed">> \in victims

(* "When context canceled, connection automatically closed"                *)
(* (connman.go:22-23), also if it was being dialed at that moment, and     *)
(* also if the context had been seen to be cancelled before.  The manager  *)
(* is there for it again and again: it closes no connection itself, which  *)
(* would be to send to itself (connman.go:250-255).                        *)
ContextCloses ==
    \A c \in Conns : c \in Live /\ cctx[c] \in cancelled ~> errptr[c] # "open"

(* A connection whose local address is gone is closed, also if the address *)
(* goes between connect and registration, unless a change was missed.      *)
AddressCloses ==
    \A c \in Conns : c \in Live /\ laddr[c] \notin addrs
                     ~> errptr[c] # "open" \/ laddr[c] \in addrs \/ blind

-----------------------------------------------------------------------------
(***************************************************************************)
(* The inductive invariant: only a connection that was added is ever       *)
(* aborted or about to be aborted.                                         *)
(***************************************************************************)
LifeInv ==
    /\ \A c \in Conns \ Added : errptr[c] = "open"
    /\ dels \subseteq {c \in Added : errptr[c] # "open"}
    /\ \A v \in victims : v[1] \in Added

Inv == TypeOK /\ LifeInv /\ CounterExact /\ TablesExact
=============================================================================
