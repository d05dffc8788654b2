------------------------------- MODULE MCEnv -------------------------------
(***************************************************************************)
(* The parts of struct Env and the key set, which keep their data in files *)
(* or in memory, and the connection manager with its tables.  They have no *)
(* variable in common: a behaviour of this module is a behaviour of one    *)
(* part, the others stay in their initial state.                           *)
(***************************************************************************)
EXTENDS StateFile, Naturals, FiniteSets

CONSTANTS
    Hosts, NoHost, Walkers, MaxChanges,   (* Sites  *)
    Ids, Comments, NoKey,                 (* KeySet *)
    MaxFileSize, MaxBackupFiles, MaxLines, (* Logger *)
    Conns, Contexts, Addrs, MaxAddrChanges (* ConnMan *)

ASSUME KeyAssumption == Torn \notin Comments \cup {NoKey}
ASSUME LogAssumption == MaxFileSize \in Nat /\ MaxLines \in Nat /\ MaxBackupFiles \in Nat \ {0}
ASSUME ConnAssumption == IsFiniteSet(Conns)

VARIABLES
    part,
    heap, walk,                        (* Sites  *)
    keys, disk, op, unsaved,           (* KeySet *)
    log, backup, pc, written, crashed, (* Logger *)
    cpc, cctx, laddr, snapshot, errptr, dels, counter, goroutine, addrChgCount, byCtx, byAddr,
    victims, cancelled, addrs, notice, owed, blind  (* ConnMan *)

S == INSTANCE Sites
K == INSTANCE KeySet
L == INSTANCE Logger
C == INSTANCE ConnMan WITH pc <- cpc, MaxChanges <- MaxAddrChanges, Nil <- NoOne

(* A domain and a host below it. *)
MCHosts == {<<"org">>, <<"org", "x">>}

sitesVars == <<heap, walk>>
keysVars  == <<keys, disk, op, unsaved>>
logVars   == <<log, backup, pc, written, crashed>>
connVars  == <<cpc, cctx, laddr, snapshot, errptr, dels, counter, goroutine, addrChgCount, byCtx,
               byAddr, victims, cancelled, addrs, notice, owed, blind>>
MCVars    == <<part, vars, sitesVars, keysVars, logVars, connVars>>

MCInit ==
    /\ part \in {"state", "sites", "keys", "log", "conns"}
    /\ S!Init /\ K!Init /\ L!Init /\ C!Init
    /\ Init /\ (part # "state" => file = NewState)

MCNext ==
    /\ UNCHANGED part
    /\ \/ part = "state" /\ Next /\ UNCHANGED <<sitesVars, keysVars, logVars, connVars>>
       \/ part = "sites" /\ S!Next /\ UNCHANGED <<vars, keysVars, logVars, connVars>>
       \/ part = "keys" /\ K!Next /\ UNCHANGED <<vars, sitesVars, logVars, connVars>>
       \/ part = "log" /\ L!Next /\ UNCHANGED <<vars, sitesVars, keysVars, connVars>>
       \/ part = "conns" /\ C!Next /\ UNCHANGED <<vars, sitesVars, keysVars, logVars>>

(* Only the connections have liveness properties, and fairness for them.   *)
MCSpec == MCInit /\ [][MCNext]_MCVars /\ C!Fairness

-----------------------------------------------------------------------------
(* The inductive invariants of the parts: an instance that starts never   *)
(* reads a state file that is half written (Inv of StateFile), a walk sees *)
(* the list of sites it started with and no other (Inv of Sites), an       *)
(* operation touches one key only (Inv of KeySet), and the log and its     *)
(* backups are in order, during a rotation too (Inv of Logger).            *)
EnvInv == Inv /\ S!Inv /\ K!Inv /\ L!Inv

(* The router answers for the list of sites that was current when it       *)
(* started (router.go works on what GetSites of env.go returned).          *)
RouteMatches == S!RouteMatches

(* The keys in memory are those on disk, but for those of which an         *)
(* operation has failed (keyset.go).                                       *)
MemoryOnDisk == K!MemoryOnDisk

(* A restart loses at most the key that was being written (keyset.go).     *)
CrashKeepsOthers == K!CrashKeepsOthers

(* Rotation loses no lines but those of the oldest backup (logger.go).     *)
OnlyOldestLost == L!OnlyOldestLost

(* The statistics counter is the number of open connections, and the       *)
(* tables of the connection manager hold them (connman.go).                *)
CounterExact == C!CounterExact
TablesExact  == C!TablesExact

(* A connection is closed when its context is cancelled (connman.go:22-23) *)
(* or its local address goes away (recheckAddresses).                      *)
ContextCloses == C!ContextCloses
AddressCloses == C!AddressCloses
=============================================================================
