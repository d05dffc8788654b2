---------------------------- MODULE GlobalLock ----------------------------
(***************************************************************************)
(* What a global lock of Froxy promises: between the goroutines of all     *)
(* processes at most one holds it, and the end of a process frees it.      *)
(***************************************************************************)
CONSTANTS
    Locks,      (* names of locks                                          *)
    Goroutines, (* goroutines of all processes                             *)
    NoOne

VARIABLE holder  (* holder[l]: the goroutine that holds the lock           *)

Init == holder = [l \in Locks |-> NoOne]

Acquire(g, l) ==
    /\ holder[l] = NoOne
    /\ holder' = [holder EXCEPT ![l] = g]

Release(l) ==
    /\ holder[l] # NoOne
    /\ holder' = [holder EXCEPT ![l] = NoOne]

(* A process ends; GS are its goroutines. *)
End(GS) == holder' = [l \in Locks |-> IF holder[l] \in GS THEN NoOne ELSE holder[l]]

Next ==
    \/ \E l \in Locks : Release(l) \/ \E g \in Goroutines : Acquire(g, l)
    \/ \E GS \in SUBSET Goroutines : End(GS)

Spec == Init /\ [][Next]_holder
=============================================================================
