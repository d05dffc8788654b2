--------------------------- MODULE MCSSHTransport ---------------------------
(***************************************************************************)
(* Instances of SSHTransport for TLC.  The parameters of a server are      *)
(* complete (login and password), complete but for a key that exists or    *)
(* not when the context is made, or empty.                                 *)
(***************************************************************************)
EXTENDS SSHTransport

CONSTANTS password, keyid, empty

MCOkOutcomes ==
    [p \in Params |-> CASE p = password -> {TRUE}
                        [] p = keyid    -> BOOLEAN
                        [] p = empty    -> {FALSE}]

(* Three dials that share the pool, or two that race with changes of the   *)
(* server parameters.  Dials differ only by their numbers, and are taken   *)
(* to begin in that order.                                                 *)
MCBound ==
    /\ \A d \in Dials : pc[d] # "idle" => d = 1 \/ pc[d - 1] # "idle"
    /\ \/ pc[3] = "idle"
       \/ param[Boot] = password /\ \A r \in Reconnects : rpc[r] = "idle"

MCSpec == Init /\ [][Next /\ MCBound']_vars /\ Fairness
=============================================================================
