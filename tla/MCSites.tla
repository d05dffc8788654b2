------------------------------ MODULE MCSites ------------------------------
(* Instance of Sites: a host below two domains, one below the other. *)
EXTENDS Sites

org == <<"org">>
MCHosts == {org, org \o <<"x">>, org \o <<"x", "www">>}
=============================================================================
