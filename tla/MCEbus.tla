------------------------------- MODULE MCEbus -------------------------------
(***************************************************************************)
(* The instance of Ebus by which TLC refutes the promise of ebus.go:93.    *)
(***************************************************************************)
EXTENDS Ebus

MCEvents == {EventStartup, 1}
=============================================================================
