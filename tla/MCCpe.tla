------------------------------- MODULE MCCpe -------------------------------
(***************************************************************************)
(* Cpe for TLC: every way in which the start of a session may fail.        *)
(***************************************************************************)
EXTENDS Cpe

AllStartFaults == {"prepare", "send"}

=============================================================================
