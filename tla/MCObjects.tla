----------------------------- MODULE MCObjects ------------------------------
(***************************************************************************)
(* Objects for TLC.                                                        *)
(***************************************************************************)
EXTENDS Objects

=============================================================================
