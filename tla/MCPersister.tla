---------------------------- MODULE MCPersister -----------------------------
(***************************************************************************)
(* Persister for TLC: the faults the configurations choose from.           *)
(***************************************************************************)
EXTENDS Persister

AllWriteFaults == {"open", "marshal", "write"}
NoWriteFaults == {}

=============================================================================
