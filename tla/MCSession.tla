----------------------------- MODULE MCSession ------------------------------
(***************************************************************************)
(* Session for TLC: one method of each kind, so that a call can be         *)
(* answered, cannot be written out, or is not known; and two cookies, each *)
(* short, or too long for the header alone.                                *)
(***************************************************************************)
EXTENDS Session

OneOfEachKind ==
  {"GetParameterValues", "GetParameterAttributes", "DeleteObject"}
ShortAndLong == {100, 600}
NoLengths == {}

=============================================================================
