---------------------------- MODULE MCMsgReader -----------------------------
(***************************************************************************)
(* MsgReader for TLC: names and values that differ, one that is empty and  *)
(* one that begins with white space.                                       *)
(***************************************************************************)
EXTENDS MsgReader

FewTexts == {"", "1", "padded"}

=============================================================================
