------------------------------ MODULE MCAgent -------------------------------
(***************************************************************************)
(* Agent for TLC: one host name, one method of the ACS, no cookies.        *)
(***************************************************************************)
EXTENDS Agent

CONSTANT a

OneName == {a}
NoLiteral == {}
NoProxy == {NoHost}
OneMethod == {"GetParameterValues"}
NoCookieLengths == {}

=============================================================================
