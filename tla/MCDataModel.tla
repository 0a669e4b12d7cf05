----------------------------- MODULE MCDataModel ------------------------------
(***************************************************************************)
(* The model files of up to three schemas that these elements and          *)
(* attributes make.                                                        *)
(***************************************************************************)
EXTENDS DataModel

MCNumber ==
  [t \in {ToString(n) : n \in 0..6} |-> CHOOSE n \in 0..6 : ToString(n) = t]
MCBounds == [t \in {":0"} |-> <<NoBound, "0">>]

MCInputs ==
  {"name"} \X {"a", "b"}
    \cup {"type"} \X {"object", "multiple", "unsignedInt", "string", "dateTime"}
    \cup {"constraint"} \X {"a", ":0"}
    \cup {"default"} \X {"1", "auto"}
    \cup {"number"} \X {"a"}

\* Siblings are named in the order of the file, and strings are free.  Three
\* schemas are a parameter or list, a list after it or in it, and a string in
\* that.
MCBoots(r) ==
  LET s == r.schemas
  IN  /\ \A i \in DOMAIN s :
           /\ s[i].type = "string" => s[i].constraint = NoConstraint
           /\ s[i].name = "b" =>
                \E j \in 1..(i - 1) : s[j].owner = s[i].owner /\ s[j].name = "a"
      /\ Len(s) > 1 => r.stack = <<>>
      /\ Len(s) = 3 =>
           /\ s[1].type \in {"unsignedInt", "multiple"}
           /\ s[2].type = "multiple"
           /\ s[3].type = "string" /\ s[3].owner = 2

=============================================================================
