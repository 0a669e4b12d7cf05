------------------------------- MODULE Values -------------------------------
(***************************************************************************)
(* Values of parameters and the constraints on them (type.c, constraint.c, *)
(* util.c).  A text is a member of a small set; of a number only the value *)
(* matters, of a date only whether strptime can read it.                   *)
(***************************************************************************)
EXTENDS Integers

CONSTANTS
  Number,   \* the texts evcpe_atol can read, with their values
  Bounds,   \* the texts of a constraint on numbers: <<least, greatest>>
  Dates     \* the texts strptime can read

ASSUME ValuesAssumption ==
  /\ \A t \in DOMAIN Number : Number[t] \in Int
  /\ \A t, u \in DOMAIN Number : Number[t] = Number[u] => t = u
  /\ 0 \in {Number[t] : t \in DOMAIN Number}

Simple == {"string", "int", "unsignedInt", "boolean", "dateTime", "base64"}
Types == Simple \cup {"object", "multiple"}

\* What is put for a bound that is not given.
NoBound == "none"

\* The constraint of a schema: a kind, with the bounds or the attribute it names.
NoConstraint ==
  [kind |-> "none", least |-> NoBound, greatest |-> NoBound, attr |-> "none"]
SizeConstraint == [NoConstraint EXCEPT !.kind = "size"]
EnumConstraint == [NoConstraint EXCEPT !.kind = "enum"]
AttrConstraint(a) == [NoConstraint EXCEPT !.kind = "attr", !.attr = a]

\* "min:max", one of which may be left out.
RangeConstraint(text) ==
  [NoConstraint EXCEPT !.kind = "range", !.least = Bounds[text][1],
                       !.greatest = Bounds[text][2]]

\* The text of a number (evcpe_obj_set_int).
TextOf(n) == CHOOSE t \in DOMAIN Number : Number[t] = n

InRange(cons, n) ==
  /\ cons.least # NoBound => n >= Number[cons.least]
  /\ cons.greatest # NoBound => n <= Number[cons.greatest]

\* evcpe_type_validate.  The return code is still 0 where it finds a negative
\* unsigned number or a boolean that is neither 0 nor 1; the size and the
\* enumeration of a string are not looked at.
Validates(type, text, cons) ==
  CASE type \in {"string", "base64"} -> TRUE
    [] type \in {"int", "unsignedInt", "boolean"} ->
         /\ text \in DOMAIN Number
         /\ \/ type = "unsignedInt" /\ Number[text] < 0
            \/ type = "boolean" /\ Number[text] \notin {0, 1}
            \/ cons.kind \in {"none", "range"} /\ InRange(cons, Number[text])
    [] type = "dateTime" -> text \in Dates
    [] OTHER -> FALSE

=============================================================================
