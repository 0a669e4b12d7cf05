------------------------------- MODULE Slots --------------------------------
(***************************************************************************)
(* The list of a multipleObject attribute (obj_list.c and the loops over   *)
(* it in attr.c): deleting an object empties its slot and leaves it in the *)
(* list, adding one fills the first empty slot.  Slots are counted from 1, *)
(* as the instance numbers in a path are; the code counts from 0 and adds  *)
(* 1 where it writes or reads a path.                                      *)
(***************************************************************************)
EXTENDS Integers, Sequences, FiniteSets

\* The slots that hold an object; empty stands for item->obj = NULL.
Live(slots, empty) == {i \in DOMAIN slots : slots[i] # empty}

Vacant(slots, empty) == {i \in DOMAIN slots : slots[i] = empty}

\* The slot evcpe_attr_add_obj takes.
FirstFree(slots, empty) ==
  IF Vacant(slots, empty) = {}
    THEN Len(slots) + 1
    ELSE CHOOSE i \in Vacant(slots, empty) :
           \A j \in Vacant(slots, empty) : i <= j

\* The list with obj in slot i, which exists or is the next one.
Fill(slots, i, obj) ==
  IF i > Len(slots) THEN Append(slots, obj) ELSE [slots EXCEPT ![i] = obj]

\* The list without the object in slot i: evcpe_attr_del_obj leaves the slot.
Clear(slots, i, empty) == [slots EXCEPT ![i] = empty]

\* The position of slot i among the slots of a set.
Rank(T, i) == Cardinality({j \in T : j <= i})

\* A list of what the slots of a set hold, in their order.
Packed(slots, T) ==
  [k \in 1..Cardinality(T) |-> slots[CHOOSE i \in T : Rank(T, i) = k]]

\* What is left of the list when it is written to the data file and read
\* back: the objects in their order, without the empty slots.
Compact(slots, empty) == Packed(slots, Live(slots, empty))

=============================================================================
