------------------------------ MODULE Objects -------------------------------
(***************************************************************************)
(* One multipleObject attribute of the data model (attr.c, obj.c) as the   *)
(* ACS and the data file reach it: AddObject (cpe.c, repo.c), paths with   *)
(* an instance number (repo.c), evcpe_attr_del_obj, and a restart of the   *)
(* agent, which reads the attribute back from the data file.  Repository   *)
(* builds its steps from the actions below; ListSpec is the attribute with *)
(* nothing around it.                                                      *)
(*                                                                         *)
(* Running out of memory is not modelled, nor a class none of whose        *)
(* objects can be initialised.                                             *)
(***************************************************************************)
EXTENDS Slots

CONSTANTS
  Limit,    \* the constraint attribute at initialisation; 0: unlimited
  MaxMade,  \* bound: objects ever created
  MaxValue  \* the largest value a parameter accepts

ASSUME ObjectsAssumption ==
  /\ Limit \in Nat
  /\ MaxMade \in Nat
  /\ MaxValue \in Nat

VARIABLES
  slots,    \* attr->value.multiple.list
  size,     \* attr->value.multiple.size
  number,   \* the ...NumberOfEntries attribute of the owner
  made,     \* objects created so far, which gives each its identity
  peak,     \* history: the most objects alive at once since the last load
  told      \* history: the last AddObjectResponse

listVars == <<slots, size, number, made, peak, told>>

\* An object knows its own place: its path is written once, from its index.
Object(id, instance) == [id |-> id, instance |-> instance]

Free == Object(0, 0)

Larger(a, b) == IF a >= b THEN a ELSE b

ListInit ==
  /\ slots = <<>>
  /\ size = 0
  /\ number = 0
  /\ made = 0
  /\ peak = 0
  /\ told = [id |-> 0, instanceNumber |-> 0]

RoomFor(n) == Limit = 0 \/ n < Limit

\* evcpe_attr_add_obj: a full attribute is a fault and changes nothing.
AddToList ==
  LET i == FirstFree(slots, Free)
  IN  /\ RoomFor(size)
      /\ made < MaxMade
      /\ made' = made + 1
      /\ slots' = Fill(slots, i, Object(made + 1, i))
      /\ size' = size + 1
      /\ number' = size + 1
      /\ peak' = Larger(peak, size + 1)

\* evcpe_handle_add_object answers with the index, counted from 0.
AddListObject ==
  /\ AddToList
  /\ told' = [id |-> made + 1, instanceNumber |-> FirstFree(slots, Free) - 1]

\* Faulty form of DelListObject: the slot is taken out of the list.
DelListObjectShifts(i) ==
  /\ i \in Live(slots, Free)
  /\ slots' = [j \in 1..(Len(slots) - 1) |->
                 IF j < i THEN slots[j] ELSE slots[j + 1]]
  /\ size' = size - 1
  /\ UNCHANGED <<number, made, peak, told>>

\* evcpe_attr_del_obj: the ...NumberOfEntries attribute is not told.
DelListObject(i) ==
  /\ i \in Live(slots, Free)
  /\ slots' = Clear(slots, i, Free)
  /\ size' = size - 1
  /\ UNCHANGED <<number, made, peak, told>>

\* Faulty form of ReloadList: the objects keep the paths of their old places.
ReloadListStalePaths ==
  /\ slots' = Compact(slots, Free)
  /\ size' = Len(slots')
  /\ number' = Len(slots')
  /\ peak' = Len(slots')
  /\ UNCHANGED <<made, told>>

\* The data file is written (evcpe_attr_to_xml) and read into a fresh object
\* tree (evcpe_obj_from_xml), which first sets the saved number and then adds
\* the objects one after the other.
ReloadList ==
  LET left == Compact(slots, Free)
  IN  /\ slots' = [i \in DOMAIN left |-> Object(left[i].id, i)]
      /\ size' = Len(left)
      /\ number' = IF left = <<>> THEN number ELSE Len(left)
      /\ peak' = Len(left)
      /\ UNCHANGED <<made, told>>

\* SetParameterValues sets the ...NumberOfEntries attribute like any other.
SetNumber(n) ==
  /\ number' = n
  /\ UNCHANGED <<slots, size, made, peak, told>>

ListNext ==
  \/ AddListObject
  \/ \E i \in DOMAIN slots : DelListObject(i)
  \/ ReloadList
  \/ \E n \in 0..MaxValue : SetNumber(n)

ListSpec == ListInit /\ [][ListNext]_listVars

\* evcpe_repo_locate with the instance number n: the object there, if any.
ObjectAt(n) == IF n \in Live(slots, Free) THEN slots[n] ELSE Free

-----------------------------------------------------------------------------

ListTypeOK ==
  /\ slots \in Seq([id : Nat, instance : Nat])
  /\ size \in Nat
  /\ number \in Nat
  /\ made \in 0..MaxMade
  /\ peak \in Nat
  /\ told \in [id : Nat, instanceNumber : Int]

\* The path an object was given locates that object and no other, after any
\* sequence of additions, deletions and reloads.
PathsResolve ==
  \A i \in Live(slots, Free) :
    /\ ObjectAt(slots[i].instance) = slots[i]
    /\ \A j \in Live(slots, Free) : slots[j].id = slots[i].id => j = i

\* size, which guards the constraint, is the number of objects.
SizeIsLive == size = Cardinality(Live(slots, Free))

\* The list never grows past the most objects that were alive at once, and
\* so never past the constraint: empty slots are used before new ones.
ListIsPeak ==
  /\ Len(slots) = peak
  /\ Limit # 0 => Len(slots) <= Limit

\* An object that is in slot i stays there with its instance number, or goes.
Stays(i) ==
  /\ i \in DOMAIN slots'
  /\ \/ slots'[i] = slots[i]
     \/ slots'[i] = Free /\ size' = size - 1

\* Until the next reload an object keeps its instance number, whatever is
\* added and deleted around it.
StaysPut == [][ ~ReloadList => \A i \in Live(slots, Free) : Stays(i) ]_listVars

\* The instance number the ACS was told is the one that locates the object.
ToldLocates ==
  told.id # 0 =>
    \A i \in Live(slots, Free) :
      slots[i].id = told.id => ObjectAt(told.instanceNumber) = slots[i]

=============================================================================
