----------------------------- MODULE Repository ------------------------------
(***************************************************************************)
(* The repository as the ACS reaches it: paths (evcpe_repo_locate), the    *)
(* handlers that list, read and set parameters and add objects, and the    *)
(* listeners that are told of every change (repo.c, attr.c, obj.c, cpe.c). *)
(*                                                                         *)
(* The tree has one multipleObject attribute, which is module Objects.  A  *)
(* path in a message is the sequence of its parts between dots, so that    *)
(* "A.B." is <<"A", "B", "">>; the path of an attribute or object has no   *)
(* empty parts, and that of the root object is <<>>.  Values are numbers,  *)
(* of which the ones past MaxValue stand for all that are refused.         *)
(***************************************************************************)
EXTENDS Objects, SequencesExt

CONSTANTS
  Schema,      \* type of each attribute, by its path without instance numbers
  Extension,   \* attributes with the extension flag
  ListAttr,    \* the multipleObject attribute
  NumberAttr,  \* its ...NumberOfEntries attribute
  Numeral,     \* instance numbers as they are in paths
  Paths,       \* paths in messages of the ACS
  SetLists     \* parameter lists of SetParameterValues

\* Parts are what is between two dots: nothing, where two dots follow each other
\* or a path begins or ends with one.
NoPart == ""
Part == STRING \cup {NoPart}
NoEmptyPath == Seq(Part) \ {<<>>}

ASSUME SchemaAssumption ==
  /\ IsFiniteSet(DOMAIN Schema)
  /\ DOMAIN Schema \subseteq NoEmptyPath
  /\ \A a \in DOMAIN Schema :
       /\ Schema[a] \in {"object", "multiple", "simple"}
       /\ Len(a) > 1 => Front(a) \in DOMAIN Schema /\ Schema[Front(a)] # "simple"
       /\ \A k \in DOMAIN a : a[k] # NoPart

\* There is one root, which is an object, and one list, with its number beside it.
ASSUME RootAssumption ==
  \E r \in DOMAIN Schema :
    /\ Len(r) = 1 /\ Schema[r] = "object"
    /\ \A a \in DOMAIN Schema : Len(a) = 1 => a = r

ASSUME ListAssumption ==
  /\ {a \in DOMAIN Schema : Schema[a] = "multiple"} = {ListAttr}
  /\ NumberAttr \in DOMAIN Schema
  /\ Schema[NumberAttr] = "simple"
  /\ Front(NumberAttr) = Front(ListAttr)

\* Numbers differ, and no attribute has a number for its name.  Messages write a
\* number in one way only: what atoi takes for it besides ("01", "1x") is left out.
ASSUME NumeralAssumption ==
  /\ Numeral \in [1..MaxMade -> Part]
  /\ \A i \in 1..MaxMade :
       /\ Numeral[i] # NoPart
       /\ \A j \in 1..MaxMade : Numeral[i] = Numeral[j] => i = j
       /\ \A a \in DOMAIN Schema : \A k \in DOMAIN a : a[k] # Numeral[i]

ASSUME MessageAssumption ==
  /\ Paths \subseteq NoEmptyPath
  /\ SetLists \subseteq Seq([path : NoEmptyPath, value : Nat])

VARIABLES
  value,     \* attr->value.simple.string of all parameters but NumberAttr
  watched,   \* attributes whose callback is evcpe_repo_attr_cb
  heard,     \* what the listeners were told in the last step
  answer     \* the answer that is not sent yet, and the list it is about

vars == <<listVars, value, watched, heard, answer>>

NoAnswer == [status |-> "none", list |-> <<>>]
Answer(status, list) == [status |-> status, list |-> list]

-----------------------------------------------------------------------------
(***************************************************************************)
(* The tree.                                                               *)
(***************************************************************************)

Instance(i) == Append(ListAttr, Numeral[i])

\* What follows the first n parts of a path.
After(a, n) == SubSeq(a, n + 1, Len(a))

\* The attributes of the list's class, at any depth, and all others.
InList == {c \in DOMAIN Schema : IsStrictPrefix(ListAttr, c)}
Fixed == DOMAIN Schema \ InList

\* Attribute c of the list's class in the object of slot i, and all of them, which
\* evcpe_obj_init makes.
AttrAt(i, c) == Instance(i) \o After(c, Len(ListAttr))
InObject(i) == {AttrAt(i, c) : c \in InList}

\* All attributes there are.
Attrs == Fixed \cup UNION {InObject(i) : i \in Live(slots, Free)}

\* The schema of an attribute does not depend on instance numbers.
Class(a) ==
  IF IsStrictPrefix(ListAttr, a) THEN ListAttr \o After(a, Len(ListAttr) + 1)
                                 ELSE a
Type(a) == Schema[Class(a)]
IsExtension(a) == Class(a) \in Extension

\* Faulty form of Instances: empty slots are not skipped.
InstancesAndHoles == {Instance(i) : i \in DOMAIN slots}

\* The attributes of object o; the objects of the list.
Children(o) == {a \in Attrs : Front(a) = o}
Instances == {Instance(i) : i \in Live(slots, Free)}

\* All attributes below object o, as evcpe_repo_set_obj_attr_cb visits them.
AttrsOf(o) == {a \in Attrs : IsStrictPrefix(o, a)}

Parameters == {a \in Attrs : Type(a) = "simple"}

\* evcpe_attr_get.
Value(p) == IF p = NumberAttr THEN number ELSE value[p]

Accepts(v) == v <= MaxValue

-----------------------------------------------------------------------------
(***************************************************************************)
(* evcpe_repo_locate.                                                      *)
(***************************************************************************)

RootAttr == CHOOSE a \in DOMAIN Schema : Len(a) = 1
NoAttr == <<>>
Nowhere == [found |-> FALSE, obj |-> <<>>, attr |-> NoAttr]
At(obj, attr) == [found |-> TRUE, obj |-> obj, attr |-> attr]

\* An attribute that is followed by a dot: an object, or a list, of which the
\* number is still to come.
EnterAttr(obj, a) ==
  IF a \in Attrs /\ Type(a) # "simple"
    THEN At(IF Type(a) = "object" THEN a ELSE obj, a) ELSE Nowhere

EnterList(e) ==
  IF \E i \in Live(slots, Free) : Numeral[i] = e
    THEN At(Append(ListAttr, e), ListAttr) ELSE Nowhere

\* One part that is followed by a dot.  An empty one stands for the object of
\* the root.  After an instance number attr is still the list, so that what
\* follows is taken for an instance number again.
Enter(loc, e) ==
  IF ~loc.found THEN Nowhere
  ELSE IF e = NoPart THEN At(RootAttr, RootAttr)
  ELSE IF loc.attr = ListAttr THEN EnterList(e)
  ELSE EnterAttr(loc.obj, Append(loc.obj, e))

\* The loop over the parts that are followed by a dot.
Entered(path) ==
  LET loc[k \in 0..(Len(path) - 1)] ==
        IF k = 0 THEN At(<<>>, NoAttr) ELSE Enter(loc[k - 1], path[k])
  IN  loc[Len(path) - 1]

\* The last part is not followed by a dot: nothing, or a simple attribute.
Located(path) ==
  LET loc == Entered(path)
      a == Append(loc.obj, Last(path))
  IN  IF ~loc.found \/ Last(path) = NoPart THEN loc
      ELSE IF a \in Parameters THEN At(loc.obj, a)
      ELSE Nowhere

\* evcpe_repo_get_attr.
Found(path) == Located(path).found /\ Located(path).attr # NoAttr

-----------------------------------------------------------------------------
(***************************************************************************)
(* What the handlers that change nothing report.                           *)
(***************************************************************************)

\* What the walks below visit next after attribute a.
Below(a) ==
  IF Type(a) = "object" THEN Children(a)
  ELSE IF Type(a) = "multiple" THEN UNION {Children(o) : o \in Instances}
  ELSE {}

\* evcpe_attr_to_param_value_list.
ValueList(attr) ==
  LET list[a \in Attrs] ==
        IF IsExtension(a) THEN {}
        ELSE {b \in {a} : Type(b) = "simple"} \cup UNION {list[c] : c \in Below(a)}
  IN  list[attr]

\* The attribute itself, and the objects if it is the list.
Entries(a) == {a} \cup {o \in Instances : Type(a) = "multiple"}

\* Faulty form of InfoList: the flag is not looked at.
InfoListAll(attr, nextLevel) ==
  LET list[a \in Attrs] == Entries(a) \cup UNION {list[c] : c \in Below(a)}
  IN  IF ~nextLevel THEN list[attr]
      ELSE IF Type(attr) = "object" THEN Children(attr)
      ELSE {attr}

\* evcpe_attr_to_param_info_list.  On the next level of an object the flag of
\* its attributes is not looked at.
InfoList(attr, nextLevel) ==
  LET list[a \in Attrs] ==
        IF IsExtension(a) THEN {}
        ELSE Entries(a) \cup UNION {list[c] : c \in Below(a)}
  IN  IF ~nextLevel THEN list[attr]
      ELSE IF IsExtension(attr) THEN {}
      ELSE IF Type(attr) = "object" THEN Children(attr)
      ELSE {attr}

\* evcpe_attr_to_param_attr_list: only the attributes right below an object;
\* of a list it looks for an attribute with the name of the list itself.
AttrList(a) ==
  {c \in {a} \cup Below(a) :
     /\ Type(a) # "multiple" /\ ~IsExtension(a)
     /\ Type(c) = "simple" /\ ~IsExtension(c)}

\* The handlers: whether they answer with a response, and what it lists.
GetParameterValuesOk(path) == Found(path)
GetParameterValues(path) == ValueList(Located(path).attr)

GetParameterAttributesOk(path) ==
  /\ Found(path)
  /\ LET a == Located(path).attr
     IN  ~IsExtension(a) /\ Type(a) = "multiple" => Instances = {}
GetParameterAttributes(path) == AttrList(Located(path).attr)

\* An empty path is the root object, of which only the name is listed.
GetParameterNamesOk(path, nextLevel) ==
  LET p == IF path = <<NoPart>> THEN <<NoPart, NoPart>> ELSE path
  IN  Found(p) /\ (nextLevel => Type(Located(p).attr) # "simple")
GetParameterNames(path, nextLevel) ==
  IF path = <<NoPart>> THEN {RootAttr} ELSE InfoList(Located(path).attr, nextLevel)

-----------------------------------------------------------------------------
(***************************************************************************)
(* Changes.                                                                *)
(***************************************************************************)

Init ==
  /\ ListInit
  /\ value = [p \in Parameters \ {NumberAttr} |-> 0]
  /\ watched = AttrsOf(<<>>)
  /\ heard = {}
  /\ answer = NoAnswer

\* evcpe_repo_attr_cb, if it is the callback of attribute a.
Tell(a, path) == IF a \in watched THEN {path} ELSE {}

\* Faulty form of Watch: an added object is reported and nothing more.
WatchNot(i) == watched

\* evcpe_repo_attr_cb when the object in slot i was added.
Watch(i) == IF ListAttr \in watched THEN watched \cup InObject(i) ELSE watched

\* evcpe_handle_add_object and evcpe_repo_add_obj.
AddObject(path) ==
  /\ answer = NoAnswer
  /\ LET loc == Located(path)
         i == FirstFree(slots, Free)
         new == {a \in InObject(i) : Type(a) = "simple"}
     IN  IF loc.attr = ListAttr /\ loc.found /\ RoomFor(size)
           THEN /\ AddListObject
                /\ value' = [p \in DOMAIN value \cup new |->
                               IF p \in new THEN 0 ELSE value[p]]
                /\ watched' = Watch(i)
                /\ heard' = Tell(NumberAttr, NumberAttr)
                              \cup Tell(ListAttr, Instance(i))
                /\ answer' = Answer("ok", <<>>)
           ELSE /\ answer' = Answer("fault", <<>>)
                /\ heard' = {}
                /\ UNCHANGED <<listVars, value, watched>>

\* evcpe_attr_set, of the parameter at loc: the error of an attribute that
\* refuses the value is dropped.  Nothing asks whether it is writable.
Assigned(done, a, v) ==
  IF a \in Parameters /\ Accepts(v)
    THEN [done EXCEPT !.values = [@ EXCEPT ![a] = v], !.heard = @ \cup Tell(a, a)]
    ELSE done

\* Faulty form of SetOne: the next parameter is set although this one failed.
SetOneGoesOn(done, r) ==
  IF Located(r.path).found THEN Assigned(done, Located(r.path).attr, r.value)
  ELSE [done EXCEPT !.ok = FALSE]

\* evcpe_repo_set: only a path that leads nowhere is an error.
SetOne(done, r) ==
  IF ~done.ok THEN done
  ELSE IF Located(r.path).found THEN Assigned(done, Located(r.path).attr, r.value)
  ELSE [done EXCEPT !.ok = FALSE]

\* The loop of evcpe_handle_set_param_values.
SetAll(list) ==
  LET done[k \in 0..Len(list)] ==
        IF k = 0
          THEN [ok |-> TRUE, values |-> [p \in Parameters |-> Value(p)], heard |-> {}]
          ELSE SetOne(done[k - 1], list[k])
  IN  done[Len(list)]

\* evcpe_handle_set_param_values.
SetParameterValues(list) ==
  /\ answer = NoAnswer
  /\ LET done == SetAll(list)
     IN  /\ value' = [p \in DOMAIN value |-> done.values[p]]
         /\ number' = done.values[NumberAttr]
         /\ heard' = done.heard
         /\ answer' = Answer(IF done.ok THEN "ok" ELSE "fault", list)
  /\ UNCHANGED <<slots, size, made, peak, told, watched>>

\* The answer is sent; only then the ACS makes its next call.
Respond ==
  /\ answer # NoAnswer
  /\ answer' = NoAnswer
  /\ heard' = {}
  /\ UNCHANGED <<listVars, value, watched>>

\* evcpe_attr_del_obj.  Only the agent calls it, for its own lists.
DelObj(i) ==
  /\ answer = NoAnswer
  /\ DelListObject(i)
  /\ value' = [p \in DOMAIN value \ InObject(i) |-> value[p]]
  /\ watched' = watched \ InObject(i)
  /\ heard' = Tell(ListAttr, Instance(i))
  /\ UNCHANGED answer

\* Where the object that is in slot i after a reload was before it, and where
\* a parameter was.
Before(i) == CHOOSE j \in DOMAIN slots : slots[j].id = slots'[i].id

Former(p) ==
  IF p \in Fixed THEN p
  ELSE LET i == CHOOSE k \in DOMAIN slots' : p \in InObject(k)
       IN  Instance(Before(i)) \o After(p, Len(ListAttr) + 1)

\* The agent writes its data file and is started again; evcpe_repo_new sets
\* the callbacks of all attributes.
Reload ==
  /\ answer = NoAnswer
  /\ ReloadList
  /\ value' = [p \in (Parameters \ {NumberAttr})' |-> value[Former(p)]]
  /\ watched' = AttrsOf(<<>>)'
  /\ heard' = {}
  /\ UNCHANGED answer

Next ==
  \/ \E path \in Paths : AddObject(path)
  \/ \E list \in SetLists : SetParameterValues(list)
  \/ Respond
  \/ \E i \in DOMAIN slots : DelObj(i)
  \/ Reload

Spec == Init /\ [][Next]_vars

-----------------------------------------------------------------------------
(***************************************************************************)
(* What the repository promises.                                           *)
(***************************************************************************)

\* The values are those of the parameters in the tree, and every attribute in
\* it, and no other, has its callback.
TypeOK ==
  /\ ListTypeOK
  /\ value \in [Parameters \ {NumberAttr} -> 0..MaxValue]
  /\ watched = AttrsOf(<<>>)
  /\ answer.status \in {"none", "ok", "fault"}
  /\ answer.list \in SetLists \cup {<<>>}

\* Between two calls of the ACS the tree is what the last one left.
Idle == answer = NoAnswer

\* How a node of the tree is named in a message: an object, a list and an
\* object of a list end with a dot.
Named(node) ==
  IF node \in Parameters THEN node ELSE Append(node, NoPart)

\* The attributes of an object of the list are all right in it, and simple:
\* evcpe_repo_locate takes what follows an instance number for a simple
\* attribute, or for another instance number.
FlatList ==
  \A c \in InList : Len(c) = Len(ListAttr) + 1 /\ Schema[c] = "simple"

\* Whatever GetParameterNames lists can be used in the next call as it is: its
\* name locates the very attribute or object that was listed, whatever was
\* added, deleted and reloaded before, if FlatList holds of the data model.
ListedLocates ==
  Idle => \A path \in Paths, nextLevel \in BOOLEAN :
    GetParameterNamesOk(path, nextLevel) =>
      \A node \in GetParameterNames(path, nextLevel) :
        LET loc == Located(Named(node))
        IN  loc.found /\ node \in {loc.attr, loc.obj}

\* GetParameterNames of all levels and GetParameterValues agree: they know
\* the same paths and list the same parameters, and GetParameterAttributes,
\* where it answers, lists no others.
HandlersAgree ==
  Idle => \A path \in Paths \ {<<NoPart>>} :
    /\ GetParameterNamesOk(path, FALSE) <=> GetParameterValuesOk(path)
    /\ GetParameterValuesOk(path) =>
         GetParameterValues(path) = GetParameterNames(path, FALSE) \cap Parameters
    /\ GetParameterAttributesOk(path) =>
         GetParameterAttributes(path) \subseteq GetParameterValues(path)

\* Nothing changes unheard: of every value that changes, object that comes or
\* object that goes the listeners, and so the persister, are told in the same
\* step, for objects added later as well (but for a restart).
ChangesHeard ==
  [][ ~Reload =>
        LET before == Parameters
            after == Parameters'
            Told(p) == \E q \in heard' : IsPrefix(q, p)
        IN  /\ \A p \in before \cap after : Value(p)' # Value(p) => Told(p)
            /\ \A p \in (before \ after) \cup (after \ before) : Told(p) ]_vars

\* The first item of list whose path leads nowhere; past its end if none does.
FirstLost(list) ==
  LET lost == {k \in DOMAIN list : ~Located(list[k].path).found}
  IN  IF lost = {} THEN Len(list) + 1
      ELSE CHOOSE k \in lost : \A j \in lost : k <= j

\* SetParameterValues is not atomic but orderly.  Up to the first path that
\* leads nowhere each parameter has the last value it was given and accepts,
\* by whichever of its names; every other parameter is as it was; and the
\* answer is a fault exactly if there is such a path.
SetReadsBack ==
  [][ answer'.status # "none" /\ answer'.list # <<>> =>
        LET list == answer'.list
            Given(p) == {k \in 1..(FirstLost(list) - 1) :
                           /\ Located(list[k].path).attr = p
                           /\ Accepts(list[k].value)}
        IN  /\ answer'.status = "fault" <=> FirstLost(list) <= Len(list)
            /\ \A p \in Parameters :
                 Value(p)' = IF Given(p) = {} THEN Value(p)
                             ELSE list[Max(Given(p))].value ]_vars

=============================================================================
