----------------------------- MODULE ObjectTree -----------------------------
(***************************************************************************)
(* The tree of objects that is made from a model (obj.c, attr.c), how it   *)
(* is written to the data file (obj_xml.c, attr_xml.c) and how the file is *)
(* read back: the callbacks of evcpe_obj_from_xml, as functions of the     *)
(* parser.                                                                 *)
(*                                                                         *)
(* The path of an object or attribute is the sequence of the steps to it:  *)
(* the name of an attribute, or the number of an object in its list.  The  *)
(* file is the sequence of the callbacks that parsexml makes of it.  No    *)
(* attribute has the name of an element of the data file, no path is too   *)
(* long, memory does not run out, and there are no getters and setters.    *)
(***************************************************************************)
EXTENDS ModelFile, Slots

\* Names of the data file.
Reserved == {"Value", "Notification", "AccessList", "string"}

-----------------------------------------------------------------------------
(***************************************************************************)
(* The tree.                                                               *)
(***************************************************************************)

\* rc: how the last function ended; attr: the schema of each attribute there
\* is; param: the parameters; list: the lists, with a limit and their slots.
EmptyTree == [rc |-> "ok", attr |-> <<>>, param |-> <<>>, list |-> <<>>]

Fails(t, rc) == [t EXCEPT !.rc = rc]

NewParam == [value |-> Null, notification |-> 0, access |-> <<>>]

\* The path of attribute name of obj, and of the i-th object of list p.
Attr(obj, name) == Append(obj, <<name, 0>>)
Object(p, i) == Append(p, <<Null, i>>)

\* f with v at p.
Put(f, p, v) == [q \in DOMAIN f \cup {p} |-> IF q = p THEN v ELSE f[q]]

\* The slots that hold an object.
Taken(list) == Live(list.slots, FALSE)

\* evcpe_attr_set, as far as it is about the value.
AttrSet(s, t, p, text) ==
  LET a == s[t.attr[p]]
  IN  IF p \in DOMAIN t.param /\ Validates(a.type, text, a.constraint)
        THEN [t EXCEPT !.param[p].value = text]
        ELSE Fails(t, "fault")

\* evcpe_obj_set_int.
SetInt(s, t, obj, name, n) ==
  LET p == Attr(obj, name)
  IN  IF p \in DOMAIN t.attr THEN AttrSet(s, t, p, TextOf(n))
      ELSE Fails(t, "fault")

\* The ...NumberOfEntries attribute of list i in obj, if it has one, is set.
Count(s, t, obj, i, n) ==
  IF s[i].number = Null THEN t ELSE SetInt(s, t, obj, s[i].number, n)

\* What follows the first n steps of a path.
After(p, n) == SubSeq(p, n + 1, Len(p))

\* Tree t with the tree of a new object put in at path obj, made or half made.
Graft(t, obj, inside) ==
  LET With(f, g) ==
        [p \in DOMAIN f \cup {obj \o q : q \in DOMAIN g} |->
           IF p \in DOMAIN f THEN f[p] ELSE g[After(p, Len(obj))]]
  IN  [rc |-> inside.rc, attr |-> With(t.attr, inside.attr),
       param |-> With(t.param, inside.param), list |-> With(t.list, inside.list)]

(***************************************************************************)
(* A new object of a class is a tree of its own, in which that object is   *)
(* the root.  The operators below are about the attribute that schema i    *)
(* makes in it; inside is a new object of the class of schema i.           *)
(***************************************************************************)

\* The limit that evcpe_attr_init takes from the constraint of a list: none,
\* if the attribute has no value; one that is negative is huge.
Limit(s, t, i) ==
  LET value == t.param[Attr(<<>>, s[i].constraint.attr)].value
  IN  IF s[i].constraint.kind = "none" \/ value = Null \/ Number[value] < 0
        THEN 0 ELSE Number[value]

\* Faulty form of ListInit: no object is made to try.
ListInitUntried(s, t, i, inside) ==
  LET p == Attr(<<>>, s[i].name)
      list == [limit |-> Limit(s, t, i), slots |-> <<>>]
  IN  IF /\ s[i].constraint.kind = "attr"
         /\ Attr(<<>>, s[i].constraint.attr) \notin DOMAIN t.param
        THEN Fails(t, "fault")
        ELSE [Count(s, t, <<>>, i, 0) EXCEPT !.attr = Put(@, p, i),
                                             !.list = Put(@, p, list)]

\* A list is empty; an object of its class is made to try, and thrown away.
ListInit(s, t, i, inside) ==
  LET p == Attr(<<>>, s[i].name)
      list == [limit |-> Limit(s, t, i), slots |-> <<>>]
      counted == [Count(s, t, <<>>, i, 0) EXCEPT !.attr = Put(@, p, i),
                                                 !.list = Put(@, p, list)]
  IN  IF /\ s[i].constraint.kind = "attr"
         /\ Attr(<<>>, s[i].constraint.attr) \notin DOMAIN t.param
        THEN Fails(t, "fault")
        ELSE IF counted.rc # "ok" THEN counted ELSE Fails(counted, inside.rc)

\* A parameter has the default of the model, if that is valid.
ParamInit(s, t, i) ==
  LET p == Attr(<<>>, s[i].name)
      made == [t EXCEPT !.attr = Put(@, p, i), !.param = Put(@, p, NewParam)]
  IN  IF s[i].default = Null THEN made ELSE AttrSet(s, made, p, s[i].default)

\* One turn of the loop in evcpe_obj_init, with evcpe_attr_init.
AttrInit(s, t, i, inside) ==
  LET p == Attr(<<>>, s[i].name)
  IN  IF t.rc # "ok" THEN t
      ELSE IF s[i].name = Null THEN Fails(t, "undefined")
      ELSE IF p \in DOMAIN t.attr THEN Fails(t, "fault")
      ELSE CASE s[i].type = "multiple" -> ListInit(s, t, i, inside)
             [] s[i].type = "object" ->
                  Graft([t EXCEPT !.attr = Put(@, p, i)], p, inside)
             [] OTHER -> ParamInit(s, t, i)

\* evcpe_obj_init: the attributes of class c in the order of the model, where
\* made has the objects of the classes inside.
ObjInit(s, c, made) ==
  LET upto[i \in 0..Len(s)] ==
        IF i = 0 THEN EmptyTree
        ELSE IF s[i].owner = c THEN AttrInit(s, upto[i - 1], i, made[i])
        ELSE upto[i - 1]
  IN  upto[Len(s)]

\* A new object of each class; the classes inside of a class come after it.
NewObject(s) == LET made[c \in 0..Len(s)] == ObjInit(s, c, made) IN made

-----------------------------------------------------------------------------
(***************************************************************************)
(* Adding and deleting objects.                                            *)
(***************************************************************************)

\* The object that evcpe_attr_add_obj makes.
NextObject(t, p) == Object(p, FirstFree(t.list[p].slots, FALSE))

\* evcpe_attr_add_obj: the first empty slot is filled, or a new one.
AddObj(s, t, p) ==
  LET list == t.list[p]
      i == FirstFree(list.slots, FALSE)
      made == Graft([t EXCEPT !.list[p].slots = Fill(@, i, TRUE)], Object(p, i),
                    NewObject(s)[t.attr[p]])
  IN  IF list.limit # 0 /\ Cardinality(Taken(list)) >= list.limit
        THEN Fails(t, "full")
      ELSE IF made.rc # "ok" THEN made
      ELSE Count(s, made, Front(p), t.attr[p], Cardinality(Taken(list)) + 1)

Without(f, obj) == Restrict(f, {p \in DOMAIN f : ~IsPrefix(obj, p)})

\* Faulty form of DelObj: the object is taken out of the list and not freed.
DelObjKept(t, p, i) == [t EXCEPT !.list[p].slots = Clear(@, i, FALSE)]

\* evcpe_attr_del_obj, with evcpe_obj_free.
DelObj(t, p, i) ==
  LET obj == Object(p, i)
      cleared == [t EXCEPT !.list[p].slots = Clear(@, i, FALSE)]
  IN  [cleared EXCEPT !.list = Without(@, obj), !.attr = Without(@, obj),
                      !.param = Without(@, obj)]

-----------------------------------------------------------------------------
(***************************************************************************)
(* Writing.                                                                *)
(***************************************************************************)

BeginOf(name) == [kind |-> "begin", text |-> name]
TextIs(text) == [kind |-> "text", text |-> text]
EndOf(name) == [kind |-> "end", text |-> name]

Leaf(name, text) == <<BeginOf(name), TextIs(text), EndOf(name)>>

\* An element with other elements; without any it has an empty text.
Element(name, content) ==
  <<BeginOf(name)>>
    \o (IF content = <<>> THEN <<TextIs("")>> ELSE content)
    \o <<EndOf(name)>>

\* A parameter, unless all of it is as it was made.
WriteParam(name, param) ==
  IF param = NewParam THEN <<>>
  ELSE Element(name,
         (IF param.value = Null THEN <<>> ELSE Leaf("Value", param.value))
           \o (IF param.notification = 0 THEN <<>>
               ELSE Leaf("Notification", TextOf(param.notification)))
           \o (IF param.access = <<>> THEN <<>>
               ELSE Element("AccessList",
                      FlattenSeq([k \in DOMAIN param.access |->
                                    Leaf("string", param.access[k])]))))

\* The loop of evcpe_attr_obj_to_xml over the attributes of class c, in the
\* order of the model; text has what each attribute is written as.
ObjText(s, obj, c, text) ==
  FlattenSeq([i \in DOMAIN s |->
                IF s[i].owner = c THEN text[Attr(obj, s[i].name)] ELSE <<>>])

\* Faulty form of WriteAttr: the first empty slot of a list ends it.
WriteAttrStops(s, t, p, text) ==
  LET i == t.attr[p]
      name == s[i].name
  IN  CASE s[i].type = "object" -> Element(name, ObjText(s, p, i, text))
        [] s[i].type = "multiple" ->
             FlattenSeq([k \in DOMAIN t.list[p].slots |->
                           IF \E j \in 1..k : ~t.list[p].slots[j] THEN <<>>
                           ELSE Element(name, ObjText(s, Object(p, k), i, text))])
        [] OTHER -> WriteParam(name, t.param[p])

\* evcpe_attr_to_xml: empty slots of a list are left out.
WriteAttr(s, t, p, text) ==
  LET i == t.attr[p]
      name == s[i].name
  IN  CASE s[i].type = "object" -> Element(name, ObjText(s, p, i, text))
        [] s[i].type = "multiple" ->
             FlattenSeq([k \in DOMAIN t.list[p].slots |->
                           IF ~t.list[p].slots[k] THEN <<>>
                           ELSE Element(name, ObjText(s, Object(p, k), i, text))])
        [] OTHER -> WriteParam(name, t.param[p])

\* The attribute at the root of the red-black tree of the root object: of two
\* it is the first.  A model has at most two here.
RootSchema(s) ==
  CHOOSE i \in DOMAIN s :
    s[i].owner = 0 /\ \A j \in DOMAIN s : s[j].owner = 0 => i <= j

\* evcpe_obj_to_xml writes that attribute and no other.
Written(s, t) ==
  LET text[p \in DOMAIN t.attr] == WriteAttr(s, t, p, text)
  IN  text[Attr(<<>>, s[RootSchema(s)].name)]

-----------------------------------------------------------------------------
(***************************************************************************)
(* Reading.                                                                *)
(***************************************************************************)

\* What the parser hands over of a text that begins with white space has lost
\* as much at its end.
Delivered(text) == CASE text = " x" -> " " [] text = " " -> "" [] OTHER -> text

\* The parser begins with the tree that was just made.
Loading(t) == [stack |-> <<>>, tree |-> t]

Wrong(r) == [r EXCEPT !.tree.rc = "fault"]

\* The name of the n-th open element, from the innermost.
Open(r, n) ==
  IF n <= Len(r.stack) THEN r.stack[Len(r.stack) + 1 - n].name ELSE "none"

\* Faulty form of LoadBegin: a parameter loses its default when its element
\* begins.
LoadBeginReset(s, r, name) ==
  LET obj == IF r.stack = <<>> THEN <<>> ELSE Last(r.stack).obj
      p == Attr(obj, name)
      enter(o, t) == [stack |-> Append(r.stack, [name |-> name, obj |-> o]),
                      tree |-> t]
      i == r.tree.attr[p]
  IN  IF name \in Reserved
        THEN IF name = "string" /\ Open(r, 1) # "AccessList"
               THEN Wrong(r) ELSE enter(obj, r.tree)
      ELSE IF p \notin DOMAIN r.tree.attr THEN Wrong(r)
      ELSE CASE s[i].type = "object" -> enter(p, r.tree)
             [] s[i].type = "multiple" ->
                  enter(NextObject(r.tree, p), AddObj(s, r.tree, p))
             [] OTHER -> enter(obj, [r.tree EXCEPT !.param[p].value = Null])

\* evcpe_obj_xml_elm_begin_cb.
LoadBegin(s, r, name) ==
  LET obj == IF r.stack = <<>> THEN <<>> ELSE Last(r.stack).obj
      p == Attr(obj, name)
      enter(o, t) == [stack |-> Append(r.stack, [name |-> name, obj |-> o]),
                      tree |-> t]
      i == r.tree.attr[p]
  IN  IF name \in Reserved
        THEN IF name = "string" /\ Open(r, 1) # "AccessList"
               THEN Wrong(r) ELSE enter(obj, r.tree)
      ELSE IF p \notin DOMAIN r.tree.attr THEN Wrong(r)
      ELSE CASE s[i].type = "object" -> enter(p, r.tree)
             [] s[i].type = "multiple" ->
                  enter(NextObject(r.tree, p), AddObj(s, r.tree, p))
             [] OTHER -> enter(obj, r.tree)

\* evcpe_obj_xml_data_cb.
LoadText(s, r, text) ==
  LET obj == Last(r.stack).obj
      p == Attr(obj, Open(r, 2))
      q == Attr(obj, Open(r, 3))
  IN  IF Len(r.stack) < 2 THEN Wrong(r)
      ELSE CASE Open(r, 1) = "Value" ->
                  IF p \in DOMAIN r.tree.attr
                    THEN [r EXCEPT !.tree = AttrSet(s, @, p, text)] ELSE Wrong(r)
             [] Open(r, 1) = "Notification" ->
                  IF /\ p \in DOMAIN r.tree.param
                     /\ text \in DOMAIN Number /\ Number[text] \in 0..2
                    THEN [r EXCEPT !.tree.param[p].notification = Number[text]]
                    ELSE Wrong(r)
             [] Open(r, 1) = "string" ->
                  IF q \in DOMAIN r.tree.param
                    THEN [r EXCEPT !.tree.param[q].access = Append(@, text)]
                    ELSE Wrong(r)
             [] OTHER -> IF text = "" THEN r ELSE Wrong(r)

\* One callback; after an error the parser stops.  Markup in a text makes an
\* element of it.
Take(s, r, event) ==
  IF r.tree.rc # "ok" THEN r
  ELSE CASE event.kind = "begin" -> LoadBegin(s, r, event.text)
         [] event.kind = "text" ->
              IF event.text = "<" THEN Wrong(r)
              ELSE LoadText(s, r, Delivered(event.text))
         [] OTHER ->
              IF Open(r, 1) = event.text THEN [r EXCEPT !.stack = Front(@)]
              ELSE Wrong(r)

\* evcpe_obj_from_xml on a new tree.  Elements that are open at the end of the
\* file are logged and forgotten.
Read(s, file) ==
  LET upto[k \in 0..Len(file)] ==
        IF k = 0 THEN Loading(NewObject(s)[0]) ELSE Take(s, upto[k - 1], file[k])
  IN  upto[Len(file)].tree

=============================================================================
