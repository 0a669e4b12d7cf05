----------------------------- MODULE ModelFile ------------------------------
(***************************************************************************)
(* How the agent reads its data model: the callbacks of                    *)
(* evcpe_class_from_xml (class_xml.c), which build classes of attribute    *)
(* schemas (class.c, attr_schema.c), as functions of the parser.           *)
(*                                                                         *)
(* A schema is known by the order in which it was created; 0 stands for    *)
(* the root that <model> describes.  The class of an object or a list is   *)
(* known by its schema.  Symbols of getters and setters are found.         *)
(***************************************************************************)
EXTENDS Values, SequencesExt

Elements == {"model", "schema", "extension", "other"}

\* The attributes that fill a field of the schema, and the flags, where inform
\* stands for notification, getter and setter too: they may stand where it may.
Fields == {"name", "type", "constraint", "default", "number"}
Flags == {"write", "inform"}

\* A pointer that was never set.
Null == "NULL"

\* evcpe_class_add: a schema in the class of its owner.
NewSchema(owner) ==
  [owner |-> owner, name |-> Null, type |-> "unknown",
   constraint |-> NoConstraint, default |-> Null, number |-> Null]

\* evcpe_class_from_xml begins with an empty stack.
Reading == [status |-> "reading", stack |-> <<>>, schemas |-> <<>>]
Refused == [Reading EXCEPT !.status = "refused"]

\* The length of a name that was never set was asked for.
Undefined == [Reading EXCEPT !.status = "undefined"]

\* The attributes of the class of schema c.
Attributes(schemas, c) == {i \in DOMAIN schemas : schemas[i].owner = c}

\* The open element, and the type of its schema.
Top(r) == Last(r.stack)
TypeOf(r, c) == IF c = 0 THEN "object" ELSE r.schemas[c].type

Push(r, e, c) == [r EXCEPT !.stack = Append(@, [name |-> e, schema |-> c])]

\* evcpe_class_xml_elm_begin_cb.
Begin(r, e) ==
  CASE e = "model" /\ r.stack = <<>> -> Push(r, e, 0)
    [] /\ e \in {"schema", "extension"}
       /\ r.stack # <<>>
       /\ TypeOf(r, Top(r).schema) \in {"object", "multiple"} ->
         Push([r EXCEPT !.schemas = Append(@, NewSchema(Top(r).schema))],
              e, Len(r.schemas) + 1)
    [] OTHER -> Refused

\* evcpe_class_xml_elm_end_cb.  An extension is not asked for anything.
End(r, e) ==
  LET c == Top(r).schema
  IN  CASE r.stack = <<>> \/ Top(r).name # e -> Refused
        [] \/ e = "model" /\ Attributes(r.schemas, 0) = {}
           \/ /\ e = "schema"
              /\ \/ r.schemas[c].name = Null
                 \/ r.schemas[c].type = "unknown"
                 \/ /\ r.schemas[c].type \in {"object", "multiple"}
                    /\ Attributes(r.schemas, c) = {} -> Refused
        [] OTHER -> [r EXCEPT !.stack = Front(@)]

\* The field of the schema of the open element becomes value.
Set(r, field, value) == [r EXCEPT !.schemas[Top(r).schema][field] = value]

\* evcpe_class_find stops at the first schema that has the name, or at one that has
\* none; 0 if there is neither.
Found(r, name) ==
  LET siblings == Attributes(r.schemas, r.schemas[Top(r).schema].owner)
      stops == {i \in siblings : r.schemas[i].name \in {name, Null}}
  IN  IF stops = {} THEN 0 ELSE Min(stops)

\* Faulty form of Refer: the type of the attribute is not looked at.
ReferAny(r, field, name, value) ==
  LET i == Found(r, name)
  IN  CASE i = 0 -> Refused
        [] r.schemas[i].name = Null -> Undefined
        [] OTHER -> Set(r, field, value)

\* The field refers to an attribute of the same class, which is the number of
\* objects or their limit.
Refer(r, field, name, value) ==
  LET i == Found(r, name)
  IN  CASE i = 0 -> Refused
        [] r.schemas[i].name = Null -> Undefined
        [] r.schemas[i].type # "unsignedInt" -> Refused
        [] OTHER -> Set(r, field, value)

\* The constraint attribute, by the type that was given before it.
Constrain(r, text) ==
  LET type == TypeOf(r, Top(r).schema)
  IN  CASE type \in {"string", "base64"} /\ text \in DOMAIN Number ->
             IF Number[text] < 0 THEN Refused
             ELSE Set(r, "constraint", SizeConstraint)
        [] type = "string" -> Set(r, "constraint", EnumConstraint)
        [] type \in {"int", "unsignedInt"} /\ text \in DOMAIN Bounds ->
             Set(r, "constraint", RangeConstraint(text))
        [] type = "multiple" -> Refer(r, "constraint", text, AttrConstraint(text))
        [] OTHER -> Refused

\* The default attribute, by the type and the constraint so far.  A date other
\* than "auto" is refused or forgotten, as an uninitialised variable has it.
Default(r, text) ==
  LET c == Top(r).schema
  IN  CASE TypeOf(r, c) = "dateTime" ->
             IF text = "auto" THEN {Set(r, "default", text)} ELSE {Refused, r}
        [] c # 0 /\ Validates(r.schemas[c].type, text, r.schemas[c].constraint) ->
             {Set(r, "default", text)}
        [] OTHER -> {Refused}

\* A flag changes nothing that matters here.
FlagFits(r, flag) ==
  /\ Top(r).name = "schema"
  /\ TypeOf(r, Top(r).schema) \notin
       (IF flag = "write" THEN {"object"} ELSE {"object", "multiple"})

\* evcpe_class_xml_attr_cb: the parsers it may leave.
Attribute(r, attr, text) ==
  CASE attr = "name" ->
         {IF Top(r).name = "model" THEN Refused ELSE Set(r, "name", text)}
    [] attr = "type" ->
         {IF Top(r).name = "model" \/ text \notin Types THEN Refused
          ELSE Set(r, "type", text)}
    [] attr = "constraint" -> {Constrain(r, text)}
    [] attr = "default" -> Default(r, text)
    [] attr = "number" ->
         {IF TypeOf(r, Top(r).schema) = "multiple"
            THEN Refer(r, "number", text, text) ELSE Refused}
    [] attr \in Flags -> {IF FlagFits(r, attr) THEN r ELSE Refused}
    [] OTHER -> {Refused}

=============================================================================
