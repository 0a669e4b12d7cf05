------------------------------ MODULE DataModel -------------------------------
(***************************************************************************)
(* What main (evcpe.c) does with the two files it is given: it reads the   *)
(* model (ModelFile), makes the tree of objects and reads the data file    *)
(* into it (ObjectTree); the running agent changes the tree and writes the *)
(* data file again; and the next process starts from both files.           *)
(*                                                                         *)
(* The model file is any document, element by element and attribute by     *)
(* attribute; in one tag an attribute stands once, as XML has it.          *)
(***************************************************************************)
EXTENDS ObjectTree

CONSTANTS
  Inputs,       \* attributes of elements in the model file: <<name, text>>
  Texts,        \* values that are set
  MaxSchemas,   \* bound: schemas in the model
  MaxRoots,     \* bound: attributes of the root object, which has one
  MaxChanges,   \* bound: changes of the tree and restarts
  Boots(_)      \* bound: whether the agent is started with this model

ASSUME DataModelAssumption ==
  /\ Inputs \subseteq STRING \X STRING
  /\ {i[2] : i \in {j \in Inputs : j[1] = "name"}} \cap (Reserved \cup {Null}) = {}
  /\ MaxSchemas \in Nat /\ MaxRoots \in 0..2 /\ MaxChanges \in Nat
  /\ 0..(MaxChanges + 3) \subseteq {Number[t] : t \in DOMAIN Number}

VARIABLES
  process,   \* "model", "running", "stopped": main returned, or "undefined"
  reader,    \* the parser of the model file
  given,     \* fields given in the tag that is open
  orderly,   \* history: no default came before its constraint, and no extension
             \* ended without a name or a type
  tree,      \* the tree of objects
  dataFile,  \* the data file
  changes    \* changes of the tree and restarts so far

dataModelVars == <<process, reader, given, orderly, tree, dataFile, changes>>
treeVars == <<tree, dataFile, changes>>

Schemas == reader.schemas

-----------------------------------------------------------------------------

DataModelInit ==
  /\ process = "model"
  /\ reader = Reading
  /\ given = Fields
  /\ orderly = TRUE
  /\ tree = EmptyTree
  /\ dataFile = <<>>
  /\ changes = 0

\* <e, for the name is not complete before its attributes are.
BeginElement(e) ==
  /\ process = "model" /\ reader.status = "reading"
  /\ e \in {"schema", "extension"} =>
       /\ Len(Schemas) < MaxSchemas
       /\ Len(reader.stack) = 1 => Cardinality(Attributes(Schemas, 0)) < MaxRoots
  /\ reader' = Begin(reader, e)
  /\ given' = {}
  /\ UNCHANGED <<process, orderly, treeVars>>

\* An attribute of the element that was just begun.  (No schema has a default
\* and a number, so not all fields are given before the tag ends.)
GiveAttribute(attr, text) ==
  /\ process = "model" /\ reader.status = "reading"
  /\ given # Fields /\ attr \notin given
  /\ reader' \in Attribute(reader, attr, text)
  /\ given' = given \cup ({attr} \cap Fields)
  /\ orderly' = (orderly /\ ~(attr = "constraint" /\ "default" \in given))
  /\ UNCHANGED <<process, treeVars>>

\* The schema of the open element has no name or no type.
Unfinished(r) ==
  /\ r.stack # <<>> /\ Top(r).schema # 0
  /\ LET s == r.schemas[Top(r).schema] IN s.name = Null \/ s.type = "unknown"

\* </e> or />.  From then on no attribute is given to the schema before.
EndElement(e) ==
  /\ process = "model" /\ reader.status = "reading"
  /\ reader' = End(reader, e)
  /\ given' = Fields
  /\ orderly' = (orderly /\ ~(e = "extension" /\ Unfinished(reader)))
  /\ UNCHANGED <<process, treeVars>>

\* The file ends.  Elements that are open are logged and forgotten; in the
\* middle of a tag, or after a text, it is an error.
FinishModel ==
  /\ process = "model" /\ reader.status = "reading"
  /\ reader' \in {[reader EXCEPT !.status = "accepted"], Refused}
  /\ UNCHANGED <<process, given, orderly, treeVars>>

\* The process ends with an error, or goes on with tree t: in an empty one
\* evcpe_set does not find the URL of the ACS.
StartWith(t) ==
  /\ tree' = t
  /\ process' = CASE t.rc = "undefined" -> "undefined"
                [] t.rc = "ok" /\ DOMAIN t.attr # {} -> "running"
                [] OTHER -> "stopped"

\* Data files as the agent may be delivered with: one parameter of the tree has
\* a notification and an entity in its access list, or a list has two objects.
Delivery(t) ==
  {t} \cup {[t EXCEPT !.param[p].notification = 2, !.param[p].access = <<"text">>] :
              p \in DOMAIN t.param}
      \cup {u \in {AddObj(Schemas, AddObj(Schemas, t, p), p) : p \in DOMAIN t.list} :
              u.rc = "ok"}

\* main with the model and the data file it is delivered with.
FirstStart ==
  /\ process = "model" /\ reader.status = "accepted" /\ Boots(reader)
  /\ LET made == NewObject(Schemas)[0]
     IN  IF made.rc # "ok" \/ Schemas = <<>>
           THEN StartWith(made) /\ UNCHANGED dataFile
           ELSE \E t \in Delivery(made) :
                  /\ dataFile' = Written(Schemas, t)
                  /\ StartWith(Read(Schemas, dataFile'))
  /\ UNCHANGED <<reader, given, orderly, changes>>

\* A change of the tree; a function that fails leaves what it has done.
ChangeTo(t) ==
  /\ process = "running" /\ changes < MaxChanges
  /\ tree' = [t EXCEPT !.rc = "ok"]
  /\ changes' = changes + 1
  /\ UNCHANGED <<process, reader, given, orderly, dataFile>>

SetValue(p, text) == ChangeTo(AttrSet(Schemas, tree, p, text))
AddObject(p) == ChangeTo(AddObj(Schemas, tree, p))
DeleteObject(p, i) == i \in Taken(tree.list[p]) /\ ChangeTo(DelObj(tree, p, i))

\* The data file is written, the process ends and the next one starts.
Restart ==
  /\ process = "running" /\ changes < MaxChanges
  /\ dataFile' = Written(Schemas, tree)
  /\ StartWith(Read(Schemas, dataFile'))
  /\ changes' = changes + 1
  /\ UNCHANGED <<reader, given, orderly>>

\* The same, but the process ended before the file was complete.  A file cut
\* inside of a tag or a text is refused.
RestartCut ==
  /\ process = "running" /\ changes < MaxChanges
  /\ \E n \in 0..(Len(Written(Schemas, tree)) - 1) :
       dataFile' = SubSeq(Written(Schemas, tree), 1, n)
  /\ StartWith(Read(Schemas, dataFile'))
  /\ changes' = changes + 1
  /\ UNCHANGED <<reader, given, orderly>>

DataModelNext ==
  \/ \E e \in Elements : BeginElement(e) \/ EndElement(e)
  \/ \E i \in Inputs : GiveAttribute(i[1], i[2])
  \/ FinishModel
  \/ FirstStart
  \/ \E p \in DOMAIN tree.param, text \in Texts : SetValue(p, text)
  \/ \E p \in DOMAIN tree.list :
       \/ AddObject(p)
       \/ \E i \in DOMAIN tree.list[p].slots : DeleteObject(p, i)
  \/ Restart
  \/ RestartCut

DataModelSpec == DataModelInit /\ [][DataModelNext]_dataModelVars

-----------------------------------------------------------------------------
(***************************************************************************)
(* What should hold.                                                       *)
(***************************************************************************)

\* Paths of the objects of the tree, with the schemas of their classes: the
\* root, the objects of attributes and the objects in lists.
Objects ==
  {<<<<>>, 0>>}
    \cup {<<p, tree.attr[p]>> :
            p \in {p \in DOMAIN tree.attr : Schemas[tree.attr[p]].type = "object"}}
    \cup UNION {{<<Object(p, i), tree.attr[p]>> : i \in Taken(tree.list[p])} :
                  p \in DOMAIN tree.list}

\* The tree is what the model says, whatever was added, deleted, saved and
\* read: each object has the attributes of its class and no other, lists are
\* the multiple ones and parameters the simple ones (evcpe_obj_init,
\* evcpe_attr_init, evcpe_attr_add_obj, evcpe_obj_free).
TreeFitsModel ==
  process = "running" =>
    /\ DOMAIN tree.attr =
         UNION {{Attr(o[1], Schemas[i].name) :
                   i \in {i \in DOMAIN Schemas : Schemas[i].owner = o[2]}} : o \in Objects}
    /\ DOMAIN tree.list =
         {p \in DOMAIN tree.attr : Schemas[tree.attr[p]].type = "multiple"}
    /\ DOMAIN tree.param =
         {p \in DOMAIN tree.attr :
            Schemas[tree.attr[p]].type \notin {"object", "multiple"}}

\* What evcpe_class_from_xml could have looked at and does not: every element is
\* closed, no default stands before its constraint, extensions have names and
\* types, names differ, no date has the default "auto", which the tree does not
\* take, and what counts objects is not constrained.
Careful ==
  /\ reader.stack = <<>>
  /\ orderly
  /\ Schemas # <<>>
  /\ \A i \in DOMAIN Schemas :
       LET s == Schemas[i]
           siblings == Attributes(Schemas, s.owner)
       IN  /\ \A j \in siblings \ {i} : Schemas[j].name # s.name
           /\ s.type = "dateTime" => s.default = Null
           /\ \A j \in siblings : s.name = Schemas[j].number => s.constraint = NoConstraint

\* The file can be read: no value has markup, and the root object, if it is
\* written, has something in it (evcpe_obj_xml_data_cb wants a parent).
Readable(f) ==
  LET root == Schemas[RootSchema(Schemas)].name
  IN  /\ TextIs("<") \notin ToSet(f)
      /\ \A k \in DOMAIN f : f[k] = BeginOf(root) => f[k + 1] # TextIs("")

\* A model that is accepted and careful makes a tree: what evcpe_class_from_xml
\* let pass, evcpe_obj_init and evcpe_attr_init do not refuse.
CarefulIsMade ==
  reader.status = "accepted" /\ Careful => NewObject(Schemas)[0].rc = "ok"

\* The agent starts with such a model, and with the data file it is delivered
\* with, if that can be read (evcpe_obj_from_xml).
AcceptedBoots == [][FirstStart /\ Careful /\ Readable(dataFile') => process' = "running"]_dataModelVars

\* After boot, the only reason not to add an object to a list is that it is
\* full or that its number is refused by the constraint on it: that its class
\* can be made was tried when the list was made (evcpe_attr_init).
ObjectsCanBeMade ==
  process = "running" =>
    \A p \in DOMAIN tree.list :
      LET s == Schemas[tree.attr[p]]
          size == Cardinality(Taken(tree.list[p]))
      IN  \/ AddObj(Schemas, tree, p).rc \in {"ok", "full"}
          \/ /\ s.number # Null
             /\ SetInt(Schemas, tree, Front(p), s.number, size + 1).rc # "ok"

\* The path of a parameter after its lists have been written without their
\* empty slots and read again.
Renumbered(p) ==
  [k \in DOMAIN p |->
     LET list == SubSeq(p, 1, k - 1)
     IN  IF list \notin DOMAIN tree.list THEN p[k]
         ELSE <<Null, Rank(Taken(tree.list[list]), p[k][2])>>]

\* The parameters that are written, but for those that count objects.
Saved ==
  {p \in DOMAIN tree.param :
     /\ p[1][1] = Schemas[RootSchema(Schemas)].name
     /\ \A i \in DOMAIN Schemas :
          Schemas[i].owner = Schemas[tree.attr[p]].owner => Schemas[i].number # Last(p)[1]}

\* What is read of a parameter.
AsRead(param) == [param EXCEPT !.value = Delivered(@)]

\* What was saved comes back after a restart: each parameter with its value,
\* notification and access list, at the path it has when its lists are
\* renumbered (evcpe_obj_to_xml, evcpe_obj_from_xml).
RestartKeeps ==
  [][Restart /\ Careful /\ Readable(dataFile') =>
       /\ process' = "running"
       /\ \A p \in Saved :
            /\ Renumbered(p) \in DOMAIN tree'.param
            /\ tree'.param[Renumbered(p)] = AsRead(tree.param[p])]_dataModelVars

\* A data file that was cut stops the agent or gives, of each parameter, either
\* what was saved or what the model says; nothing else, and nothing undefined.
CutIsPart ==
  [][RestartCut /\ Careful /\ Readable(Written(Schemas, tree)) =>
       /\ process' # "undefined"
       /\ process' = "running" =>
            \A p \in Saved :
              Renumbered(p) \in DOMAIN tree'.param =>
                LET was == AsRead(tree.param[p])
                    is == tree'.param[Renumbered(p)]
                    default == Schemas[tree.attr[p]].default
                IN  /\ is.value \in {was.value, default}
                    /\ is.notification \in {was.notification, 0}
                    /\ IsPrefix(is.access, was.access)]_dataModelVars

=============================================================================
