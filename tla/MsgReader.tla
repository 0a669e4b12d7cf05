----------------------------- MODULE MsgReader ------------------------------
(***************************************************************************)
(* How the agent reads a message of the ACS: the callbacks of              *)
(* evcpe_msg_from_xml (msg_xml.c), called by parsexml (minixml.c) as it    *)
(* passes through the document.                                            *)
(*                                                                         *)
(* The ACS writes any document, element by element.  Of a namespace only   *)
(* matters whether its prefix was declared before ("known"; a child        *)
(* without prefix has that of its parent), is declared by the element      *)
(* itself ("new"), though it was declared before ("again"), or never       *)
(* ("unknown").  A text is a member of a small set: "long" stands for all  *)
(* that do not fit their field, "padded" for the ones that begin with      *)
(* white space.  Of what a message holds the model keeps the kind, whether *)
(* there is an ID, and the list of parameters.                             *)
(***************************************************************************)
EXTENDS Integers, Sequences, SequencesExt

CONSTANTS
  ListTexts,   \* texts of Name, Value and string elements
  MaxDepth,    \* open elements: unknown ones and Faults can nest for ever
  MaxItems     \* parameters in a message

Texts == {"", "0", "1", "2", "text", "long", "padded", "CWMP fault"}

\* parseelt skips the white space before a text and does not count it, but
\* hands over the text from where the white space begins: its end is cut off.
Delivered(t) == IF t = "padded" THEN "cut" ELSE t
Received == {Delivered(t) : t \in Texts}

ASSUME MsgReaderAssumption ==
  ListTexts \subseteq Texts /\ MaxItems \in Nat /\ MaxDepth \in Nat

VARIABLES
  reader,   \* the parser, and the message it fills
  meant,    \* history: the parameters as the document says them
  struct,   \* history: the structure the document is in
  parts,    \* history: Header and Body, as far as they were read
  plain     \* history: each structure began with its Name, no text with space

vars == <<reader, meant, struct, parts, plain>>

-----------------------------------------------------------------------------
(***************************************************************************)
(* Elements.                                                               *)
(***************************************************************************)

\* The elements that are calls, and the ones that are answers, with the
\* method they answer.
Requests == {"GetRPCMethods", "GetParameterNames", "GetParameterValues",
             "SetParameterValues", "GetParameterAttributes",
             "SetParameterAttributes", "AddObject", "DeleteObject"}
Responses == [InformResponse |-> "Inform", GetRPCMethodsResponse |-> "GetRPCMethods"]

Structs == {"ParameterValueStruct", "SetParameterAttributesStruct"}

\* Where an element may stand: pairs of an element and its parent.
Places ==
  {<<"Envelope", "none">>} \cup
  {"Header", "Body"} \X {"Envelope"} \cup
  {"ID", "HoldRequests", "NoMoreRequests"} \X {"Header"} \cup
  (Requests \cup DOMAIN Responses) \X {"Body"} \cup
  {"Fault"} \X {"Body", "detail"} \cup
  {"faultcode", "faultstring", "FaultCode", "FaultString", "detail"} \X {"Fault"} \cup
  {"ParameterPath", "NextLevel"} \X {"GetParameterNames"} \cup
  {"ParameterNames"} \X {"GetParameterValues", "GetParameterAttributes"} \cup
  {"string"} \X {"ParameterNames", "AccessList", "MethodList"} \cup
  {"ParameterList"} \X {"SetParameterValues", "SetParameterAttributes"} \cup
  Structs \X {"ParameterList"} \cup
  {"Name"} \X Structs \cup
  {"Value"} \X {"ParameterValueStruct"} \cup
  {"NotificationChange", "Notification", "AccessListChange", "AccessList"} \X
    {"SetParameterAttributesStruct"} \cup
  {"MethodList"} \X {"GetRPCMethodsResponse"} \cup
  {"MaxEnvelopes"} \X {"InformResponse"} \cup
  {"ObjectName", "ParameterKey"} \X {"AddObject", "DeleteObject"}

Elements == {place[1] : place \in Places} \cup {"Other"}

\* An element that the reader does not know may stand in all but these.
Fits(e, parent) ==
  \/ <<e, parent>> \in Places
  \/ e = "Other" /\ parent \notin {"none", "GetRPCMethods"}

\* The texts that evcpe_msg_xml_data_cb and the lists accept for an element.
\* An element without a field may only be empty.
AcceptedTexts(e, parent) ==
  CASE e \in {"ID", "faultcode", "Value", "AccessList"} -> Received
    [] e \in {"HoldRequests", "NoMoreRequests", "NotificationChange",
              "AccessListChange"} -> {"0", "1"}
    [] e \in {"Notification", "NextLevel", "FaultCode"} -> {"0", "1", "2"}
    [] e = "MaxEnvelopes" -> {"1"}
    [] e = "faultstring" -> {"CWMP fault"}
    [] e = "Name" \/ (e = "string" /\ parent = "ParameterNames") ->
         Received \ {"", "long"}
    [] e \in {"string", "FaultString", "ParameterPath", "ObjectName",
              "ParameterKey"} -> Received \ {"long"}
    [] OTHER -> {""}

\* Elements that have a meaning only in a message of one method.
MethodOf ==
  [Value |-> "SetParameterValues",
   NotificationChange |-> "SetParameterAttributes",
   Notification |-> "SetParameterAttributes",
   AccessListChange |-> "SetParameterAttributes",
   AccessList |-> "SetParameterAttributes"]

-----------------------------------------------------------------------------
(***************************************************************************)
(* The callbacks, as functions of the parser and its message.              *)
(***************************************************************************)

NoItem == [method |-> "none", index |-> 0]
Items == [name : Received, value : Received]

\* evcpe_msg_from_xml begins with an empty stack and an empty message; a
\* message that is given up is freed.
Parser(status) ==
  [status |-> status, stack |-> <<>>, type |-> "unknown", method |-> "none",
   data |-> "none", id |-> FALSE, list |-> <<>>, item |-> NoItem]

Reading == Parser("reading")
Refused == Parser("refused")

\* parser.list_item was never set, or it points into data of another kind.
Undefined == Parser("undefined")

Top(r) == IF r.stack = <<>> THEN "none" ELSE Last(r.stack).name
Above(r) == IF Len(r.stack) < 2 THEN "none" ELSE r.stack[Len(r.stack) - 1].name

\* New data replaces that of an element before it in the Body, which nobody
\* frees; list_item goes on pointing into it.
NewData(r, type, method, data) ==
  [r EXCEPT !.type = type, !.method = method, !.data = data, !.list = <<>>,
            !.item = [method |-> @.method, index |-> 0]]

\* Faulty form of Allocates: another constructor is called in one more place.
AllocatesOther(e) ==
  IF e = "DeleteObject" THEN "AddObject"
  ELSE IF e = "GetParameterAttributes" THEN "SetParameterAttributes" ELSE e

\* The data that is allocated for element e.  That of a DeleteObject is made by
\* evcpe_add_object_new.
Allocates(e) == IF e = "DeleteObject" THEN "AddObject" ELSE e

\* The layout of data, by one of the structures that have it: a struct
\* evcpe_delete_object has the members of a struct evcpe_add_object.
Layout(data) == IF data = "DeleteObject" THEN "AddObject" ELSE data

\* Faulty form of Starts: the type of the message is left as it is.
StartsUntyped(r, e) ==
  IF e \in Requests THEN NewData(r, "request", e, Allocates(e))
  ELSE IF e \in DOMAIN Responses THEN NewData(r, "response", Responses[e], e)
  ELSE IF e = "Fault" /\ Top(r) = "Body" THEN NewData(r, r.type, r.method, e)
  ELSE r

\* What element e makes of the message.
Starts(r, e) ==
  IF e \in Requests THEN NewData(r, "request", e, Allocates(e))
  ELSE IF e \in DOMAIN Responses THEN NewData(r, "response", Responses[e], e)
  ELSE IF e = "Fault" /\ Top(r) = "Body" THEN NewData(r, "fault", r.method, e)
  ELSE r

\* Element e is an error where the reader is.
Misplaced(r, e, ns) ==
  \/ r.stack # <<>> /\ ~Last(r.stack).declared
  \/ ~Fits(e, Top(r))
  \/ e = "ID" /\ ns # "known"
  \/ ns = "again"

\* evcpe_msg_xml_elm_begin_cb, then evcpe_msg_xml_attr_cb for the namespace.
\* This callback and the other two are not called any more after an error.
Begin(r, e, ns) ==
  IF r.status # "reading" THEN r
  ELSE IF Misplaced(r, e, ns) THEN Refused
  ELSE [Starts(r, e) EXCEPT
          !.stack = Append(@, [name |-> e, declared |-> ns # "unknown"])]

\* A field of the item list_item points to.
SetItem(r, t) ==
  IF r.item.method # r.method THEN Undefined
  ELSE IF r.item.index = 0 \/ Top(r) \notin {"Value", "Notification"} THEN r
  ELSE LET k == r.item.index
       IN  [r EXCEPT !.list =
              [r.list EXCEPT ![k] = [name |-> r.list[k].name, value |-> t]]]

\* Faulty form of AddItem: list_item stays.
AddItemUnnoted(r, t) ==
  [r EXCEPT !.list = Append(@, [name |-> t, value |-> ""]),
            !.item = IF @.method = r.method THEN @
                     ELSE [method |-> r.method, index |-> Len(r.list) + 1]]

\* A new item at the end of the list.
AddItem(r, t) ==
  [r EXCEPT !.list = Append(@, [name |-> t, value |-> ""]),
            !.item = [method |-> r.method, index |-> Len(r.list) + 1]]

\* The text is an error for the open element.
Unfit(r, t) ==
  \/ t \notin AcceptedTexts(Top(r), Above(r))
  \/ Top(r) \in DOMAIN MethodOf /\ r.method # MethodOf[Top(r)]
  \/ Top(r) = "string" /\ r.method = "SetParameterValues"

\* The open element has a field of the item.
OfItem(r) ==
  \/ Top(r) \in {"Value", "NotificationChange", "Notification", "AccessListChange"}
  \/ Top(r) = "string" /\ Above(r) = "AccessList"

\* evcpe_msg_xml_data_cb.
Data(r, t) ==
  IF r.status # "reading" THEN r
  ELSE IF Unfit(r, t) THEN Refused
  ELSE IF Top(r) = "ID" THEN [r EXCEPT !.id = TRUE]
  ELSE IF Top(r) = "Name" THEN AddItem(r, t)
  ELSE IF Top(r) = "string" /\ Above(r) = "ParameterNames"
    THEN [r EXCEPT !.list = Append(@, [name |-> t, value |-> ""])]
  ELSE IF OfItem(r) THEN SetItem(r, t) ELSE r

\* Methods that must list a parameter.
NeedsList ==
  {"GetParameterValues", "SetParameterValues", "GetParameterAttributes"}

\* Faulty form of Lacks: Body is not asked for its message.
LacksUnasked(r, e) ==
  \/ e = "Header" /\ ~r.id
  \/ e \in NeedsList /\ r.list = <<>>

\* What an element must have had when it ends.
Lacks(r, e) ==
  \/ e = "Header" /\ ~r.id
  \/ e = "Body" /\ r.data = "none"
  \/ e \in NeedsList /\ r.list = <<>>

\* evcpe_msg_xml_elm_end_cb.
End(r, e) ==
  IF r.status # "reading" THEN r
  ELSE IF Top(r) # e \/ Lacks(r, e) THEN Refused
  ELSE [r EXCEPT !.stack = Front(@)]

-----------------------------------------------------------------------------
(***************************************************************************)
(* parsexml, with the document as it comes.                                *)
(***************************************************************************)

Meanings == [name : Received \cup {"none"}, value : Received \cup {"none"}]

NoStruct == [name |-> "none", value |-> "none"]
NewStruct == [name |-> "", value |-> ""]

Init ==
  /\ reader = Reading
  /\ meant = <<>>
  /\ struct = NoStruct
  /\ parts = {}
  /\ plain = TRUE

Namespaces == {"known", "new", "again", "unknown"}

\* The prefix of the first element cannot be known yet.
Possible(ns) == reader.stack = <<>> => ns \in {"new", "unknown"}

\* The histories after a step: m and s as long as the document is not refused
\* and plain, which it is no more if ~p.
Histories(m, s, p) ==
  LET kept == reader'.status \in {"reading", "accepted"} /\ plain /\ p
  IN  /\ plain' = (plain /\ p)
      /\ meant' = IF kept THEN m ELSE <<>>
      /\ struct' = IF kept THEN s ELSE NoStruct

\* The parameters that were meant, when element e begins.
MeantFrom(e) ==
  IF \/ e \in Requests \cup DOMAIN Responses
     \/ e = "Fault" /\ Top(reader) = "Body"
    THEN <<>> ELSE meant

\* <e> with other elements in it.  A text before them is not handed over.
Open(e, ns) ==
  /\ reader.status = "reading" /\ Possible(ns)
  /\ Len(reader.stack) < MaxDepth
  /\ reader' = Begin(reader, e, ns)
  /\ Histories(MeantFrom(e), IF e \in Structs THEN NewStruct ELSE struct, TRUE)
  /\ UNCHANGED parts

\* The text as it was written.
Written(t) == IF t = "padded" THEN "text" ELSE t

\* The structure of the document, if there is one, can take element e: its
\* Name first and once, all else after it.
InOrder(e) ==
  IF e = "Name" THEN struct = NewStruct ELSE struct # NewStruct

\* The structure of the document after element e with text t.
StructWith(e, t) ==
  IF e = "Name" THEN [struct EXCEPT !.name = Written(t)]
  ELSE IF e \in {"Value", "Notification"} THEN [struct EXCEPT !.value = Written(t)]
  ELSE struct

\* <e>t</e>.
Leaf(e, ns, t) ==
  /\ reader.status = "reading" /\ Possible(ns)
  /\ e \in {"Name", "string"} => Len(reader.list) < MaxItems
  /\ reader' = End(Data(Begin(reader, e, ns), Delivered(t)), e)
  /\ Histories(IF e = "string" /\ Top(reader) = "ParameterNames"
                 THEN Append(meant, [name |-> Written(t), value |-> ""])
                 ELSE MeantFrom(e),
               StructWith(e, t), t # "padded" /\ InOrder(e))
  /\ UNCHANGED parts

\* <e/>, or <e> with a comment after its text: the text is not handed over.
Empty(e, ns) ==
  /\ reader.status = "reading" /\ Possible(ns)
  /\ reader' = End(Begin(reader, e, ns), e)
  /\ Histories(MeantFrom(e), struct, TRUE)
  /\ UNCHANGED parts

\* </e>.
Close(e) ==
  /\ reader.status = "reading"
  /\ reader' = End(reader, e)
  /\ IF e \in Structs
       THEN Histories(IF struct.name = "" THEN meant ELSE Append(meant, struct),
                      NoStruct, TRUE)
       ELSE Histories(meant, struct, TRUE)
  /\ parts' = parts \cup ({e} \cap {"Header", "Body"})

\* The document ends.  Elements that are still open are logged and forgotten;
\* only an end inside of a tag or a text is an error.
Finish ==
  /\ reader.status = "reading"
  /\ reader' \in {[reader EXCEPT !.status = "accepted"], Refused}
  /\ Histories(meant, struct, TRUE)
  /\ UNCHANGED parts

\* The next message is read by a new parser.
NextMessage ==
  /\ reader.status \in {"accepted", "refused"}
  /\ reader' = Reading
  /\ meant' = <<>>
  /\ struct' = NoStruct
  /\ parts' = {}
  /\ plain' = TRUE

\* The texts to try for element e; one will do where it is refused anyway.
TextsOf(e) ==
  IF ~Fits(e, Top(reader)) THEN {""}
  ELSE IF e \in {"Name", "Value", "string"} THEN ListTexts ELSE Texts

Next ==
  \/ \E e \in Elements, ns \in Namespaces :
       \/ Open(e, ns)
       \/ \E t \in TextsOf(e) : Leaf(e, ns, t)
       \/ Empty(e, ns)
  \/ \E e \in Elements : Close(e)
  \/ Finish
  \/ NextMessage

Spec == Init /\ [][Next]_vars

-----------------------------------------------------------------------------
(***************************************************************************)
(* What the reader promises.                                               *)
(***************************************************************************)

TypeOK ==
  /\ reader.status \in {"reading", "accepted", "refused", "undefined"}
  /\ reader.stack \in Seq([name : Elements, declared : BOOLEAN])
  /\ reader.type \in {"unknown", "request", "response", "fault"}
  /\ reader.method \in Requests \cup {"Inform", "none"}
  /\ reader.data \in Requests \cup DOMAIN Responses \cup {"Fault", "none"}
  /\ reader.id \in BOOLEAN
  /\ reader.list \in Seq(Items)
  /\ reader.item.index \in 0..Len(reader.list)
  /\ meant \in Seq(Meanings)
  /\ struct \in Meanings
  /\ parts \subseteq {"Header", "Body"}
  /\ plain \in BOOLEAN

\* What element e takes msg->data for.
Expects(e, data) ==
  e \in Requests \cup DOMAIN Responses \cup {"Fault"} => Layout(data) = Layout(e)

\* What evcpe_msg_free takes msg->data for.
Frees(type, method, data) ==
  /\ type = "unknown" => data = "none"
  /\ type = "request" => Layout(data) = Layout(method)
  /\ type = "response" => data \in DOMAIN Responses /\ Responses[data] = method
  /\ type = "fault" => data = "Fault"

\* msg->data is a void pointer.  It always has the layout of the structure that
\* the open elements take it for, when their text or their end is read; and of
\* the one evcpe_msg_free takes it for from the type and method of the message,
\* also when the reading stops in the middle or a Body holds several messages.
\* The structure itself it is not always: a DeleteObject is allocated as a
\* struct evcpe_add_object, and filled and freed as a struct
\* evcpe_delete_object, which is well only as long as these two are alike.
DataMatches ==
  /\ \A k \in DOMAIN reader.stack : Expects(reader.stack[k].name, reader.data)
  /\ Frees(reader.type, reader.method, reader.data)

\* The parameters that were read are the ones in the document: each with the
\* value or the notification of its own structure, in order, and the pointer
\* to the last one is never used before it was set or after its list is gone;
\* as long as each structure begins with its one Name, as the schema of CWMP
\* has it, and no text begins with white space.
ReadBack ==
  plain =>
    /\ reader.status # "undefined"
    /\ struct = NoStruct => reader.list = meant

\* A document that was read to its end and accepted carries what the session
\* goes on to use: an ID if it has a Header, a message if it has a Body, and
\* parameters if the method needs some.  Neither Header nor Body is asked for:
\* a call without a Header is accepted without ID, and what the session then
\* does with it is undefined (HandleRequest of module Session).
AcceptedIsWhole ==
  reader.status = "accepted" /\ reader.stack = <<>> =>
    /\ "Header" \in parts => reader.id
    /\ "Body" \in parts => reader.type # "unknown"
    /\ reader.data \in NeedsList => reader.list # <<>>

=============================================================================
