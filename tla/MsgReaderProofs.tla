-------------------------- MODULE MsgReaderProofs ---------------------------
(***************************************************************************)
(* The reader of messages for any texts, any number of parameters and any  *)
(* depth of the document.                                                  *)
(*                                                                         *)
(* DataMatches is not inductive.  That each open element stands where it   *)
(* may (Nested) means that a message begins only directly below the one    *)
(* Body, so that the data of an open element is never replaced; and that a *)
(* Fault in a Fault, which brings no data of its own, finds that of the    *)
(* Fault around it.  The callbacks are functions of the reader: there is   *)
(* one lemma for each of them, and the steps only combine them.            *)
(*                                                                         *)
(* ReadBack speaks of a list between two structures.  In the middle of one *)
(* (ReadSoFar) the last item is that of the structure as soon as it has a  *)
(* name, and list_item points to it; that there is at most one open        *)
(* structure follows from how deep each element is.                        *)
(***************************************************************************)
EXTENDS MsgReader, Integers, TLAPS

Kinds == Requests \cup DOMAIN Responses \cup {"Fault", "none"}
Methods == Requests \cup {"Inform", "none"}
ItemRefs == [method : Methods, index : Nat]
Opened == [name : Elements, declared : BOOLEAN]

Readers ==
  [status : {"reading", "accepted", "refused", "undefined"},
   stack : Seq(Opened), type : {"unknown", "request", "response", "fault"},
   method : Methods, data : Kinds, id : BOOLEAN, list : Seq(Items),
   item : ItemRefs]

\* Each open element stands where it may.
Nested(r) ==
  /\ \A k \in 1..Len(r.stack) : k = 1 => Fits(r.stack[k].name, "none")
  /\ \A j, k \in 1..Len(r.stack) :
       k = j + 1 => Fits(r.stack[k].name, r.stack[j].name)

Matches(r) ==
  /\ \A k \in 1..Len(r.stack) : Expects(r.stack[k].name, r.data)
  /\ Frees(r.type, r.method, r.data)

\* A message that lacks its parameters is still open.
ListsOrOpen(r) ==
  r.data \in NeedsList /\ r.list = <<>> =>
    \E k \in 1..Len(r.stack) : r.stack[k].name = r.data

Sound(r) ==
  /\ r \in Readers
  /\ r.item.index <= Len(r.list)
  /\ Nested(r)
  /\ Matches(r)
  /\ ListsOrOpen(r)

\* What was read stays read, unless the message is given up.
Keeps(r, q) ==
  \/ q.status \in {"refused", "undefined"}
  \/ /\ q.status = r.status
     /\ r.id => q.id
     /\ r.data # "none" => q.data # "none"

-----------------------------------------------------------------------------

\* Where the elements stand that the proofs are about.
LEMMA PlaceFacts ==
  /\ \A p : Fits("Envelope", p) => p = "none"
  /\ \A p : Fits("Body", p) => p = "Envelope"
  /\ \A p : Fits("Fault", p) => p \in {"Body", "detail"}
  /\ \A p : Fits("detail", p) => p = "Fault"
  /\ \A e \in Requests \cup DOMAIN Responses : \A p : Fits(e, p) => p = "Body"
  /\ "none" \notin Elements
BY DEF Fits, Places, Requests, Responses, Elements, Structs

\* A document begins with no message, and one that is given up has none left.
LEMMA EmptyIsSound ==
  ASSUME NEW status \in {"reading", "accepted", "refused", "undefined"}
  PROVE  Sound(Parser(status)) /\ Parser(status).status = status
<1> DEFINE q == Parser(status)
<1>1. q \in Readers
  BY DEF Parser, Readers, NoItem, ItemRefs, Methods, Kinds
<1>2. /\ q.stack = <<>> /\ q.list = <<>> /\ q.data = "none"
      /\ q.type = "unknown" /\ q.item.index = 0 /\ q.status = status
  BY DEF Parser, NoItem
<1>3. "none" \notin NeedsList
  BY DEF NeedsList
<1> HIDE DEF q
<1>4. Sound(q)
  BY <1>1, <1>2, <1>3 DEF Sound, Nested, Matches, Frees, ListsOrOpen
<1> QED
  BY <1>2, <1>4 DEF q

\* The two ways to give a message up.
LEMMA GivenUp ==
  ASSUME NEW r
  PROVE  /\ Sound(Refused) /\ Keeps(r, Refused) /\ Refused.status = "refused"
         /\ Sound(Undefined) /\ Keeps(r, Undefined)
         /\ Undefined.status = "undefined"
BY EmptyIsSound DEF Refused, Undefined, Keeps

\* Top is the name of the last element on the stack.
LEMMA TopIsLast ==
  ASSUME NEW r \in Readers
  PROVE  /\ Len(r.stack) \in Nat
         /\ Len(r.stack) = 0 => Top(r) = "none"
         /\ Len(r.stack) > 0 => Top(r) = r.stack[Len(r.stack)].name
         /\ \A k \in 1..Len(r.stack) : r.stack[k].name \in Elements
<1>1. r.stack \in Seq(Opened)
  BY DEF Readers
<1>2. Len(r.stack) \in Nat /\ (Len(r.stack) = 0 <=> r.stack = <<>>)
  BY <1>1
<1>3. Len(r.stack) = 0 => Top(r) = "none"
  BY <1>2 DEF Top
<1>4. Len(r.stack) > 0 => Top(r) = r.stack[Len(r.stack)].name
  BY <1>2 DEF Top, Last
<1>5. ASSUME NEW k \in 1..Len(r.stack)
      PROVE  r.stack[k].name \in Elements
  <2>1. r.stack[k] \in Opened
    BY <1>1
  <2> QED
    BY <2>1 DEF Opened
<1> QED
  BY <1>2, <1>3, <1>4, <1>5

\* The element around the last one, if there is one, is open as well.
LEMMA Enclosing ==
  ASSUME NEW r, Sound(r), NEW k \in 1..Len(r.stack)
  PROVE  \/ k = 1 /\ Fits(r.stack[k].name, "none")
         \/ \E j \in 1..Len(r.stack) :
              k = j + 1 /\ Fits(r.stack[k].name, r.stack[j].name)
<1>1. Len(r.stack) \in Nat
  BY TopIsLast DEF Sound
<1>2. k = 1 \/ \E j \in 1..Len(r.stack) : k = j + 1
  <2>1. k # 1 => k - 1 \in 1..Len(r.stack) /\ k = (k - 1) + 1
    BY <1>1
  <2> QED
    BY <2>1
<1> QED
  BY <1>2 DEF Sound, Nested

\* Only an Envelope stands around a Body, and nothing around that.
LEMMA BodyIsSecond ==
  ASSUME NEW r, Sound(r), Top(r) = "Body"
  PROVE  /\ Len(r.stack) = 2
         /\ r.stack[1].name = "Envelope" /\ r.stack[2].name = "Body"
<1>1. r \in Readers
  BY DEF Sound
<1>2. /\ Len(r.stack) \in 1..Len(r.stack)
      /\ r.stack[Len(r.stack)].name = "Body"
  BY <1>1, TopIsLast
<1>3. PICK j \in 1..Len(r.stack) :
        Len(r.stack) = j + 1 /\ r.stack[j].name = "Envelope"
  BY <1>2, Enclosing, PlaceFacts
<1>4. j = 1
  <2>1. ASSUME NEW i \in 1..Len(r.stack), Fits("Envelope", r.stack[i].name)
        PROVE  FALSE
    BY <1>1, <2>1, PlaceFacts, TopIsLast
  <2> QED
    BY <1>3, <2>1, Enclosing
<1> QED
  BY <1>2, <1>3, <1>4

\* A Fault in a detail stands in a Fault.
LEMMA DetailIsInFault ==
  ASSUME NEW r, Sound(r), Top(r) = "detail"
  PROVE  r.data = "Fault"
<1>1. r \in Readers
  BY DEF Sound
<1>2. /\ Len(r.stack) \in 1..Len(r.stack)
      /\ r.stack[Len(r.stack)].name = "detail"
  BY <1>1, TopIsLast
<1>3. \E j \in 1..Len(r.stack) : r.stack[j].name = "Fault"
  BY <1>2, Enclosing, PlaceFacts
<1> QED
  BY <1>3 DEF Sound, Matches, Expects, Layout

-----------------------------------------------------------------------------

\* New data, of a message of its kind.
LEMMA NewDataIsSound ==
  ASSUME NEW r \in Readers, NEW type \in {"request", "response", "fault"},
         NEW method \in Methods, NEW e \in Kinds
  PROVE  LET q == NewData(r, type, method, e)
         IN  /\ q \in Readers
             /\ q.status = r.status /\ q.stack = r.stack /\ q.id = r.id
             /\ q.type = type /\ q.method = method /\ q.data = e
             /\ q.list = <<>> /\ q.item.index = 0
<1> DEFINE item == [method |-> r.item.method, index |-> 0]
           q == [r EXCEPT !.type = type, !.method = method, !.data = e,
                          !.list = <<>>, !.item = item]
<1>1. r.item.method \in Methods
  BY DEF Readers, ItemRefs
<1>2. item \in ItemRefs /\ item.index = 0
  BY <1>1 DEF ItemRefs
<1>3. NewData(r, type, method, e) = q
  BY DEF NewData, Readers
<1> HIDE DEF item
<1>4. q \in Readers
  <2>1. <<>> \in Seq(Items)
    OBVIOUS
  <2> QED
    BY <1>2, <2>1 DEF Readers
<1>5. /\ q.status = r.status /\ q.stack = r.stack /\ q.id = r.id
      /\ q.type = type /\ q.method = method /\ q.data = e
      /\ q.list = <<>> /\ q.item = item
  BY DEF Readers
<1> QED
  BY <1>2, <1>3, <1>4, <1>5

\* The data of an element has the layout of its own structure.
LEMMA AllocatesItsLayout ==
  ASSUME NEW e
  PROVE  /\ Layout(Allocates(e)) = Layout(e)
         /\ e \in Requests => Allocates(e) \in Requests
         /\ e \notin Requests => Allocates(e) = e
         /\ Allocates(e) \in NeedsList => Allocates(e) = e
BY DEF Allocates, Layout, Requests, NeedsList

\* What element e makes of the message, where it may stand.
LEMMA StartsIsSound ==
  ASSUME NEW r, Sound(r), NEW e \in Elements, Fits(e, Top(r)),
         NEW q, q = Starts(r, e)
  PROVE  /\ q \in Readers
         /\ q.status = r.status /\ q.stack = r.stack /\ q.id = r.id
         /\ q.item.index <= Len(q.list)
         /\ r.data # "none" => q.data # "none"
         /\ \A k \in 1..Len(r.stack) : Expects(r.stack[k].name, q.data)
         /\ Expects(e, q.data)
         /\ Frees(q.type, q.method, q.data)
         /\ q.data \in NeedsList /\ q.list = <<>> =>
              \/ e = q.data
              \/ \E k \in 1..Len(r.stack) : r.stack[k].name = q.data
<1>0. r \in Readers
  BY DEF Sound
<1>1. CASE \/ e \in Requests \cup DOMAIN Responses
           \/ e = "Fault" /\ Top(r) = "Body"
  <2> DEFINE d == Allocates(e)
  <2>1. Top(r) = "Body"
    BY <1>1, PlaceFacts
  <2>2. \A k \in 1..Len(r.stack) : r.stack[k].name \in {"Envelope", "Body"}
    BY <2>1, BodyIsSecond
  <2>3. \A k \in 1..Len(r.stack) : \A x : Expects(r.stack[k].name, x)
    BY <2>2 DEF Expects, Requests, Responses
  <2>4. \E type \in {"request", "response", "fault"}, method \in Methods :
          q = NewData(r, type, method, d) /\ Frees(type, method, d)
    <3>1. CASE e \in Requests
      <4>1. q = NewData(r, "request", e, d)
        BY <3>1 DEF Starts
      <4>2. e \in Methods /\ Frees("request", e, d)
        BY <3>1, AllocatesItsLayout DEF Frees, Methods
      <4> QED
        BY <4>1, <4>2
    <3>2. CASE e \in DOMAIN Responses
      <4>1. e \notin Requests
        BY <3>2 DEF Requests, Responses
      <4>2. q = NewData(r, "response", Responses[e], d)
        BY <3>2, <4>1, AllocatesItsLayout DEF Starts
      <4>3. Responses[e] \in Methods /\ Frees("response", Responses[e], d)
        BY <3>2, <4>1, AllocatesItsLayout DEF Responses, Methods, Requests, Frees
      <4> QED
        BY <4>2, <4>3
    <3>3. CASE e = "Fault"
      <4>1. e \notin Requests /\ e \notin DOMAIN Responses
        BY <3>3 DEF Requests, Responses
      <4>2. q = NewData(r, "fault", r.method, d)
        BY <2>1, <3>3, <4>1, AllocatesItsLayout DEF Starts
      <4>3. r.method \in Methods /\ Frees("fault", r.method, d)
        BY <1>0, <3>3, <4>1, AllocatesItsLayout DEF Readers, Frees
      <4> QED
        BY <4>2, <4>3
    <3> QED
      BY <1>1, <3>1, <3>2, <3>3
  <2>5. PICK type \in {"request", "response", "fault"}, method \in Methods :
          q = NewData(r, type, method, d) /\ Frees(type, method, d)
    BY <2>4
  <2>6. /\ d \in Kinds /\ d # "none"
        /\ Layout(d) = Layout(e)
        /\ d \in NeedsList => d = e
    BY <1>1, PlaceFacts, AllocatesItsLayout DEF Kinds, Requests
  <2>7. /\ q \in Readers
        /\ q.status = r.status /\ q.stack = r.stack /\ q.id = r.id
        /\ q.type = type /\ q.method = method /\ q.data = d
        /\ q.list = <<>> /\ q.item.index = 0
    BY <1>0, <2>5, <2>6, NewDataIsSound
  <2>8. q.item.index <= Len(q.list)
    BY <2>7
  <2>9. Expects(e, q.data) /\ Frees(q.type, q.method, q.data)
    BY <2>5, <2>6, <2>7 DEF Expects
  <2> QED
    BY <2>3, <2>6, <2>7, <2>8, <2>9
<1>2. CASE /\ e \notin Requests \cup DOMAIN Responses
           /\ ~(e = "Fault" /\ Top(r) = "Body")
  <2>1. q = r
    BY <1>2 DEF Starts
  <2>2. e = "Fault" => r.data = "Fault"
    BY <1>2, PlaceFacts, DetailIsInFault
  <2>3. Expects(e, r.data)
    BY <1>2, <2>2 DEF Expects
  <2> QED
    BY <2>1, <2>3 DEF Sound, Matches, ListsOrOpen
<1> QED
  BY <1>1, <1>2

\* A callback that changes only fields of the message, never its kind.
LEMMA FieldsOnly ==
  ASSUME NEW r, Sound(r), NEW q \in Readers,
         q.stack = r.stack, q.type = r.type, q.method = r.method,
         q.data = r.data, q.item.index <= Len(q.list),
         q.list = <<>> => r.list = <<>>
  PROVE  Sound(q)
<1>1. Nested(q)
  BY DEF Sound, Nested
<1>2. Matches(q)
  BY DEF Sound, Matches
<1>3. ListsOrOpen(q)
  BY DEF Sound, ListsOrOpen
<1> QED
  BY <1>1, <1>2, <1>3 DEF Sound

\* evcpe_msg_xml_elm_begin_cb.
LEMMA BeginIsSound ==
  ASSUME NEW r, Sound(r), NEW e \in Elements, NEW ns
  PROVE  Sound(Begin(r, e, ns)) /\ Keeps(r, Begin(r, e, ns))
<1>1. CASE r.status # "reading"
  BY <1>1 DEF Begin, Keeps
<1>2. CASE r.status = "reading" /\ Misplaced(r, e, ns)
  BY <1>2, GivenUp DEF Begin
<1>3. CASE r.status = "reading" /\ ~Misplaced(r, e, ns)
  <2> DEFINE top == [name |-> e, declared |-> ns # "unknown"]
             n == Len(r.stack)
  <2>1. PICK q : q = Starts(r, e)
    OBVIOUS
  <2>2. Fits(e, Top(r))
    BY <1>3 DEF Misplaced
  <2>3. PICK b : b = [q EXCEPT !.stack = Append(@, top)]
    OBVIOUS
  <2>4. Begin(r, e, ns) = b
    BY <1>3, <2>1, <2>3 DEF Begin
  <2>5. top \in Opened /\ top.name = e
    BY DEF Opened
  <2> HIDE DEF top
  <2>6. /\ q \in Readers
        /\ q.status = r.status /\ q.stack = r.stack /\ q.id = r.id
        /\ q.item.index <= Len(q.list)
        /\ r.data # "none" => q.data # "none"
        /\ \A k \in 1..Len(r.stack) : Expects(r.stack[k].name, q.data)
        /\ Expects(e, q.data)
        /\ Frees(q.type, q.method, q.data)
        /\ q.data \in NeedsList /\ q.list = <<>> =>
             \/ e = q.data
             \/ \E k \in 1..Len(r.stack) : r.stack[k].name = q.data
    BY <2>1, <2>2, StartsIsSound
  <2>7. /\ b.stack = Append(r.stack, top)
        /\ b.status = q.status /\ b.id = q.id
        /\ b.type = q.type /\ b.method = q.method /\ b.data = q.data
        /\ b.list = q.list /\ b.item = q.item
    BY <2>3, <2>6 DEF Readers
  <2>8. r.stack \in Seq(Opened) /\ r \in Readers
    BY DEF Sound, Readers
  <2>9. /\ Len(b.stack) = n + 1 /\ n \in Nat
        /\ b.stack[n + 1] = top
        /\ \A k \in 1..n : b.stack[k] = r.stack[k]
    BY <2>5, <2>7, <2>8
  <2>10. b \in Readers
    <3>1. Append(r.stack, top) \in Seq(Opened)
      BY <2>5, <2>8
    <3> QED
      BY <2>3, <2>6, <3>1 DEF Readers
  <2>11. Nested(b)
    <3>1. ASSUME NEW k \in 1..(n + 1), k = 1
          PROVE  Fits(b.stack[k].name, "none")
      <4>1. CASE n = 0
        BY <2>2, <2>5, <2>8, <2>9, <3>1, <4>1, TopIsLast
      <4>2. CASE n # 0
        BY <2>9, <3>1, <4>2 DEF Sound, Nested
      <4> QED
        BY <4>1, <4>2
    <3>2. ASSUME NEW j \in 1..(n + 1), NEW k \in 1..(n + 1), k = j + 1
          PROVE  Fits(b.stack[k].name, b.stack[j].name)
      <4>1. CASE k = n + 1
        <5>1. j = n /\ j \in 1..n
          BY <2>9, <3>2, <4>1
        <5>2. b.stack[j].name = Top(r)
          BY <2>8, <2>9, <5>1, TopIsLast
        <5> QED
          BY <2>2, <2>5, <2>9, <4>1, <5>2
      <4>2. CASE k # n + 1
        <5>1. j \in 1..n /\ k \in 1..n
          BY <2>9, <3>2, <4>2
        <5> QED
          BY <2>9, <3>2, <5>1 DEF Sound, Nested
      <4> QED
        BY <4>1, <4>2
    <3> QED
      BY <2>9, <3>1, <3>2 DEF Nested
  <2>12. Matches(b)
    <3>1. ASSUME NEW k \in 1..(n + 1)
          PROVE  Expects(b.stack[k].name, b.data)
      <4>1. CASE k = n + 1
        BY <2>5, <2>6, <2>7, <2>9, <4>1
      <4>2. CASE k # n + 1
        <5>1. k \in 1..n
          BY <2>9, <4>2
        <5> QED
          BY <2>6, <2>7, <2>9, <5>1
      <4> QED
        BY <4>1, <4>2
    <3> QED
      BY <2>6, <2>7, <2>9, <3>1 DEF Matches
  <2>13. ListsOrOpen(b)
    <3> SUFFICES ASSUME b.data \in NeedsList, b.list = <<>>
                 PROVE  \E k \in 1..(n + 1) : b.stack[k].name = b.data
      BY <2>9 DEF ListsOrOpen
    <3>1. CASE e = b.data
      BY <2>5, <2>9, <3>1
    <3>2. CASE \E k \in 1..n : r.stack[k].name = b.data
      <4>1. PICK k \in 1..n : r.stack[k].name = b.data
        BY <3>2
      <4>2. k \in 1..(n + 1) /\ b.stack[k].name = b.data
        BY <2>9, <4>1
      <4> QED
        BY <4>2
    <3> QED
      BY <2>6, <2>7, <3>1, <3>2
  <2>14. Sound(b) /\ Keeps(r, b)
    BY <2>6, <2>7, <2>10, <2>11, <2>12, <2>13 DEF Sound, Keeps
  <2> QED
    BY <2>4, <2>14
<1> QED
  BY <1>1, <1>2, <1>3

\* evcpe_msg_xml_data_cb.
LEMMA DataIsSound ==
  ASSUME NEW r, Sound(r), NEW t \in Received
  PROVE  Sound(Data(r, t)) /\ Keeps(r, Data(r, t))
<1>0. /\ r \in Readers /\ r.list \in Seq(Items) /\ r.method \in Methods
      /\ Len(r.list) \in Nat
  BY DEF Sound, Readers
<1> DEFINE new == [name |-> t, value |-> ""]
<1>1. new \in Items
  <2>1. "" \in Received
    BY DEF Received, Delivered, Texts
  <2> QED
    BY <2>1 DEF Items
<1> HIDE DEF new
<1>2. /\ Append(r.list, new) \in Seq(Items)
      /\ Append(r.list, new) # <<>>
      /\ Len(Append(r.list, new)) = Len(r.list) + 1
  BY <1>0, <1>1
<1>3. Data(r, t) = r => Sound(Data(r, t)) /\ Keeps(r, Data(r, t))
  BY DEF Keeps
<1>4. ASSUME NEW q, q = [r EXCEPT !.id = TRUE]
      PROVE  Sound(q) /\ Keeps(r, q)
  <2>1. /\ q \in Readers /\ q.status = r.status /\ q.stack = r.stack
        /\ q.type = r.type /\ q.method = r.method /\ q.data = r.data
        /\ q.list = r.list /\ q.item = r.item /\ q.id = TRUE
    BY <1>0, <1>4 DEF Readers
  <2> QED
    BY <2>1, FieldsOnly DEF Keeps, Sound
<1>5. ASSUME NEW q, q = AddItem(r, t)
      PROVE  Sound(q) /\ Keeps(r, q)
  <2> DEFINE item == [method |-> r.method, index |-> Len(r.list) + 1]
  <2>1. item \in ItemRefs /\ item.index = Len(r.list) + 1
    BY <1>0 DEF ItemRefs
  <2>2. q = [r EXCEPT !.list = Append(r.list, new), !.item = item]
    BY <1>0, <1>5 DEF AddItem, Readers, new
  <2> HIDE DEF item
  <2>3. /\ q \in Readers /\ q.status = r.status /\ q.stack = r.stack
        /\ q.type = r.type /\ q.method = r.method /\ q.data = r.data
        /\ q.list = Append(r.list, new) /\ q.item = item /\ q.id = r.id
    BY <1>0, <1>2, <2>1, <2>2 DEF Readers
  <2>4. q.item.index <= Len(q.list) /\ q.list # <<>>
    BY <1>0, <1>2, <2>1, <2>3
  <2> QED
    BY <2>3, <2>4, FieldsOnly DEF Keeps
<1>6. ASSUME NEW q, q = [r EXCEPT !.list = Append(@, new)]
      PROVE  Sound(q) /\ Keeps(r, q)
  <2>1. /\ q \in Readers /\ q.status = r.status /\ q.stack = r.stack
        /\ q.type = r.type /\ q.method = r.method /\ q.data = r.data
        /\ q.list = Append(r.list, new) /\ q.item = r.item /\ q.id = r.id
    BY <1>0, <1>2, <1>6 DEF Readers
  <2>2. q.item.index <= Len(q.list) /\ q.list # <<>>
    BY <1>0, <1>2, <2>1 DEF Sound, Readers, ItemRefs
  <2> QED
    BY <2>1, <2>2, FieldsOnly DEF Keeps
<1>7. ASSUME NEW q, q = SetItem(r, t)
      PROVE  Sound(q) /\ Keeps(r, q)
  <2>1. CASE q = r \/ q = Undefined
    BY <2>1, GivenUp DEF Keeps
  <2>2. CASE q # r /\ q # Undefined
    <3> DEFINE list == [r.list EXCEPT ![r.item.index] =
                          [name |-> r.list[r.item.index].name, value |-> t]]
    <3>1. q = [r EXCEPT !.list = list] /\ r.item.index # 0
      BY <1>0, <1>7, <2>2 DEF SetItem, Readers
    <3>2. r.item.index \in 1..Len(r.list)
      BY <1>0, <3>1 DEF Sound, Readers, ItemRefs
    <3>3. [name |-> r.list[r.item.index].name, value |-> t] \in Items
      <4>1. r.list[r.item.index] \in Items
        BY <1>0, <3>2
      <4>2. r.list[r.item.index].name \in Received
        BY <4>1 DEF Items
      <4> QED
        BY <4>2 DEF Items
    <3>4. list \in Seq(Items) /\ Len(list) = Len(r.list)
      BY <1>0, <3>2, <3>3
    <3> HIDE DEF list
    <3>5. list = <<>> => r.list = <<>>
      BY <1>0, <3>4
    <3>6. /\ q \in Readers /\ q.status = r.status /\ q.stack = r.stack
          /\ q.type = r.type /\ q.method = r.method /\ q.data = r.data
          /\ q.list = list /\ q.item = r.item /\ q.id = r.id
      BY <1>0, <3>1, <3>4 DEF Readers
    <3> QED
      BY <3>2, <3>4, <3>5, <3>6, FieldsOnly DEF Keeps, Sound
  <2> QED
    BY <2>1, <2>2
<1> QED
  BY <1>3, <1>4, <1>5, <1>6, <1>7, GivenUp DEF Data, new

\* evcpe_msg_xml_elm_end_cb.
LEMMA EndIsSound ==
  ASSUME NEW r, Sound(r), NEW e
  PROVE  /\ Sound(End(r, e)) /\ Keeps(r, End(r, e))
         /\ End(r, e).status = "reading" =>
              /\ e = "Header" => End(r, e).id
              /\ e = "Body" => End(r, e).data # "none"
<1>1. CASE r.status # "reading"
  BY <1>1 DEF End, Keeps
<1>2. CASE r.status = "reading" /\ (Top(r) # e \/ Lacks(r, e))
  BY <1>2, GivenUp DEF End
<1>3. CASE r.status = "reading" /\ Top(r) = e /\ ~Lacks(r, e)
  <2> DEFINE n == Len(r.stack)
  <2>1. PICK q : q = [r EXCEPT !.stack = Front(@)]
    OBVIOUS
  <2>2. End(r, e) = q
    BY <1>3, <2>1 DEF End
  <2>3. r \in Readers /\ r.stack \in Seq(Opened) /\ n \in Nat
    BY DEF Sound, Readers
  <2>4. /\ Front(r.stack) \in Seq(Opened)
        /\ Len(Front(r.stack)) <= n
        /\ Len(Front(r.stack)) \in Nat
        /\ \A k \in 1..Len(Front(r.stack)) : Front(r.stack)[k] = r.stack[k]
        /\ \A k \in 1..n : k \in 1..Len(Front(r.stack)) \/ k = n
    BY <2>3 DEF Front
  <2>5. /\ q \in Readers /\ q.status = r.status /\ q.stack = Front(r.stack)
        /\ q.type = r.type /\ q.method = r.method /\ q.data = r.data
        /\ q.list = r.list /\ q.item = r.item /\ q.id = r.id
    BY <2>1, <2>3, <2>4 DEF Readers
  <2>6. Nested(q)
    BY <2>3, <2>4, <2>5 DEF Sound, Nested
  <2>7. Matches(q)
    BY <2>3, <2>4, <2>5 DEF Sound, Matches
  <2>8. ListsOrOpen(q)
    <3> SUFFICES ASSUME q.data \in NeedsList, q.list = <<>>
                 PROVE  \E k \in 1..Len(q.stack) : q.stack[k].name = q.data
      BY DEF ListsOrOpen
    <3>1. PICK k \in 1..n : r.stack[k].name = q.data
      BY <2>5 DEF Sound, ListsOrOpen
    <3>2. k = n => e = q.data
      BY <1>3, <2>3, <3>1, TopIsLast
    <3>3. k # n
      BY <1>3, <2>5, <3>2 DEF Lacks
    <3> QED
      BY <2>4, <2>5, <3>1, <3>3
  <2>9. Sound(q) /\ Keeps(r, q)
    BY <2>5, <2>6, <2>7, <2>8 DEF Sound, Keeps
  <2> QED
    BY <1>3, <2>2, <2>5, <2>9 DEF Lacks
<1> QED
  BY <1>1, <1>2, <1>3

\* One after the other.
LEMMA KeepsOn ==
  ASSUME NEW r, NEW q, NEW s, Keeps(r, q), Keeps(q, s)
  PROVE  Keeps(r, s)
BY DEF Keeps

-----------------------------------------------------------------------------

\* What the histories hold is a name and a value, or none.
LEMMA WrittenIsReceived ==
  ASSUME NEW t \in Texts
  PROVE  Written(t) \in Received /\ Delivered(t) \in Received
BY DEF Texts, Written, Received, Delivered

HistoriesOK ==
  /\ meant \in Seq(Meanings)
  /\ struct \in Meanings
  /\ parts \subseteq {"Header", "Body"}
  /\ plain \in BOOLEAN

\* The parts of the document that were read left what they must.
PartsRead ==
  reader.status \in {"reading", "accepted"} =>
    /\ "Header" \in parts => reader.id
    /\ "Body" \in parts => reader.data # "none"

IInv == Sound(reader) /\ PartsRead /\ HistoriesOK

\* Whatever the histories become, they keep their types.
LEMMA HistoriesAreTyped ==
  ASSUME HistoriesOK, NEW m \in Seq(Meanings), NEW s \in Meanings,
         NEW p \in BOOLEAN, Histories(m, s, p)
  PROVE  /\ meant' \in Seq(Meanings) /\ struct' \in Meanings
         /\ plain' \in BOOLEAN
<1>1. NoStruct \in Meanings /\ <<>> \in Seq(Meanings)
  BY DEF NoStruct, Meanings
<1>2. plain' \in BOOLEAN
  BY DEF Histories, HistoriesOK
<1>3. meant' \in Seq(Meanings) /\ struct' \in Meanings
  BY <1>1 DEF Histories
<1> QED
  BY <1>2, <1>3

\* A new parser of evcpe_msg_from_xml is sound.
LEMMA InitInvariant == Init => IInv
<1> SUFFICES ASSUME Init PROVE IInv
  OBVIOUS
<1>1. Sound(reader)
  BY EmptyIsSound DEF Init, Reading
<1>2. HistoriesOK
  BY DEF Init, HistoriesOK, NoStruct, Meanings
<1>3. PartsRead
  BY DEF Init, PartsRead
<1> QED
  BY <1>1, <1>2, <1>3 DEF IInv

\* A step that reads on and reads no part to its end.
LEMMA ReadsOn ==
  ASSUME IInv, reader.status = "reading", Sound(reader'), Keeps(reader, reader'),
         parts' = parts,
         NEW m \in Seq(Meanings), NEW s \in Meanings, NEW p \in BOOLEAN,
         Histories(m, s, p)
  PROVE  IInv'
<1>1. HistoriesOK'
  BY HistoriesAreTyped DEF IInv, HistoriesOK
<1>2. PartsRead'
  BY DEF IInv, PartsRead, Keeps
<1> QED
  BY <1>1, <1>2 DEF IInv

\* The parameters that are left when an element begins.
LEMMA MeantFromIsTyped ==
  ASSUME IInv, NEW e
  PROVE  MeantFrom(e) \in Seq(Meanings)
BY DEF IInv, HistoriesOK, MeantFrom

\* <e> with other elements in it: parseelt.
LEMMA OpenInvariant ==
  ASSUME IInv, NEW e \in Elements, NEW ns, Open(e, ns)
  PROVE  IInv'
<1>1. Sound(reader') /\ Keeps(reader, reader')
  BY BeginIsSound DEF IInv, Open
<1>2. NewStruct \in Meanings
  BY WrittenIsReceived DEF NewStruct, Meanings, Texts, Written
<1>3. (IF e \in Structs THEN NewStruct ELSE struct) \in Meanings
  BY <1>2 DEF IInv, HistoriesOK
<1> QED
  BY <1>1, <1>3, MeantFromIsTyped, ReadsOn DEF Open

\* <e>t</e>: the three callbacks of parseelt.
LEMMA LeafInvariant ==
  ASSUME IInv, NEW e \in Elements, NEW ns, NEW t \in Texts, Leaf(e, ns, t)
  PROVE  IInv'
<1> DEFINE b == Begin(reader, e, ns)
           d == Data(b, Delivered(t))
           m == IF e = "string" /\ Top(reader) = "ParameterNames"
                  THEN Append(meant, [name |-> Written(t), value |-> ""])
                  ELSE MeantFrom(e)
<1>1. Sound(b) /\ Keeps(reader, b)
  BY BeginIsSound DEF IInv
<1>2. Sound(d) /\ Keeps(b, d)
  BY <1>1, DataIsSound, WrittenIsReceived
<1>3. Sound(reader') /\ Keeps(d, reader')
  BY <1>2, EndIsSound DEF Leaf
<1>4. Keeps(reader, reader')
  BY <1>1, <1>2, <1>3, KeepsOn
<1>5. m \in Seq(Meanings)
  <2>1. [name |-> Written(t), value |-> ""] \in Meanings
    BY WrittenIsReceived DEF Meanings, Texts, Written
  <2>2. ASSUME NEW x \in Meanings
        PROVE  Append(meant, x) \in Seq(Meanings)
    BY DEF IInv, HistoriesOK
  <2>3. MeantFrom(e) \in Seq(Meanings)
    BY MeantFromIsTyped
  <2> QED
    BY <2>1, <2>2, <2>3
<1>6. StructWith(e, t) \in Meanings
  BY WrittenIsReceived DEF StructWith, Meanings, IInv, HistoriesOK
<1>7. (t # "padded" /\ InOrder(e)) \in BOOLEAN
  BY DEF InOrder
<1>8. Histories(m, StructWith(e, t), t # "padded" /\ InOrder(e))
  BY DEF Leaf
<1> HIDE DEF m
<1> QED
  BY <1>3, <1>4, <1>5, <1>6, <1>7, <1>8, ReadsOn DEF Leaf

\* <e/>: parseelt without a text.
LEMMA EmptyInvariant ==
  ASSUME IInv, NEW e \in Elements, NEW ns, Empty(e, ns)
  PROVE  IInv'
<1> DEFINE b == Begin(reader, e, ns)
<1>1. Sound(b) /\ Keeps(reader, b)
  BY BeginIsSound DEF IInv
<1>2. Sound(reader') /\ Keeps(b, reader')
  BY <1>1, EndIsSound DEF Empty
<1>3. Keeps(reader, reader')
  BY <1>1, <1>2, KeepsOn
<1> QED
  BY <1>2, <1>3, MeantFromIsTyped, ReadsOn DEF Empty, IInv, HistoriesOK

\* </e>: a Header that ends has its ID, a Body its message.
LEMMA CloseInvariant ==
  ASSUME IInv, NEW e \in Elements, Close(e)
  PROVE  IInv'
<1>1. /\ Sound(reader') /\ Keeps(reader, reader')
      /\ reader'.status = "reading" =>
           /\ e = "Header" => reader'.id
           /\ e = "Body" => reader'.data # "none"
  BY EndIsSound DEF IInv, Close
<1>2. parts' = parts \cup ({e} \cap {"Header", "Body"})
  BY DEF Close
<1>3. PartsRead'
  <2> SUFFICES ASSUME reader'.status \in {"reading", "accepted"}
               PROVE  /\ "Header" \in parts' => reader'.id
                      /\ "Body" \in parts' => reader'.data # "none"
    BY DEF PartsRead
  <2>1. reader'.status = reader.status /\ reader.status = "reading"
    BY <1>1 DEF Keeps, Close
  <2> QED
    BY <1>1, <1>2, <2>1 DEF IInv, PartsRead, Keeps
<1>4. meant' \in Seq(Meanings) /\ struct' \in Meanings /\ plain' \in BOOLEAN
  <2>1. NoStruct \in Meanings
    BY DEF NoStruct, Meanings
  <2>2. Append(meant, struct) \in Seq(Meanings)
    BY DEF IInv, HistoriesOK
  <2>3. CASE e \in Structs
    <3>1. (IF struct.name = "" THEN meant ELSE Append(meant, struct)) \in Seq(Meanings)
      BY <2>2 DEF IInv, HistoriesOK
    <3> QED
      BY <2>1, <2>3, <3>1, HistoriesAreTyped DEF IInv, Close
  <2>4. CASE e \notin Structs
    BY <2>4, HistoriesAreTyped DEF IInv, HistoriesOK, Close
  <2> QED
    BY <2>3, <2>4
<1>5. HistoriesOK'
  BY <1>2, <1>4 DEF IInv, HistoriesOK
<1> QED
  BY <1>1, <1>3, <1>5 DEF IInv

\* The end of the document: parsexml.
LEMMA FinishInvariant ==
  ASSUME IInv, Finish
  PROVE  IInv'
<1>1. HistoriesOK'
  BY HistoriesAreTyped DEF IInv, HistoriesOK, Finish
<1>2. CASE reader' = Refused
  BY <1>1, <1>2, GivenUp DEF IInv, PartsRead
<1>3. CASE reader' = [reader EXCEPT !.status = "accepted"]
  <2>1. reader \in Readers
    BY DEF IInv, Sound
  <2>2. /\ reader' \in Readers
        /\ reader'.stack = reader.stack /\ reader'.type = reader.type
        /\ reader'.method = reader.method /\ reader'.data = reader.data
        /\ reader'.list = reader.list /\ reader'.item = reader.item
        /\ reader'.id = reader.id
    BY <1>3, <2>1 DEF Readers
  <2>3. Sound(reader')
    BY <2>2, FieldsOnly DEF IInv, Sound
  <2>4. PartsRead'
    BY <2>2 DEF IInv, PartsRead, Finish
  <2> QED
    BY <1>1, <2>3, <2>4 DEF IInv
<1> QED
  BY <1>2, <1>3 DEF Finish

\* The next message: evcpe_session_handle_incoming.
LEMMA NextMessageInvariant ==
  ASSUME IInv, NextMessage
  PROVE  IInv'
<1>1. Sound(reader')
  BY EmptyIsSound DEF NextMessage, Reading
<1>2. HistoriesOK'
  BY DEF NextMessage, HistoriesOK, NoStruct, Meanings
<1>3. PartsRead'
  BY DEF NextMessage, PartsRead
<1> QED
  BY <1>1, <1>2, <1>3 DEF IInv

\* The reader stays sound, whatever document the ACS writes.
THEOREM Invariance == Spec => []IInv
<1>1. Init => IInv
  BY InitInvariant
<1>2. IInv /\ [Next]_vars => IInv'
  <2> SUFFICES ASSUME IInv, [Next]_vars PROVE IInv'
    OBVIOUS
  <2>1. ASSUME NEW e \in Elements, NEW ns \in Namespaces, Open(e, ns) PROVE IInv'
    BY <2>1, OpenInvariant
  <2>2. ASSUME NEW e \in Elements, NEW ns \in Namespaces,
               NEW t \in TextsOf(e), Leaf(e, ns, t)
        PROVE  IInv'
    <3>1. t \in Texts
      BY MsgReaderAssumption DEF TextsOf, Texts
    <3> QED
      BY <2>2, <3>1, LeafInvariant
  <2>3. ASSUME NEW e \in Elements, NEW ns \in Namespaces, Empty(e, ns) PROVE IInv'
    BY <2>3, EmptyInvariant
  <2>4. ASSUME NEW e \in Elements, Close(e) PROVE IInv'
    BY <2>4, CloseInvariant
  <2>5. CASE Finish
    BY <2>5, FinishInvariant
  <2>6. CASE NextMessage
    BY <2>6, NextMessageInvariant
  <2>7. CASE UNCHANGED vars
    BY <2>7 DEF vars, IInv, PartsRead, HistoriesOK
  <2> QED
    BY <2>1, <2>2, <2>3, <2>4, <2>5, <2>6, <2>7 DEF Next
<1> QED
  BY <1>1, <1>2, PTL DEF Spec

-----------------------------------------------------------------------------

\* Parser, message and histories have their types: evcpe_msg_from_xml.
THEOREM AlwaysTyped == Spec => []TypeOK
<1>1. IInv => TypeOK
  <2> SUFFICES ASSUME IInv PROVE TypeOK
    OBVIOUS
  <2>1. reader \in Readers /\ reader.item.index <= Len(reader.list)
    BY DEF IInv, Sound
  <2>2. reader.item.index \in 0..Len(reader.list)
    BY <2>1 DEF Readers, ItemRefs
  <2> QED
    BY <2>1, <2>2 DEF TypeOK, IInv, HistoriesOK, Readers, Opened, Kinds, Methods
<1> QED
  BY <1>1, Invariance, PTL

\* Whatever evcpe_msg_from_xml is given, msg->data has the layout of what the
\* callbacks and evcpe_msg_free take it for.
THEOREM AlwaysDataMatches == Spec => []DataMatches
<1>1. IInv => DataMatches
  <2> SUFFICES ASSUME IInv PROVE DataMatches
    OBVIOUS
  <2>1. DOMAIN reader.stack = 1..Len(reader.stack)
    BY DEF IInv, Sound, Readers
  <2> QED
    BY <2>1 DEF IInv, Sound, Matches, DataMatches
<1> QED
  BY <1>1, Invariance, PTL

\* What evcpe_msg_from_xml accepts, with all elements closed, is whole.
THEOREM AlwaysAcceptedIsWhole == Spec => []AcceptedIsWhole
<1>1. IInv => AcceptedIsWhole
  <2> SUFFICES ASSUME IInv, reader.status = "accepted", reader.stack = <<>>
               PROVE  /\ "Header" \in parts => reader.id
                      /\ "Body" \in parts => reader.type # "unknown"
                      /\ reader.data \in NeedsList => reader.list # <<>>
    BY DEF AcceptedIsWhole
  <2>1. 1..Len(reader.stack) = {}
    OBVIOUS
  <2> QED
    BY <2>1 DEF IInv, PartsRead, Sound, Matches, Frees, ListsOrOpen
<1> QED
  BY <1>1, Invariance, PTL

-----------------------------------------------------------------------------

\* A structure of a parameter list is open.
InStruct(r) == \E k \in 1..Len(r.stack) : r.stack[k].name \in Structs

\* The list of reader r holds the parameters m, and that of the structure s as
\* soon as it has a name; list_item points to it.
Told(r, m, s) ==
  IF s \in {NoStruct, NewStruct} THEN r.list = m
  ELSE /\ s \in Items /\ s.name # ""
       /\ r.list = Append(m, s)
       /\ r.item = [method |-> r.method, index |-> Len(r.list)]

\* ReadBack in the middle of a structure.
ReadSoFar ==
  plain =>
    \/ /\ reader.status \in {"reading", "accepted"}
       /\ InStruct(reader) <=> struct # NoStruct
       /\ Told(reader, meant, struct)
    \/ reader = Refused /\ meant = <<>> /\ struct = NoStruct

\* Where the elements stand that have to do with parameters.
LEMMA ListPlaceFacts ==
  /\ \A p : Fits("ParameterList", p) => p \in Requests
  /\ \A p : Fits("ParameterNames", p) => p \in Requests
  /\ \A e \in Structs : \A p : Fits(e, p) => p = "ParameterList"
  /\ \A e \in {"Name", "Value", "Notification", "NotificationChange",
               "AccessListChange", "AccessList"} :
       \A p : Fits(e, p) => p \in Structs
  /\ \A p : Fits("string", p) => p \in {"ParameterNames", "AccessList", "MethodList"}
BY DEF Fits, Places, Requests, Responses, Structs

\* How deep these elements are.
LEMMA Depths ==
  ASSUME NEW r, Sound(r), NEW k \in 1..Len(r.stack)
  PROVE  /\ r.stack[k].name = "Envelope" => k = 1
         /\ r.stack[k].name = "Body" => k = 2
         /\ r.stack[k].name \in Requests => k = 3
         /\ r.stack[k].name \in {"ParameterList", "ParameterNames"} => k = 4
         /\ r.stack[k].name \in Structs => k = 5
         /\ r.stack[k].name = "AccessList" => InStruct(r)
<1>0. /\ r \in Readers
      /\ \A i \in 1..Len(r.stack) : r.stack[i].name \in Elements
      /\ "none" \notin Elements
  BY TopIsLast, PlaceFacts DEF Sound
<1>1. \A i \in 1..Len(r.stack) : r.stack[i].name = "Envelope" => i = 1
  <2> SUFFICES ASSUME NEW i \in 1..Len(r.stack), r.stack[i].name = "Envelope"
               PROVE  i = 1
    OBVIOUS
  <2>1. ASSUME NEW j \in 1..Len(r.stack), Fits(r.stack[i].name, r.stack[j].name)
        PROVE  FALSE
    BY <1>0, <2>1, PlaceFacts
  <2> QED
    BY <2>1, Enclosing
<1>2. \A i \in 1..Len(r.stack) : r.stack[i].name = "Body" => i = 2
  <2> SUFFICES ASSUME NEW i \in 1..Len(r.stack), r.stack[i].name = "Body"
               PROVE  i = 2
    OBVIOUS
  <2>1. PICK j \in 1..Len(r.stack) : i = j + 1 /\ r.stack[j].name = "Envelope"
    BY Enclosing, PlaceFacts
  <2> QED
    BY <1>1, <2>1
<1>3. \A i \in 1..Len(r.stack) : r.stack[i].name \in Requests => i = 3
  <2> SUFFICES ASSUME NEW i \in 1..Len(r.stack), r.stack[i].name \in Requests
               PROVE  i = 3
    OBVIOUS
  <2>1. PICK j \in 1..Len(r.stack) : i = j + 1 /\ r.stack[j].name = "Body"
    BY Enclosing, PlaceFacts
  <2> QED
    BY <1>2, <2>1
<1>4. \A i \in 1..Len(r.stack) :
        r.stack[i].name \in {"ParameterList", "ParameterNames"} => i = 4
  <2> SUFFICES ASSUME NEW i \in 1..Len(r.stack),
                      r.stack[i].name \in {"ParameterList", "ParameterNames"}
               PROVE  i = 4
    OBVIOUS
  <2>1. "none" \notin Requests
    BY DEF Requests
  <2>2. PICK j \in 1..Len(r.stack) : i = j + 1 /\ r.stack[j].name \in Requests
    BY <2>1, Enclosing, ListPlaceFacts
  <2> QED
    BY <1>3, <2>2
<1>5. \A i \in 1..Len(r.stack) : r.stack[i].name \in Structs => i = 5
  <2> SUFFICES ASSUME NEW i \in 1..Len(r.stack), r.stack[i].name \in Structs
               PROVE  i = 5
    OBVIOUS
  <2>1. PICK j \in 1..Len(r.stack) : i = j + 1 /\ r.stack[j].name = "ParameterList"
    BY Enclosing, ListPlaceFacts
  <2> QED
    BY <1>4, <2>1
<1>6. r.stack[k].name = "AccessList" => InStruct(r)
  <2>1. "none" \notin Structs
    BY DEF Structs
  <2> QED
    BY <2>1, Enclosing, ListPlaceFacts DEF InStruct
<1> QED
  BY <1>1, <1>2, <1>3, <1>4, <1>5, <1>6

\* Where a parameter can be named, and where it is given the rest.
LEMMA StructByTop ==
  ASSUME NEW r, Sound(r)
  PROVE  /\ Top(r) \in {"Body", "ParameterList", "ParameterNames"} => ~InStruct(r)
         /\ Top(r) \in Structs \cup {"AccessList"} => InStruct(r)
<1>1. /\ r \in Readers /\ Len(r.stack) \in Nat
      /\ Len(r.stack) = 0 => Top(r) = "none"
      /\ Len(r.stack) > 0 => Top(r) = r.stack[Len(r.stack)].name
  BY TopIsLast DEF Sound
<1>2. Top(r) # "none" => Len(r.stack) \in 1..Len(r.stack) /\ Top(r) = r.stack[Len(r.stack)].name
  BY <1>1
<1>3. CASE Top(r) \in {"Body", "ParameterList", "ParameterNames"}
  <2>1. Len(r.stack) \in {2, 4}
    BY <1>2, <1>3, Depths
  <2>2. ~InStruct(r)
    BY <2>1, Depths DEF InStruct
  <2>3. Top(r) \notin Structs \cup {"AccessList"}
    BY <1>3 DEF Structs
  <2> QED
    BY <2>2, <2>3
<1>4. CASE Top(r) \in Structs
  <2>1. Top(r) # "none" /\ Top(r) \notin {"Body", "ParameterList", "ParameterNames"}
    BY <1>4 DEF Structs
  <2> QED
    BY <1>2, <1>4, <2>1 DEF InStruct
<1>5. CASE Top(r) = "AccessList"
  BY <1>2, <1>5, Depths
<1> QED
  BY <1>3, <1>4, <1>5

-----------------------------------------------------------------------------

\* An element that begins and is no error leaves the parameters as they are
\* meant.
LEMMA BeginTold ==
  ASSUME Sound(reader), reader.status = "reading",
         InStruct(reader) <=> struct # NoStruct, Told(reader, meant, struct),
         NEW e \in Elements, NEW ns, NEW q, q = Begin(reader, e, ns), q # Refused
  PROVE  /\ Fits(e, Top(reader)) /\ Top(q) = e /\ Above(q) = Top(reader)
         /\ q.status = "reading"
         /\ \E top \in Opened : top.name = e /\ q.stack = Append(reader.stack, top)
         /\ Told(q, MeantFrom(e), struct)
<1> DEFINE top == [name |-> e, declared |-> ns # "unknown"]
           s == Starts(reader, e)
<1>1. ~Misplaced(reader, e, ns)
  BY DEF Begin
<1>2. Fits(e, Top(reader))
  BY <1>1 DEF Misplaced
<1>3. q = [s EXCEPT !.stack = Append(@, top)]
  BY <1>1 DEF Begin
<1>4. top \in Opened /\ top.name = e
  BY DEF Opened
<1>5. s \in Readers /\ s.status = reader.status /\ s.stack = reader.stack
  BY <1>2, StartsIsSound
<1> HIDE DEF top
<1>6. /\ q.stack = Append(reader.stack, top) /\ q.status = "reading"
      /\ q.list = s.list /\ q.item = s.item /\ q.method = s.method
  <2> HIDE DEF s
  <2> QED
    BY <1>3, <1>5 DEF Readers
<1>7. reader.stack \in Seq(Opened) /\ reader \in Readers
  BY DEF Sound, Readers
<1>8. Top(q) = e /\ Above(q) = Top(reader)
  <2> DEFINE n == Len(reader.stack)
  <2>1. /\ Len(q.stack) = n + 1 /\ n \in Nat
        /\ q.stack[n + 1] = top
        /\ \A k \in 1..n : q.stack[k] = reader.stack[k]
        /\ q.stack # <<>>
        /\ n = 0 <=> reader.stack = <<>>
    BY <1>4, <1>6, <1>7
  <2>2. Top(q) = e
    BY <1>4, <2>1 DEF Top, Last
  <2>3. CASE n = 0
    BY <2>1, <2>2, <2>3 DEF Top, Above
  <2>4. CASE n # 0
    <3>1. Above(q) = q.stack[n + 1 - 1].name /\ n + 1 - 1 = n /\ n \in 1..n
      BY <2>1, <2>4 DEF Above
    <3> QED
      BY <1>7, <2>1, <2>2, <2>4, <3>1, TopIsLast
  <2> QED
    BY <2>2, <2>3, <2>4
<1>9. Told(q, MeantFrom(e), struct)
  <2>1. CASE \/ e \in Requests \cup DOMAIN Responses
             \/ e = "Fault" /\ Top(reader) = "Body"
    <3>1. struct = NoStruct
      BY <1>2, <2>1, PlaceFacts, StructByTop
    <3>2. MeantFrom(e) = <<>>
      BY <2>1 DEF MeantFrom
    <3>3. s.list = <<>>
      BY <1>7, <2>1 DEF Starts, NewData, Readers
    <3> QED
      BY <1>6, <3>1, <3>2, <3>3 DEF Told
  <2>2. CASE ~(\/ e \in Requests \cup DOMAIN Responses
               \/ e = "Fault" /\ Top(reader) = "Body")
    <3>1. MeantFrom(e) = meant /\ s = reader
      BY <2>2 DEF MeantFrom, Starts
    <3> QED
      BY <1>6, <3>1 DEF Told
  <2> QED
    BY <2>1, <2>2
<1> QED
  BY <1>2, <1>4, <1>6, <1>8, <1>9

\* An element that ends leaves the parameters as they are.
LEMMA EndTold ==
  ASSUME NEW r, Sound(r), r.status = "reading", NEW e,
         NEW q, q = End(r, e), q # Refused
  PROVE  /\ Top(r) = e /\ q.status = "reading" /\ q.stack = Front(r.stack)
         /\ \A m, s : Told(r, m, s) => Told(q, m, s)
<1>1. Top(r) = e /\ q = [r EXCEPT !.stack = Front(@)]
  BY DEF End
<1>2. r \in Readers
  BY DEF Sound
<1>3. /\ q.stack = Front(r.stack) /\ q.status = r.status
      /\ q.list = r.list /\ q.item = r.item /\ q.method = r.method
  BY <1>1, <1>2 DEF Readers
<1> QED
  BY <1>1, <1>3 DEF Told

\* Appending to a list.
LEMMA AppendFacts ==
  ASSUME NEW S, NEW m \in Seq(S), NEW x \in S
  PROVE  /\ Len(m) \in Nat
         /\ Append(m, x) \in Seq(S)
         /\ Len(Append(m, x)) = Len(m) + 1
         /\ Append(m, x)[Len(m) + 1] = x
         /\ \A i \in 1..Len(m) : Append(m, x)[i] = m[i]
<1>1. \A i \in 1..Len(m) : Append(m, x)[i] = m[i]
  OBVIOUS
<1>2. Append(m, x) \in Seq(S)
  OBVIOUS
<1>3. /\ Len(m) \in Nat
      /\ Len(Append(m, x)) = Len(m) + 1
      /\ Append(m, x)[Len(m) + 1] = x
  OBVIOUS
<1> QED
  BY <1>1, <1>2, <1>3

\* A sequence is a function.
LEMMA SeqIsFunction ==
  ASSUME NEW S, NEW s \in Seq(S)
  PROVE  s \in [1..Len(s) -> S]
OBVIOUS

\* A function that differs from another only at one place.
LEMMA SetPlace ==
  ASSUME NEW D, NEW S, NEW a \in [D -> S], NEW b \in [D -> S], NEW n \in D,
         \A i \in D : i = n \/ a[i] = b[i]
  PROVE  [a EXCEPT ![n] = b[n]] = b
OBVIOUS

\* Setting the last element of a list is appending another one instead.
LEMMA SetLast ==
  ASSUME NEW S, NEW m \in Seq(S), NEW x \in S, NEW y \in S
  PROVE  [Append(m, x) EXCEPT ![Len(m) + 1] = y] = Append(m, y)
<1> DEFINE D == 1..(Len(m) + 1)
<1>1. /\ Len(m) \in Nat /\ Append(m, x) \in Seq(S)
      /\ Len(Append(m, x)) = Len(m) + 1
      /\ \A i \in 1..Len(m) : Append(m, x)[i] = m[i]
  BY AppendFacts
<1>2. /\ Append(m, y) \in Seq(S)
      /\ Len(Append(m, y)) = Len(m) + 1
      /\ Append(m, y)[Len(m) + 1] = y
      /\ \A i \in 1..Len(m) : Append(m, y)[i] = m[i]
  BY AppendFacts
<1>3. Append(m, x) \in [D -> S]
  <2>1. Append(m, x) \in [1..Len(Append(m, x)) -> S]
    BY <1>1, SeqIsFunction
  <2> QED
    BY <1>1, <2>1
<1>4. Append(m, y) \in [D -> S]
  <2>1. Append(m, y) \in [1..Len(Append(m, y)) -> S]
    BY <1>2, SeqIsFunction
  <2> QED
    BY <1>2, <2>1
<1>5. Len(m) + 1 \in D /\ \A i \in D : i = Len(m) + 1 \/ i \in 1..Len(m)
  BY <1>1
<1> HIDE DEF D
<1>6. \A i \in D : i = Len(m) + 1 \/ Append(m, x)[i] = Append(m, y)[i]
  BY <1>1, <1>2, <1>5
<1>7. [Append(m, x) EXCEPT ![Len(m) + 1] = Append(m, y)[Len(m) + 1]] = Append(m, y)
  BY <1>3, <1>4, <1>5, <1>6, SetPlace
<1> QED
  BY <1>2, <1>7

\* An item is its name and its value.
LEMMA ItemFields ==
  ASSUME NEW u \in Items
  PROVE  /\ u = [name |-> u.name, value |-> u.value]
         /\ u.name \in Received /\ u \in Meanings
BY DEF Items, Meanings

\* What a sound reader has read is a list of items.
LEMMA ListIsTyped ==
  ASSUME NEW q, Sound(q)
  PROVE  q \in Readers /\ q.list \in Seq(Items) /\ Len(q.list) \in Nat
BY DEF Sound, Readers

\* The name of a parameter begins an item, to which list_item points.
LEMMA AddItemTold ==
  ASSUME NEW q, Sound(q), NEW m, NEW u \in Items, u.name # "", u.value = "",
         Told(q, m, NewStruct), NEW d, d = AddItem(q, u.name)
  PROVE  /\ d.status = q.status /\ d.stack = q.stack
         /\ Told(d, m, u) /\ u # NoStruct
<1> DEFINE item == [method |-> q.method, index |-> Len(q.list) + 1]
<1>1. q \in Readers /\ q.list \in Seq(Items) /\ Len(q.list) \in Nat
  BY ListIsTyped
<1>2. q.list = m
  BY DEF Told
<1>3. d = [q EXCEPT !.list = Append(q.list, u), !.item = item]
  <2>1. u = [name |-> u.name, value |-> ""]
    BY ItemFields
  <2> QED
    BY <1>1, <2>1 DEF AddItem, Readers
<1> HIDE DEF item
<1>4. /\ d.status = q.status /\ d.stack = q.stack /\ d.list = Append(m, u)
      /\ d.item = item /\ d.method = q.method
  BY <1>1, <1>2, <1>3 DEF Readers
<1>5. Len(d.list) = Len(q.list) + 1
  <2>1. Len(Append(q.list, u)) = Len(q.list) + 1
    BY <1>1, AppendFacts
  <2> QED
    BY <1>2, <1>4, <2>1
<1>6. d.item = [method |-> d.method, index |-> Len(d.list)]
  BY <1>4, <1>5 DEF item
<1>7. u # NoStruct /\ u # NewStruct
  <2>1. NoStruct.value = "none" /\ NewStruct.name = ""
    BY DEF NoStruct, NewStruct
  <2> QED
    BY <2>1
<1> QED
  BY <1>4, <1>6, <1>7 DEF Told

\* A value or a notification belongs to the item list_item points to, and that
\* is the last.
LEMMA SetItemTold ==
  ASSUME NEW q, Sound(q), NEW m \in Seq(Meanings), NEW t,
         NEW s, s \notin {NoStruct, NewStruct}, Told(q, m, s),
         NEW d, d = SetItem(q, t), NEW u \in Items,
         Top(q) \in {"Value", "Notification"} => u.name = s.name /\ u.value = t,
         Top(q) \notin {"Value", "Notification"} => u = s
  PROVE  /\ d.status = q.status /\ d.stack = q.stack
         /\ Told(d, m, u) /\ u # NoStruct
<1>1. q \in Readers /\ q.list \in Seq(Items) /\ Len(q.list) \in Nat
  BY ListIsTyped
<1>2. /\ s \in Items /\ s.name # "" /\ q.list = Append(m, s)
      /\ q.item = [method |-> q.method, index |-> Len(q.list)]
  BY DEF Told
<1>3. s \in Meanings /\ u \in Meanings /\ s.name \in Received
  BY <1>2, ItemFields
<1>4. Len(m) \in Nat /\ Len(q.list) = Len(m) + 1 /\ q.list[Len(m) + 1] = s
  <2>1. /\ Len(m) \in Nat /\ Len(Append(m, s)) = Len(m) + 1
        /\ Append(m, s)[Len(m) + 1] = s
    BY <1>3, AppendFacts
  <2> QED
    BY <1>2, <2>1
<1>5. q.item.method = q.method /\ q.item.index = Len(m) + 1
  <2>1. [method |-> q.method, index |-> Len(q.list)].method = q.method
    OBVIOUS
  <2>2. [method |-> q.method, index |-> Len(q.list)].index = Len(q.list)
    OBVIOUS
  <2> QED
    BY <1>2, <1>4, <2>1, <2>2
<1>6. q.item.index # 0
  BY <1>4, <1>5
<1>7. CASE Top(q) \notin {"Value", "Notification"}
  <2>1. d = q /\ u = s
    BY <1>5, <1>6, <1>7 DEF SetItem
  <2> QED
    BY <2>1
<1>8. CASE Top(q) \in {"Value", "Notification"}
  <2> DEFINE list == [q.list EXCEPT ![Len(m) + 1] = u]
  <2>1. u = [name |-> q.list[Len(m) + 1].name, value |-> t]
    BY <1>4, <1>8, ItemFields
  <2>2. d = [q EXCEPT !.list = list]
    BY <1>5, <1>6, <1>8, <2>1 DEF SetItem
  <2>3. list = Append(m, u)
    <3>1. [Append(m, s) EXCEPT ![Len(m) + 1] = u] = Append(m, u)
      BY <1>3, SetLast
    <3> QED
      BY <1>2, <3>1
  <2>4. Len(list) = Len(q.list)
    <3>1. Len(Append(m, u)) = Len(m) + 1
      BY <1>3, AppendFacts
    <3> QED
      BY <1>4, <2>3, <3>1
  <2> HIDE DEF list
  <2>5. /\ d.status = q.status /\ d.stack = q.stack /\ d.list = list
        /\ d.item = q.item /\ d.method = q.method
    BY <1>1, <2>2 DEF Readers
  <2>6. u # NoStruct /\ u # NewStruct /\ u.name # ""
    <3>1. "none" \notin Received
      BY DEF Received, Delivered, Texts
    <3>2. NoStruct.name = "none" /\ NewStruct.name = ""
      BY DEF NoStruct, NewStruct
    <3> QED
      BY <1>2, <1>3, <1>8, <3>1, <3>2
  <2> QED
    BY <1>2, <2>3, <2>4, <2>5, <2>6 DEF Told
<1> QED
  BY <1>7, <1>8

\* Element e is open in reader q, which was told m and s, and its text t makes
\* n and u of them, where a structure begins with its one Name.
Says(q, e, m, s, t, n, u) ==
  /\ Top(q) = e /\ Fits(e, Above(q))
  /\ m \in Seq(Meanings) /\ Told(q, m, s)
  /\ Above(q) \in Structs \cup {"AccessList"} => s # NoStruct
  /\ Above(q) = "ParameterNames" => s = NoStruct
  /\ e = "Name" <=> s = NewStruct
  /\ t \in Texts /\ t # "padded"
  /\ n = IF e = "string" /\ Above(q) = "ParameterNames"
           THEN Append(m, [name |-> t, value |-> ""]) ELSE m
  /\ u \in Meanings
  /\ e = "Name" => u.name = t /\ u.value = ""
  /\ e \in {"Value", "Notification"} => u.name = s.name /\ u.value = t
  /\ e \notin {"Name", "Value", "Notification"} => u = s

\* A text that is no error makes of the parameters what it says.
LEMMA DataTold ==
  ASSUME NEW q, Sound(q), q.status = "reading", NEW e, NEW m, NEW s, NEW t,
         NEW n, NEW u, Says(q, e, m, s, t, n, u),
         NEW d, d = Data(q, Delivered(t)), d # Refused
  PROVE  /\ d.status = "reading" /\ d.stack = q.stack
         /\ Told(d, n, u) /\ (u = NoStruct <=> s = NoStruct)
<1>1. Delivered(t) = t /\ t \in Received /\ ~Unfit(q, t)
  BY WrittenIsReceived DEF Delivered, Data, Says
<1>2. q \in Readers /\ q.list \in Seq(Items)
  BY DEF Sound, Readers
<1>3. t \in AcceptedTexts(e, Above(q))
  BY <1>1 DEF Unfit, Says
<1>4. CASE e = "Name"
  <2>1. t # ""
    BY <1>3, <1>4 DEF AcceptedTexts
  <2>2. "" \in Received
    BY DEF Received, Delivered, Texts
  <2>3. u \in Items
    BY <1>1, <1>4, <2>2 DEF Items, Meanings, Says
  <2>4. d = AddItem(q, t)
    BY <1>1, <1>4 DEF Data, Says
  <2>5. s = NewStruct /\ NewStruct # NoStruct /\ n = m
    BY <1>4 DEF NoStruct, NewStruct, Says
  <2>6. u.name # "" /\ u.value = "" /\ d = AddItem(q, u.name)
    BY <1>4, <2>1, <2>4 DEF Says
  <2>7. Told(q, m, NewStruct)
    BY <2>5 DEF Says
  <2>8. /\ d.status = q.status /\ d.stack = q.stack
        /\ Told(d, m, u) /\ u # NoStruct
    BY <2>3, <2>6, <2>7, AddItemTold
  <2> QED
    BY <2>5, <2>8
<1>5. CASE e = "string" /\ Above(q) = "ParameterNames"
  <2> DEFINE new == [name |-> t, value |-> ""]
  <2>1. d = [q EXCEPT !.list = Append(@, new)]
    BY <1>1, <1>5 DEF Data, Says
  <2>2. s = NoStruct /\ u = s /\ n = Append(m, new)
    BY <1>5 DEF Says
  <2> HIDE DEF new
  <2>3. d.status = q.status /\ d.stack = q.stack /\ d.list = Append(q.list, new)
    BY <1>2, <2>1 DEF Readers
  <2> QED
    BY <2>2, <2>3 DEF Told, Says
<1>6. CASE OfItem(q)
  <2>1. Above(q) \in Structs \cup {"AccessList"} /\ e # "Name"
    BY <1>6, ListPlaceFacts DEF OfItem, Says
  <2>2. Above(q) # "ParameterNames"
    BY <2>1 DEF Structs
  <2>3. d = SetItem(q, t)
    BY <1>1, <1>6, <2>1, <2>2 DEF Data, OfItem, Says
  <2>4. s \notin {NoStruct, NewStruct} /\ n = m
    BY <2>1, <2>2 DEF Says
  <2>5. u \in Items
    <3>1. s \in Items
      BY <2>4 DEF Told, Says
    <3>2. CASE e \in {"Value", "Notification"}
      BY <1>1, <3>1, <3>2 DEF Items, Meanings, Says
    <3> QED
      BY <2>1, <3>1, <3>2 DEF Says
  <2>6. /\ Top(q) \in {"Value", "Notification"} => u.name = s.name /\ u.value = t
        /\ Top(q) \notin {"Value", "Notification"} => u = s
        /\ Told(q, m, s)
    BY <2>1 DEF Says
  <2>7. /\ d.status = q.status /\ d.stack = q.stack
        /\ Told(d, m, u) /\ u # NoStruct
    BY <2>3, <2>4, <2>5, <2>6, SetItemTold DEF Says
  <2> QED
    BY <2>4, <2>7
<1>7. CASE e # "Name" /\ ~(e = "string" /\ Above(q) = "ParameterNames") /\ ~OfItem(q)
  <2>1. e \notin {"Value", "Notification"} /\ u = s /\ n = m
    BY <1>7 DEF OfItem, Says
  <2>2. d = q \/ d = [q EXCEPT !.id = TRUE]
    BY <1>1, <1>7 DEF Data, Says
  <2>3. /\ d.status = q.status /\ d.stack = q.stack /\ d.list = q.list
        /\ d.item = q.item /\ d.method = q.method
    BY <1>2, <2>2 DEF Readers
  <2> QED
    BY <2>1, <2>3 DEF Told, Says
<1> QED
  BY <1>4, <1>5, <1>6, <1>7

-----------------------------------------------------------------------------

\* The histories are those of the step as long as all is plain and read.
LEMMA HistoriesTold ==
  ASSUME HistoriesOK, NEW m, NEW s, NEW p \in BOOLEAN, Histories(m, s, p), plain'
  PROVE  /\ plain /\ p
         /\ reader'.status \in {"reading", "accepted"} => meant' = m /\ struct' = s
         /\ reader' = Refused => meant' = <<>> /\ struct' = NoStruct
<1>1. plain /\ p
  BY DEF Histories
<1>2. Refused.status \notin {"reading", "accepted"}
  BY GivenUp
<1> QED
  BY <1>1, <1>2 DEF Histories

\* A message that is given up has no parameters.
LEMMA RefusedReads ==
  ASSUME HistoriesOK, NEW m, NEW s, NEW p \in BOOLEAN, Histories(m, s, p),
         reader' = Refused
  PROVE  ReadSoFar'
BY HistoriesTold DEF ReadSoFar

\* While it reads, the reader has read what it was told.
LEMMA ReadWhileReading ==
  ASSUME ReadSoFar, plain, reader.status = "reading"
  PROVE  /\ InStruct(reader) <=> struct # NoStruct
         /\ Told(reader, meant, struct)
BY GivenUp DEF ReadSoFar

\* An element that begins may be a structure.
LEMMA InStructAppend ==
  ASSUME NEW r, Sound(r), NEW top \in Opened, NEW q, q.stack = Append(r.stack, top)
  PROVE  InStruct(q) <=> InStruct(r) \/ top.name \in Structs
<1> DEFINE n == Len(r.stack)
<1>1. r.stack \in Seq(Opened)
  BY DEF Sound, Readers
<1>2. /\ n \in Nat /\ Len(q.stack) = n + 1 /\ q.stack[n + 1] = top
      /\ \A k \in 1..n : q.stack[k] = r.stack[k]
  BY <1>1, AppendFacts
<1>3. /\ n + 1 \in 1..(n + 1) /\ 1..n \subseteq 1..(n + 1)
      /\ \A k \in 1..(n + 1) : k = n + 1 \/ k \in 1..n
  BY <1>2
<1> HIDE DEF n
<1>4. InStruct(q) <=> \E k \in 1..(n + 1) : q.stack[k].name \in Structs
  BY <1>2 DEF InStruct
<1>5. InStruct(r) <=> \E k \in 1..n : r.stack[k].name \in Structs
  BY DEF InStruct, n
<1> QED
  BY <1>2, <1>3, <1>4, <1>5

\* <e> with other elements in it.
LEMMA OpenReads ==
  ASSUME IInv, ReadSoFar, NEW e \in Elements, NEW ns, Open(e, ns)
  PROVE  ReadSoFar'
<1> DEFINE s == IF e \in Structs THEN NewStruct ELSE struct
<1>1. /\ Sound(reader) /\ HistoriesOK /\ reader.status = "reading"
      /\ reader' = Begin(reader, e, ns) /\ Histories(MeantFrom(e), s, TRUE)
  BY DEF IInv, Open
<1>2. CASE reader' = Refused
  BY <1>1, <1>2, RefusedReads
<1>3. CASE reader' # Refused
  <2> SUFFICES ASSUME plain'
               PROVE  /\ reader'.status \in {"reading", "accepted"}
                      /\ InStruct(reader') <=> struct' # NoStruct
                      /\ Told(reader', meant', struct')
    BY DEF ReadSoFar
  <2> HIDE DEF s
  <2>1. plain
    BY <1>1, HistoriesTold
  <2>2. InStruct(reader) <=> struct # NoStruct
    BY <1>1, <2>1, ReadWhileReading
  <2>3. Told(reader, meant, struct)
    BY <1>1, <2>1, ReadWhileReading
  <2>4. /\ Fits(e, Top(reader)) /\ reader'.status = "reading"
        /\ \E top \in Opened :
             top.name = e /\ reader'.stack = Append(reader.stack, top)
        /\ Told(reader', MeantFrom(e), struct)
    BY <1>1, <1>3, <2>2, <2>3, BeginTold
  <2>5. meant' = MeantFrom(e) /\ struct' = s
    BY <1>1, <2>4, HistoriesTold
  <2>6. InStruct(reader') <=> InStruct(reader) \/ e \in Structs
    BY <1>1, <2>4, InStructAppend
  <2>7. CASE e \in Structs
    <3>1. Top(reader) = "ParameterList"
      BY <2>4, <2>7, ListPlaceFacts
    <3>2. struct = NoStruct
      BY <1>1, <2>2, <3>1, StructByTop
    <3>3. Told(reader', MeantFrom(e), NewStruct)
      BY <2>4, <3>2 DEF Told
    <3>4. NewStruct # NoStruct
      BY DEF NewStruct, NoStruct
    <3> QED
      BY <2>4, <2>5, <2>6, <2>7, <3>3, <3>4 DEF s
  <2>8. CASE e \notin Structs
    BY <2>2, <2>4, <2>5, <2>6, <2>8 DEF s
  <2> QED
    BY <2>7, <2>8
<1> QED
  BY <1>2, <1>3

\* What ended leaves the elements that were open before it began.
LEMMA EndsBegun ==
  ASSUME NEW S, NEW m \in Seq(S), NEW x \in S
  PROVE  Front(Append(m, x)) = m
BY DEF Front

\* After a message is given up, no callback is called.
LEMMA RefusedStays ==
  /\ \A t : Data(Refused, t) = Refused
  /\ \A e : End(Refused, e) = Refused
BY GivenUp DEF Data, End

\* An element that ended, after a text or without one, has told what it says.
LEMMA EndedReads ==
  ASSUME IInv, ReadSoFar, reader.status = "reading", plain,
         NEW e, NEW d, Sound(d), d.status = "reading",
         NEW top \in Opened, d.stack = Append(reader.stack, top),
         NEW n, NEW u, Told(d, n, u), u = NoStruct <=> struct = NoStruct,
         reader' = End(d, e), reader' # Refused, meant' = n, struct' = u
  PROVE  ReadSoFar'
<1>1. PICK q : q = End(d, e) /\ q # Refused /\ reader' = q
  OBVIOUS
<1>2. /\ q.status = "reading" /\ q.stack = Front(d.stack)
      /\ Told(q, n, u)
  BY <1>1, EndTold
<1>3. reader.stack \in Seq(Opened)
  BY DEF IInv, Sound, Readers
<1>4. reader'.stack = reader.stack
  BY <1>1, <1>2, <1>3, EndsBegun
<1>5. InStruct(reader') <=> struct # NoStruct
  <2>1. InStruct(reader') <=> InStruct(reader)
    BY <1>4 DEF InStruct
  <2> QED
    BY <2>1, ReadWhileReading
<1> QED
  BY <1>1, <1>2, <1>5 DEF ReadSoFar

\* <e/>.
LEMMA EmptyReads ==
  ASSUME IInv, ReadSoFar, NEW e \in Elements, NEW ns, Empty(e, ns)
  PROVE  ReadSoFar'
<1> DEFINE b == Begin(reader, e, ns)
<1>1. /\ Sound(reader) /\ HistoriesOK /\ reader.status = "reading"
      /\ reader' = End(b, e) /\ Histories(MeantFrom(e), struct, TRUE)
  BY DEF IInv, Empty
<1>2. CASE reader' = Refused \/ ~plain'
  BY <1>1, <1>2, RefusedReads DEF ReadSoFar
<1>3. CASE reader' # Refused /\ plain'
  <2>1. b # Refused
    BY <1>1, <1>3, RefusedStays
  <2>2. plain
    BY <1>1, <1>3, HistoriesTold
  <2>3. InStruct(reader) <=> struct # NoStruct
    BY <1>1, <2>2, ReadWhileReading
  <2>4. Told(reader, meant, struct)
    BY <1>1, <2>2, ReadWhileReading
  <2>5. /\ b.status = "reading"
        /\ \E top \in Opened : b.stack = Append(reader.stack, top)
        /\ Told(b, MeantFrom(e), struct)
    BY <1>1, <2>1, <2>3, <2>4, BeginTold
  <2>6. Sound(b)
    BY <1>1, BeginIsSound
  <2> HIDE DEF b
  <2>7. reader'.status = "reading"
    BY <1>1, <1>3, <2>5, <2>6, EndTold
  <2>8. meant' = MeantFrom(e) /\ struct' = struct
    BY <1>1, <1>3, <2>7, HistoriesTold
  <2> QED
    BY <1>1, <1>3, <2>2, <2>5, <2>6, <2>8, EndedReads
<1> QED
  BY <1>2, <1>3

\* What the text of an element makes of the structure it is in.
LEMMA StructWithTold ==
  ASSUME struct \in Meanings, NEW e, NEW t, Written(t) = t
  PROVE  /\ e = "Name" /\ struct = NewStruct =>
              StructWith(e, t).name = t /\ StructWith(e, t).value = ""
         /\ e \in {"Value", "Notification"} =>
              StructWith(e, t).name = struct.name /\ StructWith(e, t).value = t
         /\ e \notin {"Name", "Value", "Notification"} => StructWith(e, t) = struct
<1>1. CASE e = "Name"
  <2>1. StructWith(e, t) = [struct EXCEPT !.name = t]
    BY <1>1 DEF StructWith
  <2>2. [struct EXCEPT !.name = t].name = t
    BY DEF Meanings
  <2>3. [struct EXCEPT !.name = t].value = struct.value
    BY DEF Meanings
  <2>4. NewStruct.value = ""
    BY DEF NewStruct
  <2> QED
    BY <1>1, <2>1, <2>2, <2>3, <2>4
<1>2. CASE e \in {"Value", "Notification"}
  <2>1. StructWith(e, t) = [struct EXCEPT !.value = t]
    BY <1>2 DEF StructWith
  <2>2. [struct EXCEPT !.value = t].value = t
    BY DEF Meanings
  <2>3. [struct EXCEPT !.value = t].name = struct.name
    BY DEF Meanings
  <2> QED
    BY <1>2, <2>1, <2>2, <2>3
<1>3. CASE e \notin {"Name", "Value", "Notification"}
  BY <1>3 DEF StructWith
<1> QED
  BY <1>1, <1>2, <1>3

\* <e>t</e>.
LEMMA LeafReads ==
  ASSUME IInv, ReadSoFar, NEW e \in Elements, NEW ns, NEW t \in Texts, Leaf(e, ns, t)
  PROVE  ReadSoFar'
<1> DEFINE b == Begin(reader, e, ns)
           d == Data(b, Delivered(t))
           m == IF e = "string" /\ Top(reader) = "ParameterNames"
                  THEN Append(meant, [name |-> Written(t), value |-> ""])
                  ELSE MeantFrom(e)
           u == StructWith(e, t)
           p == t # "padded" /\ InOrder(e)
<1>1. /\ Sound(reader) /\ HistoriesOK /\ reader.status = "reading"
      /\ reader' = End(d, e) /\ Histories(m, u, p)
      /\ p \in BOOLEAN
  BY DEF IInv, Leaf, InOrder
<1>2. CASE reader' = Refused \/ ~plain'
  <2> HIDE DEF m, u, p
  <2> QED
    BY <1>1, <1>2, RefusedReads DEF ReadSoFar
<1>3. CASE reader' # Refused /\ plain'
  <2>1. d # Refused /\ b # Refused
    BY <1>1, <1>3, RefusedStays
  <2>2. plain /\ p
    <3> HIDE DEF m, u, p
    <3> QED
      BY <1>1, <1>3, HistoriesTold
  <2>3. InStruct(reader) <=> struct # NoStruct
    BY <1>1, <2>2, ReadWhileReading
  <2>4. Told(reader, meant, struct)
    BY <1>1, <2>2, ReadWhileReading
  <2>5. /\ Fits(e, Top(reader)) /\ Top(b) = e /\ Above(b) = Top(reader)
        /\ b.status = "reading"
        /\ \E top \in Opened : b.stack = Append(reader.stack, top)
        /\ Told(b, MeantFrom(e), struct)
    <3>1. PICK q : q = b /\ q # Refused
      BY <2>1
    <3> HIDE DEF d, m, u, p
    <3>2. /\ Fits(e, Top(reader)) /\ Top(q) = e /\ Above(q) = Top(reader)
          /\ q.status = "reading"
          /\ \E top \in Opened : top.name = e /\ q.stack = Append(reader.stack, top)
          /\ Told(q, MeantFrom(e), struct)
      BY <1>1, <2>3, <2>4, <3>1, BeginTold
    <3>3. q = b
      BY <3>1
    <3> HIDE DEF b
    <3> QED
      BY <3>2, <3>3
  <2>6. Sound(b)
    BY <1>1, BeginIsSound
  <2>7. Sound(d)
    BY <2>6, DataIsSound, WrittenIsReceived
  <2>8. /\ Above(b) \in Structs \cup {"AccessList"} => struct # NoStruct
        /\ Above(b) = "ParameterNames" => struct = NoStruct
    BY <1>1, <2>3, <2>5, StructByTop
  <2>9. t # "padded" /\ (e = "Name" <=> struct = NewStruct) /\ Written(t) = t
    BY <2>2 DEF InOrder, Written
  <2>10. u \in Meanings
    BY <1>1, WrittenIsReceived DEF StructWith, Meanings, HistoriesOK
  <2>11. /\ e = "Name" => u.name = t /\ u.value = ""
         /\ e \in {"Value", "Notification"} => u.name = struct.name /\ u.value = t
         /\ e \notin {"Name", "Value", "Notification"} => u = struct
    <3>1. struct \in Meanings
      BY <1>1 DEF HistoriesOK
    <3> HIDE DEF b, d, m, u, p
    <3>2. Written(t) = t
      BY <2>9
    <3>3. /\ e = "Name" /\ struct = NewStruct => u.name = t /\ u.value = ""
          /\ e \in {"Value", "Notification"} => u.name = struct.name /\ u.value = t
          /\ e \notin {"Name", "Value", "Notification"} => u = struct
      BY <3>1, <3>2, StructWithTold DEF u
    <3> QED
      BY <2>9, <3>3
  <2>12. m = IF e = "string" /\ Above(b) = "ParameterNames"
               THEN Append(MeantFrom(e), [name |-> t, value |-> ""])
               ELSE MeantFrom(e)
    <3>1. e = "string" => MeantFrom(e) = meant
      BY DEF MeantFrom, Requests, Responses
    <3> QED
      BY <2>5, <2>9, <3>1
  <2>13. MeantFrom(e) \in Seq(Meanings)
    BY MeantFromIsTyped
  <2>14. d = Data(b, Delivered(t))
    OBVIOUS
  <2> HIDE DEF b, d, m, u, p
  <2>15. Says(b, e, MeantFrom(e), struct, t, m, u)
    BY <2>5, <2>8, <2>9, <2>10, <2>11, <2>12, <2>13 DEF Says
  <2>16. /\ d.status = "reading" /\ d.stack = b.stack
         /\ Told(d, m, u) /\ (u = NoStruct <=> struct = NoStruct)
    BY <2>1, <2>5, <2>6, <2>14, <2>15, DataTold
  <2>17. reader'.status = "reading"
    BY <1>1, <1>3, <2>7, <2>16, EndTold
  <2>18. meant' = m /\ struct' = u
    BY <1>1, <1>3, <2>17, HistoriesTold
  <2> QED
    BY <1>1, <1>3, <2>2, <2>5, <2>7, <2>16, <2>18, EndedReads
<1> QED
  BY <1>2, <1>3

\* An element that is closed may be the structure.
LEMMA InStructFront ==
  ASSUME NEW r, Sound(r), Top(r) # "none", NEW q, q.stack = Front(r.stack)
  PROVE  InStruct(q) <=> InStruct(r) /\ Top(r) \notin Structs
<1> DEFINE n == Len(r.stack)
<1>1. r.stack \in Seq(Opened) /\ r \in Readers
  BY DEF Sound, Readers
<1>2. n \in Nat /\ n > 0 /\ Top(r) = r.stack[n].name
  BY <1>1, TopIsLast
<1>3. /\ Len(q.stack) = n - 1
      /\ \A k \in 1..(n - 1) : q.stack[k] = r.stack[k]
  BY <1>1, <1>2 DEF Front
<1>4. /\ n \in 1..n /\ 1..(n - 1) \subseteq 1..n
      /\ \A k \in 1..n : k = n \/ k \in 1..(n - 1)
  BY <1>2
<1>5. Top(r) \in Structs => \A k \in 1..(n - 1) : r.stack[k].name \notin Structs
  <2> SUFFICES ASSUME Top(r) \in Structs,
                      NEW k \in 1..(n - 1), r.stack[k].name \in Structs
               PROVE  FALSE
    OBVIOUS
  <2>1. k = 5 /\ n = 5
    BY <1>2, <1>4, Depths
  <2> QED
    BY <2>1
<1> HIDE DEF n
<1>6. InStruct(q) <=> \E k \in 1..(n - 1) : r.stack[k].name \in Structs
  BY <1>3 DEF InStruct
<1>7. InStruct(r) <=> \E k \in 1..n : r.stack[k].name \in Structs
  BY DEF InStruct, n
<1> QED
  BY <1>2, <1>4, <1>5, <1>6, <1>7

\* </e>.
LEMMA CloseReads ==
  ASSUME IInv, ReadSoFar, NEW e \in Elements, Close(e)
  PROVE  ReadSoFar'
<1> DEFINE m == IF e \in Structs /\ struct.name # "" THEN Append(meant, struct)
                ELSE meant
           s == IF e \in Structs THEN NoStruct ELSE struct
<1>1. /\ Sound(reader) /\ HistoriesOK /\ reader.status = "reading"
      /\ reader' = End(reader, e) /\ Histories(m, s, TRUE)
  BY DEF IInv, Close
<1>2. CASE reader' = Refused \/ ~plain'
  <2> HIDE DEF m, s
  <2> QED
    BY <1>1, <1>2, RefusedReads DEF ReadSoFar
<1>3. CASE reader' # Refused /\ plain'
  <2> HIDE DEF m, s
  <2>1. PICK q : q = End(reader, e) /\ q # Refused /\ reader' = q
    BY <1>1, <1>3
  <2>2. plain
    BY <1>1, <1>3, HistoriesTold
  <2>3. InStruct(reader) <=> struct # NoStruct
    BY <1>1, <2>2, ReadWhileReading
  <2>4. Told(reader, meant, struct)
    BY <1>1, <2>2, ReadWhileReading
  <2>5. /\ Top(reader) = e /\ q.status = "reading" /\ q.stack = Front(reader.stack)
        /\ Told(q, meant, struct)
    BY <1>1, <2>1, <2>4, EndTold
  <2>6. meant' = m /\ struct' = s
    BY <1>1, <1>3, <2>1, <2>5, HistoriesTold
  <2>7. InStruct(q) <=> InStruct(reader) /\ e \notin Structs
    BY <1>1, <2>5, PlaceFacts, InStructFront
  <2>8. CASE e \in Structs
    <3>1. struct # NoStruct
      BY <1>1, <2>3, <2>5, <2>8, StructByTop
    <3>2. s = NoStruct /\ NewStruct.name = ""
      BY <2>8 DEF s, NewStruct
    <3>3. q.list = m
      BY <2>5, <2>8, <3>1, <3>2 DEF Told, m
    <3>4. Told(q, m, s)
      BY <3>2, <3>3 DEF Told
    <3> QED
      BY <2>1, <2>5, <2>6, <2>7, <2>8, <3>2, <3>4 DEF ReadSoFar
  <2>9. CASE e \notin Structs
    <3>1. m = meant /\ s = struct
      BY <2>9 DEF m, s
    <3> QED
      BY <2>1, <2>3, <2>5, <2>6, <2>7, <2>9, <3>1 DEF ReadSoFar
  <2> QED
    BY <2>8, <2>9
<1> QED
  BY <1>2, <1>3

\* The end of the document.
LEMMA FinishReads ==
  ASSUME IInv, ReadSoFar, Finish
  PROVE  ReadSoFar'
<1>1. /\ reader \in Readers /\ HistoriesOK /\ reader.status = "reading"
      /\ Histories(meant, struct, TRUE)
  BY DEF IInv, Sound, Finish
<1>2. CASE reader' = Refused \/ ~plain'
  BY <1>1, <1>2, RefusedReads DEF ReadSoFar
<1>3. CASE reader' # Refused /\ plain'
  <2>1. PICK q : q = [reader EXCEPT !.status = "accepted"] /\ reader' = q
    BY <1>3 DEF Finish
  <2>2. /\ q.status = "accepted" /\ q.stack = reader.stack
        /\ q.list = reader.list /\ q.item = reader.item /\ q.method = reader.method
    BY <1>1, <2>1 DEF Readers
  <2>3. plain /\ meant' = meant /\ struct' = struct
    BY <1>1, <1>3, <2>1, <2>2, HistoriesTold
  <2>4. InStruct(reader) <=> struct # NoStruct
    BY <1>1, <2>3, ReadWhileReading
  <2>5. Told(reader, meant, struct)
    BY <1>1, <2>3, ReadWhileReading
  <2>6. (InStruct(q) <=> struct # NoStruct) /\ Told(q, meant, struct)
    BY <2>2, <2>4, <2>5 DEF InStruct, Told
  <2> QED
    BY <2>1, <2>2, <2>3, <2>6 DEF ReadSoFar
<1> QED
  BY <1>2, <1>3

\* A new parser has read nothing.
LEMMA NothingRead ==
  /\ Reading.status = "reading" /\ Told(Reading, <<>>, NoStruct) /\ ~InStruct(Reading)
<1>1. Reading.status = "reading" /\ Reading.list = <<>> /\ Reading.stack = <<>>
  BY DEF Reading, Parser
<1>2. 1..Len(Reading.stack) = {}
  BY <1>1
<1> QED
  BY <1>1, <1>2 DEF Told, InStruct

\* ReadSoFar is kept by every step of a sound reader.
LEMMA ReadSoFarIsInductive ==
  /\ Init => ReadSoFar
  /\ IInv /\ ReadSoFar /\ [Next]_vars => ReadSoFar'
<1>1. Init => ReadSoFar
  BY NothingRead DEF Init, ReadSoFar
<1>2. ASSUME IInv, ReadSoFar, [Next]_vars PROVE ReadSoFar'
  <2>1. ASSUME NEW e \in Elements, NEW ns \in Namespaces, Open(e, ns)
        PROVE  ReadSoFar'
    BY <1>2, <2>1, OpenReads
  <2>2. ASSUME NEW e \in Elements, NEW ns \in Namespaces,
               NEW t \in TextsOf(e), Leaf(e, ns, t)
        PROVE  ReadSoFar'
    <3>1. t \in Texts
      BY MsgReaderAssumption DEF TextsOf, Texts
    <3> QED
      BY <1>2, <2>2, <3>1, LeafReads
  <2>3. ASSUME NEW e \in Elements, NEW ns \in Namespaces, Empty(e, ns)
        PROVE  ReadSoFar'
    BY <1>2, <2>3, EmptyReads
  <2>4. ASSUME NEW e \in Elements, Close(e)
        PROVE  ReadSoFar'
    BY <1>2, <2>4, CloseReads
  <2>5. CASE Finish
    BY <1>2, <2>5, FinishReads
  <2>6. CASE NextMessage
    BY <2>6, NothingRead DEF NextMessage, ReadSoFar
  <2>7. CASE UNCHANGED vars
    BY <1>2, <2>7 DEF vars, ReadSoFar
  <2> QED
    BY <1>2, <2>1, <2>2, <2>3, <2>4, <2>5, <2>6, <2>7 DEF Next
<1> QED
  BY <1>1, <1>2

\* The parameters that the callbacks of evcpe_msg_from_xml read are the ones in
\* the document, each with the value of its own structure.
THEOREM AlwaysReadBack == Spec => []ReadBack
<1>1. ReadSoFar => ReadBack
  <2> SUFFICES ASSUME ReadSoFar, plain
               PROVE  /\ reader.status # "undefined"
                      /\ struct = NoStruct => reader.list = meant
    BY DEF ReadBack
  <2>1. CASE reader = Refused /\ meant = <<>> /\ struct = NoStruct
    <3>1. Refused.list = <<>>
      BY DEF Refused, Parser
    <3> QED
      BY <2>1, <3>1, GivenUp
  <2>2. CASE reader.status \in {"reading", "accepted"} /\ Told(reader, meant, struct)
    BY <2>2 DEF Told
  <2> QED
    BY <2>1, <2>2 DEF ReadSoFar
<1>2. Spec => []ReadSoFar
  BY Invariance, ReadSoFarIsInductive, PTL DEF Spec
<1> QED
  BY <1>1, <1>2, PTL

=============================================================================
