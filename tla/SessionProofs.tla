--------------------------- MODULE SessionProofs ----------------------------
(***************************************************************************)
(* The safety of a session for every set of methods and number of calls.   *)
(*                                                                         *)
(* OneExchange and InStep are inductive together with the types and with   *)
(* Idle, which says that a session that is not open has nothing in flight  *)
(* and nothing queued; Shape puts the three into the form in which a step  *)
(* uses them: what exactly is in flight, and what the ACS waits for.       *)
(***************************************************************************)
EXTENDS Session, TLAPS

Replies == [body : Messages, hold : BOOLEAN, cookie : Cookie, jar : Jars]

\* A POST is under way: an answer exactly if the ACS waits for one.
PostInFlight ==
  \E m \in Messages :
    /\ posts = <<m>>
    /\ replies = <<>>
    /\ \/ asked = <<>> /\ ~IsAnswer(m)
       \/ \E c \in Messages : asked = <<c>> /\ Answers(m, c)

\* A reply is under way: a call exactly if the ACS waits for an answer.
ReplyInFlight ==
  \E r \in Replies :
    /\ posts = <<>>
    /\ replies = <<r>>
    /\ asked = IF r.body.type = "request" THEN <<r.body>> ELSE <<>>

Idle ==
  /\ posts = <<>>
  /\ replies = <<>>
  /\ status \in {"none", "closed"} => reqOut = <<>>

Shape ==
  /\ reqIn = <<>>
  /\ resPending = <<>>
  /\ IF status = "open" THEN PostInFlight \/ ReplyInFlight ELSE Idle

IInv == TypeOK /\ Shape

-----------------------------------------------------------------------------

Types == {"empty", "request", "response", "bad response", "fault", "garbage"}

\* A message of well-typed parts is a message.
LEMMA MessageType ==
  ASSUME NEW type \in Types, NEW method \in Known \cup {"Inform", "none"},
         NEW id \in 0..MaxCalls \cup {NoId}
  PROVE  Message(type, method, id) \in Messages
BY DEF Types, Message, Messages

\* What the agent and the ACS send are messages.
LEMMA MessageTypes ==
  /\ Inform \in Messages
  /\ Nothing \in Messages
  /\ Bodies \subseteq Messages
  /\ \A n \in 0..MaxCalls : Calls(n) \subseteq Messages
<1>1. 0 \in 0..MaxCalls
  BY SessionAssumption
<1>2. \A type \in Types, method \in Known \cup {"Inform", "none"} :
        Message(type, method, 0) \in Messages
  BY <1>1, MessageType
<1>3. "Inform" \in Known \cup {"Inform", "none"}
  OBVIOUS
<1>4. "none" \in Known \cup {"Inform", "none"}
  OBVIOUS
<1>5. "GetRPCMethods" \in Known \cup {"Inform", "none"}
  BY DEF Known
<1>6. /\ Inform \in Messages
      /\ Nothing \in Messages
  BY <1>2, <1>3, <1>4 DEF Inform, Nothing, Types
<1>7. Bodies \subseteq Messages
  BY <1>2, <1>3, <1>4, <1>5, <1>6 DEF Bodies, Types
<1>8. ASSUME NEW n \in 0..MaxCalls PROVE Calls(n) \subseteq Messages
  <2>1. ASSUME NEW m \in AcsMethods, NEW id \in {n, NoId}
        PROVE  Message("request", m, id) \in Messages
    BY MessageType, SessionAssumption DEF Types
  <2> QED BY <2>1 DEF Calls
<1> QED BY <1>6, <1>7, <1>8

\* The bodies the ACS may send besides its calls are no requests.
LEMMA BodiesAreNoCalls ==
  ASSUME NEW b \in Bodies
  PROVE  b.type # "request"
<1>1. ASSUME NEW type \in Types \ {"request"}, NEW method
      PROVE  Message(type, method, 0).type # "request"
  BY <1>1 DEF Message
<1> QED BY <1>1 DEF Bodies, Nothing, Types

\* No cookies are cookies, and so are the ones a reply leaves.
LEMMA NoCookiesTyped == NoCookies \in Jars
BY DEF NoCookies, Jars

LEMMA StoredTyped ==
  ASSUME cookies \in Jars, NEW r \in Replies
  PROVE  Stored(r) \in Jars
BY DEF Stored, Jars, Replies

\* Closing a session leaves nothing in flight and nothing queued.
LEMMA CloseInv ==
  ASSUME TypeOK, NEW code \in {Ok, Failed}, Close(code)
  PROVE  IInv'
<1>1. TypeOK'
  <2>1. /\ <<>> \in Seq(Messages)
        /\ <<>> \in Seq([body : Messages, hold : BOOLEAN, cookie : Cookie, jar : Jars])
    OBVIOUS
  <2> QED BY <2>1, NoCookiesTyped DEF TypeOK, Close
<1>2. Shape'
  BY DEF Shape, Idle, Close
<1> QED BY <1>1, <1>2 DEF IInv

\* A session that becomes undefined has nothing in flight.
LEMMA UndefinedInv ==
  ASSUME TypeOK, reqIn = <<>>, resPending = <<>>,
         NEW out \in {<<>>, <<Inform>>}, BecomesUndefined(out)
  PROVE  IInv'
<1>1. TypeOK'
  <2>1. /\ <<>> \in Seq(Messages)
        /\ <<>> \in Seq([body : Messages, hold : BOOLEAN, cookie : Cookie, jar : Jars])
    OBVIOUS
  <2> QED BY <2>1 DEF TypeOK, BecomesUndefined
<1>2. Shape'
  BY DEF Shape, Idle, BecomesUndefined
<1> QED BY <1>1, <1>2 DEF IInv

\* The second half of the callback, given what its first half may leave: the
\* answer to the call of the ACS, or nothing and no call.
LEMMA SendNextInv ==
  ASSUME TypeOK, status = "open", posts = <<>>, reqIn = <<>>, resPending = <<>>,
         NEW r \in Replies, replies = <<r>>,
         NEW res,
         \/ res = <<>> /\ asked = <<>>
         \/ \E m, c \in Messages :
              res = <<m>> /\ asked = <<c>> /\ Answers(m, c),
         NEW out \in {<<>>, <<Inform>>},
         NEW held \in BOOLEAN,
         SendNext(res, out, held, r)
  PROVE  IInv'
<1> DEFINE next == IF res # <<>> THEN Head(res) ELSE Nothing
<1>1. CASE \E code \in {Ok, Failed} : Close(code)
  BY <1>1, CloseInv
<1>2. CASE /\ posts' = Append(posts, next)
           /\ resPending' = IF res # <<>> THEN Tail(res) ELSE res
           /\ reqOut' = out
           /\ hold' = held
           /\ replies' = Tail(replies)
           /\ cookies' = Stored(r)
           /\ UNCHANGED <<status, reqIn, closeCode, asked, calls>>
  <2>0. cookies' \in Jars
    BY <1>2, StoredTyped DEF TypeOK
  <2>1. posts' = <<next>> /\ replies' = <<>>
    BY <1>2
  <2>2. CASE res = <<>>
    <3>1. next = Nothing /\ asked = <<>> /\ resPending' = <<>>
      BY <1>2, <2>2
    <3>2. ~IsAnswer(next) /\ next \in Messages
      BY <3>1, MessageTypes DEF IsAnswer, Nothing, Message
    <3>3. PostInFlight'
      BY <1>2, <2>1, <3>1, <3>2 DEF PostInFlight
    <3>4. TypeOK'
      BY <1>2, <2>0, <2>1, <3>1, <3>2 DEF TypeOK
    <3> QED BY <1>2, <3>1, <3>3, <3>4 DEF IInv, Shape
  <2>3. CASE res # <<>>
    <3>1. PICK m \in Messages, c \in Messages :
            res = <<m>> /\ asked = <<c>> /\ Answers(m, c)
      BY <2>3
    <3>2. next = m /\ resPending' = <<>>
      BY <1>2, <2>3, <3>1
    <3>3. PostInFlight'
      BY <1>2, <2>1, <3>1, <3>2 DEF PostInFlight
    <3>4. TypeOK'
      BY <1>2, <2>0, <2>1, <3>1, <3>2 DEF TypeOK
    <3> QED BY <1>2, <3>2, <3>3, <3>4 DEF IInv, Shape
  <2> QED BY <2>2, <2>3
<1>3. CASE BecomesUndefined(out)
  BY <1>3, UndefinedInv
<1> QED
  BY <1>1, <1>2, <1>3 DEF SendNext

\* Before the first session nothing is in flight.
LEMMA InitInv == Init => IInv
<1> SUFFICES ASSUME Init PROVE IInv
  OBVIOUS
<1>1. TypeOK
  <2>1. /\ <<>> \in Seq(Messages)
        /\ <<>> \in Seq([body : Messages, hold : BOOLEAN, cookie : Cookie, jar : Jars])
        /\ 0 \in 0..MaxCalls
    BY SessionAssumption
  <2> QED BY <2>1, NoCookiesTyped DEF Init, TypeOK
<1>2. Shape
  BY DEF Init, Shape, Idle
<1> QED BY <1>1, <1>2 DEF IInv

\* A session starts with its Inform, or is stuck with nothing in flight.
LEMMA StartInv == IInv /\ Start => IInv'
<1> SUFFICES ASSUME IInv, Start PROVE IInv'
  OBVIOUS
<1>1. posts = <<>> /\ replies = <<>> /\ reqOut = <<>>
  BY DEF IInv, Shape, Idle, Start
<1>2. CASE /\ status' = "open"
           /\ posts' = <<Inform>>
           /\ reqOut' = Append(reqOut, Inform)
  <2>1. PostInFlight'
    BY <1>1, <1>2, MessageTypes
    DEF Start, PostInFlight, IsAnswer, Inform, Message
  <2>2. TypeOK'
    BY <1>1, <1>2, MessageTypes, NoCookiesTyped, SessionAssumption
    DEF IInv, Start, TypeOK
  <2> QED BY <1>2, <2>1, <2>2 DEF IInv, Shape, Start
<1>3. CASE status' = "stuck" /\ UNCHANGED <<posts, reqOut>>
  <2>1. TypeOK'
    BY <1>3, NoCookiesTyped, SessionAssumption DEF IInv, Start, TypeOK
  <2>2. Shape'
    BY <1>1, <1>3 DEF IInv, Shape, Idle, Start
  <2> QED BY <2>1, <2>2 DEF IInv
<1> QED BY <1>2, <1>3 DEF Start

\* The ACS takes an answer it waited for and may call once more.
LEMMA AcsRepliesInv == IInv /\ AcsReplies => IInv'
<1> SUFFICES ASSUME IInv, AcsReplies PROVE IInv'
  OBVIOUS
<1>1. status = "open" /\ PostInFlight
  BY DEF IInv, Shape, Idle, ReplyInFlight, AcsReplies
<1>2. PICK m \in Messages :
        /\ posts = <<m>>
        /\ replies = <<>>
        /\ \/ asked = <<>> /\ ~IsAnswer(m)
           \/ \E c \in Messages : asked = <<c>> /\ Answers(m, c)
  BY <1>1 DEF PostInFlight
<1>3. PICK body \in Bodies \cup (IF calls < MaxCalls THEN Calls(calls + 1) ELSE {}),
           held \in BOOLEAN, cookie \in Cookie, jar \in Jars :
        LET owed == IF IsAnswer(Head(posts)) /\ asked # <<>>
                      THEN Tail(asked) ELSE asked
            called == body.type = "request"
        IN  /\ body = Nothing => ~held
            /\ replies' = Append(replies, [body |-> body, hold |-> held,
                                           cookie |-> cookie, jar |-> jar])
            /\ asked' = IF called THEN Append(owed, body) ELSE owed
            /\ calls' = IF called THEN calls + 1 ELSE calls
  BY DEF AcsReplies
<1>4. body \in Messages
  <2>1. calls \in 0..MaxCalls /\ MaxCalls \in Nat
    BY SessionAssumption DEF IInv, TypeOK
  <2>2. calls < MaxCalls => calls + 1 \in 0..MaxCalls
    BY <2>1
  <2> QED BY <2>2, MessageTypes
<1>5. calls' \in 0..MaxCalls
  <2>1. calls \in 0..MaxCalls /\ MaxCalls \in Nat
    BY SessionAssumption DEF IInv, TypeOK
  <2>2. CASE body.type = "request"
    <3>1. body \notin Bodies
      BY <2>2, BodiesAreNoCalls
    <3>2. calls < MaxCalls
      BY <3>1
    <3> QED BY <1>3, <2>1, <2>2, <3>2
  <2> QED BY <1>3, <2>1, <2>2
<1>6. (IF IsAnswer(Head(posts)) /\ asked # <<>> THEN Tail(asked) ELSE asked) = <<>>
  <2>1. Head(posts) = m
    BY <1>2
  <2>2. CASE asked = <<>>
    BY <2>2
  <2>3. CASE \E c \in Messages : asked = <<c>> /\ Answers(m, c)
    BY <2>1, <2>3 DEF Answers
  <2> QED BY <1>2, <2>2, <2>3
<1>7. asked' = IF body.type = "request" THEN <<body>> ELSE <<>>
  <2>1. Append(<<>>, body) = <<body>>
    OBVIOUS
  <2> QED BY <1>3, <1>6, <2>1
<1>8. posts' = <<>>
  BY <1>2 DEF AcsReplies
<1>9. replies' = <<[body |-> body, hold |-> held, cookie |-> cookie,
               jar |-> jar]>>
  BY <1>2, <1>3
<1>10. [body |-> body, hold |-> held, cookie |-> cookie,
               jar |-> jar] \in Replies
  BY <1>4 DEF Replies
<1>11. ReplyInFlight'
  BY <1>7, <1>8, <1>9, <1>10 DEF ReplyInFlight
<1>12. TypeOK'
  <2>1. asked' \in Seq(Messages)
    BY <1>4, <1>7
  <2>2. replies' \in Seq(Replies)
    BY <1>9, <1>10
  <2> QED BY <1>5, <1>8, <2>1, <2>2 DEF IInv, TypeOK, AcsReplies, queues, Replies
<1> QED
  BY <1>1, <1>11, <1>12 DEF IInv, Shape, AcsReplies, queues

\* What the callback finds when it runs.
LEMMA ReplySeen ==
  ASSUME IInv, replies # <<>>
  PROVE  /\ status = "open" /\ posts = <<>>
         /\ \E r \in Replies :
              /\ replies = <<r>>
              /\ Head(replies) = r
              /\ asked = IF r.body.type = "request" THEN <<r.body>> ELSE <<>>
<1>1. status = "open" /\ ReplyInFlight
  BY DEF IInv, Shape, Idle, PostInFlight
<1> QED BY <1>1 DEF ReplyInFlight

\* A call is answered: the answer in hand is the one the ACS waits for.
LEMMA HandleRequestInv ==
  ASSUME IInv, NEW r \in Replies, replies = <<r>>, HandleRequest(r)
  PROVE  IInv'
<1>1. /\ status = "open" /\ posts = <<>>
      /\ asked = <<r.body>>
  BY ReplySeen DEF HandleRequest
<1>2. /\ TypeOK
      /\ reqIn = <<>> /\ resPending = <<>>
      /\ reqOut \in {<<>>, <<Inform>>}
      /\ r.body \in Messages /\ r.hold \in BOOLEAN
  BY DEF IInv, Shape, TypeOK, Replies
<1>3. Append(reqIn, r.body) = <<r.body>> /\ Head(<<r.body>>) = r.body
  BY <1>2
<1>4. CASE BecomesUndefined(reqOut)
  BY <1>2, <1>4, UndefinedInv
<1>5. CASE /\ r.body.id # NoId
           /\ \E type \in AnswerTypes(r.body.method) :
                SendNext(Append(resPending, Message(type, r.body.method, r.body.id)),
                         reqOut, r.hold, r)
  <2>1. PICK type \in AnswerTypes(r.body.method) :
          SendNext(Append(resPending, Message(type, r.body.method, r.body.id)),
                   reqOut, r.hold, r)
    BY <1>5
  <2> DEFINE m == Message(type, r.body.method, r.body.id)
  <2>2. Append(resPending, m) = <<m>>
    BY <1>2
  <2>3. m \in Messages
    <3>1. type \in Types
      BY <2>1 DEF AnswerTypes, Types
    <3>2. /\ r.body.method \in Known \cup {"Inform", "none"}
          /\ r.body.id \in 0..MaxCalls \cup {NoId}
      BY <1>2 DEF Messages
    <3> QED BY <3>1, <3>2, MessageType
  <2>4. Answers(m, r.body)
    BY <2>1 DEF Answers, IsAnswer, Message, AnswerTypes
  <2>5. SendNext(<<m>>, reqOut, r.hold, r)
    BY <2>1, <2>2
  <2>6. \E n, c \in Messages : <<m>> = <<n>> /\ asked = <<c>> /\ Answers(n, c)
    BY <1>1, <1>2, <2>3, <2>4
  <2> HIDE DEF m
  <2> QED BY <1>1, <1>2, <2>5, <2>6, SendNextInv
<1> QED BY <1>3, <1>4, <1>5 DEF HandleRequest

\* The reply of the ACS is handled, or ends the session.
LEMMA HttpCbInv == IInv /\ HttpCb => IInv'
<1> SUFFICES ASSUME IInv, HttpCb PROVE IInv'
  OBVIOUS
<1>1. /\ status = "open" /\ posts = <<>>
      /\ \E r \in Replies :
           /\ replies = <<r>>
           /\ Head(replies) = r
           /\ asked = IF r.body.type = "request" THEN <<r.body>> ELSE <<>>
  BY ReplySeen DEF HttpCb
<1>2. PICK r \in Replies :
        /\ replies = <<r>>
        /\ Head(replies) = r
        /\ asked = IF r.body.type = "request" THEN <<r.body>> ELSE <<>>
  BY <1>1
<1>3. /\ TypeOK
      /\ reqIn = <<>> /\ resPending = <<>>
      /\ reqOut \in {<<>>, <<Inform>>}
      /\ hold \in BOOLEAN /\ r.hold \in BOOLEAN
  BY DEF IInv, Shape, TypeOK, Replies
<1>4. CASE Reject(r)
  BY <1>3, <1>4, CloseInv DEF Reject
<1>5. CASE HandleRequest(r)
  BY <1>2, <1>5, HandleRequestInv
<1>6. CASE HandleInformResponse(r)
  <2>1. asked = <<>>
    BY <1>2, <1>6 DEF HandleInformResponse
  <2>2. reqOut = <<Inform>>
    BY <1>3, <1>6 DEF HandleInformResponse
  <2>3. Tail(reqOut) = <<>>
    BY <2>2
  <2>4. SendNext(<<>>, <<>>, r.hold, r)
    BY <1>3, <1>6, <2>3 DEF HandleInformResponse
  <2> QED BY <1>1, <1>2, <1>3, <2>1, <2>4, SendNextInv
<1>7. CASE HandleNothing(r)
  <2>1. asked = <<>>
    BY <1>2, <1>7 DEF HandleNothing, Nothing, Message
  <2>2. SendNext(<<>>, reqOut, hold, r)
    BY <1>3, <1>7 DEF HandleNothing
  <2> QED BY <1>1, <1>2, <1>3, <2>1, <2>2, SendNextInv
<1>8. CASE CallbackCloses(r)
  BY <1>3, <1>8, UndefinedInv DEF CallbackCloses
<1> QED
  BY <1>2, <1>4, <1>5, <1>6, <1>7, <1>8 DEF HttpCb

\* Every step preserves the invariant.
THEOREM InvariantInductive == IInv /\ [Next]_vars => IInv'
<1> SUFFICES ASSUME IInv, [Next]_vars PROVE IInv'
  OBVIOUS
<1>1. CASE Start
  BY <1>1, StartInv
<1>2. CASE AcsReplies
  BY <1>2, AcsRepliesInv
<1>3. CASE HttpCb
  BY <1>3, HttpCbInv
<1>4. CASE Timeout \/ ConnectionCloses
  BY <1>4, CloseInv DEF IInv, Timeout, ConnectionCloses
<1>5. CASE UNCHANGED vars
  BY <1>5 DEF vars, queues, IInv, TypeOK, Shape, Idle, PostInFlight, ReplyInFlight
<1> QED BY <1>1, <1>2, <1>3, <1>4, <1>5 DEF Next

-----------------------------------------------------------------------------

\* What the ACS puts into a reply is a call or one of the Bodies; the types
\* alone allow more, an InformResponse with an ID say.
RepliesAreBodies ==
  \A r \in Replies :
    replies = <<r>> /\ r.body.type # "request" => r.body \in Bodies

\* The ACS does not reply out of nothing, and the callback takes its reply.
LEMMA RepliesInductive ==
  IInv /\ RepliesAreBodies /\ [Next]_vars => RepliesAreBodies'
<1> SUFFICES ASSUME IInv, RepliesAreBodies, [Next]_vars,
                    NEW r \in Replies,
                    replies' = <<r>>, r.body.type # "request"
             PROVE  r.body \in Bodies
  BY DEF RepliesAreBodies, Replies, Messages, Bodies, Message, Nothing
<1>1. CASE AcsReplies
  <2>1. replies = <<>>
    BY <1>1 DEF IInv, Shape, Idle, PostInFlight, ReplyInFlight, AcsReplies
  <2>2. PICK body \in Bodies \cup (IF calls < MaxCalls THEN Calls(calls + 1) ELSE {}),
             held \in BOOLEAN, cookie \in Cookie, jar \in Jars :
          replies' = Append(replies, [body |-> body, hold |-> held, cookie |-> cookie,
               jar |-> jar])
    BY <1>1 DEF AcsReplies
  <2>3. replies' = <<[body |-> body, hold |-> held, cookie |-> cookie,
               jar |-> jar]>>
    BY <2>1, <2>2
  <2>4. r.body = body
    BY <2>3
  <2>5. body \notin Calls(calls + 1)
    BY <2>4 DEF Calls, Message
  <2> QED BY <2>2, <2>4, <2>5
<1>2. CASE HttpCb
  <2>1. PICK q \in Replies : replies = <<q>>
    BY <1>2, ReplySeen DEF HttpCb
  <2>2. Tail(replies) = <<>>
    BY <2>1
  <2>3. replies' = <<>>
    BY <1>2, <2>2
    DEF HttpCb, Reject, HandleRequest, HandleInformResponse, HandleNothing,
        CallbackCloses, SendNext, Close, BecomesUndefined
  <2> QED BY <2>3
<1>3. CASE Timeout \/ ConnectionCloses
  BY <1>3 DEF Timeout, ConnectionCloses, Close
<1>4. CASE Start \/ UNCHANGED vars
  BY <1>4 DEF Start, vars, RepliesAreBodies
<1> QED BY <1>1, <1>2, <1>3, <1>4 DEF Next

\* The reply at hand is the InformResponse.
Heard ==
  /\ reqOut # <<>>
  /\ Head(replies).cookie # "bad"
  /\ Head(replies).body = Message("response", "Inform", 0)

\* SendNext goes on with the requests it is given, becomes undefined with them,
\* or closes the session, with Ok only after an empty reply.
LEMMA SendNextEffect ==
  ASSUME status = "open",
         NEW res, NEW out, NEW held, NEW r, SendNext(res, out, held, r)
  PROVE  \/ status' = "closed" /\ closeCode' = Failed
         \/ status' = "closed" /\ closeCode' = Ok /\ r.body = Nothing
         \/ status' \in {"open", "undefined"} /\ reqOut' = out
BY DEF SendNext, Close, BecomesUndefined

\* What the callback of a reply does to the session, seen from outside: it
\* goes on, without the Inform if its response was heard, or becomes undefined
\* likewise, or is closed, with Ok only if it was not heard just now.
LEMMA HttpCbEffect ==
  ASSUME IInv, RepliesAreBodies, HttpCb
  PROVE  /\ status = "open"
         /\ Heard => reqOut = <<Inform>>
         /\ \/ status' = "closed" /\ closeCode' = Failed
            \/ status' = "closed" /\ closeCode' = Ok /\ ~Heard
            \/ /\ status' \in {"open", "undefined"}
               /\ reqOut' = IF Heard THEN <<>> ELSE reqOut
<1>1. PICK r \in Replies : replies = <<r>> /\ Head(replies) = r
  BY ReplySeen DEF HttpCb
<1>2. status = "open" /\ reqOut \in {<<>>, <<Inform>>}
  BY ReplySeen DEF HttpCb, IInv, TypeOK
<1>3. Heard => r.body.type = "response" /\ r.body.method = "Inform"
  BY <1>1 DEF Heard, Message
<1>4. reqOut # <<>> => reqOut = <<Inform>> /\ Head(reqOut) = Inform
  BY <1>2
<1>5. r.body = Nothing => r.body.type = "empty"
  BY DEF Nothing, Message
<1>6. CASE Reject(r)
  <2>1. status' = "closed" /\ closeCode' = Failed
    BY <1>6 DEF Reject, Close
  <2> QED BY <1>2, <1>4, <2>1 DEF Heard
<1>7. CASE HandleRequest(r)
  <2>1. ~Heard /\ r.body # Nothing
    BY <1>3, <1>5, <1>7 DEF HandleRequest
  <2> QED BY <1>2, <1>7, <2>1, SendNextEffect DEF HandleRequest, BecomesUndefined
<1>8. CASE r.cookie # "bad" /\ HandleInformResponse(r)
  <2>1. reqOut = <<Inform>>
    BY <1>4, <1>8 DEF HandleInformResponse
  <2>2. Head(reqOut).method = "Inform"
    BY <1>4, <2>1 DEF Inform, Message
  <2>3. r.body \in Bodies /\ r.body.type = "response" /\ r.body.method = "Inform"
    BY <1>1, <1>8, <2>2 DEF RepliesAreBodies, HandleInformResponse
  <2>4. r.body = Message("response", "Inform", 0)
    <3>1. \A type, method : /\ Message(type, method, 0).type = type
                            /\ Message(type, method, 0).method = method
      BY DEF Message
    <3> QED BY <2>3, <3>1 DEF Bodies, Nothing
  <2>5. Heard /\ r.body # Nothing
    BY <1>1, <1>5, <1>8, <2>1, <2>3, <2>4 DEF Heard
  <2>6. Tail(reqOut) = <<>>
    BY <2>1
  <2>7. SendNext(resPending, <<>>, r.hold, r)
    BY <1>8, <2>6 DEF HandleInformResponse
  <2> QED BY <1>2, <2>1, <2>5, <2>7, SendNextEffect
<1>9. CASE HandleNothing(r)
  <2>1. ~Heard
    BY <1>3, <1>5, <1>9 DEF HandleNothing
  <2> QED BY <1>2, <1>9, <2>1, SendNextEffect DEF HandleNothing
<1>10. CASE CallbackCloses(r)
  <2>1. ~Heard
    BY <1>3, <1>10 DEF CallbackCloses
  <2> QED BY <1>2, <1>10, <2>1 DEF CallbackCloses, BecomesUndefined
<1> QED
  BY <1>1, <1>6, <1>7, <1>8, <1>9, <1>10 DEF HttpCb

-----------------------------------------------------------------------------

\* The inductive invariant holds in every reachable state.
THEOREM Invariance == Spec => []IInv
<1> QED BY InitInv, InvariantInductive, PTL DEF Spec

\* The state of a session keeps its type.
THEOREM TypeCorrect == Spec => []TypeOK
<1>1. IInv => TypeOK
  BY DEF IInv
<1> QED BY <1>1, Invariance, PTL

\* In either shape of an open session one exchange is in flight.
LEMMA OneExchangeFollows == IInv => OneExchange
<1>1. ASSUME IInv, status = "open" PROVE Len(posts) + Len(replies) = 1
  <2>1. PostInFlight \/ ReplyInFlight
    BY <1>1 DEF IInv, Shape
  <2>2. CASE PostInFlight
    <3>1. Len(posts) = 1 /\ Len(replies) = 0
      BY <2>2 DEF PostInFlight
    <3> QED BY <3>1
  <2>3. CASE ReplyInFlight
    <3>1. Len(posts) = 0 /\ Len(replies) = 1
      BY <2>3 DEF ReplyInFlight
    <3> QED BY <3>1
  <2> QED BY <2>1, <2>2, <2>3
<1> QED BY <1>1 DEF OneExchange

\* An open session never hangs without an exchange and never has two.
THEOREM AlwaysOneExchange == Spec => []OneExchange
BY OneExchangeFollows, Invariance, PTL

\* In either shape the ACS waits for what is in flight.
LEMMA InStepFollows == IInv => InStep
<1>1. ASSUME IInv, status = "open" PROVE InStep
  <2>1. reqIn = <<>> /\ resPending = <<>> /\ (PostInFlight \/ ReplyInFlight)
    BY <1>1 DEF IInv, Shape
  <2>2. CASE PostInFlight
    BY <2>1, <2>2 DEF PostInFlight, InStep
  <2>3. CASE ReplyInFlight
    BY <2>1, <2>3 DEF ReplyInFlight, InStep
  <2> QED BY <2>1, <2>2, <2>3
<1> QED BY <1>1 DEF InStep

\* Every call of the ACS is answered by the very next POST.
THEOREM AlwaysInStep == Spec => []InStep
BY InStepFollows, Invariance, PTL

\* The action of CleanEnd.
EndsClean ==
  status = "open" /\ status' = "closed" /\ closeCode' = Ok => asked = <<>> /\ ~hold

\* SendNext closes the session with Ok only after an empty reply, with no
\* answer pending and requests not held.
LEMMA SendNextEnds ==
  ASSUME NEW res, NEW out, NEW held, NEW r,
         status = "open", status' = "closed", closeCode' = Ok,
         SendNext(res, out, held, r)
  PROVE  res = <<>> /\ ~held /\ r.body = Nothing
BY DEF SendNext, Close, BecomesUndefined, Ok, Failed

\* A session that is reported as successful owes the ACS nothing: the one way
\* to end it well is an empty reply, and the ACS that sends one has, by
\* Shape, no call open.
THEOREM CleanEndsOweNothing == Spec => CleanEnd
<1>1. ASSUME IInv, [Next]_vars,
             status = "open", status' = "closed", closeCode' = Ok
      PROVE  asked = <<>> /\ ~hold
  <2>1. HttpCb
    BY <1>1 DEF Next, vars, Start, AcsReplies, Timeout, ConnectionCloses,
                Close, Ok, Failed
  <2>2. PICK r \in Replies :
          /\ replies = <<r>>
          /\ Head(replies) = r
          /\ asked = IF r.body.type = "request" THEN <<r.body>> ELSE <<>>
    BY <1>1, <2>1, ReplySeen DEF HttpCb
  <2>3. ~Reject(r) /\ ~CallbackCloses(r)
    BY <1>1 DEF Reject, CallbackCloses, Close, BecomesUndefined, Ok, Failed
  <2>4. ~HandleRequest(r)
    <3>1. SUFFICES ASSUME HandleRequest(r) PROVE FALSE
      OBVIOUS
    <3>2. r.body.type = "request" /\ r.body = Nothing
      BY <1>1, <3>1, SendNextEnds DEF HandleRequest, BecomesUndefined
    <3> QED BY <3>2 DEF Nothing, Message
  <2>5. ~HandleInformResponse(r)
    <3>1. SUFFICES ASSUME HandleInformResponse(r) PROVE FALSE
      OBVIOUS
    <3>2. r.body.type = "response" /\ r.body = Nothing
      BY <1>1, <3>1, SendNextEnds DEF HandleInformResponse
    <3> QED BY <3>2 DEF Nothing, Message
  <2>6. HandleNothing(r)
    BY <2>1, <2>2, <2>3, <2>4, <2>5 DEF HttpCb
  <2>7. ~hold /\ r.body = Nothing
    BY <1>1, <2>6, SendNextEnds DEF HandleNothing
  <2>8. r.body.type # "request"
    BY <2>7 DEF Nothing, Message
  <2> QED BY <2>2, <2>7, <2>8
<1>2. ASSUME IInv, [Next]_vars PROVE [EndsClean]_vars
  BY <1>1, <1>2 DEF EndsClean
<1> QED
  BY <1>2, Invariance, PTL DEF Spec, CleanEnd, EndsClean

=============================================================================
