------------------------------ MODULE Session -------------------------------
(***************************************************************************)
(* A CWMP session (session.c) with the callbacks the agent gives it        *)
(* (cpe.c).  The agent POSTs one message or nothing; the ACS puts its own  *)
(* message or nothing into the reply; the callback of that reply decides   *)
(* what to POST next and when the session is over.                         *)
(*                                                                         *)
(* The HTTP connection is libevent's and the ACS is any server: it may     *)
(* answer anything at any time, or not at all.  The Inform is the only     *)
(* request the agent makes, so req_pending is empty from the first POST    *)
(* on, and a session that could not make that POST is "stuck".             *)
(***************************************************************************)
EXTENDS Integers, Sequences

CONSTANTS
  AcsMethods,   \* the methods the ACS calls
  MaxCalls,     \* bound: calls of the ACS in one session
  SendMayFail,  \* evhttp_make_request may fail
  MaxCookies,   \* bound: names of cookies, numbered as strcmp orders them
  CookieLengths \* the lengths a cookie takes in a header: "name=value; "

Known == {"GetRPCMethods", "GetParameterNames", "GetParameterValues",
          "GetParameterAttributes", "SetParameterValues",
          "SetParameterAttributes", "AddObject", "DeleteObject"}

ASSUME SessionAssumption ==
  /\ AcsMethods \subseteq Known
  /\ MaxCalls \in Nat
  /\ SendMayFail \in BOOLEAN
  /\ MaxCookies \in Nat
  /\ CookieLengths \subseteq Nat \ {0}

VARIABLES
  status,     \* "none", "open", "stuck", "closed"; "undefined" once the
              \* behaviour of the code is
  hold,       \* session->hold_requests
  reqIn,      \* session->req_in: calls of the ACS not yet handled
  resPending, \* session->res_pending: answers not yet sent
  reqOut,     \* session->req_out: requests sent and not yet answered
  posts,      \* HTTP requests the ACS has not replied to
  replies,    \* HTTP replies the callback has not seen
  cookies,    \* session->cookies: the length of each, 0 if there is none
  closeCode,  \* the code close_cb was given: Ok or Failed
  asked,      \* ACS: its calls that have no answer yet
  calls       \* ACS: the number of its calls in this session

queues == <<reqIn, resPending, reqOut>>
vars == <<status, hold, reqIn, resPending, reqOut, posts, replies, cookies,
          closeCode, asked, calls>>

Ok == 0
Failed == 1

Message(type, method, id) == [type |-> type, method |-> method, id |-> id]

Nothing == Message("empty", "none", 0)
Inform == Message("request", "Inform", 0)

\* The methods evcpe_handle_request knows, and the responses that
\* evcpe_msg_to_xml can write.
Handled == {"GetRPCMethods", "GetParameterNames", "GetParameterAttributes",
            "GetParameterValues", "AddObject", "SetParameterValues"}

Marshalled == {"GetRPCMethods", "AddObject", "GetParameterValues",
               "GetParameterNames", "SetParameterValues"}

\* Bodies the ACS may send besides its calls: nothing, an InformResponse with
\* MaxEnvelopes 1 or another value, a response to something else, a fault,
\* and what evcpe_msg_from_xml cannot read (an HTML error page, say).
Bodies == {Nothing,
           Message("response", "Inform", 0),
           Message("bad response", "Inform", 0),
           Message("response", "GetRPCMethods", 0),
           Message("fault", "none", 0),
           Message("garbage", "none", 0)}

\* A call whose envelope has no Header has no ID, and is read all the same.
NoId == -1

Calls(n) == {Message("request", m, id) : m \in AcsMethods, id \in {n, NoId}}

\* The Set-Cookie header: none, one that is stored, one that is not for want
\* of memory.
Cookie == {"none", "good", "bad"}

CookieNames == 1..MaxCookies
Jars == [CookieNames -> CookieLengths \cup {0}]
NoCookies == [n \in CookieNames |-> 0]

IsAnswer(m) == m.type \in {"response", "fault"}

-----------------------------------------------------------------------------

Init ==
  /\ status = "none"
  /\ hold = FALSE
  /\ reqIn = <<>>
  /\ resPending = <<>>
  /\ reqOut = <<>>
  /\ posts = <<>>
  /\ replies = <<>>
  /\ cookies = NoCookies
  /\ closeCode = Ok
  /\ asked = <<>>
  /\ calls = 0

\* evcpe_msg_to_xml refuses a response it has no writer for.
Marshals(m) == m.type = "response" => m.method \in Marshalled

\* evcpe_session_close: the callback of the agent frees the connection, and
\* the exchange in flight with it, and the session with its queues and cookies.
Close(code) ==
  /\ status' = "closed"
  /\ closeCode' = code
  /\ hold' = FALSE
  /\ reqIn' = <<>>
  /\ resPending' = <<>>
  /\ reqOut' = <<>>
  /\ posts' = <<>>
  /\ replies' = <<>>
  /\ cookies' = NoCookies
  /\ UNCHANGED <<asked, calls>>

\* Whatever the process does from here on is undefined.  out are the requests
\* that wait for a response at that moment.
BecomesUndefined(out) ==
  /\ status' = "undefined"
  /\ reqOut' = out
  /\ posts' = <<>>
  /\ replies' = <<>>
  /\ UNCHANGED <<hold, reqIn, resPending, cookies, closeCode, asked, calls>>

\* evcpe_session_new, evcpe_session_send of the Inform and
\* evcpe_session_start, one after the other in evcpe_start_session.
Start ==
  /\ status \in {"none", "closed"}
  /\ \/ /\ status' = "open"
        /\ posts' = <<Inform>>
        /\ reqOut' = Append(reqOut, Inform)
     \/ /\ SendMayFail
        /\ status' = "stuck"
        /\ UNCHANGED <<posts, reqOut>>
  /\ cookies' = NoCookies
  /\ asked' = <<>>
  /\ calls' = 0
  /\ UNCHANGED <<hold, reqIn, resPending, replies, closeCode>>

\* The ACS reads a POST, which may answer its call, and replies with a body,
\* a HoldRequests header and a Set-Cookie header of its choice.
AcsReplies ==
  /\ posts # <<>>
  /\ posts' = Tail(posts)
  /\ \E body \in Bodies \cup (IF calls < MaxCalls THEN Calls(calls + 1) ELSE {}),
        held \in BOOLEAN, cookie \in Cookie, jar \in Jars :
       LET owed == IF IsAnswer(Head(posts)) /\ asked # <<>>
                     THEN Tail(asked) ELSE asked
           called == body.type = "request"
       IN  /\ body = Nothing => ~held
           /\ cookie # "good" => jar = NoCookies
           /\ replies' = Append(replies, [body |-> body, hold |-> held,
                                          cookie |-> cookie, jar |-> jar])
           /\ asked' = IF called THEN Append(owed, body) ELSE owed
           /\ calls' = IF called THEN calls + 1 ELSE calls
  /\ UNCHANGED <<status, hold, queues, cookies, closeCode>>

-----------------------------------------------------------------------------
(***************************************************************************)
(* evcpe_session_http_cb.                                                  *)
(***************************************************************************)

\* evcpe_cookies_set_from_header: a cookie takes the place of the one of its
\* name.
Stored(r) == [n \in CookieNames |-> IF r.jar[n] # 0 THEN r.jar[n] ELSE cookies[n]]

\* The buffer evcpe_session_send_do makes the Cookie header in.
BufferSize == 513

\* snprintf says what a cookie would take; when the ones before a cookie take
\* more than the buffer, it is written behind its end, with no limit.
Overruns(jar) ==
  LET len[n \in 0..MaxCookies] == IF n = 0 THEN 0 ELSE len[n - 1] + jar[n]
  IN  \E n \in CookieNames : jar[n] # 0 /\ len[n - 1] > BufferSize

\* Faulty form of SendNext: HoldRequests is looked at before the answers.
SendNextHoldFirst(res, out, held, r) ==
  LET next == IF held \/ res = <<>> THEN Nothing ELSE Head(res)
      over == res = <<>> /\ ~held /\ r.body = Nothing
  IN  \/ over /\ Close(Ok)
      \/ /\ ~over
         /\ Marshals(next)
         /\ posts' = Append(posts, next)
         /\ resPending' = IF next = Nothing THEN res ELSE Tail(res)
         /\ reqOut' = out
         /\ hold' = held
         /\ replies' = Tail(replies)
         /\ cookies' = Stored(r)
         /\ UNCHANGED <<status, reqIn, closeCode, asked, calls>>

\* Faulty form of SendNext: no empty POST asks the ACS for its next message.
SendNextWaits(res, out, held, r) ==
  /\ resPending' = IF res # <<>> THEN Tail(res) ELSE res
  /\ posts' = IF res # <<>> THEN Append(posts, Head(res)) ELSE posts
  /\ reqOut' = out
  /\ hold' = held
  /\ replies' = Tail(replies)
  /\ cookies' = Stored(r)
  /\ UNCHANGED <<status, reqIn, closeCode, asked, calls>>

\* The second half of the callback: POST a pending answer, else POST nothing,
\* unless the reply was empty too and the ACS does not hold requests; then
\* the session is over.  res, out and held are the values the first half
\* left.  rc is first set by whatever the callback does; at a clean end that
\* is nothing, unless it stored a cookie.  The body is written before the
\* Cookie header, and that before the request is made.
SendNext(res, out, held, r) ==
  LET next == IF res # <<>> THEN Head(res) ELSE Nothing
      over == res = <<>> /\ ~held /\ r.body = Nothing
  IN  \/ /\ over
         /\ \E code \in IF r.cookie = "good" THEN {Ok} ELSE {Ok, Failed} :
              Close(code)
      \/ /\ ~over
         /\ SendMayFail \/ ~Marshals(next)
         /\ Close(Failed)
      \/ /\ ~over
         /\ Marshals(next)
         /\ Overruns(Stored(r))
         /\ BecomesUndefined(out)
      \/ /\ ~over
         /\ Marshals(next)
         /\ ~Overruns(Stored(r))
         /\ posts' = Append(posts, next)
         /\ resPending' = IF res # <<>> THEN Tail(res) ELSE res
         /\ reqOut' = out
         /\ hold' = held
         /\ replies' = Tail(replies)
         /\ cookies' = Stored(r)
         /\ UNCHANGED <<status, reqIn, closeCode, asked, calls>>

\* evcpe_handle_request: a method it knows succeeds or not, as the data
\* model decides; any other is a fault.
AnswerTypes(method) ==
  IF method \in Handled THEN {"response", "fault"} ELSE {"fault"}

\* Faulty form of HandleRequest: a failed call is logged and not answered.
HandleRequestSilent(r) ==
  /\ r.body.type = "request"
  /\ \E type \in AnswerTypes(r.body.method) :
       IF type = "fault"
         THEN SendNext(resPending, reqOut, r.hold, r)
         ELSE SendNext(Append(resPending,
                              Message(type, r.body.method, r.body.id)),
                       reqOut, r.hold, r)


\* A call of the ACS enters req_in; evcpe_handle_request answers it, and
\* evcpe_session_send gives the answer the ID of the oldest call in req_in,
\* which it then drops.  Its "method type mismatch" needs an older call in
\* req_in, and InStep says there is none.  It duplicates the ID with strdup,
\* which must not be given NULL.
HandleRequest(r) ==
  LET in == Append(reqIn, r.body)
  IN  /\ r.body.type = "request"
      /\ Head(in).method = r.body.method
      /\ \/ /\ Head(in).id = NoId
            /\ BecomesUndefined(reqOut)
         \/ /\ Head(in).id # NoId
            /\ \E type \in AnswerTypes(r.body.method) :
                 SendNext(Append(resPending,
                                 Message(type, r.body.method, Head(in).id)),
                          reqOut, r.hold, r)

\* The InformResponse: the agent deletes the boot events, the session drops
\* the Inform.
HandleInformResponse(r) ==
  /\ reqOut # <<>>
  /\ r.body.type = "response"
  /\ r.body.method = Head(reqOut).method
  /\ SendNext(resPending, Tail(reqOut), r.hold, r)

\* A reply without a body leaves hold_requests as it is.
HandleNothing(r) ==
  /\ r.body = Nothing
  /\ SendNext(resPending, reqOut, hold, r)

\* What ends the session with an error before anything is sent: a cookie that
\* is not stored, a body that cannot be read, an answer nobody asked for.
Reject(r) ==
  /\ \/ r.cookie = "bad"
     \/ r.body.type = "garbage"
     \/ /\ r.body.type \in {"response", "bad response", "fault"}
        /\ reqOut # <<>> =>
             r.body.type # "fault" /\ r.body.method # Head(reqOut).method
  /\ Close(Failed)

\* The ACS rejects the Inform: evcpe_session_message_cb closes the session,
\* which frees it, and its caller goes on with the freed session.
CallbackCloses(r) ==
  /\ reqOut # <<>>
  /\ \/ r.body.type = "fault"
     \/ r.body.type = "bad response" /\ r.body.method = Head(reqOut).method
  /\ BecomesUndefined(reqOut)

HttpCb ==
  /\ replies # <<>>
  /\ LET r == Head(replies)
     IN  \/ Reject(r)
         \/ /\ r.cookie # "bad"
            /\ \/ HandleRequest(r)
               \/ HandleInformResponse(r)
               \/ HandleNothing(r)
               \/ CallbackCloses(r)

\* evcpe_session_http_cb with response code 0: no answer in time.
Timeout ==
  /\ posts # <<>>
  /\ Close(Failed)

\* evcpe_session_http_close_cb: the ACS closed the connection.
ConnectionCloses ==
  /\ posts # <<>> \/ replies # <<>>
  /\ Close(Failed)

Next ==
  \/ Start
  \/ AcsReplies
  \/ HttpCb
  \/ Timeout
  \/ ConnectionCloses

Spec == Init /\ [][Next]_vars

\* An HTTP request is answered or times out, and libevent calls back.
Fairness ==
  /\ WF_vars(AcsReplies \/ Timeout)
  /\ WF_vars(HttpCb)

FairSpec == Spec /\ Fairness

-----------------------------------------------------------------------------
(***************************************************************************)
(* What a session promises.                                                *)
(***************************************************************************)

Messages ==
  [type : {"empty", "request", "response", "bad response", "fault", "garbage"},
   method : Known \cup {"Inform", "none"},
   id : 0..MaxCalls \cup {NoId}]

TypeOK ==
  /\ status \in {"none", "open", "stuck", "closed", "undefined"}
  /\ hold \in BOOLEAN
  /\ reqIn \in Seq(Messages)
  /\ resPending \in Seq(Messages)
  /\ reqOut \in {<<>>, <<Inform>>}
  /\ posts \in Seq(Messages)
  /\ replies \in Seq([body : Messages, hold : BOOLEAN, cookie : Cookie,
                      jar : Jars])
  /\ cookies \in Jars
  /\ closeCode \in {Ok, Failed}
  /\ asked \in Seq(Messages)
  /\ calls \in 0..MaxCalls

\* An open session always has exactly one HTTP exchange in flight: with none
\* it would hang, since nothing else calls it; with two, replies could pass
\* each other on the way.
OneExchange == status = "open" => Len(posts) + Len(replies) = 1

\* m is the answer to call c.
Answers(m, c) == IsAnswer(m) /\ m.method = c.method /\ m.id = c.id

\* Agent and ACS stay in step: right after a call the agent's next POST is
\* the answer to that very call, before any other message and whatever
\* HoldRequests says; and it never sends an answer nobody waits for.
InStep ==
  status = "open" =>
    /\ reqIn = <<>> /\ resPending = <<>>
    /\ posts # <<>> =>
         \/ asked = <<>> /\ ~IsAnswer(Head(posts))
         \/ Len(asked) = 1 /\ Answers(Head(posts), Head(asked))
    /\ replies # <<>> =>
         asked = IF Head(replies).body.type = "request"
                   THEN <<Head(replies).body>> ELSE <<>>

\* A session that is reported as successful left no call of the ACS without
\* its answer, and did not end while the ACS held requests back.
CleanEnd ==
  [][ status = "open" /\ status' = "closed" /\ closeCode' = Ok =>
        asked = <<>> /\ ~hold ]_vars

\* The last thing the ACS sent, a body, holds requests or releases them.  An
\* empty reply does neither: it leaves hold_requests as it is.
Holding == replies # <<>> /\ Head(replies).body # Nothing /\ Head(replies).hold
Released == replies # <<>> /\ Head(replies).body # Nothing /\ ~Head(replies).hold


\* The termination criteria of the log message: everything was answered on
\* both sides, the Inform among it.
TerminationCriteria ==
  [][ status = "open" /\ status' = "closed" /\ closeCode' = Ok =>
        reqOut = <<>> /\ asked = <<>> ]_vars

=============================================================================
