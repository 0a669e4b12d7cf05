------------------------------- MODULE Agent --------------------------------
(***************************************************************************)
(* The agent as it runs: the scheduler of cpe.c with the session it opens  *)
(* (module Session) and the host names it resolves (module Dns).           *)
(*                                                                         *)
(* Cpe abstracts both: it is told an address "some day" and a session ends *)
(* "with some code".  Here the address is what the DNS cache finds for the *)
(* host of the session, and the session ends as its exchange with the ACS  *)
(* makes it end.  Implements says that this is all Cpe ever assumed.       *)
(***************************************************************************)
EXTENDS Integers, Sequences

CONSTANTS
  Periodic, MaxRetry, MaxEvents,    \* as in Cpe
  PrepareMayFail,                   \* the Inform may fail to be built
  AcsMethods, MaxCalls, SendMayFail,\* as in Session
  MaxCookies, CookieLengths,        \* as in Session
  Host, Literal, NoHost, Proxy      \* as in Dns

VARIABLES
  \* the process, shared by all parts
  phase,
  \* the scheduler, as in Cpe
  inform, events, retryCount, retryPending, retryWait, periodicPending,
  creqRecent, reply, acked, aborted,
  \* the session, as in Session
  status, hold, reqIn, resPending, reqOut, posts, replies, cookies, closeCode,
  asked, calls,
  \* the DNS cache, as in Dns
  name, address, queries, timer, lost

S == INSTANCE Session
D == INSTANCE Dns

\* What the scheduler sees of a session.  One that is used after it was freed,
\* or otherwise undefined, is still pointed to; nothing happens in it any more.
CpeSession ==
  IF status \in {"none", "closed"} THEN "none"
  ELSE IF status = "stuck" THEN "stuck"
  ELSE IF reqOut = <<>> THEN "informed" ELSE "informing"

StartFaults ==
  (IF PrepareMayFail THEN {"prepare"} ELSE {})
    \cup (IF SendMayFail THEN {"send"} ELSE {})

C == INSTANCE Cpe WITH session <- CpeSession, address <- D!Lookup # NoHost

\* What Cpe, Session and Dns assume of their constants.
ASSUME AgentAssumption ==
  /\ Periodic \in BOOLEAN
  /\ MaxRetry \in Nat \ {0}
  /\ MaxEvents \in Nat \ {0}
  /\ PrepareMayFail \in BOOLEAN
  /\ AcsMethods \subseteq S!Known
  /\ MaxCalls \in Nat
  /\ SendMayFail \in BOOLEAN
  /\ MaxCookies \in Nat
  /\ CookieLengths \subseteq Nat \ {0}
  /\ Literal \subseteq Host
  /\ NoHost \notin Host
  /\ Proxy \subseteq Host \cup {NoHost}

retryVars == <<retryCount, retryPending, retryWait>>
cpeVars == <<inform, events, retryVars, periodicPending, creqRecent, reply,
             acked, aborted>>
sessionVars == <<status, hold, reqIn, resPending, reqOut, posts, replies,
                 cookies, closeCode, asked, calls>>
dnsVars == <<name, address, queries, timer, lost>>
vars == <<phase, cpeVars, sessionVars, dnsVars>>

\* Once the behaviour is undefined nothing is claimed.
Alive == status # "undefined"

-----------------------------------------------------------------------------

Init == S!Init /\ D!Init /\ C!Init

\* evcpe_start_session: it may create the session object and POST its Inform.
StartSession(known, pending, evs, rc) ==
  /\ S!Start \/ UNCHANGED sessionVars
  /\ C!StartSession(known, pending, evs, rc)

\* main: evcpe_set fills the DNS cache, evcpe_start begins the first session.
Start ==
  /\ D!Start
  /\ \E stored \in [C!Code -> 0..MaxEvents] :
       /\ stored["1 BOOT"] < MaxEvents
       /\ events' = [stored EXCEPT !["1 BOOT"] = @ + 1]
       /\ StartSession((D!Lookup # NoHost)', retryPending, events', C!Ok)
  /\ periodicPending' = Periodic
  /\ reply' = "none"
  /\ UNCHANGED <<creqRecent, acked>>

\* evcpe_start_session_cb, which leaves a pending retry as given.
StartSessionCb(pending) ==
  /\ Alive /\ phase = "running"
  /\ \/ /\ CpeSession = "none"
        /\ UNCHANGED dnsVars
        /\ \E rc \in {C!Ok, C!Failed} :
             StartSession(D!Lookup # NoHost, pending, events, rc)
     \/ /\ CpeSession # "none"
        /\ retryPending' = pending
        /\ UNCHANGED <<sessionVars, inform, retryCount, retryWait, aborted>>
  /\ periodicPending' = Periodic
  /\ reply' = "none"
  /\ UNCHANGED <<phase, events, creqRecent, acked, dnsVars>>

RetryFires == retryPending /\ StartSessionCb(FALSE)
PeriodicFires == periodicPending /\ StartSessionCb(retryPending)

\* evcpe_creq_cb.
ConnectionRequest ==
  /\ Alive
  /\ UNCHANGED dnsVars
  /\ \/ UNCHANGED sessionVars /\ C!RefuseCreq
     \/ (S!Start \/ UNCHANGED sessionVars) /\ C!AcceptCreq

IntervalElapses ==
  Alive /\ UNCHANGED <<sessionVars, dnsVars>> /\ C!IntervalElapses

\* Faulty form of SessionEnds: a failure is counted, but a new session is left
\* to the periodic timer.
SessionEndsUnscheduled ==
  /\ inform' = {}
  /\ retryCount' = IF closeCode' = S!Failed THEN C!Bump(retryCount) ELSE 0
  /\ UNCHANGED <<retryPending, retryWait>>

\* evcpe_session_terminate_cb, given the code the session was closed with.
SessionEnds ==
  /\ inform' = {}
  /\ IF closeCode' = S!Failed
       THEN /\ retryCount' = C!Bump(retryCount)
            /\ \E rc \in {C!Ok, C!Failed} :
                 C!RetrySession(retryCount', retryPending, rc)
       ELSE /\ retryCount' = 0
            /\ UNCHANGED <<retryPending, retryWait>>

\* What the scheduler does in the callback that just changed the session.
React ==
  \/ status' = "closed" /\ SessionEnds
  \/ status' # "closed" /\ UNCHANGED <<inform, retryVars>>

\* The answer given to a connection request is remembered until the scheduler
\* takes its next step, and a callback within a session is none.
Forgets == reply' = IF CpeSession' = CpeSession THEN reply ELSE "none"

\* The reply at hand is an InformResponse that evcpe_handle_inform_response
\* accepts.
HearsInformResponse ==
  /\ reqOut # <<>>
  /\ Head(replies).cookie # "bad"
  /\ Head(replies).body = S!Message("response", "Inform", 0)

\* Faulty form of HttpCb: the events go with every message that is handled.
HttpCbAcksAll ==
  /\ S!HttpCb
  /\ React
  /\ events' = [events EXCEPT !["0 BOOTSTRAP"] = 0, !["1 BOOT"] = 0]
  /\ acked' = TRUE
  /\ Forgets
  /\ UNCHANGED <<phase, periodicPending, creqRecent, aborted, dnsVars>>

\* evcpe_session_http_cb with the callbacks of the scheduler.
HttpCb ==
  /\ S!HttpCb
  /\ React
  /\ IF HearsInformResponse
       THEN /\ events' = [events EXCEPT !["0 BOOTSTRAP"] = 0, !["1 BOOT"] = 0]
            /\ acked' = TRUE
       ELSE UNCHANGED <<events, acked>>
  /\ Forgets
  /\ UNCHANGED <<phase, periodicPending, creqRecent, aborted, dnsVars>>

\* A timeout or a closed connection.
ConnectionFails ==
  /\ S!Timeout \/ S!ConnectionCloses
  /\ React
  /\ reply' = "none"
  /\ UNCHANGED <<phase, events, acked, periodicPending, creqRecent, aborted,
                 dnsVars>>

AcsReplies == S!AcsReplies /\ UNCHANGED <<phase, cpeVars, dnsVars>>

\* The resolver and its timers; the scheduler is not told of an answer.
Resolve(u) ==
  /\ Alive
  /\ D!TimerFires(u) \/ D!Answered(u) \/ D!Failed(u)
  /\ reply' = IF D!Lookup' = D!Lookup THEN reply ELSE "none"
  /\ UNCHANGED <<inform, events, retryVars, periodicPending, creqRecent, acked,
                 aborted, sessionVars>>

\* The process ends, by a signal or otherwise, and the session with it.
Die ==
  /\ status' = "none"
  /\ hold' = FALSE
  /\ reqIn' = <<>> /\ resPending' = <<>> /\ reqOut' = <<>>
  /\ posts' = <<>> /\ replies' = <<>>
  /\ cookies' = S!NoCookies
  /\ closeCode' = S!Ok
  /\ asked' = <<>> /\ calls' = 0
  /\ D!Die
  /\ C!Die

Next ==
  \/ Start
  \/ RetryFires
  \/ PeriodicFires
  \/ ConnectionRequest
  \/ IntervalElapses
  \/ AcsReplies
  \/ HttpCb
  \/ ConnectionFails
  \/ \E u \in D!Url : Resolve(u)
  \/ Die

Spec == Init /\ [][Next]_vars

\* The retry timer fires, an exchange is answered or fails, its callback runs,
\* and a name that is asked for again and again is resolved.
Fairness ==
  /\ WF_vars(RetryFires)
  /\ WF_vars(AcsReplies \/ ConnectionFails)
  /\ WF_vars(HttpCb)
  /\ \A u \in D!Url :
       /\ WF_vars(Resolve(u))
       /\ SF_vars(Resolve(u) /\ D!Answered(u))

FairSpec == Spec /\ Fairness

-----------------------------------------------------------------------------
(***************************************************************************)
(* What the parts promise together.                                        *)
(***************************************************************************)

\* The scheduler with the real session and the real DNS cache does nothing
\* that Cpe does not allow, so what is proved of Cpe holds of the agent.
Implements == C!Spec

\* An event leaves the repository only while the reply of the ACS to the very
\* Inform that reported it is handled, and the session had an address.
DeletedByResponse ==
  [][ \A c \in C!Code :
        events'[c] < events[c] /\ phase' = "running" =>
          /\ c \in inform
          /\ reqOut = <<S!Inform>>
          /\ replies # <<>> /\ HearsInformResponse ]_vars

\* A session is open only with the host it talks to resolved; and from the
\* moment its Inform is answered there is no boot event in the repository,
\* although connection requests and timers go on meanwhile.
SessionIsSound ==
  status = "open" =>
    /\ D!Lookup # NoHost
    /\ reqOut = <<>> => events["0 BOOTSTRAP"] = 0 /\ events["1 BOOT"] = 0

\* An agent that failed, or could not find its host, opens a session some day:
\* its retry timer and the resolver see to it, whatever the ACS did before,
\* unless the resolver refuses to look for the host, the first POST cannot be
\* made or the Inform cannot be built.
ComesBack ==
  phase = "running" /\ CpeSession = "none" /\ retryCount > 0
    ~> \/ status \in {"open", "stuck"} \/ aborted
       \/ lost[D!Find(name, D!SessionHost(name))]
       \/ phase = "off"

=============================================================================
