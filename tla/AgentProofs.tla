---------------------------- MODULE AgentProofs -----------------------------
(***************************************************************************)
(* The scheduler, the session and the DNS cache together, for every value  *)
(* of the constants.                                                       *)
(*                                                                         *)
(* The modules of the parts are proved about on their own; here they are   *)
(* instantiated, and their theorems carried over to the agent.  A step of  *)
(* the agent is a step of the DNS cache, and a step of the session or the  *)
(* end of the process, so their invariants hold of it.  With them a step   *)
(* of the agent is one of the scheduler, which is Implements, and so the   *)
(* invariant of the scheduler holds of the agent too.                      *)
(***************************************************************************)
EXTENDS Agent, TLAPS

SP == INSTANCE SessionProofs
DP == INSTANCE DnsProofs
CP == INSTANCE CpeProofs
        WITH session <- CpeSession, address <- D!Lookup # NoHost

\* The invariants of the parts.
PartsInv == SP!IInv /\ SP!RepliesAreBodies /\ DP!IInv

-----------------------------------------------------------------------------
(***************************************************************************)
(* One module instantiated twice is the same module.                       *)
(***************************************************************************)

\* The DNS cache of the agent is the one the proofs are about.
LEMMA SameDns ==
  /\ D!Init = DP!Init
  /\ D!Start = DP!Start
  /\ \A u : /\ D!TimerFires(u) = DP!TimerFires(u)
            /\ D!Answered(u) = DP!Answered(u)
            /\ D!Failed(u) = DP!Failed(u)
  /\ D!Die = DP!Die
  /\ D!Url = DP!Url
  /\ D!Lookup = DP!Lookup
  /\ \A n : D!SessionHost(n) = DP!SessionHost(n)
BY DEF D!Init, DP!Init, D!Start, DP!Start, D!TimerFires, DP!TimerFires,
       D!Answered, DP!Answered, D!Failed, DP!Failed, D!Die, DP!Die, D!Url,
       DP!Url, D!Lookup, DP!Lookup, D!Find, DP!Find, D!SessionHost,
       DP!SessionHost

\* The session of the agent is the one the proofs are about.
LEMMA SameSession ==
  /\ S!Init = SP!Init
  /\ S!Start = SP!Start
  /\ S!AcsReplies = SP!AcsReplies
  /\ S!HttpCb = SP!HttpCb
  /\ S!Timeout = SP!Timeout
  /\ S!ConnectionCloses = SP!ConnectionCloses
BY DEF S!Init, SP!Init, S!Start, SP!Start, S!AcsReplies, SP!AcsReplies,
       S!HttpCb, SP!HttpCb, S!Timeout, SP!Timeout, S!ConnectionCloses,
       SP!ConnectionCloses, S!Close, SP!Close, S!Ok, SP!Ok, S!Failed,
       SP!Failed, S!Message, SP!Message, S!Nothing, SP!Nothing, S!Inform,
       SP!Inform, S!Bodies, SP!Bodies, S!Calls, SP!Calls, S!IsAnswer,
       SP!IsAnswer, S!Cookie, SP!Cookie, S!queues, SP!queues, S!Reject,
       SP!Reject, S!HandleRequest, SP!HandleRequest, S!HandleInformResponse,
       SP!HandleInformResponse, S!HandleNothing, SP!HandleNothing,
       S!CallbackCloses, SP!CallbackCloses, S!SendNext, SP!SendNext,
       S!Marshals, SP!Marshals, S!Marshalled, SP!Marshalled, S!AnswerTypes,
       SP!AnswerTypes, S!Handled, SP!Handled, S!NoId, SP!NoId,
       S!BecomesUndefined, SP!BecomesUndefined, S!CookieNames, SP!CookieNames,
       S!Jars, SP!Jars, S!NoCookies, SP!NoCookies, S!Stored, SP!Stored,
       S!Overruns, SP!Overruns, S!BufferSize, SP!BufferSize

\* The scheduler of the agent is the one the proofs are about.
LEMMA SameCpe ==
  /\ C!Init = CP!Init
  /\ C!Next = CP!Next
  /\ C!vars = CP!vars
BY DEF C!Init, CP!Init, C!Next, CP!Next, C!vars, CP!vars, C!Start, CP!Start,
       C!RetryFires, CP!RetryFires, C!PeriodicFires, CP!PeriodicFires,
       C!RefuseCreq, CP!RefuseCreq, C!AcceptCreq, CP!AcceptCreq,
       C!IntervalElapses, CP!IntervalElapses, C!DnsResolved, CP!DnsResolved,
       C!InformResponse, CP!InformResponse, C!Acknowledge, CP!Acknowledge,
       C!Terminate, CP!Terminate, C!Die, CP!Die, C!StartSessionCb,
       CP!StartSessionCb, C!StartSession, CP!StartSession, C!RetrySession,
       CP!RetrySession, C!Base, CP!Base, C!Bump, CP!Bump, C!Stored, CP!Stored,
       C!Code, CP!Code, C!sessionVars, CP!sessionVars, C!Ok, CP!Ok, C!Failed,
       CP!Failed

-----------------------------------------------------------------------------
(***************************************************************************)
(* The invariants of the DNS cache and of the session.                     *)
(***************************************************************************)

\* A step of the agent is a step of the DNS cache or leaves it alone.
LEMMA StepOfDns == [Next]_vars => [DP!Next]_DP!vars
<1> SUFFICES ASSUME [Next]_vars PROVE [DP!Next]_DP!vars
  OBVIOUS
<1> USE DEF dnsVars, DP!vars, DP!entryVars
<1>1. CASE Start
  BY <1>1, SameDns DEF Start, DP!Next
<1>2. CASE RetryFires \/ PeriodicFires
  BY <1>2 DEF RetryFires, PeriodicFires, StartSessionCb
<1>3. CASE ConnectionRequest
  BY <1>3 DEF ConnectionRequest, C!RefuseCreq, C!AcceptCreq
<1>4. CASE IntervalElapses
  BY <1>4 DEF IntervalElapses, C!IntervalElapses
<1>5. CASE AcsReplies \/ HttpCb \/ ConnectionFails
  BY <1>5 DEF AcsReplies, HttpCb, ConnectionFails
<1>6. ASSUME NEW u \in D!Url, Resolve(u) PROVE DP!Next
  BY <1>6, SameDns DEF Resolve, DP!Next
<1>7. CASE Die
  BY <1>7, SameDns DEF Die, DP!Next
<1>8. CASE UNCHANGED vars
  BY <1>8 DEF vars
<1> QED
  BY <1>1, <1>2, <1>3, <1>4, <1>5, <1>6, <1>7, <1>8 DEF Next

\* What is proved of Dns holds of the names the agent resolves.
THEOREM DnsInvariance == Spec => []DP!IInv
<1>1. Init => DP!IInv
  BY SameDns, DP!InitInv, AgentAssumption DEF Init
<1>2. DP!IInv /\ [Next]_vars => DP!IInv'
  BY StepOfDns, DP!StepInv, AgentAssumption
<1> QED
  BY <1>1, <1>2, PTL DEF Spec

\* A step of the agent is a step of the session, leaves it alone, or takes it
\* back to where it is before the process starts.
LEMMA StepOfSession == [Next]_vars => [SP!Next]_SP!vars \/ SP!Init'
<1> SUFFICES ASSUME [Next]_vars PROVE [SP!Next]_SP!vars \/ SP!Init'
  OBVIOUS
<1> USE DEF sessionVars, SP!vars, SP!queues
<1>1. CASE Start
  BY <1>1, SameSession DEF Start, StartSession, SP!Next
<1>2. CASE RetryFires \/ PeriodicFires
  BY <1>2, SameSession
  DEF RetryFires, PeriodicFires, StartSessionCb, StartSession, SP!Next
<1>3. CASE ConnectionRequest
  BY <1>3, SameSession DEF ConnectionRequest, SP!Next
<1>4. CASE IntervalElapses
  BY <1>4 DEF IntervalElapses
<1>5. CASE AcsReplies \/ HttpCb \/ ConnectionFails
  BY <1>5, SameSession DEF AcsReplies, HttpCb, ConnectionFails, SP!Next
<1>6. ASSUME NEW u \in D!Url, Resolve(u) PROVE UNCHANGED SP!vars
  BY <1>6 DEF Resolve
<1>7. CASE Die
  BY <1>7 DEF Die, SP!Init, S!Ok, SP!Ok, S!NoCookies, SP!NoCookies,
              S!CookieNames, SP!CookieNames
<1>8. CASE UNCHANGED vars
  BY <1>8 DEF vars
<1> QED
  BY <1>1, <1>2, <1>3, <1>4, <1>5, <1>6, <1>7, <1>8 DEF Next

\* The constants of the session are as Session assumes them.
LEMMA SessionConstants == AcsMethods \subseteq SP!Known
BY AgentAssumption DEF S!Known, SP!Known

\* What is proved of Session holds of the sessions the agent opens.
THEOREM SessionInvariance == Spec => [](SP!IInv /\ SP!RepliesAreBodies)
<1>1. SP!Init => SP!IInv /\ SP!RepliesAreBodies
  <2>1. SP!Init => SP!RepliesAreBodies
    BY DEF SP!Init, SP!RepliesAreBodies
  <2> QED BY <2>1, SP!InitInv, AgentAssumption, SessionConstants
<1>2. Init => SP!IInv /\ SP!RepliesAreBodies
  BY <1>1, SameSession DEF Init
<1>3. SP!IInv /\ SP!RepliesAreBodies /\ [SP!Next]_SP!vars =>
        (SP!IInv /\ SP!RepliesAreBodies)'
  BY SP!InvariantInductive, SP!RepliesInductive, AgentAssumption, SessionConstants
<1>4. (SP!Init => SP!IInv /\ SP!RepliesAreBodies)'
  BY <1>1, PTL
<1>5. SP!IInv /\ SP!RepliesAreBodies /\ [Next]_vars =>
        (SP!IInv /\ SP!RepliesAreBodies)'
  BY <1>3, <1>4, StepOfSession
<1> QED
  BY <1>2, <1>5, PTL DEF Spec

\* The parts keep their invariants together.
LEMMA PartsInvariance == Spec => []PartsInv
BY DnsInvariance, SessionInvariance, PTL DEF PartsInv

-----------------------------------------------------------------------------
(***************************************************************************)
(* Implements: a step of the agent is a step of the scheduler, or nothing  *)
(* to it.                                                                  *)
(***************************************************************************)

\* A lookup depends on the DNS cache alone.
LEMMA SameLookup ==
  UNCHANGED <<phase, dnsVars>> => D!Lookup' = D!Lookup
BY DEF dnsVars, D!Lookup, D!Find, D!SessionHost

\* The scheduler starts with the agent.
LEMMA StartRefines == Start => C!Start
<1> SUFFICES ASSUME Start PROVE C!Start
  OBVIOUS
<1>1. (D!Lookup # NoHost)' \in BOOLEAN
  OBVIOUS
<1> QED
  BY <1>1 DEF Start, StartSession, D!Start, C!Start

\* Either timer.
LEMMA StartSessionCbRefines ==
  ASSUME NEW pending, StartSessionCb(pending)
  PROVE  C!StartSessionCb(pending)
<1>1. D!Lookup' = D!Lookup
  BY SameLookup DEF StartSessionCb
<1>2. CASE CpeSession = "none"
  BY <1>1, <1>2 DEF StartSessionCb, StartSession, C!StartSessionCb
<1>3. CASE CpeSession # "none"
  <2>1. CpeSession' = CpeSession
    BY <1>3 DEF StartSessionCb, sessionVars, CpeSession
  <2> QED BY <1>1, <1>3, <2>1 DEF StartSessionCb, C!StartSessionCb, C!sessionVars
<1> QED BY <1>2, <1>3

\* What the callback of a reply does to the session.
LEMMA HttpCbSeen ==
  ASSUME PartsInv, HttpCb
  PROVE  /\ status = "open"
         /\ HearsInformResponse => reqOut = <<S!Inform>>
         /\ \/ status' = "closed" /\ closeCode' = S!Failed
            \/ status' = "closed" /\ closeCode' = S!Ok /\ ~HearsInformResponse
            \/ /\ status' \in {"open", "undefined"}
               /\ reqOut' = IF HearsInformResponse THEN <<>> ELSE reqOut
<1>1. HearsInformResponse = SP!Heard
  BY DEF HearsInformResponse, SP!Heard, S!Message, SP!Message
<1>2. S!Inform = SP!Inform /\ S!Ok = SP!Ok /\ S!Failed = SP!Failed
  BY DEF S!Inform, SP!Inform, S!Message, SP!Message, S!Ok, SP!Ok, S!Failed, SP!Failed
<1> QED
  BY <1>1, <1>2, SP!HttpCbEffect, SameSession, AgentAssumption, SessionConstants
  DEF PartsInv, HttpCb

\* A reply of the ACS is handled: to the scheduler it is the InformResponse,
\* the end of the session, or nothing.
LEMMA HttpCbRefines == PartsInv /\ HttpCb => [C!Next]_C!vars
<1> SUFFICES ASSUME PartsInv, HttpCb PROVE [C!Next]_C!vars
  OBVIOUS
<1>2. /\ status = "open"
      /\ \/ status' = "closed" /\ closeCode' = S!Failed
         \/ status' = "closed" /\ closeCode' = S!Ok /\ ~HearsInformResponse
         \/ /\ status' \in {"open", "undefined"}
            /\ reqOut' = IF HearsInformResponse THEN <<>> ELSE reqOut
  BY HttpCbSeen
<1>3. D!Lookup' = D!Lookup
  BY SameLookup DEF HttpCb
<1>4. CpeSession = IF reqOut = <<>> THEN "informed" ELSE "informing"
  BY <1>2 DEF CpeSession
<1>5. HearsInformResponse => CpeSession = "informing"
  BY <1>4 DEF HearsInformResponse
<1>6. HearsInformResponse => C!Acknowledge
  BY <1>5 DEF HttpCb, C!Acknowledge
<1>7. CASE status' = "closed"
  <2>1. CpeSession' = "none"
    BY <1>7 DEF CpeSession
  <2>2. reply' = "none" /\ CpeSession \in {"informing", "informed"}
    BY <1>4, <2>1 DEF HttpCb, Forgets
  <2>3. SessionEnds
    BY <1>7 DEF HttpCb, React
  <2>4. CASE closeCode' = S!Failed
    <3>1. UNCHANGED <<events, acked>> \/ C!Acknowledge
      BY <1>6 DEF HttpCb
    <3>2. C!Terminate(C!Failed)
      BY <1>3, <2>1, <2>2, <2>3, <2>4, <3>1
      DEF HttpCb, SessionEnds, C!Terminate
    <3> QED BY <3>2 DEF C!Next
  <2>5. CASE closeCode' = S!Ok /\ ~HearsInformResponse
    <3>1. UNCHANGED <<events, acked>>
      BY <2>5 DEF HttpCb
    <3>2. C!Terminate(C!Ok)
      BY <1>3, <2>1, <2>2, <2>3, <2>5, <3>1
      DEF HttpCb, SessionEnds, C!Terminate, S!Ok, S!Failed
    <3> QED BY <3>2 DEF C!Next
  <2> QED BY <1>2, <1>7, <2>4, <2>5
<1>8. CASE status' \in {"open", "undefined"} /\ HearsInformResponse
  <2>1. CpeSession' = "informed"
    BY <1>2, <1>8 DEF CpeSession
  <2>2. reply' = "none" /\ UNCHANGED <<inform, retryVars>>
    BY <1>5, <1>8, <2>1 DEF HttpCb, Forgets, React
  <2>3. C!InformResponse
    BY <1>3, <1>6, <1>8, <2>1, <2>2 DEF HttpCb, C!InformResponse, retryVars
  <2> QED BY <2>3 DEF C!Next
<1>9. CASE status' \in {"open", "undefined"} /\ ~HearsInformResponse
  <2>1. CpeSession' = CpeSession
    BY <1>2, <1>9 DEF CpeSession
  <2>2. UNCHANGED <<reply, inform, retryVars, events, acked>>
    BY <1>9, <2>1 DEF HttpCb, Forgets, React
  <2> QED BY <1>3, <2>1, <2>2 DEF HttpCb, C!vars, retryVars
<1> QED BY <1>2, <1>7, <1>8, <1>9

\* A failed exchange is the failed end of the session.
LEMMA ConnectionFailsRefines == PartsInv /\ ConnectionFails => C!Terminate(C!Failed)
<1> SUFFICES ASSUME PartsInv, ConnectionFails PROVE C!Terminate(C!Failed)
  OBVIOUS
<1>1. /\ posts # <<>> \/ replies # <<>>
      /\ status' = "closed" /\ closeCode' = S!Failed
  BY DEF ConnectionFails, S!Timeout, S!ConnectionCloses, S!Close
<1>2. status = "open"
  BY <1>1 DEF PartsInv, SP!IInv, SP!Shape, SP!Idle
<1>3. CpeSession \in {"informing", "informed"} /\ CpeSession' = "none"
  BY <1>1, <1>2 DEF CpeSession
<1>4. D!Lookup' = D!Lookup
  BY SameLookup DEF ConnectionFails
<1>5. SessionEnds
  BY <1>1 DEF ConnectionFails, React
<1> QED
  BY <1>1, <1>3, <1>4, <1>5 DEF ConnectionFails, SessionEnds, C!Terminate

\* The ACS replies, which the scheduler does not see.
LEMMA AcsRepliesRefines == AcsReplies => UNCHANGED C!vars
<1> SUFFICES ASSUME AcsReplies PROVE UNCHANGED C!vars
  OBVIOUS
<1>1. CpeSession' = CpeSession
  BY DEF AcsReplies, S!AcsReplies, S!queues, CpeSession
<1>2. D!Lookup' = D!Lookup
  BY SameLookup DEF AcsReplies
<1> QED BY <1>1, <1>2 DEF AcsReplies, cpeVars, retryVars, C!vars

\* An address that lookups find is never replaced by another.
LEMMA LookupKept ==
  ASSUME PartsInv, NEW u \in D!Url, Resolve(u)
  PROVE  D!Lookup' = D!Lookup \/ (phase = "running" /\ D!Lookup = NoHost)
<1>1. phase' = phase
  BY DEF Resolve, D!TimerFires, D!Answered, D!Failed
<1>2. CASE D!Lookup = NoHost
  BY <1>1, <1>2 DEF D!Lookup
<1>3. CASE D!Lookup # NoHost
  <2> DEFINE f == DP!Find(name, DP!SessionHost(name))
  <2>1. phase = "running" /\ DP!Lookup = address[f] /\ DP!Lookup # NoHost
    BY <1>3, SameDns DEF D!Lookup, DP!Lookup
  <2>2. DP!Lookup' = DP!SessionHost(name)
    <3>1. DP!Next
      BY SameDns DEF Resolve, DP!Next
    <3> QED BY <1>1, <2>1, <3>1, DP!StepKeepsAddress, AgentAssumption DEF PartsInv
  <2>3. DP!Lookup = DP!SessionHost(name)
    <3>1. f \in DP!Url
      BY DEF DP!Find, DP!Url
    <3>2. name[f] = DP!SessionHost(name)
      BY DP!FoundName, AgentAssumption
    <3> QED BY <2>1, <3>1, <3>2 DEF PartsInv, DP!IInv, DP!OwnAddress
  <2>4. D!Lookup' = DP!Lookup'
    BY DEF D!Lookup, DP!Lookup, D!Find, DP!Find, D!SessionHost, DP!SessionHost
  <2> QED BY <2>2, <2>3, <2>4, SameDns
<1> QED BY <1>2, <1>3

\* The host of the session gets its address, or the scheduler sees nothing.
LEMMA ResolveRefines ==
  ASSUME PartsInv, NEW u \in D!Url, Resolve(u)
  PROVE  [C!Next]_C!vars
<1>1. CpeSession' = CpeSession
  BY DEF Resolve, sessionVars, CpeSession
<1>2. phase' = phase
  BY DEF Resolve, D!TimerFires, D!Answered, D!Failed
<1>3. CASE D!Lookup' = D!Lookup
  BY <1>1, <1>2, <1>3 DEF Resolve, C!vars, retryVars
<1>4. CASE D!Lookup' # D!Lookup
  <2>1. phase = "running" /\ D!Lookup = NoHost
    BY <1>4, LookupKept
  <2>2. C!DnsResolved
    BY <1>1, <1>2, <1>4, <2>1 DEF Resolve, C!DnsResolved, retryVars
  <2> QED BY <2>2 DEF C!Next
<1> QED BY <1>3, <1>4

\* Every step of the agent is one of the scheduler or nothing to it.
LEMMA StepRefines == PartsInv /\ [Next]_vars => [C!Next]_C!vars
<1> SUFFICES ASSUME PartsInv, [Next]_vars PROVE [C!Next]_C!vars
  OBVIOUS
<1>1. CASE Start
  BY <1>1, StartRefines DEF C!Next
<1>2. CASE RetryFires
  BY <1>2, StartSessionCbRefines DEF RetryFires, StartSessionCb, C!RetryFires, C!Next
<1>3. CASE PeriodicFires
  BY <1>3, StartSessionCbRefines DEF PeriodicFires, StartSessionCb, C!PeriodicFires, C!Next
<1>4. CASE ConnectionRequest
  BY <1>4 DEF ConnectionRequest, C!Next
<1>5. CASE IntervalElapses
  BY <1>5 DEF IntervalElapses, C!Next
<1>6. CASE AcsReplies
  BY <1>6, AcsRepliesRefines
<1>7. CASE HttpCb
  BY <1>7, HttpCbRefines
<1>8. CASE ConnectionFails
  BY <1>8, ConnectionFailsRefines DEF C!Next
<1>9. ASSUME NEW u \in D!Url, Resolve(u) PROVE [C!Next]_C!vars
  BY <1>9, ResolveRefines
<1>10. CASE Die
  BY <1>10 DEF Die, C!Next
<1>11. CASE UNCHANGED vars
  <2>1. CpeSession' = CpeSession
    BY <1>11 DEF vars, sessionVars, CpeSession
  <2>2. D!Lookup' = D!Lookup
    BY <1>11, SameLookup DEF vars
  <2> QED BY <1>11, <2>1, <2>2 DEF vars, cpeVars, retryVars, C!vars
<1> QED
  BY <1>1, <1>2, <1>3, <1>4, <1>5, <1>6, <1>7, <1>8, <1>9, <1>10, <1>11 DEF Next

\* The scheduler with the real session and the real DNS cache does what Cpe
\* allows and nothing else.
THEOREM AgentImplementsCpe == Spec => Implements
<1>1. Init => C!Init
  BY DEF Init
<1> QED
  BY <1>1, StepRefines, PartsInvariance, PTL DEF Spec, Implements, C!Spec

-----------------------------------------------------------------------------
(***************************************************************************)
(* What follows of the agent.                                              *)
(***************************************************************************)

\* The constants of the scheduler are as Cpe assumes them.
LEMMA CpeConstants == StartFaults \subseteq {"prepare", "send"}
BY DEF StartFaults

\* In the terms of CpeProofs: the agent is a scheduler.
LEMMA AgentIsScheduler == Spec => CP!Spec
<1>1. Init => CP!Init
  BY SameCpe DEF Init
<1>2. C!vars' = CP!vars'
  BY DEF C!vars, CP!vars
<1>3. PartsInv /\ [Next]_vars => [CP!Next]_CP!vars
  BY <1>2, StepRefines, SameCpe
<1> QED
  BY <1>1, <1>3, PartsInvariance, PTL DEF Spec, CP!Spec

\* What is proved of Cpe holds of the scheduler of the agent.
THEOREM SchedulerInvariance == Spec => []CP!IInv
BY AgentIsScheduler, CP!Invariance, AgentAssumption, CpeConstants, PTL

\* The promises of the scheduler, made with the real session and resolution:
\* an agent without session that failed has a retry pending, the boot event
\* waits for the ACS, every stored event is in the Inform of the session, and
\* a connection request answered 200 leads to a session that reports it.
THEOREM SchedulerPromises ==
  Spec => /\ [](CP!NextSessionScheduled /\ CP!BootUntilAcked /\ CP!StoredWasReported)
          /\ CP!CreqHonoured
BY AgentIsScheduler, CP!AlwaysScheduled, CP!BootKept, CP!NothingUnreported,
   CP!RequestsHonoured, AgentAssumption, CpeConstants, PTL

\* The promises of the session, made under the scheduler: one exchange in
\* flight, and every call of the ACS answered by the next POST.
THEOREM SessionPromises == Spec => [](SP!OneExchange /\ SP!InStep)
<1>1. SP!IInv => SP!OneExchange /\ SP!InStep
  BY SP!OneExchangeFollows, SP!InStepFollows, AgentAssumption, SessionConstants
<1> QED
  BY <1>1, SessionInvariance, PTL

\* What is known of the agent as a whole.
AgentInv == PartsInv /\ CP!IInv

\* All parts keep their invariants.
LEMMA AgentInvariance == Spec => []AgentInv
BY PartsInvariance, SchedulerInvariance, PTL DEF AgentInv

-----------------------------------------------------------------------------
(***************************************************************************)
(* What holds between the parts.                                           *)
(***************************************************************************)

\* A session is opened only by evcpe_start_session, with an address known.
LEMMA OpenedWithAddress ==
  ASSUME NEW known, NEW pending, NEW evs, NEW rc,
         StartSession(known, pending, evs, rc), CpeSession = "none",
         status' = "open"
  PROVE  known /\ reqOut' # <<>>
<1>1. CpeSession' # "none"
  BY DEF CpeSession
<1>2. known /\ CpeSession' \in {"stuck", "informing"}
  BY <1>1 DEF StartSession, C!StartSession, C!sessionVars
<1> QED BY <1>2 DEF CpeSession

\* Before the first session there is none to be sound.
LEMMA InitSound == Init => SessionIsSound
BY DEF Init, S!Init, SessionIsSound

\* The address of an open session stays, and its boot events are gone from the
\* moment its Inform is answered: connection requests do not store any.
LEMMA StepSound == AgentInv /\ SessionIsSound /\ [Next]_vars => SessionIsSound'
<1> SUFFICES ASSUME AgentInv, SessionIsSound, [Next]_vars, status' = "open"
             PROVE  /\ D!Lookup' # NoHost
                    /\ reqOut' = <<>> =>
                         events'["0 BOOTSTRAP"] = 0 /\ events'["1 BOOT"] = 0
  BY DEF SessionIsSound
<1>1. CASE Start
  <2>1. CpeSession = "none"
    BY <1>1 DEF AgentInv, CP!IInv, CP!OffIsClean, Start, D!Start
  <2> QED BY <1>1, <2>1, OpenedWithAddress DEF Start
<1>2. CASE RetryFires \/ PeriodicFires
  <2>1. D!Lookup' = D!Lookup /\ events' = events
    BY <1>2, SameLookup DEF RetryFires, PeriodicFires, StartSessionCb
  <2>2. PICK pending : StartSessionCb(pending)
    BY <1>2 DEF RetryFires, PeriodicFires
  <2>3. CASE CpeSession = "none"
    BY <2>1, <2>2, <2>3, OpenedWithAddress DEF StartSessionCb
  <2>4. CASE CpeSession # "none"
    BY <2>1, <2>2, <2>4 DEF StartSessionCb, sessionVars, SessionIsSound
  <2> QED BY <2>3, <2>4
<1>3. CASE ConnectionRequest
  <2>1. D!Lookup' = D!Lookup
    BY <1>3, SameLookup DEF ConnectionRequest, C!RefuseCreq, C!AcceptCreq
  <2>2. CASE UNCHANGED sessionVars /\ C!RefuseCreq
    BY <2>1, <2>2 DEF sessionVars, C!RefuseCreq, SessionIsSound
  <2>3. CASE (S!Start \/ UNCHANGED sessionVars) /\ C!AcceptCreq
    <3>1. PICK rc : StartSession(D!Lookup # NoHost, retryPending, events', rc)
      BY <2>3 DEF C!AcceptCreq, StartSession
    <3> QED BY <2>1, <2>3, <3>1, OpenedWithAddress DEF C!AcceptCreq
  <2> QED BY <1>3, <2>2, <2>3 DEF ConnectionRequest
<1>4. CASE IntervalElapses \/ AcsReplies
  <2>1. D!Lookup' = D!Lookup
    BY <1>4, SameLookup DEF IntervalElapses, C!IntervalElapses, AcsReplies
  <2> QED BY <1>4, <2>1 DEF IntervalElapses, C!IntervalElapses, AcsReplies,
             S!AcsReplies, S!queues, sessionVars, cpeVars, SessionIsSound
<1>5. CASE HttpCb
  <2>1. D!Lookup' = D!Lookup
    BY <1>5, SameLookup DEF HttpCb
  <2>2. status = "open" /\ reqOut' = IF HearsInformResponse THEN <<>> ELSE reqOut
    BY <1>5, HttpCbSeen DEF AgentInv
  <2>3. CASE HearsInformResponse
    BY <1>5, <2>1, <2>2, <2>3
    DEF HttpCb, SessionIsSound, AgentInv, CP!IInv, CP!TypeOK, CP!Code
  <2>4. CASE ~HearsInformResponse
    BY <1>5, <2>1, <2>2, <2>4 DEF HttpCb, SessionIsSound
  <2> QED BY <2>3, <2>4
<1>6. CASE ConnectionFails
  BY <1>6 DEF ConnectionFails, S!Timeout, S!ConnectionCloses, S!Close
<1>7. ASSUME NEW u \in D!Url, Resolve(u)
      PROVE  /\ D!Lookup' # NoHost
             /\ reqOut' = <<>> =>
                  events'["0 BOOTSTRAP"] = 0 /\ events'["1 BOOT"] = 0
  <2>1. status = "open" /\ UNCHANGED <<reqOut, events>>
    BY <1>7 DEF Resolve, sessionVars
  <2>2. D!Lookup' = D!Lookup \/ D!Lookup = NoHost
    BY <1>7, LookupKept DEF AgentInv
  <2> QED BY <2>1, <2>2 DEF SessionIsSound
<1>8. CASE Die
  BY <1>8 DEF Die
<1>9. CASE UNCHANGED vars
  BY <1>9, SameLookup DEF vars, cpeVars, sessionVars, SessionIsSound
<1> QED
  BY <1>1, <1>2, <1>3, <1>4, <1>5, <1>6, <1>7, <1>8, <1>9 DEF Next

\* An open session has its host resolved, and none of the boot events once its
\* Inform is answered.
THEOREM SessionsAreSound == Spec => []SessionIsSound
BY InitSound, StepSound, AgentInvariance, PTL DEF Spec

\* The action of DeletedByResponse.
Deletion ==
  \A c \in C!Code :
    events'[c] < events[c] /\ phase' = "running" =>
      /\ c \in inform
      /\ reqOut = <<S!Inform>>
      /\ replies # <<>> /\ HearsInformResponse

\* Only the callback of a reply deletes events: storing one deletes none, and
\* when the process starts there is none to delete.
LEMMA OnlyHttpCbDeletes ==
  ASSUME AgentInv, [Next]_vars, phase' = "running",
         NEW c \in C!Code, events'[c] < events[c]
  PROVE  HttpCb /\ HearsInformResponse
<1>1. events \in [C!Code -> 0..MaxEvents]
  BY DEF AgentInv, CP!IInv, CP!TypeOK, C!Code, CP!Code
<1>2. events[c] \in 0..MaxEvents /\ MaxEvents \in Nat
  BY <1>1, AgentAssumption
<1>3. CASE Start
  <2>1. events[c] = 0
    BY <1>3 DEF Start, D!Start, AgentInv, CP!IInv, CP!OffIsClean, C!Code, CP!Code
  <2>2. PICK stored \in [C!Code -> 0..MaxEvents] :
          events' = [stored EXCEPT !["1 BOOT"] = @ + 1]
    BY <1>3 DEF Start
  <2>3. stored[c] \in 0..MaxEvents
    OBVIOUS
  <2>4. events'[c] \in {stored[c], stored[c] + 1}
    BY <2>2
  <2> QED BY <1>2, <2>1, <2>3, <2>4
<1>4. CASE ConnectionRequest
  <2>1. events' = events \/
        events' = [events EXCEPT !["6 CONNECTION REQUEST"] = @ + 1]
    BY <1>4 DEF ConnectionRequest, C!RefuseCreq, C!AcceptCreq
  <2>2. events'[c] \in {events[c], events[c] + 1}
    BY <1>1, <2>1
  <2> QED BY <1>2, <2>2
<1>5. CASE HttpCb
  <2>1. HearsInformResponse \/ events' = events
    BY <1>5 DEF HttpCb
  <2> QED BY <1>2, <1>5, <2>1
<1>6. CASE UNCHANGED events
  BY <1>2, <1>6
<1>7. CASE RetryFires \/ PeriodicFires \/ IntervalElapses \/ AcsReplies \/ ConnectionFails
  BY <1>6, <1>7 DEF RetryFires, PeriodicFires, StartSessionCb, IntervalElapses,
     C!IntervalElapses, AcsReplies, cpeVars, ConnectionFails
<1>8. ASSUME NEW u \in D!Url, Resolve(u) PROVE UNCHANGED events
  BY <1>8 DEF Resolve
<1>9. ~Die
  BY DEF Die, D!Die
<1>10. CASE UNCHANGED vars
  BY <1>6, <1>10 DEF vars, cpeVars
<1> QED
  BY <1>3, <1>4, <1>5, <1>6, <1>7, <1>8, <1>9, <1>10 DEF Next

\* An event is deleted only by the InformResponse to the Inform that reported
\* it; what the repository holds then was all reported.
THEOREM DeletedByItsResponse == Spec => DeletedByResponse
<1>1. ASSUME AgentInv, [Next]_vars, phase' = "running",
             NEW c \in C!Code, events'[c] < events[c]
      PROVE  /\ c \in inform
             /\ reqOut = <<S!Inform>>
             /\ replies # <<>> /\ HearsInformResponse
  <2>1. HttpCb /\ HearsInformResponse
    BY <1>1, OnlyHttpCbDeletes
  <2>2. status = "open" /\ reqOut = <<S!Inform>>
    BY <1>1, <2>1, HttpCbSeen DEF AgentInv
  <2>3. events[c] > 0
    <3>1. events \in [C!Code -> 0..MaxEvents]
      BY <1>1 DEF AgentInv, CP!IInv, CP!TypeOK, C!Code, CP!Code
    <3>2. events[c] \in 0..MaxEvents /\ MaxEvents \in Nat
      BY <3>1, <1>1, AgentAssumption
    <3>3. events'[c] \in {0, events[c]}
      BY <2>1, <3>1 DEF HttpCb
    <3> QED BY <1>1, <3>2, <3>3
  <2>4. CpeSession # "none"
    BY <2>2 DEF CpeSession
  <2>5. c \in inform
    BY <1>1, <2>3, <2>4
    DEF AgentInv, CP!IInv, CP!StoredWasReported, CP!Stored, C!Code, CP!Code
  <2> QED BY <2>1, <2>2, <2>5 DEF HttpCb, S!HttpCb
<1>2. AgentInv /\ [Next]_vars => [Deletion]_vars
  BY <1>1 DEF Deletion
<1> QED
  BY <1>2, AgentInvariance, PTL DEF Spec, DeletedByResponse, Deletion

=============================================================================
