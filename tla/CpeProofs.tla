----------------------------- MODULE CpeProofs -----------------------------
(***************************************************************************)
(* The safety of the scheduler for every value of its constants.           *)
(*                                                                         *)
(* The conjunction IInv is inductive.  None of its parts is so by itself:  *)
(* each needs the types, and the steps of Start need OffIsClean, which     *)
(* says that nothing of an earlier life is left when the process starts.   *)
(***************************************************************************)
EXTENDS Cpe, TLAPS

\* While the process is off every field has its initial value.
OffIsClean ==
  phase = "off" =>
    /\ session = "none"
    /\ ~retryPending
    /\ ~acked
    /\ \A c \in Code : events[c] = 0

IInv ==
  /\ TypeOK
  /\ OffIsClean
  /\ NextSessionScheduled
  /\ BootUntilAcked
  /\ StoredWasReported
  /\ RetryWaitBounds

-----------------------------------------------------------------------------

\* The saturating increment stays within the bound of the counter and is
\* never zero (the unsigned count that evcpe_start_session raises).
LEMMA BumpType ==
  ASSUME NEW n \in 0..MaxRetry
  PROVE  Bump(n) \in 0..MaxRetry /\ Bump(n) > 0
  BY CpeAssumption DEF Bump

\* Every row of the back-off table but the first lies between 5 and 2560.
LEMMA BaseBounds ==
  ASSUME NEW n \in Nat, n > 0
  PROVE  Base(n) \in Nat /\ InBounds(Base(n))
<1>1. CASE n \in {1, 2, 3, 4, 5}
  BY <1>1 DEF Base, InBounds
<1>2. CASE n \in {6, 7, 8, 9}
  BY <1>2 DEF Base, InBounds
<1>3. CASE n > 9
  BY <1>3 DEF Base, InBounds
<1> QED BY <1>1, <1>2, <1>3

\* Storing one more event keeps the count of its code within the bound.
LEMMA OneMoreEvent ==
  ASSUME NEW n \in 0..MaxEvents, n < MaxEvents
  PROVE  n + 1 \in 0..MaxEvents /\ n + 1 > 0
<1>1. MaxEvents \in Nat
  BY CpeAssumption
<1> QED BY <1>1

\* What evcpe_retry_session leaves behind when it is called after the count
\* was raised: a pending retry with a sound delay.
LEMMA RetrySessionSchedules ==
  ASSUME TypeOK,
         NEW count \in 1..MaxRetry, NEW pending \in BOOLEAN, NEW rc,
         pending => retryPending,
         RetryWaitBounds,
         RetrySession(count, pending, rc)
  PROVE  /\ retryPending' /\ retryPending' \in BOOLEAN
         /\ retryWait' \in Nat /\ InBounds(retryWait')
<1>1. CASE pending
  <2>1. retryPending' = pending /\ retryWait' = retryWait
    BY <1>1 DEF RetrySession
  <2>2. retryWait \in Nat /\ InBounds(retryWait)
    BY <1>1 DEF RetryWaitBounds, TypeOK
  <2>3. retryPending' /\ retryPending' \in BOOLEAN
    BY <1>1, <2>1
  <2> QED BY <2>1, <2>2, <2>3
<1>2. CASE ~pending
  <2>1. retryPending' = TRUE /\ retryWait' = Base(count)
    BY <1>2 DEF RetrySession
  <2>2. count \in Nat /\ count > 0
    BY CpeAssumption
  <2>3. Base(count) \in Nat /\ InBounds(Base(count))
    BY <2>2, BaseBounds
  <2> QED BY <2>1, <2>3
<1> QED BY <1>1, <1>2

\* What evcpe_start_session leaves behind, whichever way it takes out.
LEMMA StartSessionEffect ==
  ASSUME TypeOK, RetryWaitBounds, session = "none",
         NEW known \in BOOLEAN, NEW pending \in BOOLEAN, NEW rc,
         NEW evs \in [Code -> 0..MaxEvents],
         pending => retryPending,
         StartSession(known, pending, evs, rc)
  PROVE  /\ session' \in SessionState
         /\ inform' \in SUBSET Code
         /\ retryCount' \in 0..MaxRetry
         /\ retryPending' \in BOOLEAN
         /\ retryWait' \in Nat
         /\ aborted' \in BOOLEAN
         /\ retryPending' => InBounds(retryWait')
         /\ session' # "none" => inform' = Stored(evs)
         /\ \/ aborted'
            \/ retryPending'
            \/ session' # "none"
<1> DEFINE Deferred == /\ retryCount' = Bump(retryCount)
                       /\ RetrySession(retryCount', pending, rc)
                       /\ aborted' = FALSE
                       /\ UNCHANGED sessionVars
<1>1. CASE Deferred
  <2>1. retryCount' \in 1..MaxRetry
    BY <1>1, BumpType DEF TypeOK
  <2>2. /\ retryPending' /\ retryPending' \in BOOLEAN
        /\ retryWait' \in Nat /\ InBounds(retryWait')
    BY <1>1, <2>1, RetrySessionSchedules
  <2>3. session' = "none" /\ inform' \in SUBSET Code
    BY <1>1 DEF sessionVars, TypeOK
  <2>4. retryCount' \in 0..MaxRetry
    BY <2>1
  <2>5. aborted' \in BOOLEAN
    BY <1>1
  <2> QED BY <2>2, <2>3, <2>4, <2>5 DEF SessionState
<1>3. CASE /\ aborted' = TRUE
           /\ retryPending' = pending
           /\ UNCHANGED <<sessionVars, retryCount, retryWait>>
  BY <1>3 DEF sessionVars, TypeOK, RetryWaitBounds
<1>4. CASE /\ session' \in {"stuck", "informing"}
           /\ inform' = Stored(evs)
           /\ aborted' = FALSE
           /\ retryPending' = pending
           /\ UNCHANGED <<retryCount, retryWait>>
  BY <1>4 DEF TypeOK, RetryWaitBounds, SessionState, Stored
<1> QED BY <1>1, <1>3, <1>4 DEF StartSession

\* The part of the invariant that a step must establish about the session
\* and the retry after StartSession ran on well-typed arguments.
LEMMA StartSessionInv ==
  ASSUME IInv, session = "none",
         NEW known \in BOOLEAN, NEW pending \in BOOLEAN, NEW rc,
         NEW evs \in [Code -> 0..MaxEvents],
         pending => retryPending,
         events' = evs,
         StartSession(known, pending, evs, rc)
  PROVE  /\ StoredWasReported'
         /\ RetryWaitBounds'
         /\ session' = "none" /\ retryCount' > 0 /\ ~aborted' => retryPending'
<1>1. TypeOK /\ RetryWaitBounds
  BY DEF IInv
<1>2. /\ retryPending' => InBounds(retryWait')
      /\ session' # "none" => inform' = Stored(evs)
      /\ aborted' \/ retryPending' \/ session' # "none"
  BY <1>1, StartSessionEffect
<1>3. StoredWasReported'
  BY <1>2 DEF StoredWasReported, Stored
<1>4. RetryWaitBounds'
  BY <1>2 DEF RetryWaitBounds
<1> QED BY <1>2, <1>3, <1>4

-----------------------------------------------------------------------------

\* The invariant holds before the process is first started.
LEMMA InitInv == Init => IInv
<1> SUFFICES ASSUME Init PROVE IInv
  OBVIOUS
<1>1. events \in [Code -> 0..MaxEvents] /\ retryCount \in 0..MaxRetry
  BY CpeAssumption DEF Init
<1>2. TypeOK
  BY <1>1 DEF Init, TypeOK, SessionState, Reply
<1>3. OffIsClean /\ NextSessionScheduled /\ BootUntilAcked
  BY DEF Init, OffIsClean, NextSessionScheduled, BootUntilAcked
<1>4. StoredWasReported /\ RetryWaitBounds
  BY DEF Init, StoredWasReported, RetryWaitBounds, Stored
<1> QED BY <1>2, <1>3, <1>4 DEF IInv

\* Start of the process: the boot event is stored before anything can fail.
LEMMA StartInv == IInv /\ Start => IInv'
<1> SUFFICES ASSUME IInv, Start PROVE IInv'
  OBVIOUS
<1>1. /\ TypeOK /\ RetryWaitBounds
      /\ session = "none" /\ ~acked /\ retryPending \in BOOLEAN
  BY DEF IInv, OffIsClean, Start, TypeOK
<1>2. PICK stored \in [Code -> 0..MaxEvents], literal \in BOOLEAN :
        /\ stored["1 BOOT"] < MaxEvents
        /\ events' = [stored EXCEPT !["1 BOOT"] = @ + 1]
        /\ address' = literal
        /\ StartSession(literal, retryPending, events', Ok)
  BY DEF Start
<1>3. events' \in [Code -> 0..MaxEvents] /\ events'["1 BOOT"] > 0
  <2>1. "1 BOOT" \in Code
    BY DEF Code
  <2>2. stored["1 BOOT"] \in 0..MaxEvents
    BY <2>1
  <2>3. /\ stored["1 BOOT"] + 1 \in 0..MaxEvents
        /\ stored["1 BOOT"] + 1 > 0
    BY <1>2, <2>2, OneMoreEvent
  <2> QED BY <1>2, <2>1, <2>3
<1>4. /\ session' \in SessionState
      /\ inform' \in SUBSET Code
      /\ retryCount' \in 0..MaxRetry
      /\ retryPending' \in BOOLEAN
      /\ retryWait' \in Nat
      /\ aborted' \in BOOLEAN
  BY <1>1, <1>2, <1>3, StartSessionEffect
<1>5. TypeOK'
  BY <1>1, <1>2, <1>3, <1>4, CpeAssumption DEF Start, TypeOK, Reply
<1>6. /\ StoredWasReported'
      /\ RetryWaitBounds'
      /\ session' = "none" /\ retryCount' > 0 /\ ~aborted' => retryPending'
  BY <1>1, <1>2, <1>3, StartSessionInv
<1>7. OffIsClean'
  BY DEF Start, OffIsClean
<1>8. NextSessionScheduled'
  BY <1>6 DEF Start, NextSessionScheduled
<1>9. BootUntilAcked'
  BY <1>3 DEF BootUntilAcked
<1> QED BY <1>5, <1>6, <1>7, <1>8, <1>9 DEF IInv

\* Both timer callbacks at once: pending is what the firing left of the retry.
LEMMA StartSessionCbInv ==
  ASSUME IInv, phase = "running",
         NEW pending \in BOOLEAN, pending => retryPending,
         StartSessionCb(pending)
  PROVE  IInv'
<1>1. TypeOK /\ RetryWaitBounds /\ events' = events
  BY DEF IInv, StartSessionCb
<1>2. CASE session = "none"
  <2>1. PICK rc \in {Ok, Failed} : StartSession(address, pending, events, rc)
    BY <1>2 DEF StartSessionCb
  <2>2. address \in BOOLEAN /\ events \in [Code -> 0..MaxEvents]
    BY <1>1 DEF TypeOK
  <2>3. /\ session' \in SessionState
        /\ inform' \in SUBSET Code
        /\ retryCount' \in 0..MaxRetry
        /\ retryPending' \in BOOLEAN
        /\ retryWait' \in Nat
        /\ aborted' \in BOOLEAN
    BY <1>1, <1>2, <2>1, <2>2, StartSessionEffect
  <2>4. TypeOK'
    BY <1>1, <2>3, CpeAssumption DEF StartSessionCb, TypeOK, Reply
  <2>5. /\ StoredWasReported'
        /\ RetryWaitBounds'
        /\ session' = "none" /\ retryCount' > 0 /\ ~aborted' => retryPending'
    BY <1>1, <1>2, <2>1, <2>2, StartSessionInv
  <2>6. OffIsClean'
    BY DEF StartSessionCb, OffIsClean
  <2>7. NextSessionScheduled'
    BY <2>5 DEF StartSessionCb, NextSessionScheduled
  <2>8. BootUntilAcked'
    BY DEF IInv, BootUntilAcked, StartSessionCb
  <2> QED BY <2>4, <2>5, <2>6, <2>7, <2>8 DEF IInv
<1>3. CASE session # "none"
  <2>1. /\ retryPending' = pending
        /\ UNCHANGED <<sessionVars, retryCount, retryWait, aborted>>
    BY <1>3 DEF StartSessionCb
  <2>2. TypeOK'
    BY <1>1, <2>1, CpeAssumption DEF StartSessionCb, TypeOK, Reply, sessionVars
  <2>3. OffIsClean' /\ NextSessionScheduled'
    BY <1>3, <2>1 DEF StartSessionCb, OffIsClean, NextSessionScheduled, sessionVars
  <2>4. BootUntilAcked'
    BY DEF IInv, BootUntilAcked, StartSessionCb
  <2>5. StoredWasReported'
    BY <1>1, <2>1 DEF IInv, StoredWasReported, Stored, sessionVars
  <2>6. RetryWaitBounds'
    BY <1>1, <2>1 DEF RetryWaitBounds
  <2> QED BY <2>2, <2>3, <2>4, <2>5, <2>6 DEF IInv
<1> QED BY <1>2, <1>3

\* The retry timer: the retry is spent and the callback leaves a new one or a
\* session.
LEMMA RetryFiresInv == IInv /\ RetryFires => IInv'
BY StartSessionCbInv DEF RetryFires

\* The periodic timer: a pending retry is left as it is.
LEMMA PeriodicFiresInv == IInv /\ PeriodicFires => IInv'
BY StartSessionCbInv DEF PeriodicFires, IInv, TypeOK

\* An accepted connection request: there is no session, so its event can only
\* be reported by the one that is started now.
LEMMA AcceptCreqInv == IInv /\ AcceptCreq => IInv'
<1> SUFFICES ASSUME IInv, AcceptCreq PROVE IInv'
  OBVIOUS
<1>1. /\ TypeOK /\ RetryWaitBounds
      /\ session = "none" /\ address \in BOOLEAN /\ retryPending \in BOOLEAN
  BY DEF IInv, AcceptCreq, TypeOK
<1>2. PICK rc \in {Ok, Failed} :
        /\ StartSession(address, retryPending, events', rc)
        /\ \/ rc = Ok /\ creqRecent' = TRUE /\ reply' = "200"
           \/ rc = Failed /\ UNCHANGED creqRecent /\ reply' = "501"
  BY DEF AcceptCreq
<1>3. /\ events' \in [Code -> 0..MaxEvents]
      /\ events'["1 BOOT"] = events["1 BOOT"]
  <2>1. "6 CONNECTION REQUEST" \in Code /\ "1 BOOT" \in Code
    BY DEF Code
  <2>2. /\ events["6 CONNECTION REQUEST"] \in 0..MaxEvents
        /\ events["6 CONNECTION REQUEST"] < MaxEvents
    BY <1>1, <2>1 DEF AcceptCreq, TypeOK
  <2>3. events["6 CONNECTION REQUEST"] + 1 \in 0..MaxEvents
    BY <2>2, OneMoreEvent
  <2> QED BY <1>1, <2>1, <2>3 DEF AcceptCreq, TypeOK
<1>4. /\ session' \in SessionState
      /\ inform' \in SUBSET Code
      /\ retryCount' \in 0..MaxRetry
      /\ retryPending' \in BOOLEAN
      /\ retryWait' \in Nat
      /\ aborted' \in BOOLEAN
  BY <1>1, <1>2, <1>3, StartSessionEffect
<1>5. creqRecent' \in BOOLEAN /\ reply' \in Reply
  BY <1>1, <1>2 DEF TypeOK, Reply
<1>6. TypeOK'
  BY <1>1, <1>3, <1>4, <1>5 DEF AcceptCreq, TypeOK
<1>7. /\ StoredWasReported'
      /\ RetryWaitBounds'
      /\ session' = "none" /\ retryCount' > 0 /\ ~aborted' => retryPending'
  BY <1>1, <1>2, <1>3, StartSessionInv
<1>8. OffIsClean'
  BY DEF AcceptCreq, OffIsClean
<1>9. NextSessionScheduled'
  BY <1>7 DEF AcceptCreq, NextSessionScheduled, IInv
<1>10. BootUntilAcked'
  BY <1>3 DEF AcceptCreq, BootUntilAcked, IInv
<1> QED BY <1>6, <1>7, <1>8, <1>9, <1>10 DEF IInv

\* The InformResponse deletes the boot events and remembers that it came.
LEMMA AcknowledgeEffect ==
  ASSUME TypeOK, Acknowledge
  PROVE  /\ events' \in [Code -> 0..MaxEvents]
         /\ \A c \in Code : events'[c] = events[c] \/ events'[c] = 0
         /\ Stored(events') \subseteq Stored(events)
         /\ acked' = TRUE
<1>1. events \in [Code -> 0..MaxEvents] /\ 0 \in 0..MaxEvents
  BY CpeAssumption DEF TypeOK
<1>2. \A c \in Code : events'[c] = events[c] \/ events'[c] = 0
  BY <1>1 DEF Acknowledge
<1>3. Stored(events') \subseteq Stored(events)
  BY <1>2 DEF Stored
<1> QED BY <1>1, <1>2, <1>3 DEF Acknowledge

\* The session goes on, with nothing stored that its Inform did not report.
LEMMA InformResponseInv == IInv /\ InformResponse => IInv'
<1> SUFFICES ASSUME IInv, InformResponse PROVE IInv'
  OBVIOUS
<1>1. /\ events' \in [Code -> 0..MaxEvents]
      /\ Stored(events') \subseteq Stored(events)
      /\ acked' = TRUE
      /\ session = "informing"
  BY AcknowledgeEffect DEF IInv, InformResponse, Acknowledge
<1>2. TypeOK'
  BY <1>1 DEF IInv, TypeOK, InformResponse, SessionState, Reply
<1>3. OffIsClean' /\ NextSessionScheduled' /\ BootUntilAcked'
  BY <1>1 DEF IInv, InformResponse, OffIsClean, NextSessionScheduled,
              BootUntilAcked
<1>4. StoredWasReported'
  BY <1>1 DEF IInv, StoredWasReported, InformResponse
<1>5. RetryWaitBounds'
  BY DEF IInv, RetryWaitBounds, InformResponse
<1> QED BY <1>2, <1>3, <1>4, <1>5 DEF IInv

\* The end of a session: a failure leaves a retry behind, old or new.
LEMMA TerminateInv ==
  ASSUME IInv, NEW rc \in {Ok, Failed}, Terminate(rc)
  PROVE  IInv'
<1>1. TypeOK /\ RetryWaitBounds /\ phase = "running"
  BY DEF IInv, Terminate, OffIsClean, TypeOK
<1>2. /\ retryCount' \in 0..MaxRetry
      /\ retryPending' \in BOOLEAN
      /\ retryWait' \in Nat
      /\ retryPending' => InBounds(retryWait')
      /\ retryCount' > 0 => retryPending'
  <2>1. CASE rc = Failed
    <3>1. PICK r \in {Ok, Failed} :
            RetrySession(retryCount', retryPending, r)
      BY <2>1 DEF Terminate, Ok, Failed
    <3>2. retryCount' \in 1..MaxRetry
      BY <1>1, <2>1, BumpType DEF Terminate, TypeOK, Ok, Failed
    <3>3. /\ retryPending' /\ retryPending' \in BOOLEAN
          /\ retryWait' \in Nat /\ InBounds(retryWait')
      BY <1>1, <3>1, <3>2, RetrySessionSchedules DEF TypeOK
    <3>4. retryCount' \in 0..MaxRetry
      BY <3>2
    <3> QED BY <3>3, <3>4
  <2>2. CASE rc = Ok
    <3>1. retryCount' = 0 /\ UNCHANGED <<retryPending, retryWait>>
      BY <2>2 DEF Terminate, Ok, Failed
    <3> QED BY <1>1, <3>1, CpeAssumption DEF TypeOK, RetryWaitBounds
  <2> QED BY <2>1, <2>2
<1>3. /\ events' \in [Code -> 0..MaxEvents]
      /\ acked' \in BOOLEAN
      /\ acked' = TRUE \/ (events' = events /\ acked' = acked)
  BY <1>1, AcknowledgeEffect DEF Terminate, TypeOK
<1>4. TypeOK'
  BY <1>1, <1>2, <1>3 DEF Terminate, TypeOK, SessionState, Reply
<1>5. OffIsClean' /\ BootUntilAcked' /\ StoredWasReported'
  <2>1. session' = "none" /\ phase' = "running"
    BY <1>1 DEF Terminate
  <2>2. BootUntilAcked'
    <3>1. CASE acked' = TRUE
      BY <3>1 DEF BootUntilAcked
    <3>2. CASE events' = events /\ acked' = acked
      BY <1>1, <3>2 DEF IInv, BootUntilAcked
    <3> QED BY <1>3, <3>1, <3>2
  <2> QED BY <2>1, <2>2 DEF OffIsClean, StoredWasReported
<1>6. NextSessionScheduled' /\ RetryWaitBounds'
  BY <1>2 DEF IInv, Terminate, NextSessionScheduled, RetryWaitBounds
<1> QED BY <1>4, <1>5, <1>6 DEF IInv

\* The steps that leave the scheduler's own variables alone, and the death of
\* the process, which resets them.
LEMMA OtherInv ==
  ASSUME IInv,
         RefuseCreq \/ IntervalElapses \/ DnsResolved \/ UNCHANGED vars
  PROVE  IInv'
<1>1. /\ UNCHANGED <<phase, session, inform, events, retryCount, retryPending,
                     retryWait, periodicPending, acked, aborted>>
      /\ address' \in BOOLEAN /\ creqRecent' \in BOOLEAN /\ reply' \in Reply
  BY DEF IInv, TypeOK, RefuseCreq, IntervalElapses, DnsResolved, vars, Reply
<1>2. TypeOK'
  BY <1>1 DEF IInv, TypeOK
<1>3. OffIsClean' /\ NextSessionScheduled' /\ BootUntilAcked'
  BY <1>1 DEF IInv, OffIsClean, NextSessionScheduled, BootUntilAcked
<1>4. StoredWasReported' /\ RetryWaitBounds'
  BY <1>1 DEF IInv, StoredWasReported, Stored, RetryWaitBounds
<1> QED BY <1>2, <1>3, <1>4 DEF IInv

\* The death of the process brings back the initial state.
LEMMA DieInv == IInv /\ Die => IInv'
<1> SUFFICES ASSUME Die PROVE IInv'
  OBVIOUS
<1>1. Init'
  BY DEF Die, Init
<1>2. (Init => IInv)'
  BY InitInv, PTL
<1> QED BY <1>1, <1>2

\* Every step, one action after the other, preserves the invariant.
THEOREM InvariantInductive == IInv /\ [Next]_vars => IInv'
<1> SUFFICES ASSUME IInv, [Next]_vars PROVE IInv'
  OBVIOUS
<1>1. CASE Start
  BY <1>1, StartInv
<1>2. CASE RetryFires
  BY <1>2, RetryFiresInv
<1>3. CASE PeriodicFires
  BY <1>3, PeriodicFiresInv
<1>4. CASE AcceptCreq
  BY <1>4, AcceptCreqInv
<1>5. CASE InformResponse
  BY <1>5, InformResponseInv
<1>6. CASE Terminate(Ok) \/ Terminate(Failed)
  BY <1>6, TerminateInv
<1>7. CASE RefuseCreq \/ IntervalElapses \/ DnsResolved \/ UNCHANGED vars
  BY <1>7, OtherInv
<1>8. CASE Die
  BY <1>8, DieInv
<1> QED BY <1>1, <1>2, <1>3, <1>4, <1>5, <1>6, <1>7, <1>8 DEF Next

-----------------------------------------------------------------------------

\* The inductive invariant holds in every reachable state.
THEOREM Invariance == Spec => []IInv
<1> QED BY InitInv, InvariantInductive, PTL DEF Spec

\* The state of cpe.c keeps its type.
THEOREM TypeCorrect == Spec => []TypeOK
<1>1. IInv => TypeOK
  BY DEF IInv
<1> QED BY <1>1, Invariance, PTL

\* No failed session goes without a scheduled retry, and the periodic timer
\* is never lost, for every table size, backlog and set of start failures.
THEOREM AlwaysScheduled == Spec => []NextSessionScheduled
<1>1. IInv => NextSessionScheduled
  BY DEF IInv
<1> QED BY <1>1, Invariance, PTL

\* The boot event stays in the repository until an Inform was answered.
THEOREM BootKept == Spec => []BootUntilAcked
<1>1. IInv => BootUntilAcked
  BY DEF IInv
<1> QED BY <1>1, Invariance, PTL

\* While a session is open its Inform reported all that is stored.
THEOREM NothingUnreported == Spec => []StoredWasReported
<1>1. IInv => StoredWasReported
  BY DEF IInv
<1> QED BY <1>1, Invariance, PTL

\* Every scheduled retry has a delay of the table.
THEOREM RetryDelays == Spec => []RetryWaitBounds
<1>1. IInv => RetryWaitBounds
  BY DEF IInv
<1> QED BY <1>1, Invariance, PTL

\* The step that OnlyAckedDeleted speaks of.
DeletesOnlyAcked ==
  \A c \in Code :
    events'[c] < events[c] =>
      \/ session = "informing" /\ session' # "informing" /\ acked' /\ c \in inform
      \/ phase' = "off"

\* A step that lowers the count of no code deletes nothing.
LEMMA KeptEvents ==
  ASSUME TypeOK, \A c \in Code : events'[c] \in Nat /\ events'[c] >= events[c]
  PROVE  DeletesOnlyAcked
BY DEF DeletesOnlyAcked, TypeOK

\* An event leaves the repository only because an Inform that reported it was
\* acknowledged: the deletion needs StoredWasReported, because the response
\* handler deletes by code and not by what the Inform carried.
THEOREM DeletedWereAcked == Spec => OnlyAckedDeleted
<1>1. ASSUME IInv, [Next]_vars PROVE DeletesOnlyAcked
  <2>1. TypeOK /\ \A c \in Code : events[c] \in 0..MaxEvents
    BY <1>1 DEF IInv, TypeOK
  <2>2. \A c \in Code : events[c] \in Nat
    BY <2>1
  <2>3. CASE Start
    <3>1. \A c \in Code : events[c] = 0
      BY <1>1, <2>3 DEF IInv, OffIsClean, Start
    <3>2. \A c \in Code : events'[c] \in 0..MaxEvents
      BY <1>1, <2>3, StartInv DEF IInv, TypeOK
    <3>3. \A c \in Code : events'[c] \in Nat /\ events'[c] >= events[c]
      BY <3>1, <3>2
    <3> QED BY <2>1, <3>3, KeptEvents
  <2>4. CASE AcceptCreq
    <3>1. \A c \in Code : \/ events'[c] = events[c]
                         \/ events'[c] = events[c] + 1
      BY <2>1, <2>4 DEF AcceptCreq, TypeOK
    <3>2. \A c \in Code : events'[c] \in Nat /\ events'[c] >= events[c]
      BY <2>2, <3>1
    <3> QED BY <2>1, <3>2, KeptEvents
  <2>5. CASE Acknowledge /\ session' # "informing"
    <3>1. session = "informing" /\ session' # "informing"
      BY <2>5 DEF Acknowledge
    <3>2. Stored(events) \subseteq inform
      BY <1>1, <3>1 DEF IInv, StoredWasReported
    <3>3. /\ \A c \in Code : events'[c] = events[c] \/ events'[c] = 0
          /\ acked'
      BY <2>1, <2>5, AcknowledgeEffect
    <3>4. \A c \in Code : events'[c] < events[c] => c \in inform
      BY <2>2, <3>2, <3>3 DEF Stored
    <3> QED BY <3>1, <3>3, <3>4 DEF DeletesOnlyAcked
  <2>6. CASE Die
    BY <2>6 DEF Die, DeletesOnlyAcked
  <2>7. CASE UNCHANGED events
    BY <2>1, <2>2, <2>7, KeptEvents
  <2> QED
    BY <1>1, <2>3, <2>4, <2>5, <2>6, <2>7
    DEF Next, vars, RetryFires, PeriodicFires, StartSessionCb, RefuseCreq,
        IntervalElapses, DnsResolved, InformResponse, Terminate
<1>2. ASSUME IInv, [Next]_vars PROVE [DeletesOnlyAcked]_vars
  BY <1>1, <1>2
<1> QED
  BY <1>2, Invariance, PTL DEF Spec, OnlyAckedDeleted, DeletesOnlyAcked

\* The action of CreqHonoured.
HonouredIf200 ==
  reply' = "200" =>
    \/ session' = "informing" /\ "6 CONNECTION REQUEST" \in inform'
    \/ retryPending' /\ events'["6 CONNECTION REQUEST"] > 0

\* A connection request that is answered 200 is on its way: the Inform being
\* sent reports it, or it is stored and a retry is pending.
THEOREM RequestsHonoured == Spec => CreqHonoured
<1>1. ASSUME IInv, [Next]_vars, ~UNCHANGED vars PROVE HonouredIf200
  <2>1. CASE AcceptCreq
    <3>1. SUFFICES ASSUME reply' = "200" PROVE HonouredIf200
      BY DEF HonouredIf200
    <3>2. StartSession(address, retryPending, events', Ok)
      BY <2>1, <3>1 DEF AcceptCreq
    <3>3. "6 CONNECTION REQUEST" \in Code
      BY DEF Code
    <3>4. events["6 CONNECTION REQUEST"] \in 0..MaxEvents
      BY <1>1, <3>3 DEF IInv, TypeOK
    <3>5. events'["6 CONNECTION REQUEST"] = events["6 CONNECTION REQUEST"] + 1
      BY <1>1, <2>1, <3>3 DEF AcceptCreq, IInv, TypeOK
    <3>6. events'["6 CONNECTION REQUEST"] > 0
      BY <2>1, <3>4, <3>5, OneMoreEvent DEF AcceptCreq
    <3>7. \/ retryPending' = TRUE
          \/ session' = "informing" /\ inform' = Stored(events')
      BY <3>2 DEF StartSession, RetrySession, Ok, Failed
    <3> QED BY <3>3, <3>6, <3>7 DEF HonouredIf200, Stored
  <2>2. CASE ~AcceptCreq
    <3>1. reply' # "200"
      BY <1>1, <2>2
      DEF Next, vars, Start, RetryFires, PeriodicFires, StartSessionCb,
          RefuseCreq, IntervalElapses, DnsResolved, InformResponse,
          Terminate, Die
    <3> QED BY <3>1 DEF HonouredIf200
  <2> QED BY <2>1, <2>2
<1>2. ASSUME IInv, [Next]_vars PROVE [HonouredIf200]_vars
  BY <1>1, <1>2
<1> QED
  BY <1>2, Invariance, PTL DEF Spec, CreqHonoured, HonouredIf200

=============================================================================
