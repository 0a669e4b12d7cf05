-------------------------------- MODULE Cpe --------------------------------
(***************************************************************************)
(* The scheduler of the CPE agent (cpe.c): when a CWMP session is started, *)
(* retried, refused, and which stored events its Inform reports.           *)
(*                                                                         *)
(* The agent is one libevent loop, so every callback is one atomic action. *)
(* What happens inside a session (module Session) is seen from here only   *)
(* as "the ACS acknowledged the Inform" and "the session was closed with   *)
(* code rc".  Time is abstract: a pending timer may fire at any moment,    *)
(* and retryWait keeps the base of the delay it was armed with.            *)
(***************************************************************************)
EXTENDS Integers

CONSTANTS
  Periodic,     \* PeriodicInformEnable of the data model
  MaxRetry,     \* bound: counts from MaxRetry on are one class
  MaxEvents,    \* bound: stored events of one code
  StartFaults   \* how evcpe_start_session may fail: "prepare", "send"

ASSUME CpeAssumption ==
  /\ Periodic \in BOOLEAN
  /\ MaxRetry \in Nat \ {0}
  /\ MaxEvents \in Nat \ {0}
  /\ StartFaults \subseteq {"prepare", "send"}

VARIABLES
  phase,            \* "off" before evcpe_start and after the process died
  address,          \* the DNS cache knows the address of the ACS or proxy
  session,          \* what cpe->session points to
  inform,           \* the event codes in the Inform of that session
  events,           \* the Event objects of the repository, counted by code
  retryCount,       \* cpe->retry_count
  retryPending,     \* evtimer_pending(&cpe->retry_ev)
  retryWait,        \* the base of the delay in cpe->retry_tv
  periodicPending,  \* evtimer_pending(&cpe->periodic_ev)
  creqRecent,       \* the last accepted request is within creq_interval
  reply,            \* the HTTP status this step answered a request with
  acked,            \* history: an InformResponse came since evcpe_start
  aborted           \* history: the last start left by the exception path

retryVars == <<retryCount, retryPending, retryWait>>
sessionVars == <<session, inform>>
vars == <<phase, address, session, inform, events, retryCount, retryPending,
          retryWait, periodicPending, creqRecent, reply, acked, aborted>>

Code == {"0 BOOTSTRAP", "1 BOOT", "6 CONNECTION REQUEST"}

\* "informing": the Inform awaits its response; "informed": it was answered;
\* "stuck": the session object exists but its first request was never sent.
SessionState == {"none", "informing", "informed", "stuck"}

Reply == {"none", "200", "404", "501", "503"}

Ok == 0
Failed == 1

\* The codes the repository holds, which is what evcpe_repo_to_inform puts
\* into the Inform: the event list drops second copies of a code.
Stored(evs) == {c \in Code : evs[c] > 0}

\* Faulty form of Bump: the count runs down.
BumpDown(n) == n - 1

Bump(n) == IF n < MaxRetry THEN n + 1 ELSE n

\* Faulty form of Base: the table goes on doubling past its last row.
BaseUncapped(n) == IF n = 0 THEN 0 ELSE 5 * 2 ^ (n - 1)

\* The switch over retry_count: the delay is base + rand() % base seconds.
Base(n) ==
  CASE n = 0 -> 0
    [] n = 1 -> 5
    [] n = 2 -> 10
    [] n = 3 -> 20
    [] n = 4 -> 40
    [] n = 5 -> 80
    [] n = 6 -> 160
    [] n = 7 -> 320
    [] n = 8 -> 640
    [] n = 9 -> 1280
    [] OTHER -> 2560

-----------------------------------------------------------------------------

Init ==
  /\ phase = "off"
  /\ address = FALSE
  /\ session = "none"
  /\ inform = {}
  /\ events = [c \in Code |-> 0]
  /\ retryCount = 0
  /\ retryPending = FALSE
  /\ retryWait = 0
  /\ periodicPending = FALSE
  /\ creqRecent = FALSE
  /\ reply = "none"
  /\ acked = FALSE
  /\ aborted = FALSE

\* Faulty form of RetrySession: the timer is computed but never added.
RetrySessionUnarmed(count, pending, rc) ==
  /\ rc = Ok
  /\ retryPending' = pending
  /\ retryWait' = Base(count)

\* evcpe_retry_session: refuses when a retry is already scheduled.
RetrySession(count, pending, rc) ==
  \/ /\ pending
     /\ rc = Failed
     /\ retryPending' = pending
     /\ UNCHANGED retryWait
  \/ /\ ~pending
     /\ rc = Ok
     /\ retryPending' = TRUE
     /\ retryWait' = Base(count)

\* Faulty form of StartSession: an unknown address is left to the next timer.
StartSessionUnscheduled(known, pending, evs, rc) ==
  \/ /\ ~known
     /\ rc = Ok
     /\ retryCount' = Bump(retryCount)
     /\ retryPending' = pending
     /\ aborted' = FALSE
     /\ UNCHANGED <<sessionVars, retryWait>>
  \/ /\ known
     /\ rc = Ok
     /\ session' = "informing"
     /\ inform' = Stored(evs)
     /\ aborted' = FALSE
     /\ retryPending' = pending
     /\ UNCHANGED <<retryCount, retryWait>>

\* evcpe_start_session, reached only while there is no session.  known,
\* pending and evs are the values of address, retryPending and events at the
\* call, which its callers may have just changed.
StartSession(known, pending, evs, rc) ==
  \/ /\ ~known
     /\ retryCount' = Bump(retryCount)
     /\ RetrySession(retryCount', pending, rc)
     /\ aborted' = FALSE
     /\ UNCHANGED sessionVars
  \/ /\ known
     /\ "prepare" \in StartFaults
     /\ rc = Failed
     /\ aborted' = TRUE
     /\ retryPending' = pending
     /\ UNCHANGED <<sessionVars, retryCount, retryWait>>
  \/ /\ known
     /\ \/ "send" \in StartFaults /\ rc = Failed /\ session' = "stuck"
        \/ rc = Ok /\ session' = "informing"
     /\ inform' = Stored(evs)
     /\ aborted' = FALSE
     /\ retryPending' = pending
     /\ UNCHANGED <<retryCount, retryWait>>

-----------------------------------------------------------------------------

\* main up to event_dispatch: the repository is loaded from the data file,
\* which may hold events of earlier lives, evcpe_set resolves the host (a
\* literal address needs no query) and evcpe_start adds the boot event.  When
\* evcpe_start fails main returns, which leaves the agent off.
Start ==
  /\ phase = "off"
  /\ \E stored \in [Code -> 0..MaxEvents], literal \in BOOLEAN :
       /\ stored["1 BOOT"] < MaxEvents
       /\ events' = [stored EXCEPT !["1 BOOT"] = @ + 1]
       /\ address' = literal
       /\ StartSession(literal, retryPending, events', Ok)
  /\ phase' = "running"
  /\ periodicPending' = Periodic
  /\ reply' = "none"
  /\ UNCHANGED <<creqRecent, acked>>

\* Faulty form of StartSessionCb: the periodic timer is re-armed only when the
\* callback could start a session.
StartSessionCbRearmsLess(pending) ==
  /\ \/ /\ session = "none"
        /\ \E rc \in {Ok, Failed} : StartSession(address, pending, events, rc)
        /\ periodicPending' = Periodic
     \/ /\ session # "none"
        /\ retryPending' = pending
        /\ periodicPending' = FALSE
        /\ UNCHANGED <<sessionVars, retryCount, retryWait, aborted>>
  /\ reply' = "none"
  /\ UNCHANGED <<phase, address, events, creqRecent, acked>>

\* evcpe_start_session_cb, the callback of both timers.  A retry that fires
\* while a session is open is spent; the periodic timer is always re-armed.
StartSessionCb(pending) ==
  /\ \/ /\ session = "none"
        /\ \E rc \in {Ok, Failed} : StartSession(address, pending, events, rc)
     \/ /\ session # "none"
        /\ retryPending' = pending
        /\ UNCHANGED <<sessionVars, retryCount, retryWait, aborted>>
  /\ periodicPending' = Periodic
  /\ reply' = "none"
  /\ UNCHANGED <<phase, address, events, creqRecent, acked>>

RetryFires == phase = "running" /\ retryPending /\ StartSessionCb(FALSE)

PeriodicFires ==
  phase = "running" /\ periodicPending /\ StartSessionCb(retryPending)

\* evcpe_creq_cb, the branches that refuse a request and change nothing:
\* a wrong method or path, a second request within the interval, a session,
\* an event the repository does not take.
RefuseCreq ==
  /\ phase = "running"
  /\ \/ reply' = "404"
     \/ reply' = "503" /\ (creqRecent \/ session # "none")
     \/ reply' = "501" /\ ~creqRecent /\ session = "none"
  /\ UNCHANGED <<phase, address, session, inform, events, retryCount,
                 retryPending, retryWait, periodicPending, creqRecent, acked,
                 aborted>>

\* Faulty form of AcceptCreq: the event is stored before the session is looked at.
AcceptCreqStoresFirst ==
  /\ phase = "running"
  /\ ~creqRecent
  /\ events["6 CONNECTION REQUEST"] < MaxEvents
  /\ events' = [events EXCEPT !["6 CONNECTION REQUEST"] = @ + 1]
  /\ session # "none"
  /\ reply' = "503"
  /\ UNCHANGED <<phase, address, session, inform, retryCount, retryPending,
                 retryWait, periodicPending, creqRecent, acked, aborted>>

\* evcpe_creq_cb, the branch that stores the event and starts a session.
AcceptCreq ==
  /\ phase = "running"
  /\ ~creqRecent
  /\ session = "none"
  /\ events["6 CONNECTION REQUEST"] < MaxEvents
  /\ events' = [events EXCEPT !["6 CONNECTION REQUEST"] = @ + 1]
  /\ \E rc \in {Ok, Failed} :
       /\ StartSession(address, retryPending, events', rc)
       /\ \/ rc = Ok /\ creqRecent' = TRUE /\ reply' = "200"
          \/ rc = Failed /\ UNCHANGED creqRecent /\ reply' = "501"
  /\ UNCHANGED <<phase, address, periodicPending, acked>>

IntervalElapses ==
  /\ creqRecent
  /\ creqRecent' = FALSE
  /\ reply' = "none"
  /\ UNCHANGED <<phase, address, session, inform, events, retryCount,
                 retryPending, retryWait, periodicPending, acked, aborted>>

\* evcpe_dns_cb with an answer.  An entry once resolved stays resolved: a
\* later failure leaves the old address in the cache.
DnsResolved ==
  /\ phase = "running"
  /\ ~address
  /\ address' = TRUE
  /\ reply' = "none"
  /\ UNCHANGED <<phase, session, inform, events, retryCount, retryPending,
                 retryWait, periodicPending, creqRecent, acked, aborted>>

\* evcpe_handle_inform_response with MaxEnvelopes 1.
Acknowledge ==
  /\ session = "informing"
  /\ events' = [events EXCEPT !["0 BOOTSTRAP"] = 0, !["1 BOOT"] = 0]
  /\ acked' = TRUE

\* The InformResponse, after which the session goes on.
InformResponse ==
  /\ Acknowledge
  /\ session' = "informed"
  /\ reply' = "none"
  /\ UNCHANGED <<phase, address, inform, retryCount, retryPending, retryWait,
                 periodicPending, creqRecent, aborted>>

\* Faulty form of Terminate: the events go with the session that reported them.
TerminateDropsEvents(rc) ==
  /\ session \in {"informing", "informed"}
  /\ session' = "none"
  /\ inform' = {}
  /\ events' = [c \in Code |-> 0]
  /\ \/ /\ rc = Failed
        /\ retryCount' = Bump(retryCount)
        /\ \E r \in {Ok, Failed} : RetrySession(retryCount', retryPending, r)
     \/ /\ rc = Ok
        /\ retryCount' = 0
        /\ UNCHANGED <<retryPending, retryWait>>
  /\ reply' = "none"
  /\ UNCHANGED <<phase, address, periodicPending, creqRecent, acked, aborted>>

\* evcpe_session_terminate_cb.  Session decides which code it is given; the
\* code of a clean end is uninitialised, so both codes are possible with the
\* Inform answered and without.  A session may also fail right after the
\* InformResponse, in the same callback, when its next POST cannot be made.
Terminate(rc) ==
  /\ session \in {"informing", "informed"}
  /\ session' = "none"
  /\ inform' = {}
  /\ UNCHANGED <<events, acked>> \/ (rc = Failed /\ Acknowledge)
  /\ \/ /\ rc = Failed
        /\ retryCount' = Bump(retryCount)
        /\ \E r \in {Ok, Failed} : RetrySession(retryCount', retryPending, r)
     \/ /\ rc = Ok
        /\ retryCount' = 0
        /\ UNCHANGED <<retryPending, retryWait>>
  /\ reply' = "none"
  /\ UNCHANGED <<phase, address, periodicPending, creqRecent, aborted>>

\* SIGINT (shutdown_cpe) or a crash: everything but the data file is lost.
Die ==
  /\ phase = "running"
  /\ phase' = "off"
  /\ address' = FALSE
  /\ session' = "none"
  /\ inform' = {}
  /\ events' = [c \in Code |-> 0]
  /\ retryCount' = 0
  /\ retryPending' = FALSE
  /\ retryWait' = 0
  /\ periodicPending' = FALSE
  /\ creqRecent' = FALSE
  /\ reply' = "none"
  /\ acked' = FALSE
  /\ aborted' = FALSE

Next ==
  \/ Start
  \/ RetryFires
  \/ PeriodicFires
  \/ RefuseCreq
  \/ AcceptCreq
  \/ IntervalElapses
  \/ DnsResolved
  \/ InformResponse
  \/ Terminate(Ok)
  \/ Terminate(Failed)
  \/ Die

Spec == Init /\ [][Next]_vars

\* libevent fires a pending retry; the HTTP timeout closes a session that gets
\* no answer; the resolver answers some day (a failed query is repeated at
\* once); an ACS that is asked over and over acknowledges some Inform.
Fairness ==
  /\ WF_vars(RetryFires)
  /\ WF_vars(DnsResolved)
  /\ WF_vars(Terminate(Ok) \/ Terminate(Failed))
  /\ SF_vars(InformResponse)

FairSpec == Spec /\ Fairness

-----------------------------------------------------------------------------
(***************************************************************************)
(* What the scheduler promises.                                            *)
(***************************************************************************)

TypeOK ==
  /\ phase \in {"off", "running"}
  /\ address \in BOOLEAN
  /\ session \in SessionState
  /\ inform \in SUBSET Code
  /\ events \in [Code -> 0..MaxEvents]
  /\ retryCount \in 0..MaxRetry
  /\ retryPending \in BOOLEAN
  /\ retryWait \in Nat
  /\ periodicPending \in BOOLEAN
  /\ creqRecent \in BOOLEAN
  /\ reply \in Reply
  /\ acked \in BOOLEAN
  /\ aborted \in BOOLEAN

\* While no session exists and the last one failed or could not be started
\* for want of an address, a retry is scheduled; and with periodic informs
\* enabled the periodic timer is never lost.  The exception path of
\* evcpe_start_session is the one exit that schedules nothing.
NextSessionScheduled ==
  phase = "running" =>
    /\ session = "none" /\ retryCount > 0 /\ ~aborted => retryPending
    /\ Periodic => periodicPending

\* From evcpe_start until the first InformResponse the boot event stays in
\* the repository, whatever sessions fail in between.
BootUntilAcked ==
  phase = "running" /\ ~acked => events["1 BOOT"] > 0

\* Every event in the repository while a session is open is one its Inform
\* reported, so acknowledging the Inform can lose no unreported event: a
\* connection request is refused before its event is stored.
StoredWasReported ==
  session # "none" => Stored(events) \subseteq inform

InBounds(secs) == 5 <= secs /\ secs <= 2560

\* A scheduled retry never fires at once and never waits on a base of more
\* than 2560 seconds: the count is raised before the delay is computed.
RetryWaitBounds == retryPending => InBounds(retryWait)

\* Events leave the repository only when the ACS acknowledges an Inform that
\* reported them (or with the process).
OnlyAckedDeleted ==
  [][ \A c \in Code :
        events'[c] < events[c] =>
          \/ session = "informing" /\ session' # "informing" /\ acked' /\ c \in inform
          \/ phase' = "off" ]_vars

\* A connection request answered 200 is followed by a session that reports
\* it: one is open with the event in its Inform, or a retry is scheduled and
\* the event waits in the repository.
CreqHonoured ==
  [][ reply' = "200" =>
        \/ session' = "informing" /\ "6 CONNECTION REQUEST" \in inform'
        \/ retryPending' /\ events'["6 CONNECTION REQUEST"] > 0 ]_vars

\* If the periodic timer fires too, the boot event is acknowledged some day,
\* although a session may end "well" without an InformResponse and is then
\* not retried; but a session whose first POST failed is there for ever.
BootDelivered ==
  WF_vars(PeriodicFires) =>
    (phase = "running" /\ events["1 BOOT"] > 0
       ~> events["1 BOOT"] = 0 \/ session = "stuck" \/ aborted \/ phase = "off")

=============================================================================
