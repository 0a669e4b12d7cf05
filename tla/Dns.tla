-------------------------------- MODULE Dns ---------------------------------
(***************************************************************************)
(* Host names and their addresses (dns_cache.c, cpe.c).  evcpe_set makes   *)
(* one entry for the host of the ACS and one for the host of the proxy, if *)
(* there is one; each is resolved, and resolved again when its TTL ends.   *)
(*                                                                         *)
(* The resolver is libevent's: it refuses a query at once, or answers it   *)
(* later.  A query is for an IPv4 address, so the branches of evcpe_dns_cb *)
(* for other answers are never taken.  An address is represented by the    *)
(* host it was resolved for, a delay by "now" (zero) or "ttl" (more).      *)
(***************************************************************************)
EXTENDS Integers

CONSTANTS
  Host,      \* host names and literal addresses
  Literal,   \* the ones inet_aton can read
  NoHost,    \* no proxy; no address
  Proxy      \* what may be configured as host of the proxy

ASSUME DnsAssumption ==
  /\ Literal \subseteq Host
  /\ NoHost \notin Host
  /\ Proxy \subseteq Host \cup {NoHost}

VARIABLES
  phase,     \* "off" or "running"
  name,      \* entry->name, by the URL the entry was made for
  address,   \* entry->address
  queries,   \* queries the resolver has not answered
  timer,     \* entry->ev: "idle", or pending with delay "now" or "ttl"
  lost       \* history: the resolver refused to refresh the entry

entryVars == <<name, address, queries, timer, lost>>
vars == <<phase, entryVars>>

Url == {"acs", "proxy"}

\* The host evcpe_start_session connects to.
SessionHost(names) ==
  IF names["proxy"] # NoHost THEN names["proxy"] ELSE names["acs"]

\* evcpe_dns_cache_find: of two entries with one name RB_INSERT keeps the
\* first in the tree; the second stays outside, though it is resolved too.
Find(names, h) == IF names["acs"] = h THEN "acs" ELSE "proxy"

\* evcpe_dns_cache_get for the host of the session.
Lookup ==
  IF phase = "running" THEN address[Find(name, SessionHost(name))] ELSE NoHost

\* Entries that have to be resolved.
Resolving == {u \in Url : name[u] \notin Literal \cup {NoHost}}

-----------------------------------------------------------------------------

Init ==
  /\ phase = "off"
  /\ name = [u \in Url |-> NoHost]
  /\ address = [u \in Url |-> NoHost]
  /\ queries = [u \in Url |-> 0]
  /\ timer = [u \in Url |-> "idle"]
  /\ lost = [u \in Url |-> FALSE]

\* evcpe_set: a literal is its own address, any other host is asked for.  If
\* the resolver refuses, evcpe_set fails and the agent does not start.
Start ==
  /\ phase = "off"
  /\ phase' = "running"
  /\ \E acs \in Host, proxy \in Proxy :
       name' = [u \in Url |-> IF u = "acs" THEN acs ELSE proxy]
  /\ address' = [u \in Url |->
                   IF name'[u] \in Literal THEN name'[u] ELSE NoHost]
  /\ queries' = [u \in Url |->
                   IF name'[u] \in Literal \cup {NoHost} THEN 0 ELSE 1]
  /\ UNCHANGED <<timer, lost>>

\* Faulty form of TimerFires: the event stays pending.
TimerFiresPersistent(u) ==
  /\ timer[u] # "idle"
  /\ queries' = [queries EXCEPT ![u] = @ + 1]
  /\ UNCHANGED <<phase, name, address, timer, lost>>

\* evcpe_dns_timer_cb: when the resolver refuses, nothing arms the timer again.
TimerFires(u) ==
  /\ timer[u] # "idle"
  /\ timer' = [timer EXCEPT ![u] = "idle"]
  /\ \/ queries' = [queries EXCEPT ![u] = @ + 1] /\ UNCHANGED lost
     \/ lost' = [lost EXCEPT ![u] = TRUE] /\ UNCHANGED queries
  /\ UNCHANGED <<phase, name, address>>

\* Faulty form of Answered: only an entry without address is given one and
\* refreshed.
AnsweredOnce(u) ==
  /\ queries[u] > 0
  /\ queries' = [queries EXCEPT ![u] = @ - 1]
  /\ IF address[u] = NoHost
       THEN /\ address' = [address EXCEPT ![u] = name[u]]
            /\ timer' = [timer EXCEPT ![u] = "ttl"]
       ELSE UNCHANGED <<address, timer>>
  /\ UNCHANGED <<phase, name, lost>>

\* evcpe_dns_cb with an address.  A TTL of zero is taken as it is.
Answered(u) ==
  /\ queries[u] > 0
  /\ queries' = [queries EXCEPT ![u] = @ - 1]
  /\ address' = [address EXCEPT ![u] = name[u]]
  /\ \E delay \in {"now", "ttl"} : timer' = [timer EXCEPT ![u] = delay]
  /\ UNCHANGED <<phase, name, lost>>

\* Faulty form of Failed: the address goes with the answer that confirmed it.
FailedForgets(u) ==
  /\ queries[u] > 0
  /\ queries' = [queries EXCEPT ![u] = @ - 1]
  /\ address' = [address EXCEPT ![u] = NoHost]
  /\ timer' = [timer EXCEPT ![u] = "now"]
  /\ UNCHANGED <<phase, name, lost>>

\* Faulty form of Failed: the branch returns before it schedules.
FailedGivesUp(u) ==
  /\ queries[u] > 0
  /\ queries' = [queries EXCEPT ![u] = @ - 1]
  /\ UNCHANGED <<phase, name, address, timer, lost>>

\* evcpe_dns_cb with an error, no address, or a TTL that is negative as an
\* int: asked again without delay.
Failed(u) ==
  /\ queries[u] > 0
  /\ queries' = [queries EXCEPT ![u] = @ - 1]
  /\ timer' = [timer EXCEPT ![u] = "now"]
  /\ UNCHANGED <<phase, name, address, lost>>

\* The process ends; the cache and the queries go with it.
Die ==
  /\ phase = "running"
  /\ phase' = "off"
  /\ name' = [u \in Url |-> NoHost]
  /\ address' = [u \in Url |-> NoHost]
  /\ queries' = [u \in Url |-> 0]
  /\ timer' = [u \in Url |-> "idle"]
  /\ lost' = [u \in Url |-> FALSE]

Next ==
  \/ Start
  \/ \E u \in Url : TimerFires(u) \/ Answered(u) \/ Failed(u)
  \/ Die

Spec == Init /\ [][Next]_vars

\* libevent fires timers and ends every query, and a name that is asked for
\* again and again is resolved.
Fairness ==
  \A u \in Url :
    /\ WF_vars(TimerFires(u))
    /\ WF_vars(Answered(u) \/ Failed(u))
    /\ SF_vars(Answered(u))

FairSpec == Spec /\ Fairness

-----------------------------------------------------------------------------
(***************************************************************************)
(* What resolution promises.                                               *)
(***************************************************************************)

TypeOK ==
  /\ phase \in {"off", "running"}
  /\ name \in [Url -> Host \cup {NoHost}]
  /\ address \in [Url -> Host \cup {NoHost}]
  /\ queries \in [Url -> 0..1]
  /\ timer \in [Url -> {"idle", "now", "ttl"}]
  /\ lost \in [Url -> BOOLEAN]

\* An entry is asked for or waits for its timer, never both: rounds do not
\* multiply.  Neither is the case only if the resolver refused it.
OneRound ==
  \A u \in Resolving :
    IF queries[u] = 0 /\ timer[u] = "idle"
      THEN lost[u]
      ELSE queries[u] = 0 <=> timer[u] # "idle"

\* While an entry has no address its next query is under way or due at once:
\* only an answer makes it wait for a TTL.
UnresolvedIsAsked ==
  \A u \in Resolving : address[u] = NoHost => timer[u] # "ttl"

\* Once the host of the session has an address a later lookup finds one too,
\* and it is that of the configured host, whatever answers come or fail.
AddressKept ==
  [][ Lookup # NoHost /\ phase' = "running" =>
        Lookup' = SessionHost(name) ]_vars

\* The host of the session is resolved some day unless the resolver refuses,
\* also when ACS and proxy have one name and so one of two entries is used.
SessionHostFound ==
  phase = "running"
    ~> Lookup # NoHost \/ lost[Find(name, SessionHost(name))] \/ phase = "off"

=============================================================================
