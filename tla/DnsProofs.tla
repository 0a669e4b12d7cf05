----------------------------- MODULE DnsProofs ------------------------------
(***************************************************************************)
(* The promises of name resolution for any set of hosts.                   *)
(*                                                                         *)
(* OneRound bounds the queries that TypeOK counts, so the two are          *)
(* inductive only together; AddressKept needs to know that an entry holds  *)
(* no address but that of its own name.                                    *)
(***************************************************************************)
EXTENDS Dns, TLAPS

\* An entry that need not be resolved has neither query nor timer.
Unasked == \A u \in Url \ Resolving : queries[u] = 0 /\ timer[u] = "idle"

\* An address is that of the entry's name.
OwnAddress == \A u \in Url : address[u] \in {NoHost, name[u]}

\* A process that is not running left nothing behind.
OffIsClean ==
  phase = "off" =>
    \A u \in Url : name[u] = NoHost /\ timer[u] = "idle" /\ ~lost[u]

IInv ==
  /\ TypeOK
  /\ OneRound
  /\ UnresolvedIsAsked
  /\ Unasked
  /\ OwnAddress
  /\ OffIsClean

-----------------------------------------------------------------------------

\* Without entries there is nothing to resolve.
LEMMA InitInv == Init => IInv
BY DEF Init, IInv, TypeOK, OneRound, UnresolvedIsAsked, Unasked, OwnAddress,
       OffIsClean, Resolving, Url

\* evcpe_set asks for each host that is not a literal address.
LEMMA StartInv == IInv /\ Start => IInv'
<1> SUFFICES ASSUME IInv, Start PROVE IInv'
  OBVIOUS
<1>1. name' \in [Url -> Host \cup {NoHost}]
  BY DnsAssumption DEF Start
<1>2. \A u \in Url :
        /\ address'[u] = IF name'[u] \in Literal THEN name'[u] ELSE NoHost
        /\ queries'[u] = IF name'[u] \in Literal \cup {NoHost} THEN 0 ELSE 1
        /\ timer'[u] = "idle"
        /\ lost'[u] = FALSE
  BY DEF Start, IInv, OffIsClean, TypeOK
<1>3. TypeOK'
  BY <1>1, <1>2, DnsAssumption DEF TypeOK, IInv, Start
<1> QED
  BY <1>2, <1>3 DEF Start, IInv, OneRound, UnresolvedIsAsked, Unasked,
                    OwnAddress, OffIsClean, Resolving

\* Only an entry that has to be resolved has a timer; its query follows.
LEMMA TimerFiresInv == ASSUME NEW u \in Url PROVE IInv /\ TimerFires(u) => IInv'
<1> SUFFICES ASSUME IInv, TimerFires(u) PROVE IInv'
  OBVIOUS
<1>1. u \in Resolving /\ queries[u] = 0 /\ phase = "running"
  BY DEF IInv, TimerFires, Unasked, OneRound, OffIsClean, TypeOK
<1>2. /\ timer' = [timer EXCEPT ![u] = "idle"]
      /\ UNCHANGED <<phase, name, address>>
  BY DEF TimerFires
<1>3. Resolving' = Resolving
  BY <1>2 DEF Resolving
<1>4. CASE queries' = [queries EXCEPT ![u] = 1] /\ UNCHANGED lost
  <2>1. TypeOK'
    BY <1>2, <1>4 DEF IInv, TypeOK
  <2>2. OneRound' /\ UnresolvedIsAsked' /\ Unasked'
    BY <1>1, <1>2, <1>3, <1>4
    DEF IInv, TypeOK, OneRound, UnresolvedIsAsked, Unasked, Resolving
  <2> QED
    BY <1>1, <1>2, <1>4, <2>1, <2>2 DEF IInv, OwnAddress, OffIsClean
<1>5. CASE lost' = [lost EXCEPT ![u] = TRUE] /\ UNCHANGED queries
  <2>1. TypeOK'
    BY <1>2, <1>5 DEF IInv, TypeOK
  <2>2. OneRound' /\ UnresolvedIsAsked' /\ Unasked'
    BY <1>1, <1>2, <1>3, <1>5
    DEF IInv, TypeOK, OneRound, UnresolvedIsAsked, Unasked, Resolving
  <2> QED
    BY <1>1, <1>2, <1>5, <2>1, <2>2 DEF IInv, OwnAddress, OffIsClean
<1> QED
  BY <1>1, <1>4, <1>5 DEF TimerFires

\* Only an entry that has to be resolved is asked for, and with its query
\* ended no timer of it is pending.
LEMMA AskedEntry ==
  ASSUME IInv, NEW u \in Url, queries[u] > 0
  PROVE  u \in Resolving /\ queries[u] = 1 /\ phase = "running"
<1>1. u \in Resolving
  BY DEF IInv, Unasked
<1>2. queries[u] = 1
  BY DEF IInv, TypeOK
<1>3. phase # "off"
  BY <1>1 DEF IInv, OffIsClean, Resolving
<1> QED
  BY <1>1, <1>2, <1>3 DEF IInv, TypeOK

\* An answer gives the address of the name and arms the timer.
LEMMA AnsweredInv == ASSUME NEW u \in Url PROVE IInv /\ Answered(u) => IInv'
<1> SUFFICES ASSUME IInv, Answered(u) PROVE IInv'
  OBVIOUS
<1>1. u \in Resolving /\ queries[u] = 1 /\ phase = "running"
  BY AskedEntry DEF Answered
<1>2. Resolving' = Resolving
  BY DEF Answered, Resolving
<1>3. TypeOK'
  BY <1>1 DEF IInv, TypeOK, Answered
<1>4. OneRound'
  BY <1>1, <1>2 DEF IInv, TypeOK, OneRound, Answered
<1>5. name[u] # NoHost
  BY <1>1 DEF Resolving
<1>6. UnresolvedIsAsked' /\ Unasked'
  BY <1>1, <1>2, <1>5 DEF IInv, TypeOK, UnresolvedIsAsked, Unasked, Answered,
                          Resolving
<1> QED
  BY <1>1, <1>3, <1>4, <1>6 DEF IInv, TypeOK, OwnAddress, OffIsClean, Answered

\* A failed answer arms the timer without delay and leaves the address.
LEMMA FailedInv == ASSUME NEW u \in Url PROVE IInv /\ Failed(u) => IInv'
<1> SUFFICES ASSUME IInv, Failed(u) PROVE IInv'
  OBVIOUS
<1>1. u \in Resolving /\ queries[u] = 1 /\ phase = "running"
  BY AskedEntry DEF Failed
<1>2. Resolving' = Resolving
  BY DEF Failed, Resolving
<1>3. TypeOK'
  BY <1>1 DEF IInv, TypeOK, Failed
<1>4. OneRound'
  BY <1>1, <1>2 DEF IInv, TypeOK, OneRound, Failed
<1>5. UnresolvedIsAsked' /\ Unasked'
  BY <1>1, <1>2 DEF IInv, TypeOK, UnresolvedIsAsked, Unasked, Failed
<1> QED
  BY <1>1, <1>3, <1>4, <1>5 DEF IInv, OwnAddress, OffIsClean, Failed

\* Every step preserves the invariant.
LEMMA StepInv == IInv /\ [Next]_vars => IInv'
<1> SUFFICES ASSUME IInv, [Next]_vars PROVE IInv'
  OBVIOUS
<1>1. CASE Start
  BY <1>1, StartInv
<1>2. ASSUME NEW u \in Url, TimerFires(u) \/ Answered(u) \/ Failed(u)
      PROVE  IInv'
  BY <1>2, TimerFiresInv, AnsweredInv, FailedInv
<1>3. CASE Die
  BY <1>3 DEF Die, IInv, TypeOK, OneRound, UnresolvedIsAsked, Unasked,
              OwnAddress, OffIsClean, Resolving
<1>4. CASE UNCHANGED vars
  BY <1>4 DEF vars, entryVars, IInv, TypeOK, OneRound, UnresolvedIsAsked,
              Unasked, OwnAddress, OffIsClean, Resolving
<1> QED
  BY <1>1, <1>2, <1>3, <1>4 DEF Next

\* The inductive invariant holds of every behaviour.
THEOREM Invariance == Spec => []IInv
<1>1. Init => IInv
  BY InitInv
<1>2. IInv /\ [Next]_vars => IInv'
  BY StepInv
<1> QED
  BY <1>1, <1>2, PTL DEF Spec

-----------------------------------------------------------------------------

\* Every variable keeps its type; no entry has two queries under way.
THEOREM TypeCorrect == Spec => []TypeOK
<1>1. IInv => TypeOK
  BY DEF IInv
<1> QED
  BY <1>1, Invariance, PTL

\* An entry is asked for or waits, not both, and neither only if refused.
THEOREM AlwaysOneRound == Spec => []OneRound
<1>1. IInv => OneRound
  BY DEF IInv
<1> QED
  BY <1>1, Invariance, PTL

\* An entry without address never waits for a TTL.
THEOREM AlwaysUnresolvedIsAsked == Spec => []UnresolvedIsAsked
<1>1. IInv => UnresolvedIsAsked
  BY DEF IInv
<1> QED
  BY <1>1, Invariance, PTL

\* The entry that is found for the host of the session has its name.
LEMMA FoundName == name[Find(name, SessionHost(name))] = SessionHost(name)
BY DEF Find, SessionHost

\* A step that the process survives keeps the address that lookups find.
LEMMA StepKeepsAddress ==
  IInv /\ [Next]_vars =>
    (Lookup # NoHost /\ phase' = "running" => Lookup' = SessionHost(name))
<1> SUFFICES ASSUME IInv, [Next]_vars, Lookup # NoHost, phase' = "running"
             PROVE  Lookup' = SessionHost(name)
  OBVIOUS
<1> DEFINE f == Find(name, SessionHost(name))
<1>1. phase = "running" /\ address[f] # NoHost
  BY DEF Lookup
<1>2. f \in Url
  BY DEF Find, Url
<1>3. address[f] = SessionHost(name)
  BY <1>1, <1>2, FoundName DEF IInv, OwnAddress
<1>4. name' = name
  BY <1>1 DEF Next, Start, TimerFires, Answered, Failed, Die, vars, entryVars
<1>5. address'[f] = address[f]
  <2>1. ASSUME NEW u \in Url, Answered(u)
        PROVE  address'[f] = address[f]
    <3>1. CASE u = f
      BY <2>1, <3>1, <1>2, <1>3, FoundName DEF Answered, IInv, TypeOK
    <3>2. CASE u # f
      BY <2>1, <3>2, <1>2 DEF Answered, IInv, TypeOK
    <3> QED
      BY <3>1, <3>2
  <2> QED
    BY <2>1, <1>1 DEF Next, Start, TimerFires, Failed, Die, vars, entryVars
<1>6. f' = f
  BY <1>4 DEF Find, SessionHost
<1> QED
  BY <1>3, <1>4, <1>5 DEF Lookup, Find, SessionHost

\* An address once found is found by every later lookup.
THEOREM AlwaysAddressKept == Spec => AddressKept
<1>1. IInv /\ [Next]_vars =>
        [Lookup # NoHost /\ phase' = "running" =>
           Lookup' = SessionHost(name)]_vars
  BY StepKeepsAddress
<1> QED
  BY <1>1, Invariance, PTL DEF Spec, AddressKept

=============================================================================
