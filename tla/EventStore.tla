----------------------------- MODULE EventStore -----------------------------
(***************************************************************************)
(* What the scheduler (Cpe) relies on when it stores, reports and deletes  *)
(* events: the store is a bag of event codes.  Events shows that the       *)
(* objects of the Event attribute behave like this bag.                    *)
(***************************************************************************)
EXTENDS Integers

CONSTANTS
  Code,      \* event codes
  Multiple,  \* subset of Code: those that an Inform may list more than once
  Boot       \* subset of Code: those that an InformResponse acknowledges

VARIABLES
  held,     \* how many events of each code are stored
  report,   \* how many of each the last Inform listed
  durable   \* the bag a restarted agent begins with

vars == <<held, report, durable>>

NoEvents == [c \in Code |-> 0]

Init == held = NoEvents /\ report = NoEvents /\ durable = NoEvents

Add(c) ==
  /\ held' = [held EXCEPT ![c] = @ + 1]
  /\ UNCHANGED <<report, durable>>

\* A code that is stored is listed: once, or as often as it is stored.
Report ==
  /\ report' = [c \in Code |-> IF c \in Multiple \/ held[c] = 0
                                 THEN held[c] ELSE 1]
  /\ UNCHANGED <<held, durable>>

\* Every event of an acknowledged code goes, and no other.
Acknowledge ==
  /\ held' = [c \in Code |-> IF c \in Boot THEN 0 ELSE held[c]]
  /\ UNCHANGED <<report, durable>>

Save == durable' = held /\ UNCHANGED <<held, report>>

Restart ==
  /\ held' = durable
  /\ report' = NoEvents
  /\ UNCHANGED durable

Next ==
  \/ \E c \in Code : Add(c)
  \/ Report
  \/ Acknowledge
  \/ Save
  \/ Restart

Spec == Init /\ [][Next]_vars

=============================================================================
