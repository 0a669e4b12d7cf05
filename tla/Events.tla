------------------------------- MODULE Events -------------------------------
(***************************************************************************)
(* The Event attribute of the data model and the functions of repo.c that  *)
(* work on it.  An event is an object of a multipleObject attribute (see   *)
(* Slots), of which only the EventCode matters here.  The attribute has no *)
(* constraint and no number-of-entries attribute.                          *)
(***************************************************************************)
EXTENDS Slots

CONSTANTS
  Code,      \* event codes
  Multiple,  \* codes that begin with "M "
  Boot,      \* "0 BOOTSTRAP" and "1 BOOT"
  NoEvent,   \* an empty slot
  MaxSlots   \* bound: length of the list

ASSUME EventsAssumption ==
  /\ Multiple \subseteq Code
  /\ Boot \subseteq Code
  /\ NoEvent \notin Code
  /\ MaxSlots \in Nat

VARIABLES
  events,  \* the Event attribute's list
  inform,  \* the event list of the last Inform
  file     \* the events in the data file

eventVars == <<events, inform, file>>

EventsInit == events = <<>> /\ inform = <<>> /\ file = <<>>

\* evcpe_repo_add_event.
AddEvent(c) ==
  LET i == FirstFree(events, NoEvent)
  IN  /\ i <= MaxSlots
      /\ events' = Fill(events, i, c)
      /\ UNCHANGED <<inform, file>>

\* evcpe_repo_add_event when the data model refuses EventCode or CommandKey:
\* the object is deleted again, its slot stays.
AddEventFails(c) ==
  LET i == FirstFree(events, NoEvent)
  IN  /\ i <= MaxSlots
      /\ events' = Fill(events, i, NoEvent)
      /\ UNCHANGED <<inform, file>>

\* Faulty form of DelEvent: the loop is left after the first match.
DelFirstEvent(s, code) ==
  LET matches == {i \in DOMAIN s : s[i] = code}
  IN  IF matches = {} THEN s
      ELSE [s EXCEPT ![CHOOSE i \in matches : \A j \in matches : i <= j] = NoEvent]

\* evcpe_repo_del_event: find an event of the code and delete it, by its own
\* index, until none is found.
DelEvent(s, code) ==
  [i \in DOMAIN s |-> IF s[i] = code THEN NoEvent ELSE s[i]]

\* evcpe_handle_inform_response, for each code of Boot.
Acknowledge ==
  \E first, second \in Boot :
    /\ Boot = {first, second}
    /\ events' = DelEvent(DelEvent(events, first), second)
    /\ UNCHANGED <<inform, file>>

\* Faulty form of Listed: a code is listed as often as it is stored.
ListedAgain(s, i) == s[i] # NoEvent

\* evcpe_event_list_add drops a second copy, unless the code may repeat.
Listed(s, i) ==
  /\ s[i] # NoEvent
  /\ s[i] \in Multiple \/ \A j \in 1..(i - 1) : s[j] # s[i]

\* evcpe_repo_to_inform.
ToInform ==
  /\ inform' = Packed(events, {i \in DOMAIN events : Listed(events, i)})
  /\ UNCHANGED <<events, file>>

\* The data file is rewritten after every change (Persister).
Persist == file' = Compact(events, NoEvent) /\ UNCHANGED <<events, inform>>

\* A new process reads the file into an empty list.
Restart ==
  /\ events' = file
  /\ inform' = <<>>
  /\ UNCHANGED file

EventsNext ==
  \/ \E c \in Code : AddEvent(c) \/ AddEventFails(c)
  \/ Acknowledge
  \/ ToInform
  \/ Persist
  \/ Restart

EventsSpec == EventsInit /\ [][EventsNext]_eventVars

-----------------------------------------------------------------------------

\* How often each code occurs in a list.
Counts(s) == [c \in Code |-> Cardinality({i \in DOMAIN s : s[i] = c})]

\* The slots, with their holes, duplicates and leftovers, behave like the bag
\* of event codes that EventStore describes: every code stored is reported,
\* an acknowledged code is gone, another stays, and a failed addition leaves
\* nothing behind.
Bag == INSTANCE EventStore WITH
         held <- Counts(events), report <- Counts(inform), durable <- Counts(file)

StoreIsABag == Bag!Spec

=============================================================================
