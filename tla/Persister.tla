----------------------------- MODULE Persister ------------------------------
(***************************************************************************)
(* The data file of the agent: persister.c rewrites it after a change of   *)
(* the repository, main (evcpe.c) reads it at the start.                   *)
(*                                                                         *)
(* The tree is a value for each parameter; the file holds those values in  *)
(* the order in which evcpe_obj_to_xml writes them, and so is a sequence   *)
(* that may be cut short.  The write runs inside one callback of the event *)
(* loop: no change comes between its steps, but the process may die there, *)
(* and SIGINT is handled there.                                            *)
(***************************************************************************)
EXTENDS Integers, Sequences

CONSTANTS
  Params,      \* number of parameters in the tree
  MaxValue,    \* bound: values of a parameter; 0 is the default
  WriteFaults  \* how evcpe_persister_persist may fail: "open", "marshal", "write"

ASSUME PersisterAssumption ==
  /\ Params \in Nat \ {0}
  /\ MaxValue \in Nat
  /\ WriteFaults \subseteq {"open", "marshal", "write"}

VARIABLES
  phase,   \* "off", "running", "writing"
  repo,    \* the tree
  file,    \* the data file
  torn,    \* the file ends in the middle of a value
  timer,   \* evtimer_pending(&persist->timer_ev)
  failed,  \* history: the last write of this process failed
  left     \* history: what the last process left behind

vars == <<phase, repo, file, torn, timer, failed, left>>

Param == 1..Params

Tree == [Param -> 0..MaxValue]

Defaults == [p \in Param |-> 0]

\* evcpe_obj_from_xml on a file that is not torn: what is missing at its end
\* keeps the default, and nothing is reported.
Load(f) == [p \in Param |-> IF p <= Len(f) THEN f[p] ELSE 0]

\* What shutdown_cpe or a crash finds: is all saved, and what was the tree.
Left(quiet, tree) == [quiet |-> quiet, tree |-> tree]

\* The data file the agent is delivered with may leave parameters out.
Init ==
  /\ phase = "off"
  /\ repo = Defaults
  /\ \E n \in 0..Params : file \in [1..n -> 0..MaxValue]
  /\ torn = FALSE
  /\ timer = FALSE
  /\ failed = FALSE
  /\ left = Left(TRUE, Load(file))

\* main: load_file, evcpe_obj_from_xml, and only then evcpe_persister_set, so
\* that loading schedules no write.  A torn file is a parse error and the
\* agent does not start.
Boot ==
  /\ phase = "off"
  /\ ~torn
  /\ phase' = "running"
  /\ repo' = Load(file)
  /\ UNCHANGED <<file, torn, timer, failed, left>>

\* A parameter is set and evcpe_persister_listen_cb adds the timer, unless it
\* is pending; setting the value a parameter has counts too.
Change(p) ==
  /\ phase = "running"
  /\ \E value \in 0..MaxValue : repo' = [repo EXCEPT ![p] = value]
  /\ timer' = TRUE
  /\ UNCHANGED <<phase, file, torn, failed, left>>

\* Faulty form of TimerFires: the file is opened without being emptied.
TimerFiresKeepsFile ==
  /\ phase = "running"
  /\ timer
  /\ timer' = FALSE
  /\ phase' = "writing"
  /\ UNCHANGED <<repo, file, torn, failed, left>>

\* evcpe_persister_timer_cb up to the first byte written: fopen with "w+"
\* empties the file before the tree is marshalled.
TimerFires ==
  /\ phase = "running"
  /\ timer
  /\ timer' = FALSE
  /\ \/ /\ "open" \in WriteFaults
        /\ failed' = TRUE
        /\ UNCHANGED <<phase, file, torn>>
     \/ /\ file' = <<>>
        /\ torn' = FALSE
        /\ \/ "marshal" \in WriteFaults /\ failed' = TRUE /\ UNCHANGED phase
           \/ phase' = "writing" /\ failed' = FALSE
  /\ UNCHANGED <<repo, left>>

\* Faulty form of WriteSome: the last value is left in the buffer.
WriteSomeLess ==
  /\ phase = "writing"
  /\ Len(file) < Params
  /\ \/ torn' = TRUE /\ UNCHANGED <<phase, file>>
     \/ /\ file' = Append(file, repo[Len(file) + 1])
        /\ torn' = FALSE
        /\ phase' = IF Len(file') >= Params - 1 THEN "running" ELSE "writing"
  /\ UNCHANGED <<repo, timer, failed, left>>

\* The loop over evbuffer_write: each write may end anywhere, in the middle
\* of a value or after it; the loop ends when the buffer is empty.
WriteSome ==
  /\ phase = "writing"
  /\ \/ torn' = TRUE /\ UNCHANGED <<phase, file>>
     \/ /\ file' = Append(file, repo[Len(file) + 1])
        /\ torn' = FALSE
        /\ phase' = IF Len(file') = Params THEN "running" ELSE "writing"
  /\ UNCHANGED <<repo, timer, failed, left>>

\* evbuffer_write returns -1: the file is closed as it is, no timer is added.
WriteFails ==
  /\ phase = "writing"
  /\ "write" \in WriteFaults
  /\ phase' = "running"
  /\ failed' = TRUE
  /\ UNCHANGED <<repo, file, torn, timer, left>>

\* Faulty form of Die: the shutdown opens the file for its last write, and the
\* process ends before that write.
DieTruncates ==
  /\ phase \in {"running", "writing"}
  /\ left' = Left(phase = "running" /\ ~timer /\ ~failed, repo)
  /\ phase' = "off"
  /\ repo' = Defaults
  /\ file' = <<>>
  /\ torn' = FALSE
  /\ timer' = FALSE
  /\ failed' = FALSE

\* A crash, or SIGINT: evcpe_persister_free deletes a pending timer before it
\* asks whether one is pending, so it writes nothing.
Die ==
  /\ phase \in {"running", "writing"}
  /\ left' = Left(phase = "running" /\ ~timer /\ ~failed, repo)
  /\ phase' = "off"
  /\ repo' = Defaults
  /\ timer' = FALSE
  /\ failed' = FALSE
  /\ UNCHANGED <<file, torn>>

Next ==
  \/ Boot
  \/ \E p \in Param : Change(p)
  \/ TimerFires
  \/ WriteSome
  \/ WriteFails
  \/ Die

Spec == Init /\ [][Next]_vars

\* The loop calls a pending timer back, and a write to a regular file
\* proceeds: it does not return the same place in a value for ever.
Progress == WriteSome /\ ~torn'

Fairness == WF_vars(TimerFires) /\ WF_vars(Progress)

FairSpec == Spec /\ Fairness

-----------------------------------------------------------------------------

TypeOK ==
  /\ phase \in {"off", "running", "writing"}
  /\ repo \in Tree
  /\ file \in Seq(0..MaxValue)
  /\ Len(file) <= Params
  /\ torn \in BOOLEAN
  /\ timer \in BOOLEAN
  /\ failed \in BOOLEAN
  /\ left \in [quiet : BOOLEAN, tree : Tree]

\* Whenever the agent is idle and its last write did not fail, a restart
\* would load exactly the tree it has, or a write is scheduled.
SavedOrScheduled ==
  phase = "running" /\ ~timer /\ ~failed => ~torn /\ Load(file) = repo

\* An agent that dies at rest, with no write pending and none failed, comes
\* back with the tree it had.
RestComesBack ==
  [][ phase = "off" /\ phase' = "running" /\ left.quiet =>
        repo' = left.tree ]_vars

\* A cut file always holds a beginning of the tree that was being written:
\* values of two writes are never mixed in it.
NeverMixed ==
  phase = "writing" => \A p \in DOMAIN file : file[p] = repo[p]

\* A change reaches the file some day, unless the write fails or the agent
\* dies first.
ChangesAreSaved ==
  timer ~> (phase = "running" /\ Load(file) = repo) \/ failed \/ phase = "off"

\* The shutdown writes a pending change: the second half of
\* evcpe_persister_free is there for it.
ShutdownFlushes ==
  [][ phase = "running" /\ timer /\ phase' = "off" => Load(file') = repo ]_vars

=============================================================================
