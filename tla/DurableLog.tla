------------------------------ MODULE DurableLog ------------------------------
(***************************************************************************)
(* What the collector promises about the trace file of ONE session, with   *)
(* no flush, lock, task or retry in sight: accepted events wait in a queue *)
(* in memory and move, oldest first, to a log that only grows.  Memory may *)
(* give events up; the log never does, never repeats one and never holds   *)
(* one ahead of an older one.  A file whose broken append could not be     *)
(* undone is corrupt, and nothing is promised about it.                    *)
(***************************************************************************)
EXTENDS Naturals, Sequences

VARIABLES
  accepted,   \* how many events the session has produced
  queue,      \* accepted events still in memory, oldest first
  log,        \* events in the file
  corrupt     \* the file is no longer vouched for

dvars == <<accepted, queue, log, corrupt>>

Members(q) == {q[i] : i \in DOMAIN q}
Ascending(q) == \A i, j \in DOMAIN q : i < j => q[i] < q[j]

\* q is what is left of the ascending sequence r after dropping members.
PartOf(q, r) == Ascending(q) /\ Members(q) \subseteq Members(r)

LogInit ==
  /\ accepted = 0
  /\ queue = <<>>
  /\ log = <<>>
  /\ corrupt = FALSE

\* A new event joins the queue; the bounds may push older ones out.
Accept ==
  /\ accepted' = accepted + 1
  /\ PartOf(queue', Append(queue, accepted + 1))
  /\ accepted + 1 \in Members(queue')
  /\ UNCHANGED <<log, corrupt>>

\* The oldest n queued events become durable, in order.
Commit ==
  \E n \in 1..Len(queue) :
    /\ log' = log \o SubSeq(queue, 1, n)
    /\ queue' = SubSeq(queue, n + 1, Len(queue))
    /\ UNCHANGED <<accepted, corrupt>>

\* Memory gives events up; an append cut short by a crash may have left the
\* oldest n whole in the file.
GiveUp ==
  \E n \in 0..Len(queue) :
    /\ log' = log \o SubSeq(queue, 1, n)
    /\ PartOf(queue', SubSeq(queue, n + 1, Len(queue)))
    /\ UNCHANGED <<accepted, corrupt>>

Corrupt ==
  /\ corrupt' = TRUE
  /\ accepted' = accepted

LogNext ==
  \/ ~corrupt /\ (Accept \/ Commit \/ GiveUp \/ Corrupt)
  \/ corrupt /\ corrupt'

LogSpec == LogInit /\ [][LogNext]_dvars

=============================================================================
