----------------------------- MODULE EventBuffer -----------------------------
(***************************************************************************)
(* The store half of the collector's in-memory EventBuffer                 *)
(* (collector/buffer.py): a dictionary from session to the list of events  *)
(* published and not yet flushed, bounded per session by trimming the      *)
(* oldest events and over sessions by evicting the least recently active.  *)
(* The subscriber half is modelled in SseStream.                           *)
(*                                                                         *)
(* An event is abstracted to its rank in its session: the n-th event       *)
(* published to a session is the number n.  Every critical section of the  *)
(* buffer's lock is free of awaits, so one section is one step.            *)
(***************************************************************************)
EXTENDS Integers, Sequences, FiniteSets, Ordering

CONSTANTS
  Session,               \* session identifiers
  MaxEventsPerSession,   \* EventBuffer.max_events_per_session
  MaxSessions            \* EventBuffer.max_sessions

ASSUME EventBoundAssumption   == MaxEventsPerSession \in Nat \ {0}
ASSUME SessionBoundAssumption == MaxSessions \in Nat \ {0}

VARIABLES
  events,      \* _events: session -> buffered events; absent keys are <<>>
  activity,    \* _session_activity: time of the last publish, 0 if absent
  clock,       \* the wall clock the activity times are read from
  published,   \* history: how many events were published to each session
  dropped      \* history: events memory gave up (trim, eviction, crash)

bufferVars == <<events, activity, clock, published, dropped>>

BufferTypeOK ==
  /\ events \in [Session -> Seq(Nat)]
  /\ \A s \in Session : Len(events[s]) <= MaxEventsPerSession
  /\ activity \in [Session -> Nat]
  /\ clock \in Nat
  /\ published \in [Session -> Nat]
  /\ dropped \in [Session -> SUBSET Nat]

BufferInit ==
  /\ events = [s \in Session |-> <<>>]
  /\ activity = [s \in Session |-> 0]
  /\ clock = 0
  /\ published = [s \in Session |-> 0]
  /\ dropped = [s \in Session |-> {}]

\* get_session_ids: the keys of _events.
SessionIds == {s \in Session : events[s] # <<>>}

-----------------------------------------------------------------------------
(* _enforce_bounds, the two halves. *)

\* Mutant: the room for the event about to be added is forgotten.
Excess_ForgetsNew(s) ==
  IF Len(events[s]) > MaxEventsPerSession
  THEN Len(events[s]) - MaxEventsPerSession ELSE 0

\* How many of the oldest events of s make room for the next one.
Excess(s) ==
  IF Len(events[s]) >= MaxEventsPerSession
  THEN Len(events[s]) - MaxEventsPerSession + 1
  ELSE 0

\* Mutant: the dictionary grows one session past its bound.
Evicted_TooLate(s) ==
  IF events[s] = <<>> /\ Cardinality(SessionIds) > MaxSessions
  THEN {v \in SessionIds : \A t \in SessionIds : activity[v] <= activity[t]}
  ELSE {}

\* The session evicted when s is new and the dictionary is full.
Evicted(s) ==
  IF events[s] = <<>> /\ Cardinality(SessionIds) >= MaxSessions
  THEN {v \in SessionIds : \A t \in SessionIds : activity[v] <= activity[t]}
  ELSE {}

Publish(s) ==
  LET kept == SubSeq(events[s], Excess(s) + 1, Len(events[s]))
      n    == published[s] + 1
  IN  /\ published' = [published EXCEPT ![s] = n]
      /\ clock' = clock + 1
      /\ events' = [t \in Session |->
                      IF t = s THEN Append(kept, n)
                      ELSE IF t \in Evicted(s) THEN <<>> ELSE events[t]]
      /\ activity' = [t \in Session |->
                        IF t = s THEN clock + 1
                        ELSE IF t \in Evicted(s) THEN 0 ELSE activity[t]]
      /\ dropped' = [t \in Session |->
                       IF t = s
                       THEN dropped[s] \cup {events[s][i] : i \in 1..Excess(s)}
                       ELSE IF t \in Evicted(s)
                            THEN dropped[t] \cup Elems(events[t])
                            ELSE dropped[t]]

\* No publish pattern makes the dictionary hold more sessions than its bound.
SessionsBounded == Cardinality(SessionIds) <= MaxSessions

\* flush: pop and return the events of s; the caller uses events[s].
PopEvents(s) ==
  /\ events' = [events EXCEPT ![s] = <<>>]
  /\ activity' = [activity EXCEPT ![s] = 0]
  /\ UNCHANGED <<clock, published, dropped>>

=============================================================================
