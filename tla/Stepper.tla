------------------------------ MODULE Stepper ------------------------------
(***************************************************************************)
(* The stepper of one session (agent_debugger_sdk/core/stepper.py) as the  *)
(* routes of api/stepper_routes.py keep it: in memory, made empty by the   *)
(* first request for the session, given the session's events by the first  *)
(* request that steps or looks, if there are any yet, and never given      *)
(* newer ones, while the session goes on recording.                        *)
(*                                                                         *)
(* An event has an id, a kind and a parent; a breakpoint is the id or the  *)
(* kind of the events it stops at.  Branches and the history of steps,     *)
(* which no step reads, are left out, and so are export_state and          *)
(* import_state, which no route calls.                                     *)
(***************************************************************************)
EXTENDS Naturals, SequencesExt

CONSTANTS
  Condition,      \* what breakpoints may stop at: ids of events, and kinds of them
  MaxEvents,      \* bound: events recorded
  MaxPoints       \* bound: breakpoints set

Kind == {"tool_result", "other"}
NoId == 0
Id == 1..MaxEvents
Unknown == MaxEvents + 1     \* the id of an event of another session

ASSUME ConditionAssumption == Condition \subseteq ({"event_type"} \X Kind) \cup ({"event_id"} \X Id)

VARIABLES
  recorded,   \* the session's events in the database, in timestamp order
  events,     \* the stepper's
  index,      \* current_event_index, from 0
  current,    \* current_event_id
  points,     \* breakpoints; since: history, the position when it was set
  completed,
  visited,    \* history: events that have been the current one
  jumped      \* history: the position has changed but by STEP_INTO and CONTINUE

stateVars == <<index, current, points, completed>>
stepperVars == <<recorded, events, stateVars, visited, jumped>>

Jump == jumped' = TRUE /\ visited' = {}
IdAt(i) == events[i + 1].id      \* events[i] of the source
Here(i) == IF i < Len(events) THEN {IdAt(i)} ELSE {}
Position(id) == IF \E i \in 1..Len(events) : events[i].id = id
                  THEN {CHOOSE i \in 0..(Len(events) - 1) : IdAt(i) = id} ELSE {}
StopsAt(p, e) == p.at \in {<<"event_type", e.kind>>, <<"event_id", e.id>>}

FreshState ==
  /\ index' = 0 /\ current' = NoId /\ points' = {}
  /\ completed' = FALSE /\ jumped' = FALSE

StepperInit ==
  /\ recorded = <<>> /\ events = <<>>
  /\ index = 0 /\ current = NoId /\ points = {} /\ completed = FALSE
  /\ visited = {} /\ jumped = FALSE

-----------------------------------------------------------------------------
\* The session records an event, which need not be the latest.
Record ==
  /\ Len(recorded) < MaxEvents
  /\ \E k \in Kind, parent \in 0..Len(recorded) \cup {Unknown}, i \in 1..(Len(recorded) + 1) :
       recorded' = InsertAt(recorded, i, [id |-> Len(recorded) + 1, kind |-> k, parent |-> parent])
  /\ UNCHANGED <<events, stateVars, visited, jumped>>

\* Every route that steps or looks: the events are taken if there are none.
Load ==
  /\ events = <<>> /\ recorded # <<>>
  /\ events' = recorded /\ visited' = {recorded[1].id}
  /\ UNCHANGED <<recorded, stateVars, jumped>>

SetBreakpoint(at) ==
  /\ Cardinality(points) < MaxPoints
  /\ points' = points \cup {[at |-> at, since |-> IF completed THEN Len(recorded) ELSE index]}
  /\ UNCHANGED <<recorded, events, index, current, completed, visited, jumped>>

ClearBreakpoint(p) ==
  /\ points' = points \ {p}
  /\ UNCHANGED <<recorded, events, index, current, completed, visited, jumped>>

\* Nothing else of reset is visible here: the events stay.
ResetStepper ==
  /\ FreshState /\ visited' = Here(0)
  /\ UNCHANGED <<recorded, events>>

\* The server is restarted, or the stepper made anew: it is empty.
Restart ==
  /\ FreshState /\ events' = <<>> /\ visited' = {}
  /\ UNCHANGED recorded

-----------------------------------------------------------------------------
(* step: not once completed, and not before an attempt to load. *)

CanStep == ~completed /\ (events = <<>> => recorded = <<>>)
Stay == UNCHANGED <<recorded, points, events>>
Moved(i, id) == index' = i /\ current' = id /\ UNCHANGED completed
AtEnd == index >= Len(events)

\* The end is reached; a session without events reaches it at once.
StepStraight == IF events = <<>> THEN Jump ELSE UNCHANGED <<visited, jumped>>
Complete ==
  /\ completed' = TRUE
  /\ UNCHANGED <<index, current>> /\ Stay

Next1 == IF index + 1 < Len(events) THEN IdAt(index + 1) ELSE current

StepInto ==
  /\ CanStep
  /\ IF AtEnd THEN Complete /\ StepStraight
     ELSE /\ Moved(index + 1, Next1)
          /\ visited' = visited \cup Here(index + 1) /\ UNCHANGED jumped /\ Stay

\* The results of tools are passed over.
StepOver ==
  /\ CanStep
  /\ LET rest == {i \in (index + 1)..(Len(events) - 1) : events[i + 1].kind # "tool_result"}
     IN IF rest = {} THEN Complete /\ Jump
        ELSE \E i \in rest :
               /\ \A j \in rest : i <= j
               /\ Moved(i, IdAt(i)) /\ Jump /\ Stay

\* Back to the parent; no parent: one step on; an unknown parent: nothing.
StepOut ==
  /\ CanStep
  /\ IF AtEnd THEN Complete /\ Jump
     ELSE LET parent == events[index + 1].parent
          IN  /\ Jump /\ Stay
              /\ \/ parent = NoId /\ Moved(index + 1, Next1)
                 \/ \E i \in Position(parent) : Moved(i, parent)
                 \/ /\ parent # NoId /\ Position(parent) = {}
                    /\ UNCHANGED <<index, current, completed>>

Matches == {i \in index..(Len(events) - 1) : \E p \in points : StopsAt(p, events[i + 1])}

\* Mutant: the search goes on after a breakpoint is found.
Continue_Last ==
  /\ CanStep
  /\ IF Matches = {} THEN Complete /\ StepStraight
     ELSE \E i \in Matches :
            /\ \A j \in Matches : i >= j
            /\ Moved(i, IdAt(i)) /\ visited' = visited \cup Here(i)
            /\ UNCHANGED jumped /\ Stay

\* The first event from the current one on that a breakpoint stops at, the
\* current one included.
Continue ==
  /\ CanStep
  /\ IF Matches = {} THEN Complete /\ StepStraight
     ELSE \E i \in Matches :
            /\ \A j \in Matches : i <= j
            /\ Moved(i, IdAt(i)) /\ visited' = visited \cup Here(i)
            /\ UNCHANGED jumped /\ Stay

\* Mutant: the id follows only if it is ahead.
RunTo_Ahead(id) ==
  /\ CanStep /\ ~AtEnd
  /\ \E i \in Position(id) : Moved(i, IF i > index THEN id ELSE current)
  /\ Jump /\ Stay

\* At the end, before "completed", events[current_event_index] is an IndexError.
RunTo(id) ==
  /\ CanStep /\ ~AtEnd
  /\ \E i \in Position(id) : Moved(i, id)
  /\ Jump /\ Stay

StepperNext ==
  \/ Record \/ Load \/ ResetStepper \/ Restart
  \/ \E at \in Condition : SetBreakpoint(at)
  \/ \E p \in points : ClearBreakpoint(p)
  \/ StepInto \/ StepOver \/ StepOut \/ Continue
  \/ \E id \in Id : RunTo(id)

StepperSpec == StepperInit /\ [][StepperNext]_stepperVars

-----------------------------------------------------------------------------
(* Properties *)

\* current_event_id and current_event_index say the same after any sequence of
\* steps: the id is that of the event at the index, at the end that of the last
\* event, and empty only while no step has changed it.
PositionAgrees ==
  events # <<>> =>
    /\ index <= Len(events)
    /\ current = NoId => index = 0 \/ (index = 1 /\ Len(events) = 1)
    /\ current # NoId => current = IdAt(IF index < Len(events) THEN index ELSE index - 1)

\* "Continue to next breakpoint": whoever only steps into and continues is
\* stopped at every event of every breakpoint set before the event is passed.
\* A session stepped before it had any event is completed for good, and excepted.
NoBreakpointPassed ==
  ~jumped =>
    \A p \in points : \A i \in p.since..(Len(events) - 1) :
      StopsAt(p, events[i + 1]) /\ (index > i \/ completed) => IdAt(i) \in visited
=============================================================================
