---------------------------- MODULE ReplayScope ----------------------------
(***************************************************************************)
(* Which events a replay shows (collector/replay.py, build_replay and      *)
(* _collect_focus_scope_ids).  The events of a session come as a list in   *)
(* the order of timestamps; an event is its place in it.  Its parent and   *)
(* its upstream events may come anywhere in the list, or not be in it, and *)
(* the references may form cycles: they are what the agent has sent.       *)
(*                                                                         *)
(* The order in which a stack is emptied, and that an id may be on it more *)
(* than once, make no difference to what is found: a stack is a set here.  *)
(***************************************************************************)
EXTENDS Naturals, FiniteSets, Sequences

CONSTANTS
  N,               \* events of the session
  Failing,         \* those that event_is_failure takes for failures
  MaxRefs,         \* bound: references among them
  MaxCheckpoints   \* bound: checkpoints

Event == 1..N
Nowhere == 0     \* no event, or one that is not in the list

ASSUME ReplayAssumption ==
  /\ N \in Nat \ {0} /\ Failing \subseteq Event
  /\ MaxRefs \in Nat /\ MaxCheckpoints \in Nat

VARIABLES
  parent,        \* event -> its parent, or Nowhere
  upstream,      \* event -> its upstream events
  checkpoints,   \* the events of the checkpoints, in the order of their timestamps
  mode,
  focus,         \* the event asked for, or Nowhere
  start,         \* start_index + 1
  stage,         \* "given", "ancestors", "descendants" or "done"
  open,          \* the stack
  seen,
  up,            \* the ancestors found
  down,          \* the descendants found
  shown          \* the events of the replay

givenVars == <<parent, upstream, checkpoints, mode>>
replayVars == <<givenVars, focus, start, stage, open, seen, up, down, shown>>

RefCount == Cardinality({e \in Event : parent[e] # Nowhere})
            + Cardinality({r \in Event \X Event : r[2] \in upstream[r[1]]})

ReplayInit ==
  /\ parent \in [Event -> Event \cup {Nowhere}]
  /\ upstream \in [Event -> {u \in SUBSET Event : Cardinality(u) <= MaxRefs}]
  /\ RefCount <= MaxRefs
  /\ checkpoints \in UNION {[1..n -> Event \cup {Nowhere}] : n \in 0..MaxCheckpoints}
  /\ mode \in {"full", "focus", "failure"}
  /\ focus \in Event \cup {Nowhere}
  /\ start = 1 /\ stage = "given"
  /\ open = {} /\ seen = {} /\ up = {} /\ down = {} /\ shown = {}

Window == start..N
Scoped == mode \in {"focus", "failure"}

\* What _collect_scoped_ancestor_ids and _collect_scoped_descendant_ids follow.
Refs(e) == {parent[e]} \cup upstream[e]
Children(e) == {c \in Event : parent[c] = e}

-----------------------------------------------------------------------------
\* A replay of failures ends at the last one, whatever is asked for.
Target ==
  IF mode = "failure" /\ Failing # {} THEN CHOOSE f \in Failing : \A g \in Failing : g <= f
                                      ELSE focus

\* The last checkpoint of the list that does not come after the focus counts
\* (one whose event is not in the list does not); without any, it is the start.
UsableCheckpoints(target) ==
  {i \in DOMAIN checkpoints : checkpoints[i] <= IF target = Nowhere THEN 1 ELSE target}

StartAt(target) ==
  IF UsableCheckpoints(target) = {} THEN 1
  ELSE LET last == CHOOSE i \in UsableCheckpoints(target) :
                     \A j \in UsableCheckpoints(target) : j <= i
       IN  IF checkpoints[last] = Nowhere THEN 1 ELSE checkpoints[last]

\* Mutant: the start is that of the last checkpoint.
Choose_LastCheckpoint ==
  /\ stage = "given"
  /\ focus' = Target
  /\ start' = IF Scoped /\ checkpoints # <<>> /\ checkpoints[Len(checkpoints)] # Nowhere
                THEN checkpoints[Len(checkpoints)] ELSE 1
  /\ IF Scoped /\ Target # Nowhere
       THEN stage' = "ancestors" /\ open' = {Target} /\ UNCHANGED shown
       ELSE stage' = "done" /\ shown' = start'..N /\ UNCHANGED open
  /\ UNCHANGED <<givenVars, seen, up, down>>

Choose ==
  /\ stage = "given"
  /\ focus' = Target
  /\ start' = IF Scoped THEN StartAt(Target) ELSE 1
  /\ IF Scoped /\ Target # Nowhere
       THEN stage' = "ancestors" /\ open' = {Target} /\ UNCHANGED shown
       ELSE stage' = "done" /\ shown' = start'..N /\ UNCHANGED open
  /\ UNCHANGED <<givenVars, seen, up, down>>

\* An id is taken from the stack; one seen before, before the window or not in
\* the list leads nowhere.
Visit(e, found, next) ==
  /\ e \in open
  /\ seen' = seen \cup {e}
  /\ IF e \notin seen /\ e \in Window
       THEN found' = found \cup {e} /\ open' = (open \ {e}) \cup next
       ELSE found' = found /\ open' = open \ {e}
  /\ UNCHANGED <<givenVars, focus, start, stage, shown>>

Ascend(e) == stage = "ancestors" /\ Visit(e, up, Refs(e)) /\ UNCHANGED down

TurnDown ==
  /\ stage = "ancestors" /\ open = {}
  /\ stage' = "descendants"
  /\ open' = {focus} /\ seen' = {}
  /\ UNCHANGED <<givenVars, focus, start, up, down, shown>>

Descend(e) == stage = "descendants" /\ Visit(e, down, Children(e)) /\ UNCHANGED up

\* The first event of the window is added.
Finish ==
  /\ stage = "descendants" /\ open = {}
  /\ stage' = "done"
  /\ shown' = up \cup down \cup {start}
  /\ UNCHANGED <<givenVars, focus, start, open, seen, up, down>>

ReplayNext ==
  \/ Choose \/ TurnDown \/ Finish
  \/ \E e \in open : Ascend(e) \/ Descend(e)

ReplaySpec == ReplayInit /\ [][ReplayNext]_replayVars

-----------------------------------------------------------------------------
(* Property *)

\* S is the least set of events of the window that holds the focus and, with an
\* event, those of next that are in the window.
ClosedUnder(S, next(_)) == \A e \in S : next(e) \cap Window \subseteq S
Least(S, next(_)) ==
  /\ S \subseteq Window /\ focus \in S /\ ClosedUnder(S, next)
  /\ \A T \in SUBSET Window : focus \in T /\ ClosedUnder(T, next) => S \subseteq T

\* "the focused branch from the replay start to the focus subtree": whatever the
\* references are and wherever the replay starts, the focus is shown, with its
\* ancestors and its descendants as far as the window lets them be followed, the
\* first event of the window, and no other event.
ReplayIsBranch ==
  stage = "done" /\ Scoped /\ focus # Nowhere =>
    /\ shown = up \cup down \cup {start}
    /\ Least(up, Refs) /\ Least(down, Children)
=============================================================================
