---------------------------- MODULE ReadingProofs ----------------------------
(***************************************************************************)
(* Where a user reads of a session, for sessions of any size: the stepper  *)
(* knows where it is and stops at breakpoints, the totals of the row       *)
(* settle, exported files are whole, a focused replay is a branch, and the *)
(* page shows the session that is selected and finds the search result     *)
(* that was jumped to, and the views of an audit tell one story.  The      *)
(* parts share no state, as in MCReading.                                  *)
(***************************************************************************)
EXTENDS Stepper, SessionTotals, FileExporter, ReplayScope, SessionView, Audit,
        OrderingProofs, SequenceTheorems, WellFoundedInduction, TLAPS

-----------------------------------------------------------------------------
(* The stepper: its records of the position *)

SessionEvent == [id : Nat \ {0}, kind : Kind, parent : Nat \cup {Unknown}]

StepperTypes ==
  /\ recorded \in Seq(SessionEvent) /\ events \in Seq(SessionEvent)
  /\ index \in Nat

\* A stepper without events has not moved.
EmptyIsFresh == events = <<>> => index = 0 /\ current = NoId

PositionInv == StepperTypes /\ EmptyIsFresh /\ PositionAgrees

-----------------------------------------------------------------------------

\* A sequence with one more element in its middle.
LEMMA InsertType ==
  ASSUME NEW S, NEW q \in Seq(S), NEW e \in S, NEW i \in 1..(Len(q) + 1)
  PROVE  InsertAt(q, i, e) \in Seq(S)
<1> DEFINE one == <<e>>
           left == SubSeq(q, 1, i - 1)
           right == SubSeq(q, i, Len(q))
<1>1. Len(q) \in Nat /\ \A j \in 1..Len(q) : q[j] \in S
  BY LenProperties, ElementOfSeq
<1>2. left \in Seq(S)
  BY <1>1, SubSeqProperties
<1>3. right \in Seq(S)
  BY <1>1, SubSeqProperties
<1>4. one \in Seq(S)
  OBVIOUS
<1> HIDE DEF one, left, right
<1>5. left \o one \in Seq(S)
  BY <1>2, <1>4, ConcatProperties
<1>6. (left \o one) \o right \in Seq(S)
  BY <1>3, <1>5, ConcatProperties
<1>7. QED
  BY <1>6 DEF InsertAt, one, left, right

\* The ids of a stepper's events, and the events that have an id.
LEMMA IdsAre ==
  ASSUME StepperTypes
  PROVE  /\ Len(events) \in Nat
         /\ events = <<>> <=> Len(events) = 0
         /\ \A i \in Nat : i < Len(events) => IdAt(i) \in Nat \ {0}
         /\ \A id : \A i \in Position(id) : i \in Nat /\ i < Len(events) /\ IdAt(i) = id
<1>1. events \in Seq(SessionEvent) /\ Len(events) \in Nat
  BY DEF StepperTypes
<1>2. events = <<>> <=> Len(events) = 0
  BY <1>1, EmptySeq
<1>3. ASSUME NEW i \in Nat, i < Len(events)
      PROVE  IdAt(i) \in Nat \ {0}
  <2>1. i + 1 \in 1..Len(events)
    BY <1>1, <1>3
  <2>2. events[i + 1] \in SessionEvent
    BY <1>1, <2>1, ElementOfSeq
  <2>3. QED
    BY <2>2 DEF IdAt, SessionEvent
<1>4. ASSUME NEW id, NEW i \in Position(id)
      PROVE  i \in Nat /\ i < Len(events) /\ IdAt(i) = id
  <2>1. /\ \E j \in 1..Len(events) : events[j].id = id
        /\ i = CHOOSE k \in 0..(Len(events) - 1) : IdAt(k) = id
    BY <1>4 DEF Position
  <2>2. PICK j \in 1..Len(events) : events[j].id = id
    BY <2>1
  <2>3. j - 1 \in 0..(Len(events) - 1) /\ (j - 1) + 1 = j
    BY <1>1
  <2>4. IdAt(j - 1) = id
    BY <2>2, <2>3 DEF IdAt
  <2>5. i \in 0..(Len(events) - 1) /\ IdAt(i) = id
    BY <2>1, <2>3, <2>4
  <2>6. QED
    BY <1>1, <2>5
<1>5. QED
  BY <1>1, <1>2, <1>3, <1>4

\* A move to an event within the session takes its id along.
LEMMA MoveWithin ==
  ASSUME PositionInv, NEW i \in Nat, i < Len(events), Moved(i, IdAt(i)), UNCHANGED <<recorded, events>>
  PROVE  PositionInv'
<1>1. /\ Len(events) \in Nat /\ IdAt(i) \in Nat \ {0} /\ (events = <<>> <=> Len(events) = 0)
  BY IdsAre DEF PositionInv
<1>2. index' = i /\ current' = IdAt(i) /\ events' = events /\ IdAt(i)' = IdAt(i)
  BY DEF Moved, IdAt
<1>3. StepperTypes' /\ EmptyIsFresh'
  BY <1>1, <1>2 DEF PositionInv, StepperTypes, EmptyIsFresh
<1>4. PositionAgrees'
  <2>1. index' <= Len(events') /\ index' < Len(events') /\ current' # NoId
    BY <1>1, <1>2 DEF NoId
  <2>2. current' = IdAt(index)'
    BY <1>2 DEF IdAt
  <2>3. QED
    BY <2>1, <2>2 DEF PositionAgrees
<1>5. QED
  BY <1>3, <1>4 DEF PositionInv

\* So does a move to the next event, which leaves the last one's at the end.
LEMMA MoveOn ==
  ASSUME PositionInv, ~AtEnd, Moved(index + 1, Next1), UNCHANGED <<recorded, events>>
  PROVE  PositionInv'
<1>1. /\ Len(events) \in Nat /\ index \in Nat /\ index < Len(events)
      /\ (events = <<>> <=> Len(events) = 0)
  BY IdsAre DEF PositionInv, StepperTypes, AtEnd
<1>2. CASE index + 1 < Len(events)
  <2>1. Moved(index + 1, IdAt(index + 1)) /\ index + 1 \in Nat
    BY <1>1, <1>2 DEF Next1
  <2>2. QED
    BY <1>2, <2>1, MoveWithin
<1>3. CASE ~(index + 1 < Len(events))
  <2>1. index' = index + 1 /\ current' = current /\ events' = events /\ index + 1 = Len(events)
    BY <1>1, <1>3 DEF Next1, Moved
  <2>2. StepperTypes' /\ EmptyIsFresh'
    BY <1>1, <2>1 DEF PositionInv, StepperTypes, EmptyIsFresh
  <2>3. events # <<>> /\ ~(index = 1 /\ Len(events) = 1)
    BY <1>1
  <2>4. current = NoId => index = 0
    BY <2>3 DEF PositionInv, PositionAgrees
  <2>5. current # NoId => current = IdAt(index)
    BY <1>1, <2>3 DEF PositionInv, PositionAgrees
  <2>6. /\ index' = Len(events') /\ ~(index' < Len(events')) /\ (index' - 1) + 1 = index + 1
        /\ index' <= Len(events') /\ (index = 0 => index' = 1 /\ Len(events') = 1)
    BY <1>1, <2>1
  <2>7. PositionAgrees'
    <3>1. SUFFICES /\ index' <= Len(events')
                   /\ current' = NoId => index' = 1 /\ Len(events') = 1
                   /\ current' # NoId => current' = events'[(index' - 1) + 1].id
      BY <2>6 DEF PositionAgrees, IdAt
    <3>2. current' # NoId => current' = events'[(index' - 1) + 1].id
      BY <2>1, <2>5, <2>6 DEF IdAt
    <3>3. QED
      BY <2>1, <2>4, <2>6, <3>2
  <2>8. QED
    BY <2>2, <2>7 DEF PositionInv
<1>4. QED
  BY <1>2, <1>3

\* A step that leaves the position and the events keeps the invariant.
LEMMA StayPut ==
  ASSUME PositionInv, UNCHANGED <<events, index, current>>, recorded' \in Seq(SessionEvent)
  PROVE  PositionInv'
BY DEF PositionInv, StepperTypes, EmptyIsFresh, PositionAgrees, IdAt

\* Every step keeps the invariant.
LEMMA PositionStep == PositionInv /\ [StepperNext]_stepperVars => PositionInv'
<1> SUFFICES ASSUME PositionInv, [StepperNext]_stepperVars
             PROVE  PositionInv'
  OBVIOUS
<1>1. recorded \in Seq(SessionEvent) /\ events \in Seq(SessionEvent) /\ index \in Nat /\ Len(events) \in Nat
  BY DEF PositionInv, StepperTypes
<1>2. CASE Record
  <2>1. UNCHANGED <<events, index, current>>
    BY <1>2 DEF Record, stateVars
  <2>2. PICK k \in Kind, above \in 0..Len(recorded) \cup {Unknown}, i \in 1..(Len(recorded) + 1) :
          recorded' = InsertAt(recorded, i, [id |-> Len(recorded) + 1, kind |-> k, parent |-> above])
    BY <1>2 DEF Record
  <2>3. [id |-> Len(recorded) + 1, kind |-> k, parent |-> above] \in SessionEvent
    BY <1>1, LenProperties DEF SessionEvent
  <2>4. recorded' \in Seq(SessionEvent)
    BY <1>1, <2>2, <2>3, InsertType
  <2>5. QED
    BY <2>1, <2>4, StayPut
<1>3. CASE Load
  <2>1. /\ recorded' = recorded /\ events' = recorded /\ index' = 0 /\ current' = NoId
        /\ recorded # <<>>
    BY <1>3 DEF Load, stateVars, PositionInv, EmptyIsFresh
  <2>2. QED
    BY <1>1, <2>1 DEF PositionInv, StepperTypes, EmptyIsFresh, PositionAgrees
<1>4. CASE ResetStepper \/ Restart
  <2>1. /\ index' = 0 /\ current' = NoId /\ recorded' = recorded
        /\ events' = events \/ events' = <<>>
    BY <1>4 DEF ResetStepper, Restart, FreshState
  <2>2. events' \in Seq(SessionEvent) /\ Len(events') \in Nat
    BY <1>1, <2>1, EmptySeq
  <2>3. QED
    BY <1>1, <2>1, <2>2 DEF PositionInv, StepperTypes, EmptyIsFresh, PositionAgrees
<1>5. ASSUME \/ \E cond \in Condition : SetBreakpoint(cond)
             \/ \E p \in points : ClearBreakpoint(p)
             \/ Complete
             \/ UNCHANGED stepperVars
      PROVE  PositionInv'
  <2>1. UNCHANGED <<recorded, events, index, current>>
    BY <1>5 DEF SetBreakpoint, ClearBreakpoint, Complete, Stay, stepperVars, stateVars
  <2>2. QED
    BY <1>1, <2>1, StayPut
<1>6. CASE StepInto
  <2>1. AtEnd => Complete
    BY <1>6 DEF StepInto
  <2>2. ~AtEnd => Moved(index + 1, Next1) /\ Stay
    BY <1>6 DEF StepInto
  <2>3. QED
    BY <1>5, <2>1, <2>2, MoveOn DEF Stay
<1>7. CASE StepOver
  <2> DEFINE rest == {i \in (index + 1)..(Len(events) - 1) : events[i + 1].kind # "tool_result"}
  <2>1. CASE rest = {}
    BY <1>5, <1>7, <2>1 DEF StepOver
  <2>2. CASE rest # {}
    <3>1. PICK i \in rest : Moved(i, IdAt(i)) /\ Stay
      BY <1>7, <2>2 DEF StepOver
    <3>2. i \in Nat /\ i < Len(events)
      BY <1>1
    <3>3. QED
      BY <3>1, <3>2, MoveWithin DEF Stay
  <2>3. QED
    BY <2>1, <2>2
<1>8. CASE StepOut
  <2>1. CASE AtEnd
    BY <1>5, <1>8, <2>1 DEF StepOut
  <2>2. CASE ~AtEnd
    <3> DEFINE above == events[index + 1].parent
    <3>1. /\ Stay
          /\ \/ Moved(index + 1, Next1)
             \/ \E i \in Position(above) : Moved(i, above)
             \/ UNCHANGED <<index, current>>
      BY <1>8, <2>2 DEF StepOut
    <3> HIDE DEF above
    <3>2. CASE Moved(index + 1, Next1)
      BY <2>2, <3>1, <3>2, MoveOn DEF Stay
    <3>3. ASSUME NEW i \in Position(above), Moved(i, above)
          PROVE  PositionInv'
      <4>1. i \in Nat /\ i < Len(events) /\ IdAt(i) = above
        BY <3>3, IdsAre DEF PositionInv
      <4>2. QED
        BY <3>1, <3>3, <4>1, MoveWithin DEF Stay
    <3>4. CASE UNCHANGED <<index, current>>
      BY <1>1, <3>1, <3>4, StayPut DEF Stay
    <3>5. QED
      BY <3>1, <3>2, <3>3, <3>4
  <2>3. QED
    BY <2>1, <2>2
<1>9. CASE Continue
  <2>1. CASE Matches = {}
    BY <1>5, <1>9, <2>1 DEF Continue
  <2>2. CASE Matches # {}
    <3>1. PICK i \in Matches : Moved(i, IdAt(i)) /\ Stay
      BY <1>9, <2>2 DEF Continue
    <3>2. i \in Nat /\ i < Len(events)
      BY <1>1 DEF Matches
    <3>3. QED
      BY <3>1, <3>2, MoveWithin DEF Stay
  <2>3. QED
    BY <2>1, <2>2
<1>10. ASSUME NEW id \in Id, RunTo(id)
       PROVE  PositionInv'
  <2>1. PICK i \in Position(id) : Moved(i, id) /\ Stay
    BY <1>10 DEF RunTo
  <2>2. i \in Nat /\ i < Len(events) /\ IdAt(i) = id
    BY IdsAre DEF PositionInv
  <2>3. QED
    BY <2>1, <2>2, MoveWithin DEF Stay
<1>11. QED
  BY <1>2, <1>3, <1>4, <1>5, <1>6, <1>7, <1>8, <1>9, <1>10 DEF StepperNext

LEMMA PositionStart == StepperInit => PositionInv
BY EmptySeq DEF StepperInit, PositionInv, StepperTypes, EmptyIsFresh, PositionAgrees

\* current_event_id and current_event_index say the same after any sequence of
\* steps, jumps, resets and reloads (stepper.py: step and its helpers).
THEOREM PositionsAlwaysAgree == StepperSpec => []PositionAgrees
<1>1. PositionInv => PositionAgrees
  BY DEF PositionInv
<1> QED
  BY <1>1, PositionStart, PositionStep, PTL DEF StepperSpec

-----------------------------------------------------------------------------
(* The breakpoints: what is known of the events passed *)

\* The current event has been one; a stepper is completed without events only
\* by a jump; and its events are some of the session's.
BreakInv ==
  /\ Len(events) <= Len(recorded)
  /\ \A p \in points : p.since \in Nat
  /\ events = <<>> /\ completed => jumped
  /\ ~jumped /\ index < Len(events) => IdAt(index) \in visited
  /\ NoBreakpointPassed

\* A jump is excepted.
LEMMA JumpKeeps ==
  ASSUME BreakInv, Jump, UNCHANGED <<recorded, events, points>>
  PROVE  BreakInv'
BY DEF BreakInv, Jump, NoBreakpointPassed

\* The end, reached step by step or by a search that found nothing.
LEMMA CompleteKeeps ==
  ASSUME PositionInv, BreakInv, CanStep, Complete, StepStraight, AtEnd \/ Matches = {}
  PROVE  BreakInv'
<1>1. Len(events) \in Nat /\ (events = <<>> <=> Len(events) = 0) /\ index \in Nat
  BY IdsAre DEF PositionInv, StepperTypes
<1>2. UNCHANGED <<recorded, events, points, index>>
  BY DEF Complete, Stay
<1>3. CASE events = <<>>
  BY <1>2, <1>3, JumpKeeps DEF StepStraight
<1>4. CASE events # <<>>
  <2>1. UNCHANGED <<visited, jumped>>
    BY <1>4 DEF StepStraight
  <2>2. ASSUME ~jumped, NEW p \in points, NEW i \in p.since..(Len(events) - 1),
               StopsAt(p, events[i + 1])
        PROVE  IdAt(i) \in visited
    <3>1. p.since \in Nat /\ i \in Nat /\ i < Len(events)
      BY <1>1 DEF BreakInv
    <3>2. CASE index > i
      BY <2>2, <3>2 DEF BreakInv, NoBreakpointPassed
    <3>3. CASE ~(index > i)
      <4>1. ~AtEnd
        BY <3>1, <3>3, <1>1 DEF AtEnd
      <4>2. i \in index..(Len(events) - 1)
        BY <3>1, <3>3, <1>1
      <4>3. i \in Matches
        BY <4>2, <2>2 DEF Matches
      <4> QED
        BY <4>1, <4>3
    <3> QED
      BY <3>2, <3>3
  <2>3. NoBreakpointPassed'
    BY <2>1, <2>2, <1>2 DEF NoBreakpointPassed, IdAt, StopsAt
  <2> QED
    BY <2>1, <2>3, <1>2, <1>4 DEF BreakInv, IdAt
<1> QED
  BY <1>3, <1>4

\* A move forward over no breakpoint, to an event that counts as visited.
LEMMA ForwardKeeps ==
  ASSUME PositionInv, BreakInv, CanStep, Stay, NEW j \in Nat, j >= index,
         index' = j, visited' = visited \cup Here(j), UNCHANGED <<completed, jumped>>,
         \A i \in (index + 1)..(j - 1) : i \notin Matches,
         index < j /\ index \in Matches => IdAt(index) \in visited
  PROVE  BreakInv'
<1>1. Len(events) \in Nat /\ index \in Nat /\ ~completed
  BY IdsAre DEF PositionInv, StepperTypes, CanStep
<1>2. UNCHANGED <<recorded, events, points, completed, jumped>>
  BY DEF Stay
<1>3. ASSUME ~jumped, NEW p \in points, NEW i \in p.since..(Len(events) - 1),
             StopsAt(p, events[i + 1]), j > i
      PROVE  IdAt(i) \in visited
  <2>1. p.since \in Nat /\ i \in Nat /\ i < Len(events)
    BY <1>1 DEF BreakInv
  <2>2. CASE index > i
    BY <1>3, <2>2 DEF BreakInv, NoBreakpointPassed
  <2>3. CASE i >= index
    <3>1. i \in index..(Len(events) - 1)
      BY <2>1, <2>3, <1>1
    <3>2. i \in Matches
      BY <3>1, <1>3 DEF Matches
    <3>3. i = index
      BY <3>2, <2>1, <2>3, <1>1, <1>3
    <3> QED
      BY <3>2, <3>3, <1>3
  <2> QED
    BY <2>1, <2>2, <2>3, <1>1
<1>4. NoBreakpointPassed'
  BY <1>1, <1>2, <1>3 DEF NoBreakpointPassed, IdAt, StopsAt
<1>5. index' < Len(events') => IdAt(index)' \in visited'
  BY <1>1, <1>2 DEF Here, IdAt
<1> QED
  BY <1>1, <1>2, <1>4, <1>5 DEF BreakInv

\* An event recorded is one more.
LEMMA InsertLength ==
  ASSUME NEW S, NEW q \in Seq(S), NEW e \in S, NEW i \in 1..(Len(q) + 1)
  PROVE  Len(InsertAt(q, i, e)) = Len(q) + 1
<1> DEFINE one == <<e>>
           left == SubSeq(q, 1, i - 1)
           right == SubSeq(q, i, Len(q))
<1>1. Len(q) \in Nat /\ \A j \in 1..Len(q) : q[j] \in S
  BY LenProperties, ElementOfSeq
<1>2. left \in Seq(S) /\ Len(left) = i - 1
  BY <1>1, SubSeqProperties
<1>3. right \in Seq(S) /\ Len(right) = Len(q) - i + 1
  BY <1>1, SubSeqProperties
<1>4. one \in Seq(S) /\ Len(one) = 1
  OBVIOUS
<1> HIDE DEF one, left, right
<1>5. left \o one \in Seq(S) /\ Len(left \o one) = Len(left) + Len(one)
  BY <1>2, <1>4, ConcatProperties
<1>6. Len((left \o one) \o right) = Len(left \o one) + Len(right)
  BY <1>3, <1>5, ConcatProperties
<1>7. (i - 1) + 1 + (Len(q) - i + 1) = Len(q) + 1
  BY <1>1
<1>8. Len((left \o one) \o right) = Len(q) + 1
  BY <1>1, <1>2, <1>3, <1>4, <1>5, <1>6, <1>7
<1> QED
  BY <1>8 DEF InsertAt, one, left, right

LEMMA BreakStep == PositionInv /\ BreakInv /\ [StepperNext]_stepperVars => BreakInv'
<1> SUFFICES ASSUME PositionInv, BreakInv, [StepperNext]_stepperVars
             PROVE  BreakInv'
  OBVIOUS
<1>1. /\ recorded \in Seq(SessionEvent) /\ events \in Seq(SessionEvent) /\ index \in Nat
      /\ Len(events) \in Nat /\ Len(recorded) \in Nat
      /\ events = <<>> <=> Len(events) = 0
      /\ recorded = <<>> <=> Len(recorded) = 0
  BY IdsAre, EmptySeq, LenProperties DEF PositionInv, StepperTypes
<1>2. CASE Record
  <2>1. UNCHANGED <<events, index, points, completed, visited, jumped>>
    BY <1>2 DEF Record, stateVars
  <2>2. PICK k \in Kind, above \in 0..Len(recorded) \cup {Unknown}, i \in 1..(Len(recorded) + 1) :
          recorded' = InsertAt(recorded, i, [id |-> Len(recorded) + 1, kind |-> k, parent |-> above])
    BY <1>2 DEF Record
  <2>3. [id |-> Len(recorded) + 1, kind |-> k, parent |-> above] \in SessionEvent
    BY <1>1 DEF SessionEvent
  <2>4. Len(recorded') = Len(recorded) + 1
    BY <1>1, <2>2, <2>3, InsertLength
  <2>5. Len(events') <= Len(recorded')
    BY <1>1, <2>1, <2>4 DEF BreakInv
  <2> QED
    BY <2>1, <2>5 DEF BreakInv, NoBreakpointPassed, IdAt, StopsAt
<1>3. CASE Load
  <2>1. /\ events = <<>> /\ recorded' = recorded /\ events' = recorded /\ index' = 0
        /\ visited' = {recorded[1].id} /\ UNCHANGED <<points, completed, jumped>>
    BY <1>3 DEF Load, stateVars, PositionInv, EmptyIsFresh
  <2>2. events' # <<>> /\ IdAt(index)' \in visited'
    BY <1>3, <2>1 DEF Load, IdAt
  <2>3. NoBreakpointPassed'
    <3>1. ~jumped => ~completed'
      BY <2>1 DEF BreakInv
    <3>2. ASSUME NEW p \in points, NEW i \in p.since..(Len(recorded) - 1)
          PROVE  ~(0 > i)
      BY <1>1, <3>2 DEF BreakInv
    <3> QED
      BY <2>1, <3>1, <3>2 DEF NoBreakpointPassed
  <2> QED
    BY <1>1, <2>1, <2>2, <2>3 DEF BreakInv
<1>4. CASE ResetStepper \/ Restart
  <2>1. /\ index' = 0 /\ recorded' = recorded /\ points' = {} /\ completed' = FALSE
        /\ \/ events' = events /\ visited' = Here(0)
           \/ events' = <<>>
    BY <1>4 DEF ResetStepper, Restart, FreshState
  <2>2. Len(events') <= Len(recorded')
    BY <1>1, <2>1, EmptySeq DEF BreakInv
  <2>3. index' < Len(events') => IdAt(index)' \in visited'
    BY <1>1, <2>1 DEF Here, IdAt
  <2>4. NoBreakpointPassed'
    BY <2>1 DEF NoBreakpointPassed
  <2> QED
    BY <2>1, <2>2, <2>3, <2>4 DEF BreakInv
<1>5. ASSUME NEW cond \in Condition, SetBreakpoint(cond)
      PROVE  BreakInv'
  <2> DEFINE new == [at |-> cond, since |-> IF completed THEN Len(recorded) ELSE index]
  <2>1. /\ points' = points \cup {new}
        /\ UNCHANGED <<recorded, events, index, completed, visited, jumped>>
    BY <1>5 DEF SetBreakpoint
  <2>2. new.since \in Nat /\ new.since = IF completed THEN Len(recorded) ELSE index
    BY <1>1
  <2> HIDE DEF new
  <2>3. ASSUME NEW i \in new.since..(Len(events) - 1)
        PROVE  ~(index > i \/ completed)
    BY <1>1, <2>2, <2>3 DEF BreakInv
  <2>4. NoBreakpointPassed'
    BY <2>1, <2>3 DEF BreakInv, NoBreakpointPassed, IdAt, StopsAt
  <2> QED
    BY <2>1, <2>2, <2>4 DEF BreakInv, IdAt
<1>6. ASSUME NEW p \in points, ClearBreakpoint(p)
      PROVE  BreakInv'
  BY <1>6 DEF ClearBreakpoint, BreakInv, NoBreakpointPassed, IdAt, StopsAt
<1>7. CASE StepInto
  <2>1. CASE AtEnd
    BY <1>7, <2>1, CompleteKeeps DEF StepInto
  <2>2. CASE ~AtEnd
    <3>1. /\ CanStep /\ Moved(index + 1, Next1)
          /\ visited' = visited \cup Here(index + 1) /\ UNCHANGED jumped /\ Stay
      BY <1>7, <2>2 DEF StepInto
    <3>2. index < Len(events) /\ index + 1 \in Nat
      BY <1>1, <2>2 DEF AtEnd
    <3>3. CASE jumped
      BY <3>1, <3>3 DEF BreakInv, NoBreakpointPassed, Stay, Moved
    <3>4. CASE ~jumped
      <4>1. IdAt(index) \in visited
        BY <3>2, <3>4 DEF BreakInv
      <4>2. \A i \in (index + 1)..((index + 1) - 1) : i \notin Matches
        BY <1>1
      <4> QED
        BY <1>1, <3>1, <3>2, <4>1, <4>2, ForwardKeeps DEF Moved
    <3> QED
      BY <3>3, <3>4
  <2> QED
    BY <2>1, <2>2
<1>8. CASE StepOver
  <2> DEFINE rest == {i \in (index + 1)..(Len(events) - 1) : events[i + 1].kind # "tool_result"}
  <2>1. Jump /\ Stay
    <3>1. CASE rest = {}
      BY <1>8, <3>1 DEF StepOver, Complete
    <3>2. CASE rest # {}
      BY <1>8, <3>2 DEF StepOver
    <3> QED
      BY <3>1, <3>2
  <2> QED
    BY <2>1, JumpKeeps DEF Stay
<1>9. CASE StepOut
  <2>1. Jump /\ Stay
    BY <1>9 DEF StepOut, Complete
  <2> QED
    BY <2>1, JumpKeeps DEF Stay
<1>10. CASE Continue
  <2>1. CASE Matches = {}
    BY <1>10, <2>1, CompleteKeeps DEF Continue
  <2>2. CASE Matches # {}
    <3>1. PICK j \in Matches :
            /\ \A i \in Matches : j <= i
            /\ Moved(j, IdAt(j)) /\ visited' = visited \cup Here(j)
            /\ UNCHANGED jumped /\ Stay
      BY <1>10, <2>2 DEF Continue
    <3>2. j \in Nat /\ j >= index
      BY <1>1 DEF Matches
    <3>3. \A i \in (index + 1)..(j - 1) : i \notin Matches
      BY <1>1, <3>1, <3>2
    <3>4. index < j => index \notin Matches
      BY <1>1, <3>1, <3>2
    <3> QED
      BY <1>10, <3>1, <3>2, <3>3, <3>4, ForwardKeeps DEF Continue, Moved
  <2> QED
    BY <2>1, <2>2
<1>11. ASSUME NEW id \in Id, RunTo(id)
       PROVE  BreakInv'
  BY <1>11, JumpKeeps DEF RunTo, Stay
<1>12. CASE UNCHANGED stepperVars
  BY <1>12 DEF stepperVars, stateVars, BreakInv, NoBreakpointPassed, IdAt, StopsAt
<1> QED
  BY <1>2, <1>3, <1>4, <1>5, <1>6, <1>7, <1>8, <1>9, <1>10, <1>11, <1>12 DEF StepperNext

\* "Continue to next breakpoint" (stepper.py): whoever only steps into and
\* continues is stopped at every event of every breakpoint set before it is
\* passed, however the session grows meanwhile.
THEOREM BreakpointsStop == StepperSpec => []NoBreakpointPassed
<1>1. StepperInit => BreakInv
  BY EmptySeq DEF StepperInit, BreakInv, NoBreakpointPassed
<1>2. BreakInv => NoBreakpointPassed
  BY DEF BreakInv
<1> QED
  BY <1>1, <1>2, PositionStart, PositionStep, BreakStep, PTL DEF StepperSpec

-----------------------------------------------------------------------------
(* The totals of a session: the inductive invariant *)

Request == [no : Nat, event : Nat, total : Nat, seen : SUBSET Nat]

TotalsTypes ==
  /\ counted \in Nat /\ row \in Nat /\ sent \in Nat
  /\ copies \subseteq Request
  /\ awaits \in [Task \cup {Closer} -> SUBSET Nat]
  /\ \A t \in Task \cup {Closer} : \A n \in awaits[t] : n <= sent
  /\ phase \in {"open", "ending", "final", "closed"}
  /\ underWay \in BOOLEAN /\ landed \in BOOLEAN

\* The last update, alone under way: it carries the total, and if its handler
\* has read the row, then the row as it is.
LastUpdate(r) ==
  /\ copies = {r}
  /\ r.event = 0 /\ r.total = counted
  /\ r.seen \in {Unread, {row}}
  /\ \A t \in Task : r.no \notin awaits[t]

\* What an undisturbed end of the session leads to.
Undisturbed ==
  \/ copies = {} /\ (landed => row = counted)
  \/ ~landed /\ \E r \in copies : LastUpdate(r)

TotalsInv ==
  /\ TotalsTypes
  /\ landed => phase \in {"final", "closed"}
  /\ phase = "closed" => awaits[Closer] = {}
  /\ phase \in {"final", "closed"} /\ ~underWay => Undisturbed

-----------------------------------------------------------------------------
(* The steps *)

LEMMA TotalsStart == TotalsInit => TotalsInv
<1> SUFFICES ASSUME TotalsInit
             PROVE  TotalsInv
  OBVIOUS
<1>1. TotalsTypes
  BY DEF TotalsInit, TotalsTypes
<1> QED
  BY <1>1 DEF TotalsInit, TotalsInv

\* A request that is sent beside the last update disturbs it.
LEMMA SendingKeeps ==
  ASSUME TotalsInv, NEW t \in Task, RecordError(t) \/ RecordToolError(t)
  PROVE  TotalsInv'
<1>1. EventRequest(sent + 1, sent + 1) \in Request
  BY DEF TotalsInv, TotalsTypes, EventRequest, Request, Unread
<1>2. \A n \in Nat : UpdateRequest(n, counted + 1) \in Request
  BY DEF TotalsInv, TotalsTypes, UpdateRequest, Request, Unread
<1>3. sent' \in Nat /\ sent < sent' /\ counted' \in Nat /\ copies' \subseteq Request
  <2>1. CASE RecordError(t)
    BY <1>1, <1>2, <2>1 DEF RecordError, TotalsInv, TotalsTypes
  <2>2. CASE RecordToolError(t)
    BY <1>2, <2>2 DEF RecordToolError, TotalsInv, TotalsTypes
  <2> QED
    BY <2>1, <2>2
<1>4. /\ awaits' \in [Task \cup {Closer} -> SUBSET Nat]
      /\ \A o \in Task \cup {Closer} : \A n \in awaits'[o] : n <= sent'
      /\ awaits'[Closer] = awaits[Closer]
  <2>1. CASE RecordError(t)
    BY <2>1, CloserAssumption DEF RecordError, TotalsInv, TotalsTypes
  <2>2. CASE RecordToolError(t)
    BY <2>2, CloserAssumption DEF RecordToolError, TotalsInv, TotalsTypes
  <2> QED
    BY <2>1, <2>2
<1>5. /\ UNCHANGED <<row, phase, landed>> /\ phase # "closed"
      /\ underWay' = (underWay \/ phase = "final")
  BY DEF RecordError, RecordToolError
<1> QED
  BY <1>3, <1>4, <1>5 DEF TotalsInv, TotalsTypes

LEMMA EndKeeps ==
  ASSUME TotalsInv, EndSession \/ FinalUpdate
  PROVE  TotalsInv'
<1>1. /\ sent' = sent + 1
      /\ copies' = copies \cup {UpdateRequest(sent + 1, counted)}
      /\ awaits' = [awaits EXCEPT ![Closer] = {sent + 1}]
      /\ UNCHANGED <<counted, row, landed>>
      /\ phase \in {"open", "ending"} /\ phase' \in {"ending", "final"}
      /\ underWay' \in BOOLEAN
      /\ phase' = "final" => underWay' = (copies # {})
  BY DEF EndSession, FinalUpdate, TotalsInv, TotalsTypes
<1>2. UpdateRequest(sent + 1, counted) \in Request
  BY DEF TotalsInv, TotalsTypes, UpdateRequest, Request, Unread
<1>3. TotalsTypes'
  BY <1>1, <1>2 DEF TotalsInv, TotalsTypes
<1>4. ASSUME phase' = "final", ~underWay'
      PROVE  Undisturbed'
  <2>1. ~landed' /\ copies' = {UpdateRequest(sent + 1, counted)}
    BY <1>1, <1>4 DEF TotalsInv
  <2>2. \A t \in Task : sent + 1 \notin awaits'[t]
    <3>1. ASSUME NEW t \in Task, sent + 1 \in awaits[t]
          PROVE  FALSE
      <4>1. sent \in Nat /\ sent + 1 <= sent
        BY <3>1 DEF TotalsInv, TotalsTypes
      <4> QED
        BY <4>1
    <3>2. \A t \in Task : awaits'[t] = awaits[t]
      BY <1>1, CloserAssumption DEF TotalsInv, TotalsTypes
    <3> QED
      BY <3>1, <3>2
  <2>3. PICK u : u = UpdateRequest(sent + 1, counted)
    OBVIOUS
  <2>4. copies' = {u} /\ u.no = sent + 1 /\ u.event = 0 /\ u.total = counted /\ u.seen = Unread
    BY <2>1, <2>3 DEF UpdateRequest
  <2>5. LastUpdate(u)'
    BY <1>1, <2>2, <2>4 DEF LastUpdate, Unread
  <2> QED
    BY <2>1, <2>4, <2>5 DEF Undisturbed
<1> QED
  BY <1>1, <1>3, <1>4 DEF TotalsInv

LEMMA CloseKeeps ==
  ASSUME TotalsInv, Close
  PROVE  TotalsInv'
<1>1. TotalsTypes'
  BY DEF TotalsInv, TotalsTypes, Close
<1>2. Undisturbed => Undisturbed'
  BY DEF Close, Undisturbed, LastUpdate
<1> QED
  BY <1>1, <1>2 DEF TotalsInv, Close

LEMMA ResendKeeps ==
  ASSUME TotalsInv, NEW t \in Task \cup {Closer}, NEW r \in copies, Resend(t, r)
  PROVE  TotalsInv'
<1>1. [r EXCEPT !.no = sent + 1, !.seen = Unread] \in Request
  <2>1. r \in Request /\ sent + 1 \in Nat /\ Unread \in SUBSET Nat
    BY DEF TotalsInv, TotalsTypes, Unread
  <2> QED
    BY <2>1 DEF Request
<1>2. TotalsTypes'
  BY <1>1 DEF TotalsInv, TotalsTypes, Resend
<1>3. ASSUME phase' \in {"final", "closed"}, ~underWay'
      PROVE  FALSE
  <2>1. phase = "closed" /\ ~underWay
    BY <1>3 DEF Resend, TotalsInv, TotalsTypes
  <2>2. PICK q \in copies : LastUpdate(q)
    BY <2>1 DEF TotalsInv, Undisturbed
  <2>3. r.no \notin awaits[t]
    BY <2>1, <2>2 DEF LastUpdate, TotalsInv
  <2> QED
    BY <2>3 DEF Resend
<1>4. phase' = phase /\ landed' = landed
  BY DEF Resend
<1>5. phase' = "closed" => awaits'[Closer] = {}
  BY DEF Resend, TotalsInv, TotalsTypes
<1> QED
  BY <1>2, <1>3, <1>4, <1>5 DEF TotalsInv

LEMMA GiveUpKeeps ==
  ASSUME TotalsInv, NEW t \in Task \cup {Closer}, NEW r \in copies, GiveUp(t, r)
  PROVE  TotalsInv'
<1>1. /\ copies' \in {copies, copies \ {r}}
      /\ awaits' = [awaits EXCEPT ![t] = @ \ {r.no}]
      /\ UNCHANGED <<counted, row, sent, phase, underWay, landed>>
  BY DEF GiveUp
<1>2. TotalsTypes' /\ \A o \in Task \cup {Closer} : awaits'[o] \subseteq awaits[o]
  BY <1>1 DEF TotalsInv, TotalsTypes
<1>3. ASSUME Undisturbed
      PROVE  Undisturbed'
  <2>1. CASE copies = {}
    BY <2>1, <1>1, <1>3 DEF Undisturbed, LastUpdate
  <2>2. CASE copies # {}
    <3>1. ~landed /\ LastUpdate(r)
      BY <2>2, <1>3 DEF Undisturbed, LastUpdate
    <3>2. CASE copies' = copies
      BY <3>1, <3>2, <1>1, <1>2 DEF Undisturbed, LastUpdate
    <3>3. CASE copies' = copies \ {r}
      BY <3>1, <3>3, <1>1 DEF Undisturbed, LastUpdate
    <3> QED
      BY <3>2, <3>3, <1>1
  <2> QED
    BY <2>1, <2>2
<1> QED
  BY <1>1, <1>2, <1>3 DEF TotalsInv

\* What an answer leaves of the types.
LEMMA AnsweredTypes ==
  ASSUME TotalsInv, NEW r \in copies, Answered(r), row' \in Nat,
         UNCHANGED <<counted, sent, phase, underWay>>
  PROVE  /\ TotalsTypes' /\ copies' = copies \ {r}
         /\ landed' => phase' \in {"final", "closed"}
         /\ phase' = "closed" => awaits'[Closer] = {}
<1>1. /\ copies' = copies \ {r}
      /\ awaits' = [t \in Task \cup {Closer} |-> awaits[t] \ {r.no}]
      /\ landed' = (landed \/ (phase = "final" /\ r.no \in awaits[Closer]))
  BY DEF Answered
<1>2. TotalsTypes'
  BY <1>1 DEF TotalsInv, TotalsTypes
<1> QED
  BY <1>1, <1>2 DEF TotalsInv

LEMMA StoreErrorKeeps ==
  ASSUME TotalsInv, NEW r \in copies, StoreError(r)
  PROVE  TotalsInv'
<1>1. row' \in Nat /\ UNCHANGED <<counted, sent, phase, underWay>> /\ Answered(r)
  BY DEF StoreError, TotalsInv, TotalsTypes
<1>2. ~Undisturbed
  BY DEF StoreError, Undisturbed, LastUpdate
<1> QED
  BY <1>1, <1>2, AnsweredTypes DEF TotalsInv

LEMMA LoadTotalsKeeps ==
  ASSUME TotalsInv, NEW r \in copies, LoadTotals(r)
  PROVE  TotalsInv'
<1> DEFINE q == [r EXCEPT !.seen = {row}]
<1>1. /\ r \in Request /\ row \in Nat
      /\ copies' = (copies \ {r}) \cup {q}
      /\ UNCHANGED <<counted, row, sent, awaits, phase, underWay, landed>>
  BY DEF LoadTotals, TotalsInv, TotalsTypes
<1>2. q \in Request /\ q.no = r.no /\ q.event = r.event /\ q.total = r.total /\ q.seen = {row}
  BY <1>1 DEF Request
<1> HIDE DEF q
<1>3. TotalsTypes'
  BY <1>1, <1>2 DEF TotalsInv, TotalsTypes
<1>4. ASSUME Undisturbed
      PROVE  Undisturbed'
  <2>1. ~landed /\ LastUpdate(r)
    BY <1>4 DEF Undisturbed, LastUpdate
  <2>2. copies' = {q}
    BY <2>1, <1>1 DEF LastUpdate
  <2> QED
    BY <2>1, <2>2, <1>1, <1>2 DEF Undisturbed, LastUpdate
<1> QED
  BY <1>1, <1>3, <1>4 DEF TotalsInv

LEMMA WriteTotalsKeeps ==
  ASSUME TotalsInv, NEW r \in copies, WriteTotals(r)
  PROVE  TotalsInv'
<1>1. /\ r \in Request /\ UNCHANGED <<counted, sent, phase, underWay>> /\ Answered(r)
      /\ row' = IF {r.total} # r.seen THEN r.total ELSE row
  BY DEF WriteTotals, TotalsInv, TotalsTypes
<1>2. row' \in Nat
  BY <1>1 DEF TotalsInv, TotalsTypes, Request
<1>3. ASSUME Undisturbed
      PROVE  Undisturbed'
  <2>1. LastUpdate(r) /\ r.seen = {row}
    BY <1>3 DEF Undisturbed, LastUpdate, WriteTotals
  <2>2. row' = counted /\ copies' = {}
    BY <2>1, <1>1 DEF LastUpdate, Answered
  <2> QED
    BY <2>2, <1>1 DEF Undisturbed
<1> QED
  BY <1>1, <1>2, <1>3, AnsweredTypes DEF TotalsInv

-----------------------------------------------------------------------------
(* The theorem *)

LEMMA TotalsStep == TotalsInv /\ [TotalsNext]_totalsVars => TotalsInv'
<1>1. ASSUME TotalsInv, TotalsNext
      PROVE  TotalsInv'
  BY <1>1, SendingKeeps, EndKeeps, CloseKeeps, ResendKeeps, GiveUpKeeps, StoreErrorKeeps,
     LoadTotalsKeeps, WriteTotalsKeeps DEF TotalsNext
<1>2. TotalsInv /\ UNCHANGED totalsVars => TotalsInv'
  BY DEF TotalsInv, totalsVars, TotalsTypes, Undisturbed, LastUpdate
<1> QED
  BY <1>1, <1>2

\* The error column settles (repository.py, add_event, and session_repo.py,
\* update_session, against the SDK's recorders and transport): whatever was lost,
\* sent twice or answered late before, a session whose last update was answered,
\* with nothing else under way, shows what the SDK counted.
THEOREM TotalsSettled == TotalsSpec => []TotalsSettle
<1>1. TotalsInv => TotalsSettle
  <2> SUFFICES ASSUME TotalsInv, landed, ~underWay
               PROVE  row = counted
    BY DEF TotalsSettle
  <2>1. Undisturbed
    BY DEF TotalsInv
  <2> QED
    BY <2>1 DEF Undisturbed
<1> QED
  BY <1>1, TotalsStart, TotalsStep, PTL DEF TotalsSpec

-----------------------------------------------------------------------------
(* The file exporter: the inductive invariant *)

TextOf == [json : {"empty", "whole", "torn"}, counts : SUBSET Export]

ExporterTypes ==
  /\ named \in [File -> Export \cup {First}] /\ temp \in [File -> Export \cup {NoFile}]
  /\ text \in [File -> [Export \cup {First} -> TextOf]]
  /\ at \in [Export -> 1..4]
  /\ step \in [Export -> {"read", "open", "dump", "replace", "error", "dead"}]
  /\ base \in [Export -> SUBSET Export] /\ handle \in [Export -> Export \cup {NoFile}]
  /\ shared \subseteq File
  /\ \A e \in Export : at[e] = 1 => step[e] # "read" /\ base[e] = {}

\* e has begun with f and is not through with it.
Working(e, f) ==
  /\ at[e] = Place(f)
  /\ step[e] \in {"dump", "replace"} \/ (step[e] = "open" /\ f # "session")

\* o has come past its OpenTemp of f, or will never come to it.
PastOpen(o, f) ==
  \/ Place(f) < at[o]
  \/ at[o] = Place(f) /\ step[o] \in {"dump", "replace", "error", "dead"}

Done(f) == {e \in Export : Place(f) < at[e]}

\* A temporary file is not the file itself, and a new one is neither.
FilesApart(f) ==
  /\ named[f] # First => PastOpen(named[f], f)
  /\ temp[f] # NoFile => PastOpen(temp[f], f) /\ temp[f] # named[f]

\* What one export at a time makes of a file.
WorkOf(e, f) ==
  /\ step[e] \in {"dump", "replace"} => temp[f] # NoFile /\ handle[e] = temp[f]
  /\ step[e] = "dump" => text[f][temp[f]] = Empty
  /\ step[e] = "replace" => text[f][temp[f]] = Whole(base[e] \cup {e})
  /\ f # "session" => base[e] = Done(f)

OneAtATime(f) ==
  /\ \A e, o \in Export : Working(e, f) /\ Working(o, f) => e = o
  /\ \A e \in Export : Working(e, f) => WorkOf(e, f)
  /\ text[f][named[f]].json = "whole"
  /\ f # "session" => text[f][named[f]].counts = Done(f)

ExporterInv ==
  /\ ExporterTypes
  /\ \A f \in File : FilesApart(f)
  /\ \A f \in File \ shared : OneAtATime(f)

-----------------------------------------------------------------------------
(* The files and their places in the plan *)

LEMMA PlaceOf ==
  /\ Place("session") = 1 /\ Place("patterns") = 2 /\ Place("entities") = 3
<1>1. 1..3 = {1, 2, 3}
  OBVIOUS
<1>2. WriteOrder[1] = "session" /\ WriteOrder[2] = "patterns" /\ WriteOrder[3] = "entities"
  BY DEF WriteOrder
<1>3. /\ "session" # "patterns" /\ "session" # "entities" /\ "patterns" # "entities"
  OBVIOUS
<1>4. Place("session") = 1
  BY <1>1, <1>2, <1>3 DEF Place
<1>5. Place("patterns") = 2
  BY <1>1, <1>2, <1>3 DEF Place
<1>6. Place("entities") = 3
  BY <1>1, <1>2, <1>3 DEF Place
<1> QED
  BY <1>4, <1>5, <1>6

LEMMA PlacesApart ==
  ASSUME NEW f \in File
  PROVE  /\ Place(f) \in 1..3 /\ WriteOrder[Place(f)] = f
         /\ Place(f) = 1 <=> f = "session"
         /\ \A g \in File : Place(g) = Place(f) => g = f
<1>1. CASE f = "session"
  BY <1>1, PlaceOf DEF File, WriteOrder
<1>2. CASE f = "patterns"
  BY <1>2, PlaceOf DEF File, WriteOrder
<1>3. CASE f = "entities"
  BY <1>3, PlaceOf DEF File, WriteOrder
<1> QED
  BY <1>1, <1>2, <1>3 DEF File

LEMMA AtPlace ==
  ASSUME ExporterTypes, NEW e \in Export, NEW f \in File, NEW s
  PROVE  At(e, f, s) <=> at[e] = Place(f) /\ step[e] = s
<1>1. at[e] \in 1..4
  BY DEF ExporterTypes
<1>2. ASSUME at[e] <= 3, f = WriteOrder[at[e]]
      PROVE  at[e] = Place(f)
  <2>1. at[e] = 1 \/ at[e] = 2 \/ at[e] = 3
    BY <1>1, <1>2
  <2> QED
    BY <2>1, <1>2, PlaceOf DEF WriteOrder
<1>3. ASSUME at[e] = Place(f)
      PROVE  at[e] <= 3 /\ f = WriteOrder[at[e]]
  BY <1>3, PlacesApart
<1> QED
  BY <1>2, <1>3 DEF At

\* Share is what it says: e has f to itself, or f is shared from now on.
LEMMA SharedOrAlone ==
  ASSUME ExporterTypes, NEW e \in Export, NEW f \in File, Share(e, f)
  PROVE  /\ shared' \subseteq File
         /\ \A g \in File \ {f} : g \in shared' <=> g \in shared
         /\ f \notin shared' => f \notin shared /\ \A o \in Export \ {e} : ~Working(o, f)
<1>1. ASSUME f \notin shared', NEW o \in Export \ {e}, Working(o, f)
      PROVE  FALSE
  <2>1. at[o] <= 3 /\ WriteOrder[at[o]] = f
    BY <1>1, PlacesApart DEF Working
  <2>2. shared' = shared \cup {f}
    BY <2>1, <1>1 DEF Share, Working
  <2> QED
    BY <2>2, <1>1
<1>2. shared' = shared \cup {f} \/ shared' = shared
  BY DEF Share
<1> QED
  BY <1>1, <1>2 DEF ExporterTypes

-----------------------------------------------------------------------------
(* What a step of e at f leaves of the other files *)

OnlyAt(e, f) ==
  /\ at[e] = Place(f)
  /\ \A o \in Export \ {e} :
       /\ at'[o] = at[o] /\ step'[o] = step[o]
       /\ base'[o] = base[o] /\ handle'[o] = handle[o]
  /\ at'[e] = at[e] \/ (at'[e] = at[e] + 1 /\ step'[e] = "read")
  /\ \A g \in File \ {f} :
       /\ named'[g] = named[g] /\ temp'[g] = temp[g] /\ text'[g] = text[g]
       /\ g \in shared' <=> g \in shared

LEMMA OtherFilesKept ==
  ASSUME ExporterInv, ExporterTypes', NEW e \in Export, NEW f \in File, OnlyAt(e, f),
         NEW g \in File \ {f}
  PROVE  FilesApart(g)' /\ (g \notin shared' => OneAtATime(g)')
<1>1. Place(f) \in 1..3 /\ Place(g) \in 1..3 /\ Place(f) # Place(g)
  BY PlacesApart
<1>2. ASSUME NEW o \in Export
      PROVE  /\ Place(g) < at'[o] <=> Place(g) < at[o]
             /\ PastOpen(o, g) <=> PastOpen(o, g)'
             /\ Working(o, g)' <=> Working(o, g)
  <2>1. CASE o # e
    BY <2>1 DEF OnlyAt, PastOpen, Working
  <2>2. CASE o = e
    <3>1. at[e] = Place(f) /\ (at'[e] = at[e] \/ (at'[e] = at[e] + 1 /\ step'[e] = "read"))
      BY DEF OnlyAt
    <3>2. Place(g) < at'[e] <=> Place(g) < at[e]
      BY <3>1, <1>1
    <3>3. at'[e] = Place(g) => step'[e] = "read"
      BY <3>1, <1>1
    <3>4. at[e] # Place(g)
      BY <3>1, <1>1
    <3> QED
      BY <2>2, <3>2, <3>3, <3>4 DEF PastOpen, Working
  <2> QED
    BY <2>1, <2>2
<1>3. Done(g)' = Done(g)
  BY <1>2 DEF Done
<1>4. named'[g] = named[g] /\ temp'[g] = temp[g] /\ text'[g] = text[g]
  BY DEF OnlyAt
<1>5. named[g] \in Export \cup {First} /\ temp[g] \in Export \cup {NoFile} /\ FilesApart(g)
  BY DEF ExporterInv, ExporterTypes
<1>6. FilesApart(g)'
  BY <1>2, <1>4, <1>5 DEF FilesApart
<1>7. ASSUME g \notin shared'
      PROVE  OneAtATime(g)'
  <2>1. OneAtATime(g)
    BY <1>7 DEF OnlyAt, ExporterInv
  <2>2. ASSUME NEW o \in Export, Working(o, g)'
        PROVE  WorkOf(o, g)'
    <3>1. Working(o, g) /\ WorkOf(o, g)
      BY <1>2, <2>1, <2>2 DEF OneAtATime
    <3>2. o # e
      BY <3>1, <1>1 DEF Working, OnlyAt
    <3>3. step'[o] = step[o] /\ base'[o] = base[o] /\ handle'[o] = handle[o]
      BY <3>2 DEF OnlyAt
    <3> QED
      BY <3>1, <3>3, <1>3, <1>4 DEF WorkOf
  <2>3. \A o, p \in Export : Working(o, g)' /\ Working(p, g)' => o = p
    BY <1>2, <2>1 DEF OneAtATime
  <2> QED
    BY <2>1, <2>2, <2>3, <1>3, <1>4 DEF OneAtATime
<1> QED
  BY <1>6, <1>7

\* So a step at f is right when it is right at f.
LEMMA StepAt ==
  ASSUME ExporterInv, ExporterTypes', NEW e \in Export, NEW f \in File, OnlyAt(e, f),
         FilesApart(f)', f \notin shared' => OneAtATime(f)'
  PROVE  ExporterInv'
<1>1. \A g \in File : FilesApart(g)'
  BY OtherFilesKept
<1>2. \A g \in File : g \notin shared' => OneAtATime(g)'
  BY OtherFilesKept
<1> QED
  BY <1>1, <1>2 DEF ExporterInv

\* Whoever has come past its OpenTemp of f stays so, and with it f's files.
LEMMA PastOpenStays ==
  ASSUME ExporterInv, ExporterTypes', NEW e \in Export, NEW f \in File, OnlyAt(e, f),
         PastOpen(e, f) => PastOpen(e, f)'
  PROVE  \A o \in Export : PastOpen(o, f) => PastOpen(o, f)'
BY DEF PastOpen, OnlyAt

LEMMA FilesKeptApart ==
  ASSUME ExporterInv, ExporterTypes', NEW e \in Export, NEW f \in File, OnlyAt(e, f),
         PastOpen(e, f) => PastOpen(e, f)',
         named'[f] = named[f], temp'[f] = temp[f]
  PROVE  FilesApart(f)'
<1>1. named[f] \in Export \cup {First} /\ temp[f] \in Export \cup {NoFile} /\ FilesApart(f)
  BY DEF ExporterInv, ExporterTypes
<1>2. \A o \in Export : PastOpen(o, f) => PastOpen(o, f)'
  BY PastOpenStays
<1> HIDE DEF PastOpen
<1> QED
  BY <1>1, <1>2 DEF FilesApart

-----------------------------------------------------------------------------
(* The steps *)

LEMMA ReadIndexKeeps ==
  ASSUME ExporterInv, NEW e \in Export, NEW f \in File, ReadIndex(e, f)
  PROVE  ExporterInv'
<1>1. ExporterTypes /\ Place(f) \in 1..3
  BY PlacesApart DEF ExporterInv
<1>2. at[e] = Place(f) /\ step[e] = "read"
  BY <1>1, AtPlace DEF ReadIndex
<1>3. f # "session"
  BY <1>1, <1>2, PlacesApart DEF ExporterTypes
<1>4. /\ shared' \subseteq File
      /\ \A g \in File \ {f} : g \in shared' <=> g \in shared
      /\ f \notin shared' => f \notin shared /\ \A o \in Export \ {e} : ~Working(o, f)
  BY <1>1, SharedOrAlone DEF ReadIndex
<1>5. UNCHANGED <<named, temp, text, at, handle>>
  BY DEF ReadIndex
<1>6. \/ /\ text[f][named[f]].json = "whole"
         /\ base' = [base EXCEPT ![e] = text[f][named[f]].counts]
         /\ step' = [step EXCEPT ![e] = "open"]
      \/ base' = base /\ step' = [step EXCEPT ![e] = "error"]
  BY DEF ReadIndex, Do
<1>7. text[f][named[f]] \in TextOf
  BY <1>1 DEF ExporterTypes
<1>8. at[e] # 1
  BY <1>1, <1>2, <1>3, PlacesApart
<1>9. ExporterTypes'
  <2>1. base' \in [Export -> SUBSET Export]
    BY <1>1, <1>6, <1>7 DEF ExporterTypes, TextOf
  <2>2. step' \in [Export -> {"read", "open", "dump", "replace", "error", "dead"}]
    BY <1>1, <1>6 DEF ExporterTypes
  <2>3. \A o \in Export : at'[o] = 1 => step'[o] # "read" /\ base'[o] = {}
    BY <1>1, <1>5, <1>6, <1>8 DEF ExporterTypes
  <2> QED
    BY <1>1, <1>4, <1>5, <2>1, <2>2, <2>3 DEF ExporterTypes
<1>10. OnlyAt(e, f)
  BY <1>1, <1>2, <1>4, <1>5, <1>6 DEF OnlyAt, ExporterTypes
<1>11. FilesApart(f)'
  <2>1. PastOpen(e, f) => PastOpen(e, f)'
    BY <1>1, <1>2 DEF PastOpen
  <2> QED
    BY <2>1, <1>5, <1>9, <1>10, FilesKeptApart
<1>12. ASSUME f \notin shared'
       PROVE  OneAtATime(f)'
  <2>1. OneAtATime(f) /\ Done(f)' = Done(f)
    BY <1>4, <1>5, <1>12 DEF ExporterInv, Done
  <2>2. \A o \in Export : Working(o, f)' => o = e
    BY <1>4, <1>10, <1>12 DEF Working, OnlyAt
  <2>3. ASSUME Working(e, f)'
        PROVE  WorkOf(e, f)'
    <3>1. step'[e] = "open" /\ base'[e] = text[f][named[f]].counts
      BY <1>1, <1>6, <2>3 DEF Working, ExporterTypes
    <3> QED
      BY <3>1, <2>1, <1>3 DEF WorkOf, OneAtATime
  <2> QED
    BY <2>1, <2>2, <2>3, <1>5 DEF OneAtATime
<1> QED
  BY <1>9, <1>10, <1>11, <1>12, StepAt

LEMMA OpenTempKeeps ==
  ASSUME ExporterInv, NEW e \in Export, NEW f \in File, OpenTemp(e, f)
  PROVE  ExporterInv'
<1>1. ExporterTypes /\ Place(f) \in 1..3 /\ FilesApart(f)
  BY PlacesApart DEF ExporterInv
<1>2. at[e] = Place(f) /\ step[e] = "open"
  BY <1>1, AtPlace DEF OpenTemp
<1>3. /\ shared' \subseteq File
      /\ \A g \in File \ {f} : g \in shared' <=> g \in shared
      /\ f \notin shared' => f \notin shared
      /\ f \notin shared' => \A o \in Export \ {e} : ~Working(o, f)
  <2>1. CASE f = "session"
    BY <2>1, <1>1, SharedOrAlone DEF OpenTemp
  <2>2. CASE f # "session"
    <3>1. shared' = shared /\ Working(e, f)
      BY <2>2, <1>2 DEF OpenTemp, Working
    <3> QED
      BY <3>1, <1>1 DEF ExporterInv, OneAtATime, ExporterTypes
  <2> QED
    BY <2>1, <2>2
<1>4. PICK x : /\ x = IF temp[f] = NoFile THEN e ELSE temp[f]
               /\ handle' = [handle EXCEPT ![e] = x]
               /\ temp' = [temp EXCEPT ![f] = x]
               /\ text' = [text EXCEPT ![f][x] = Empty]
  BY DEF OpenTemp
<1>5. step' = [step EXCEPT ![e] = "dump"] /\ UNCHANGED <<named, at, base>>
  BY DEF OpenTemp, Do
<1>6. x \in Export /\ x # NoFile /\ x # First
  BY <1>1, <1>4, ExportAssumption DEF ExporterTypes
<1>7. x # named[f]
  <2>1. CASE temp[f] = NoFile
    <3>1. ~PastOpen(e, f)
      BY <1>1, <1>2 DEF PastOpen
    <3> QED
      BY <2>1, <3>1, <1>1, <1>4, <1>6 DEF FilesApart
  <2>2. CASE temp[f] # NoFile
    BY <2>2, <1>1, <1>4 DEF FilesApart
  <2> QED
    BY <2>1, <2>2
<1>8. Empty \in TextOf
  BY DEF Empty, TextOf
<1>9. ExporterTypes'
  <2>1. text' \in [File -> [Export \cup {First} -> TextOf]]
    BY <1>1, <1>4, <1>8 DEF ExporterTypes
  <2>2. temp' \in [File -> Export \cup {NoFile}] /\ handle' \in [Export -> Export \cup {NoFile}]
    BY <1>1, <1>4, <1>6 DEF ExporterTypes
  <2>3. step' \in [Export -> {"read", "open", "dump", "replace", "error", "dead"}]
    BY <1>1, <1>5 DEF ExporterTypes
  <2>4. \A o \in Export : at'[o] = 1 => step'[o] # "read" /\ base'[o] = {}
    BY <1>1, <1>5 DEF ExporterTypes
  <2> QED
    BY <1>1, <1>3, <1>5, <2>1, <2>2, <2>3, <2>4 DEF ExporterTypes
<1>10. OnlyAt(e, f)
  BY <1>1, <1>2, <1>3, <1>4, <1>5 DEF OnlyAt, ExporterTypes
<1>11. step'[e] = "dump" /\ handle'[e] = x /\ temp'[f] = x /\ base'[e] = base[e]
  BY <1>1, <1>4, <1>5 DEF ExporterTypes
<1>12. text'[f][x] = Empty /\ text'[f][named[f]] = text[f][named[f]]
  BY <1>1, <1>4, <1>6, <1>7 DEF ExporterTypes
<1>13. FilesApart(f)'
  <2>1. PastOpen(e, f)'
    BY <1>2, <1>5, <1>11 DEF PastOpen
  <2>2. \A o \in Export : PastOpen(o, f) => PastOpen(o, f)'
    BY <2>1, <1>9, <1>10, PastOpenStays
  <2>3. PastOpen(x, f)'
    BY <2>1, <2>2, <1>1, <1>4, <1>6 DEF FilesApart
  <2>4. named[f] # First => PastOpen(named[f], f)
    BY <1>1 DEF FilesApart
  <2>5. PICK n : n = named[f]
    OBVIOUS
  <2>6. n # First => PastOpen(n, f)'
    BY <2>2, <2>4, <2>5, <1>1 DEF ExporterTypes
  <2> QED
    BY <2>3, <2>5, <2>6, <1>5, <1>7, <1>11 DEF FilesApart
<1>14. ASSUME f \notin shared'
       PROVE  OneAtATime(f)'
  <2>1. OneAtATime(f) /\ Done(f)' = Done(f)
    BY <1>3, <1>5, <1>14 DEF ExporterInv, Done
  <2>2. \A o \in Export : Working(o, f)' => o = e
    BY <1>3, <1>10, <1>14 DEF Working, OnlyAt
  <2>3. f # "session" => base[e] = Done(f)
    BY <2>1, <1>2 DEF OneAtATime, WorkOf, Working
  <2>4. WorkOf(e, f)'
    BY <2>1, <2>3, <1>6, <1>11, <1>12 DEF WorkOf
  <2> QED
    BY <2>1, <2>2, <2>4, <1>5, <1>12 DEF OneAtATime
<1> QED
  BY <1>9, <1>10, <1>13, <1>14, StepAt

LEMMA DumpKeeps ==
  ASSUME ExporterInv, NEW e \in Export, NEW f \in File, Dump(e, f)
  PROVE  ExporterInv'
<1>1. ExporterTypes /\ Place(f) \in 1..3 /\ FilesApart(f)
  BY PlacesApart DEF ExporterInv
<1>2. at[e] = Place(f) /\ step[e] = "dump"
  BY <1>1, AtPlace DEF Dump
<1>3. PICK t \in {Whole(base[e] \cup {e}), Torn} :
        /\ t = Torn => text[f][handle[e]].json # "empty"
        /\ text' = [text EXCEPT ![f][handle[e]] = t]
  BY DEF Dump
<1>4. step' = [step EXCEPT ![e] = "replace"] /\ UNCHANGED <<named, temp, at, base, handle, shared>>
  BY DEF Dump, Do
<1>5. t \in TextOf
  BY <1>1 DEF ExporterTypes, TextOf, Whole, Torn
<1>6. ExporterTypes'
  <2>1. text' \in [File -> [Export \cup {First} -> TextOf]]
    BY <1>1, <1>3, <1>5 DEF ExporterTypes
  <2>2. step' \in [Export -> {"read", "open", "dump", "replace", "error", "dead"}]
    BY <1>1, <1>4 DEF ExporterTypes
  <2>3. \A o \in Export : at'[o] = 1 => step'[o] # "read" /\ base'[o] = {}
    BY <1>1, <1>4 DEF ExporterTypes
  <2> QED
    BY <1>1, <1>4, <2>1, <2>2, <2>3 DEF ExporterTypes
<1>7. OnlyAt(e, f)
  BY <1>1, <1>2, <1>3, <1>4 DEF OnlyAt, ExporterTypes
<1>8. step'[e] = "replace"
  BY <1>1, <1>4 DEF ExporterTypes
<1>9. FilesApart(f)'
  <2>1. PastOpen(e, f)'
    BY <1>2, <1>4, <1>8 DEF PastOpen
  <2> QED
    BY <2>1, <1>4, <1>6, <1>7, FilesKeptApart
<1>10. ASSUME f \notin shared'
       PROVE  OneAtATime(f)'
  <2>1. OneAtATime(f) /\ Done(f)' = Done(f)
    BY <1>4, <1>10 DEF ExporterInv, Done
  <2>2. Working(e, f) /\ WorkOf(e, f)
    BY <2>1, <1>2 DEF OneAtATime, Working
  <2>3. temp[f] # NoFile /\ handle[e] = temp[f] /\ text[f][temp[f]] = Empty
    BY <2>2, <1>2 DEF WorkOf
  <2>4. t = Whole(base[e] \cup {e})
    BY <2>3, <1>3 DEF Empty
  <2>5. temp[f] \in Export /\ named[f] # temp[f]
    BY <2>3, <1>1 DEF ExporterTypes, FilesApart
  <2>6. text'[f][temp[f]] = t /\ text'[f][named[f]] = text[f][named[f]]
    BY <2>3, <2>5, <1>1, <1>3 DEF ExporterTypes
  <2>7. \A o \in Export : Working(o, f)' => o = e
    BY <2>1, <2>2, <1>7 DEF Working, OnlyAt, OneAtATime
  <2>8. WorkOf(e, f)'
    BY <2>1, <2>2, <2>3, <2>4, <2>6, <1>4, <1>8 DEF WorkOf
  <2> QED
    BY <2>1, <2>6, <2>7, <2>8, <1>4 DEF OneAtATime
<1> QED
  BY <1>6, <1>7, <1>9, <1>10, StepAt

LEMMA ReplaceFileKeeps ==
  ASSUME ExporterInv, NEW e \in Export, NEW f \in File, ReplaceFile(e, f)
  PROVE  ExporterInv'
<1>1. ExporterTypes /\ Place(f) \in 1..3 /\ FilesApart(f)
  BY PlacesApart DEF ExporterInv
<1>2. at[e] = Place(f) /\ step[e] = "replace"
  BY <1>1, AtPlace DEF ReplaceFile
<1>3. /\ base' = [base EXCEPT ![e] = {}] /\ handle' = [handle EXCEPT ![e] = NoFile]
      /\ UNCHANGED <<text, shared>>
  BY DEF ReplaceFile
<1>4. f \notin shared =>
        /\ OneAtATime(f) /\ Working(e, f) /\ temp[f] # NoFile
        /\ text[f][temp[f]] = Whole(base[e] \cup {e})
        /\ f # "session" => base[e] = Done(f)
  BY <1>1, <1>2 DEF ExporterInv, OneAtATime, Working, WorkOf
<1>5. /\ base' \in [Export -> SUBSET Export] /\ handle' \in [Export -> Export \cup {NoFile}]
      /\ \A o \in Export : o # e => base'[o] = base[o] /\ handle'[o] = handle[o]
      /\ base'[e] = {}
  BY <1>1, <1>3 DEF ExporterTypes
<1>6. ASSUME temp[f] = NoFile
      PROVE  ExporterInv'
  <2>1. step' = [step EXCEPT ![e] = "error"] /\ UNCHANGED <<named, temp, at>>
    BY <1>6 DEF ReplaceFile, Do
  <2>2. step' \in [Export -> {"read", "open", "dump", "replace", "error", "dead"}]
    BY <2>1, <1>1 DEF ExporterTypes
  <2>3. \A o \in Export : at'[o] = 1 => step'[o] # "read" /\ base'[o] = {}
    BY <2>1, <1>1, <1>5 DEF ExporterTypes
  <2>4. ExporterTypes'
    BY <1>1, <1>3, <1>5, <2>1, <2>2, <2>3 DEF ExporterTypes
  <2>5. OnlyAt(e, f)
    BY <1>1, <1>2, <1>3, <1>5, <2>1 DEF OnlyAt, ExporterTypes
  <2>6. PastOpen(e, f)'
    BY <1>1, <1>2, <2>1 DEF PastOpen, ExporterTypes
  <2>7. FilesApart(f)'
    BY <2>1, <2>4, <2>5, <2>6, FilesKeptApart
  <2> QED
    BY <1>3, <1>4, <1>6, <2>4, <2>5, <2>7, StepAt
<1>7. ASSUME temp[f] # NoFile
      PROVE  ExporterInv'
  <2>1. /\ named' = [named EXCEPT ![f] = temp[f]] /\ temp' = [temp EXCEPT ![f] = NoFile]
        /\ at' = [at EXCEPT ![e] = @ + 1] /\ step' = [step EXCEPT ![e] = "read"]
    BY <1>7 DEF ReplaceFile, Do
  <2>2. temp[f] \in Export
    BY <1>1, <1>7 DEF ExporterTypes
  <2>3. at'[e] = Place(f) + 1 /\ step'[e] = "read" /\ named'[f] = temp[f] /\ temp'[f] = NoFile
    BY <1>1, <1>2, <2>1 DEF ExporterTypes
  <2>4. at' \in [Export -> 1..4]
    BY <1>1, <1>2, <2>1 DEF ExporterTypes
  <2>5. ExporterTypes'
    <3>1. named' \in [File -> Export \cup {First}] /\ temp' \in [File -> Export \cup {NoFile}]
      BY <1>1, <2>1, <2>2 DEF ExporterTypes
    <3>2. step' \in [Export -> {"read", "open", "dump", "replace", "error", "dead"}]
      BY <1>1, <2>1 DEF ExporterTypes
    <3>3. \A o \in Export : at'[o] = 1 => step'[o] # "read" /\ base'[o] = {}
      BY <1>1, <1>5, <2>1, <2>3 DEF ExporterTypes
    <3> QED
      BY <1>1, <1>3, <1>5, <2>4, <3>1, <3>2, <3>3 DEF ExporterTypes
  <2>6. OnlyAt(e, f)
    BY <1>1, <1>2, <1>3, <1>5, <2>1, <2>3 DEF OnlyAt, ExporterTypes
  <2>7. PastOpen(e, f)'
    BY <1>1, <2>3 DEF PastOpen
  <2>8. FilesApart(f)'
    <3>1. PICK n : n = temp[f]
      OBVIOUS
    <3>2. PastOpen(n, f)'
      BY <3>1, <2>2, <2>5, <2>6, <2>7, <1>1, <1>7, PastOpenStays DEF FilesApart
    <3> QED
      BY <3>1, <3>2, <2>3 DEF FilesApart
  <2>9. ASSUME f \notin shared'
        PROVE  OneAtATime(f)'
    <3>1. Done(f)' = Done(f) \cup {e}
      <4>1. \A o \in Export : Place(f) < at'[o] <=> Place(f) < at[o] \/ o = e
        BY <1>1, <2>3, <2>6 DEF OnlyAt
      <4> QED
        BY <4>1 DEF Done
    <3>2. \A o \in Export : ~Working(o, f)'
      <4>1. ~Working(e, f)'
        BY <2>3, <1>1 DEF Working
      <4>2. \A o \in Export \ {e} : Working(o, f)' => Working(o, f)
        BY <2>6 DEF Working, OnlyAt
      <4> QED
        BY <4>1, <4>2, <1>3, <1>4, <2>9 DEF OneAtATime
    <3>3. text'[f][named'[f]] = Whole(base[e] \cup {e})
      BY <1>3, <1>4, <2>3, <2>9
    <3> QED
      BY <3>1, <3>2, <3>3, <1>3, <1>4, <2>9 DEF OneAtATime, Whole
  <2> QED
    BY <2>5, <2>6, <2>8, <2>9, StepAt
<1> QED
  BY <1>6, <1>7

LEMMA DieKeeps ==
  ASSUME ExporterInv, NEW e \in Export, NEW f \in File, Die(e, f)
  PROVE  ExporterInv'
<1>1. ExporterTypes /\ Place(f) \in 1..3 /\ FilesApart(f)
  BY PlacesApart DEF ExporterInv
<1>2. at[e] = Place(f)
  BY <1>1, AtPlace DEF Die
<1>3. \/ text' = text
      \/ step[e] = "dump" /\ text' = [text EXCEPT ![f][handle[e]] = Torn]
  BY DEF Die
<1>4. step' = [step EXCEPT ![e] = "dead"] /\ UNCHANGED <<named, temp, at, base, handle, shared>>
  BY DEF Die, Do
<1>5. Torn \in TextOf
  BY DEF Torn, TextOf
<1>6. ExporterTypes'
  <2>1. text' \in [File -> [Export \cup {First} -> TextOf]]
    <3>1. CASE text' = text
      BY <3>1, <1>1 DEF ExporterTypes
    <3>2. CASE text' = [text EXCEPT ![f][handle[e]] = Torn]
      BY <3>2, <1>1, <1>5 DEF ExporterTypes
    <3> QED
      BY <3>1, <3>2, <1>3
  <2>2. step' \in [Export -> {"read", "open", "dump", "replace", "error", "dead"}]
    BY <1>1, <1>4 DEF ExporterTypes
  <2>3. \A o \in Export : at'[o] = 1 => step'[o] # "read" /\ base'[o] = {}
    BY <1>1, <1>4 DEF ExporterTypes
  <2> QED
    BY <1>1, <1>4, <2>1, <2>2, <2>3 DEF ExporterTypes
<1>7. OnlyAt(e, f)
  BY <1>1, <1>2, <1>3, <1>4 DEF OnlyAt, ExporterTypes
<1>8. step'[e] = "dead"
  BY <1>1, <1>4 DEF ExporterTypes
<1>9. FilesApart(f)'
  <2>1. PastOpen(e, f)'
    BY <1>2, <1>4, <1>8 DEF PastOpen
  <2> QED
    BY <2>1, <1>4, <1>6, <1>7, FilesKeptApart
<1>10. ASSUME f \notin shared'
       PROVE  OneAtATime(f)'
  <2>1. OneAtATime(f) /\ Done(f)' = Done(f)
    BY <1>4, <1>10 DEF ExporterInv, Done
  <2>2. text'[f][named[f]] = text[f][named[f]]
    <3>1. CASE text' = text
      BY <3>1
    <3>2. CASE step[e] = "dump" /\ text' = [text EXCEPT ![f][handle[e]] = Torn]
      <4>1. temp[f] # NoFile /\ handle[e] = temp[f]
        BY <2>1, <3>2, <1>2 DEF OneAtATime, Working, WorkOf
      <4>2. handle[e] # named[f]
        BY <4>1, <1>1 DEF FilesApart
      <4> QED
        BY <4>2, <3>2, <1>1 DEF ExporterTypes
    <3> QED
      BY <3>1, <3>2, <1>3
  <2>3. \A o \in Export : Working(o, f)' => o # e /\ Working(o, f)
    BY <1>7, <1>8 DEF Working, OnlyAt
  <2>4. ASSUME NEW o \in Export, Working(o, f)'
        PROVE  WorkOf(o, f)'
    <3>1. o # e /\ Working(o, f) /\ WorkOf(o, f)
      BY <2>1, <2>3, <2>4 DEF OneAtATime
    <3>2. step[e] # "dump"
      BY <3>1, <2>1, <1>2 DEF OneAtATime, Working
    <3> QED
      BY <3>1, <3>2, <2>1, <1>3, <1>4, <1>7 DEF WorkOf, OnlyAt
  <2> QED
    BY <2>1, <2>2, <2>3, <2>4, <1>4 DEF OneAtATime
<1> QED
  BY <1>6, <1>7, <1>9, <1>10, StepAt

-----------------------------------------------------------------------------
(* The theorem *)

LEMMA ExporterStarts == ExporterInit => ExporterInv
<1> SUFFICES ASSUME ExporterInit
             PROVE  ExporterInv
  OBVIOUS
<1>1. \A f \in File : Place(f) \in 1..3 /\ (Place(f) = 1 <=> f = "session")
  BY PlacesApart
<1>2. Empty \in TextOf /\ Whole({}) \in TextOf
  BY DEF Empty, Whole, TextOf
<1>3. ExporterTypes
  BY <1>2 DEF ExporterInit, ExporterTypes
<1>4. ASSUME NEW f \in File
      PROVE  FilesApart(f) /\ OneAtATime(f)
  <2>1. named[f] = First /\ temp[f] = NoFile /\ text[f][First] = Whole({})
    BY DEF ExporterInit
  <2>2. Done(f) = {}
    BY <1>1 DEF Done, ExporterInit
  <2>3. \A e \in Export : ~Working(e, f)
    BY <1>1 DEF Working, ExporterInit
  <2> QED
    BY <2>1, <2>2, <2>3 DEF FilesApart, OneAtATime, Whole
<1> QED
  BY <1>3, <1>4 DEF ExporterInv

LEMMA ExporterStays == ExporterInv /\ UNCHANGED exporterVars => ExporterInv'
<1> SUFFICES ASSUME ExporterInv, UNCHANGED exporterVars
             PROVE  ExporterInv'
  OBVIOUS
<1>1. ExporterTypes'
  BY DEF ExporterInv, exporterVars, ExporterTypes
<1>2. \A f \in File : FilesApart(f)'
  BY DEF ExporterInv, exporterVars, FilesApart, PastOpen
<1>3. \A f \in File : f \notin shared' => OneAtATime(f)'
  BY DEF ExporterInv, exporterVars, OneAtATime, Working, WorkOf, Done
<1> QED
  BY <1>1, <1>2, <1>3 DEF ExporterInv

\* "Write data to a JSON file atomically" (exporters/file.py): for any number of
\* exports, wherever each of them ends, a file that no two of them worked on at
\* once is readable and counts each export that has replaced it, and no other.
THEOREM ExportsAreAtomic == ExporterSpec => []AloneIsAtomic
<1>1. ExporterInv /\ [ExporterNext]_exporterVars => ExporterInv'
  BY ReadIndexKeeps, OpenTempKeeps, DumpKeeps, ReplaceFileKeeps, DieKeeps, ExporterStays
     DEF ExporterNext
<1>2. ExporterInv => AloneIsAtomic
  BY DEF ExporterInv, OneAtATime, AloneIsAtomic, Done
<1> QED
  BY <1>1, <1>2, ExporterStarts, PTL DEF ExporterSpec

-----------------------------------------------------------------------------
(* The focused replay: what its walks have found *)

\* What a walk has found, S, with a stack O still to be emptied, in a window W
\* from g along f.  It is part of every closed set that holds g, and what the
\* references of an event of S lead to is found or on the stack.
FoundBy(W, f, g, S, O) ==
  /\ S \subseteq W /\ g \in S \cup O
  /\ \A x \in S : f[x] \cap W \subseteq S \cup O
  /\ \A T \in SUBSET W : g \in T /\ (\A x \in T : f[x] \cap W \subseteq T) =>
       S \cup (O \cap W) \subseteq T

RefsOf == [e \in Event |-> Refs(e)]
ChildrenOfEvent == [e \in Event |-> Children(e)]

ReplayTypes ==
  /\ parent \in [Event -> Event \cup {Nowhere}]
  /\ upstream \in [Event -> SUBSET Event]
  /\ \E n \in Nat : checkpoints \in [1..n -> Event \cup {Nowhere}]
  /\ focus \in Event \cup {Nowhere} /\ start \in Event
  /\ stage \in {"given", "ancestors", "descendants", "done"}

Walking == stage \in {"ancestors", "descendants"} => Scoped /\ focus # Nowhere
Before == stage = "given" => open = {} /\ seen = {} /\ up = {} /\ down = {}

Branch ==
  Scoped /\ focus # Nowhere =>
    /\ stage # "given" => focus \in Window
    /\ stage = "ancestors" =>
         /\ down = {} /\ seen \cap Window = up
         /\ FoundBy(Window, RefsOf, focus, up, open)
    /\ stage \in {"descendants", "done"} => FoundBy(Window, RefsOf, focus, up, {})
    /\ stage = "descendants" =>
         /\ seen \cap Window = down
         /\ FoundBy(Window, ChildrenOfEvent, focus, down, open)
    /\ stage = "done" =>
         /\ shown = up \cup down \cup {start}
         /\ FoundBy(Window, ChildrenOfEvent, focus, down, {})

BranchInv == ReplayTypes /\ Walking /\ Before /\ Branch

-----------------------------------------------------------------------------
\* A bounded set of numbers has a greatest one.
LEMMA GreatestExists ==
  ASSUME NEW n \in Nat, NEW S, S \subseteq 1..n, S # {}
  PROVE  \E m \in S : \A x \in S : x <= m
<1> DEFINE T == {k \in Nat : n - k \in S}
<1>1. T \subseteq Nat
  OBVIOUS
<1>2. T # {}
  <2>1. PICK s \in S : TRUE
    OBVIOUS
  <2>2. n - s \in Nat /\ n - (n - s) = s
    BY <2>1
  <2> QED
    BY <2>1, <2>2
<1>3. PICK k \in T : \A j \in T : ~(<<j, k>> \in OpToRel(<, Nat))
  BY <1>1, <1>2, NatLessThanWellFounded, WFMin
<1>4. \A j \in T : k <= j
  <2> TAKE j \in T
  <2>1. ~(j < k)
    BY <1>1, <1>3 DEF OpToRel
  <2> QED
    BY <2>1
<1>5. \A x \in S : x <= n - k
  <2> TAKE x \in S
  <2>1. n - x \in T
    <3>1. n - x \in Nat /\ n - (n - x) = x
      OBVIOUS
    <3> QED
      BY <3>1
  <2>2. k \in Nat /\ k <= n - x
    BY <1>4, <2>1
  <2> QED
    BY <2>2
<1> QED
  BY <1>5

\* Taking an event from the stack: a new one of the window is found and its
\* references are stacked, any other leads nowhere.
LEMMA TakeFromStack ==
  ASSUME NEW W, NEW f, NEW g \in W, NEW S, NEW O, NEW e \in O, FoundBy(W, f, g, S, O)
  PROVE  /\ e \in W => FoundBy(W, f, g, S \cup {e}, (O \ {e}) \cup f[e])
         /\ e \in S \/ e \notin W => FoundBy(W, f, g, S, O \ {e})
<1>1. ASSUME e \in W
      PROVE  FoundBy(W, f, g, S \cup {e}, (O \ {e}) \cup f[e])
  BY <1>1 DEF FoundBy
<1>2. ASSUME e \in S \/ e \notin W
      PROVE  FoundBy(W, f, g, S, O \ {e})
  BY <1>2 DEF FoundBy
<1> QED
  BY <1>1, <1>2

\* With the stack empty, what is found is the least closed set.
LEMMA FoundIsLeast ==
  ASSUME NEW f, NEW S, FoundBy(Window, f, focus, S, {})
  PROVE  /\ S \subseteq Window /\ focus \in S
         /\ \A x \in S : f[x] \cap Window \subseteq S
         /\ \A T \in SUBSET Window :
              focus \in T /\ (\A x \in T : f[x] \cap Window \subseteq T) => S \subseteq T
  BY DEF FoundBy

-----------------------------------------------------------------------------
LEMMA TargetType ==
  ASSUME ReplayTypes
  PROVE  Target \in Event \cup {Nowhere}
<1>1. CASE mode = "failure" /\ Failing # {}
  <2>1. \E f \in Failing : \A g \in Failing : g <= f
    BY <1>1, ReplayAssumption, GreatestExists DEF Event
  <2>2. Target \in Failing
    BY <1>1, <2>1 DEF Target
  <2> QED
    BY <2>2, ReplayAssumption
<1>2. CASE ~(mode = "failure" /\ Failing # {})
  BY <1>2 DEF Target, ReplayTypes
<1> QED
  BY <1>1, <1>2

\* The window holds the target, whichever checkpoint is chosen.
LEMMA StartBeforeTarget ==
  ASSUME ReplayTypes, NEW target \in Event
  PROVE  StartAt(target) \in Event /\ StartAt(target) <= target
<1> DEFINE U == UsableCheckpoints(target)
<1>1. 1 \in Event /\ target \in Nat /\ 1 <= target /\ target # Nowhere
  BY ReplayAssumption DEF Event, Nowhere
<1>2. CASE U = {}
  BY <1>1, <1>2 DEF StartAt
<1>3. CASE U # {}
  <2>1. PICK n \in Nat : checkpoints \in [1..n -> Event \cup {Nowhere}]
    BY DEF ReplayTypes
  <2>2. U = {i \in 1..n : checkpoints[i] <= target}
    BY <1>1, <2>1 DEF UsableCheckpoints
  <2> DEFINE last == CHOOSE i \in U : \A j \in U : j <= i
  <2>3. last \in U
    <3> HIDE DEF U
    <3>1. \E i \in U : \A j \in U : j <= i
      BY <1>3, <2>1, <2>2, GreatestExists
    <3> QED
      BY <3>1
  <2>4. StartAt(target) = IF checkpoints[last] = Nowhere THEN 1 ELSE checkpoints[last]
    BY <1>3 DEF StartAt
  <2>5. checkpoints[last] \in Event \cup {Nowhere} /\ checkpoints[last] <= target
    BY <2>1, <2>2, <2>3
  <2> QED
    BY <1>1, <2>4, <2>5
<1> QED
  BY <1>2, <1>3

-----------------------------------------------------------------------------
LEMMA BranchStart == ReplayInit => BranchInv
<1> SUFFICES ASSUME ReplayInit PROVE BranchInv
  OBVIOUS
<1>1. \E n \in Nat : checkpoints \in [1..n -> Event \cup {Nowhere}]
  <2>1. PICK n \in 0..MaxCheckpoints : checkpoints \in [1..n -> Event \cup {Nowhere}]
    BY DEF ReplayInit
  <2> QED
    BY <2>1, ReplayAssumption
<1>2. ReplayTypes
  <2>1. upstream \in [Event -> SUBSET Event]
    BY DEF ReplayInit
  <2>2. /\ parent \in [Event -> Event \cup {Nowhere}] /\ focus \in Event \cup {Nowhere}
        /\ start = 1 /\ stage = "given"
    BY DEF ReplayInit
  <2>3. start \in Event
    BY <2>2, ReplayAssumption DEF Event
  <2> QED
    BY <1>1, <2>1, <2>2, <2>3 DEF ReplayTypes
<1> QED
  BY <1>2 DEF ReplayInit, BranchInv, Walking, Before, Branch

\* What the references of a session are does not change.
LEMMA GivenStays ==
  ASSUME UNCHANGED givenVars
  PROVE  RefsOf' = RefsOf /\ ChildrenOfEvent' = ChildrenOfEvent /\ Scoped' = Scoped
  BY DEF givenVars, RefsOf, ChildrenOfEvent, Refs, Children, Scoped

LEMMA ChooseKeeps ==
  ASSUME BranchInv, Choose
  PROVE  BranchInv'
<1>1. PICK t \in Event \cup {Nowhere} : t = Target
  BY TargetType DEF BranchInv
<1>2. focus' = t /\ UNCHANGED givenVars /\ UNCHANGED <<seen, up, down>>
  BY <1>1 DEF Choose
<1>3. 1 \in Event
  BY ReplayAssumption DEF Event
<1>4. CASE Scoped /\ t # Nowhere
  <2>1. /\ start' = StartAt(t) /\ stage' = "ancestors" /\ open' = {t}
    BY <1>1, <1>4 DEF Choose
  <2>2. start' \in Event /\ start' <= t /\ t \in Event
    BY <1>1, <1>4, <2>1, StartBeforeTarget DEF BranchInv
  <2>3. t \in Window'
    BY <2>2, ReplayAssumption DEF Window, Event
  <2>4. ReplayTypes' /\ Walking' /\ Before'
    BY <1>2, <1>4, <2>1, <2>2 DEF BranchInv, ReplayTypes, Walking, Before, givenVars, Scoped
  <2>5. FoundBy(Window', RefsOf', t, {}, {t})
    BY <2>3 DEF FoundBy
  <2>6. up' = {} /\ down' = {} /\ seen' = {}
    BY <1>2 DEF BranchInv, Before, Choose
  <2>7. Branch'
    BY <1>2, <2>1, <2>3, <2>5, <2>6 DEF Branch
  <2> QED
    BY <2>4, <2>7 DEF BranchInv
<1>5. CASE ~(Scoped /\ t # Nowhere)
  <2>1. stage' = "done" /\ UNCHANGED open
    BY <1>1, <1>5 DEF Choose
  <2>2. start' \in Event
    <3>1. CASE ~Scoped
      BY <1>3, <3>1 DEF Choose
    <3>2. CASE Scoped
      <4>1. t = Nowhere /\ start' = StartAt(Nowhere)
        BY <1>1, <1>5, <3>2 DEF Choose
      <4>2. UsableCheckpoints(Nowhere) = UsableCheckpoints(1)
        BY DEF UsableCheckpoints, Nowhere
      <4>3. StartAt(Nowhere) = StartAt(1)
        BY <4>2 DEF StartAt
      <4> QED
        BY <1>3, <4>1, <4>3, StartBeforeTarget DEF BranchInv
    <3> QED
      BY <3>1, <3>2
  <2>3. ~(Scoped' /\ focus' # Nowhere)
    BY <1>2, <1>5, GivenStays
  <2> QED
    BY <1>2, <2>1, <2>2, <2>3 DEF BranchInv, ReplayTypes, Walking, Before, Branch, givenVars
<1> QED
  BY <1>4, <1>5

LEMMA AscendKeeps ==
  ASSUME BranchInv, NEW e \in open, Ascend(e)
  PROVE  BranchInv'
<1>1. /\ stage = "ancestors" /\ stage' = "ancestors" /\ down' = down
      /\ Visit(e, up, Refs(e)) /\ UNCHANGED <<givenVars, focus, start, stage, shown>>
  BY DEF Ascend, Visit
<1>2. /\ Scoped /\ focus # Nowhere /\ focus \in Window /\ down = {} /\ seen \cap Window = up
      /\ FoundBy(Window, RefsOf, focus, up, open)
  BY <1>1 DEF BranchInv, Walking, Branch
<1>3. RefsOf' = RefsOf /\ Window' = Window
  BY <1>1, GivenStays DEF Window
<1>4. Window \subseteq Event
  BY ReplayAssumption DEF BranchInv, ReplayTypes, Window, Event
<1>5. /\ seen' \cap Window = up'
      /\ FoundBy(Window, RefsOf, focus, up', open')
  <2>1. CASE e \notin seen /\ e \in Window
    <3>1. up' = up \cup {e} /\ open' = (open \ {e}) \cup RefsOf[e] /\ seen' = seen \cup {e}
      BY <1>1, <1>4, <2>1 DEF Visit, RefsOf
    <3> QED
      BY <1>2, <2>1, <3>1, TakeFromStack
  <2>2. CASE e \in seen \/ e \notin Window
    <3>1. up' = up /\ open' = open \ {e} /\ seen' = seen \cup {e}
      BY <1>1, <2>2 DEF Visit
    <3>2. e \in up \/ e \notin Window
      BY <1>2, <2>2
    <3> QED
      BY <1>2, <3>1, <3>2, TakeFromStack
  <2> QED
    BY <2>1, <2>2
<1>6. ReplayTypes' /\ Walking' /\ Before'
  BY <1>1 DEF BranchInv, ReplayTypes, Walking, Before, givenVars, Scoped
<1>7. Branch'
  BY <1>1, <1>2, <1>3, <1>5 DEF Branch
<1> QED
  BY <1>6, <1>7 DEF BranchInv

LEMMA TurnDownKeeps ==
  ASSUME BranchInv, TurnDown
  PROVE  BranchInv'
<1>1. /\ stage = "ancestors" /\ stage' = "descendants" /\ open = {} /\ open' = {focus}
      /\ seen' = {} /\ UNCHANGED <<givenVars, focus, start, up, down, shown>>
  BY DEF TurnDown
<1>2. /\ Scoped /\ focus # Nowhere /\ focus \in Window /\ down = {}
      /\ FoundBy(Window, RefsOf, focus, up, {})
  BY <1>1 DEF BranchInv, Walking, Branch
<1>3. RefsOf' = RefsOf /\ Window' = Window
  BY <1>1, GivenStays DEF Window
<1>4. FoundBy(Window, ChildrenOfEvent', focus, {}, {focus})
  BY <1>2 DEF FoundBy
<1>5. ReplayTypes' /\ Walking' /\ Before'
  BY <1>1, <1>2 DEF BranchInv, ReplayTypes, Walking, Before, givenVars, Scoped
<1>6. Branch'
  BY <1>1, <1>2, <1>3, <1>4 DEF Branch
<1> QED
  BY <1>5, <1>6 DEF BranchInv

LEMMA DescendKeeps ==
  ASSUME BranchInv, NEW e \in open, Descend(e)
  PROVE  BranchInv'
<1>1. /\ stage = "descendants" /\ stage' = "descendants" /\ up' = up
      /\ Visit(e, down, Children(e)) /\ UNCHANGED <<givenVars, focus, start, stage, shown>>
  BY DEF Descend, Visit
<1>2. /\ Scoped /\ focus # Nowhere /\ focus \in Window /\ seen \cap Window = down
      /\ FoundBy(Window, RefsOf, focus, up, {})
      /\ FoundBy(Window, ChildrenOfEvent, focus, down, open)
  BY <1>1 DEF BranchInv, Walking, Branch
<1>3. RefsOf' = RefsOf /\ ChildrenOfEvent' = ChildrenOfEvent /\ Window' = Window
  BY <1>1, GivenStays DEF Window
<1>4. Window \subseteq Event
  BY ReplayAssumption DEF BranchInv, ReplayTypes, Window, Event
<1>5. /\ seen' \cap Window = down'
      /\ FoundBy(Window, ChildrenOfEvent, focus, down', open')
  <2>1. CASE e \notin seen /\ e \in Window
    <3>1. /\ down' = down \cup {e} /\ open' = (open \ {e}) \cup ChildrenOfEvent[e]
          /\ seen' = seen \cup {e}
      BY <1>1, <1>4, <2>1 DEF Visit, ChildrenOfEvent
    <3> QED
      BY <1>2, <2>1, <3>1, TakeFromStack
  <2>2. CASE e \in seen \/ e \notin Window
    <3>1. down' = down /\ open' = open \ {e} /\ seen' = seen \cup {e}
      BY <1>1, <2>2 DEF Visit
    <3>2. e \in down \/ e \notin Window
      BY <1>2, <2>2
    <3> QED
      BY <1>2, <3>1, <3>2, TakeFromStack
  <2> QED
    BY <2>1, <2>2
<1>6. ReplayTypes' /\ Walking' /\ Before'
  BY <1>1 DEF BranchInv, ReplayTypes, Walking, Before, givenVars, Scoped
<1>7. Branch'
  BY <1>1, <1>2, <1>3, <1>5 DEF Branch
<1> QED
  BY <1>6, <1>7 DEF BranchInv

LEMMA FinishKeeps ==
  ASSUME BranchInv, Finish
  PROVE  BranchInv'
<1>1. /\ stage = "descendants" /\ stage' = "done" /\ open = {}
      /\ shown' = up \cup down \cup {start}
      /\ UNCHANGED <<givenVars, focus, start, open, seen, up, down>>
  BY DEF Finish
<1>2. /\ focus \in Window /\ FoundBy(Window, RefsOf, focus, up, {})
      /\ FoundBy(Window, ChildrenOfEvent, focus, down, {})
  BY <1>1 DEF BranchInv, Walking, Branch
<1>3. RefsOf' = RefsOf /\ ChildrenOfEvent' = ChildrenOfEvent /\ Window' = Window
  BY <1>1, GivenStays DEF Window
<1>4. ReplayTypes' /\ Walking' /\ Before'
  BY <1>1 DEF BranchInv, ReplayTypes, Walking, Before, givenVars, Scoped
<1>5. Branch'
  BY <1>1, <1>2, <1>3 DEF Branch
<1> QED
  BY <1>4, <1>5 DEF BranchInv

LEMMA BranchStep == BranchInv /\ [ReplayNext]_replayVars => BranchInv'
<1> SUFFICES ASSUME BranchInv, [ReplayNext]_replayVars
             PROVE  BranchInv'
  OBVIOUS
<1>1. CASE UNCHANGED replayVars
  BY <1>1 DEF BranchInv, ReplayTypes, Walking, Before, Branch, replayVars, givenVars, Scoped, Window,
              RefsOf, ChildrenOfEvent, Refs, Children
<1>2. CASE ReplayNext
  BY <1>2, ChooseKeeps, AscendKeeps, TurnDownKeeps, DescendKeeps, FinishKeeps DEF ReplayNext
<1> QED
  BY <1>1, <1>2

LEMMA BranchIsLeast == BranchInv => ReplayIsBranch
<1> SUFFICES ASSUME BranchInv, stage = "done", Scoped, focus # Nowhere
             PROVE  /\ shown = up \cup down \cup {start}
                    /\ Least(up, Refs) /\ Least(down, Children)
  BY DEF ReplayIsBranch
<1>1. /\ shown = up \cup down \cup {start}
      /\ FoundBy(Window, RefsOf, focus, up, {})
      /\ FoundBy(Window, ChildrenOfEvent, focus, down, {})
  BY DEF BranchInv, Branch
<1>2. Window \subseteq Event
  BY ReplayAssumption DEF BranchInv, ReplayTypes, Window, Event
<1>3. \A x \in Event : RefsOf[x] = Refs(x) /\ ChildrenOfEvent[x] = Children(x)
  BY DEF RefsOf, ChildrenOfEvent
<1>4. Least(up, Refs)
  <2>1. up \subseteq Window /\ focus \in up /\ \A x \in up : Refs(x) \cap Window \subseteq up
    BY <1>1, <1>2, <1>3, FoundIsLeast
  <2>2. ASSUME NEW T \in SUBSET Window, focus \in T, \A x \in T : Refs(x) \cap Window \subseteq T
        PROVE  up \subseteq T
    BY <1>1, <1>2, <1>3, <2>2, FoundIsLeast
  <2> QED
    BY <2>1, <2>2 DEF Least, ClosedUnder
<1>5. Least(down, Children)
  <2>1. /\ down \subseteq Window /\ focus \in down
        /\ \A x \in down : Children(x) \cap Window \subseteq down
    BY <1>1, <1>2, <1>3, FoundIsLeast
  <2>2. ASSUME NEW T \in SUBSET Window, focus \in T,
               \A x \in T : Children(x) \cap Window \subseteq T
        PROVE  down \subseteq T
    BY <1>1, <1>2, <1>3, <2>2, FoundIsLeast
  <2> QED
    BY <2>1, <2>2 DEF Least, ClosedUnder
<1> QED
  BY <1>1, <1>4, <1>5

\* Whatever the session refers to and whatever is asked for, a replay of a focus
\* or of a failure shows its ancestors and descendants as far as they can be
\* followed from where it starts, the start, and nothing else.
THEOREM FocusedReplayIsBranch == ReplaySpec => []ReplayIsBranch
<1>1. ReplaySpec => []BranchInv
  BY BranchStart, BranchStep, PTL DEF ReplaySpec
<1> QED
  BY <1>1, BranchIsLeast, PTL

-----------------------------------------------------------------------------
(* What the frontend shows: the inductive invariant *)

\* The store has its fields.
StoreOf(v) ==
  v = [selected |-> v.selected, event |-> v.event, mode |-> v.mode, index |-> v.index,
       pending |-> v.pending, bundle |-> v.bundle, live |-> v.live, replay |-> v.replay]

\* What an effect waits for is what the store asks for now.
Current(v, waiting) == \A x \in Effect : waiting[x] # Nil => waiting[x] = Key(x, v)

BundleRight(v, waiting, broken) ==
  waiting["bundle"] = Nil /\ "bundle" \notin broken /\ v.selected # Nil =>
    v.bundle.session = v.selected

ReplayRight(v, waiting, broken) ==
  waiting["replay"] = Nil /\ "replay" \notin broken /\ Key("replay", v) # Nil =>
    v.replay = Key("replay", v)

ShownInv ==
  /\ StoreOf(view) /\ waits = [x \in Effect |-> waits[x]]
  /\ \A e \in view.live : e.session = view.selected
  /\ Current(view, waits)
  /\ BundleRight(view, waits, failed)
  /\ ReplayRight(view, waits, failed)

-----------------------------------------------------------------------------
(* A change of the store, with the effects that it sets off *)

LEMMA RenderKeeps ==
  ASSUME ShownInv, NEW v, NEW waiting, Render(v, waiting), StoreOf(v),
         \A x \in Effect : waiting[x] \in {waits[x], Nil},
         v.live = view.live,
         Key("bundle", v) = Key("bundle", view) => BundleRight(v, waiting, failed'),
         Key("replay", v) = Key("replay", view) => ReplayRight(v, waiting, failed')
  PROVE  ShownInv'
<1>1. /\ view' = [v EXCEPT !.live = IF v.selected # view.selected THEN {} ELSE @]
      /\ waits' = [x \in Effect |-> IF Key(x, v) # Key(x, view) THEN Key(x, v) ELSE waiting[x]]
  BY DEF Render, AtOnce
<1>2. /\ StoreOf(view')
      /\ view'.live = IF v.selected # view.selected THEN {} ELSE v.live
      /\ view'.selected = v.selected /\ view'.bundle = v.bundle /\ view'.mode = v.mode
      /\ view'.event = v.event /\ view'.replay = v.replay
  <2>1. PICK l : l = IF v.selected # view.selected THEN {} ELSE v.live
    OBVIOUS
  <2>2. view' = [selected |-> v.selected, event |-> v.event, mode |-> v.mode, index |-> v.index,
                 pending |-> v.pending, bundle |-> v.bundle, live |-> l, replay |-> v.replay]
    BY <1>1, <2>1 DEF StoreOf
  <2> QED
    BY <2>1, <2>2 DEF StoreOf
<1>3. \A x \in Effect : Key(x, view') = Key(x, v)
  BY <1>2 DEF Key
<1>4. /\ waits'["bundle"] = IF Key("bundle", v) # Key("bundle", view) THEN Key("bundle", v)
                            ELSE waiting["bundle"]
      /\ waits'["replay"] = IF Key("replay", v) # Key("replay", view) THEN Key("replay", v)
                            ELSE waiting["replay"]
  BY <1>1 DEF Effect
<1>5. \A e \in view'.live : e.session = view'.selected
  BY <1>2 DEF ShownInv
<1>6. Current(view', waits')
  <2>1. ASSUME NEW x \in Effect, waits'[x] # Nil
        PROVE  waits'[x] = Key(x, view')
    <3>1. waits'[x] = IF Key(x, v) # Key(x, view) THEN Key(x, v) ELSE waiting[x]
      BY <1>1
    <3>2. waits[x] # Nil => waits[x] = Key(x, view)
      BY DEF ShownInv, Current
    <3> QED
      BY <2>1, <3>1, <3>2, <1>3
  <2> QED
    BY <2>1 DEF Current
<1>7. BundleRight(view', waits', failed')
  <2>1. CASE Key("bundle", v) # Key("bundle", view)
    <3>1. waits'["bundle"] = view'.selected
      BY <2>1, <1>2, <1>4 DEF Key
    <3> QED
      BY <3>1 DEF BundleRight
  <2>2. CASE Key("bundle", v) = Key("bundle", view)
    BY <2>2, <1>2, <1>4 DEF BundleRight
  <2> QED
    BY <2>1, <2>2
<1>8. ReplayRight(view', waits', failed')
  <2>1. Key("replay", view') = Key("replay", v)
    BY <1>3 DEF Effect
  <2>2. CASE Key("replay", v) # Key("replay", view)
    <3>1. waits'["replay"] = Key("replay", view')
      BY <2>1, <2>2, <1>4
    <3> QED
      BY <3>1 DEF ReplayRight
  <2>3. CASE Key("replay", v) = Key("replay", view)
    BY <2>1, <2>3, <1>2, <1>4 DEF ReplayRight
  <2> QED
    BY <2>2, <2>3
<1>9. waits' = [x \in Effect |-> waits'[x]]
  BY <1>1
<1> QED
  BY <1>2, <1>5, <1>6, <1>7, <1>8, <1>9 DEF ShownInv

\* A click, or the list of sessions: the effects wait for what they waited for.
LEMMA ClickKeeps ==
  ASSUME ShownInv, NEW v, Render(v, waits), StoreOf(v),
         v.live = view.live, v.bundle = view.bundle, v.replay = view.replay, failed' = failed
  PROVE  ShownInv'
<1>1. PICK waiting : waiting = waits
  OBVIOUS
<1>2. Render(v, waiting) /\ \A x \in Effect : waiting[x] \in {waits[x], Nil}
  BY <1>1
<1>3. Key("bundle", v) = Key("bundle", view) => BundleRight(v, waiting, failed')
  BY <1>1 DEF Key, BundleRight, ShownInv
<1>4. Key("replay", v) = Key("replay", view) => ReplayRight(v, waiting, failed')
  BY <1>1 DEF ReplayRight, ShownInv
<1> QED
  BY <1>2, <1>3, <1>4, RenderKeeps

-----------------------------------------------------------------------------
(* The steps *)

LEMMA UserKeeps ==
  ASSUME ShownInv,
         \/ \E s \in SessionIds : SelectSession(s) \/ SwitchSession(s) \/ SessionsLoaded(s)
         \/ \E e : Inspect(e) \/ JumpToSearchResult(e)
         \/ \E m : SetReplayMode(m)
  PROVE  ShownInv'
<1>1. StoreOf(view)
  BY DEF ShownInv
<1>2. ASSUME NEW s, SelectSession(s)
      PROVE  ShownInv'
  <2>1. PICK v : v = [view EXCEPT !.selected = s, !.mode = "full", !.event = Nil, !.pending = Nil]
    OBVIOUS
  <2>2. Render(v, waits) /\ failed' = failed
    BY <1>2, <2>1 DEF SelectSession, Click, Clicked
  <2>3. StoreOf(v) /\ v.live = view.live /\ v.bundle = view.bundle /\ v.replay = view.replay
    BY <2>1, <1>1 DEF StoreOf
  <2> QED
    BY <2>2, <2>3, ClickKeeps
<1>3. ASSUME NEW s, SwitchSession(s)
      PROVE  ShownInv'
  <2>1. PICK v : v = [view EXCEPT !.selected = s, !.pending = Nil]
    OBVIOUS
  <2>2. Render(v, waits) /\ failed' = failed
    BY <1>3, <2>1 DEF SwitchSession, Click, Clicked
  <2>3. StoreOf(v) /\ v.live = view.live /\ v.bundle = view.bundle /\ v.replay = view.replay
    BY <2>1, <1>1 DEF StoreOf
  <2> QED
    BY <2>2, <2>3, ClickKeeps
<1>4. ASSUME NEW s, SessionsLoaded(s)
      PROVE  ShownInv'
  <2>1. PICK v : v = [view EXCEPT !.selected = s]
    OBVIOUS
  <2>2. Render(v, waits) /\ failed' = failed
    BY <1>4, <2>1 DEF SessionsLoaded
  <2>3. StoreOf(v) /\ v.live = view.live /\ v.bundle = view.bundle /\ v.replay = view.replay
    BY <2>1, <1>1 DEF StoreOf
  <2> QED
    BY <2>2, <2>3, ClickKeeps
<1>5. ASSUME NEW e, Inspect(e)
      PROVE  ShownInv'
  <2>1. PICK v : v = [view EXCEPT !.event = e, !.pending = Nil, !.index = FindIndex(Merged(view), e)]
    OBVIOUS
  <2>2. Render(v, waits) /\ failed' = failed
    BY <1>5, <2>1 DEF Inspect, Click, Clicked
  <2>3. StoreOf(v) /\ v.live = view.live /\ v.bundle = view.bundle /\ v.replay = view.replay
    BY <2>1, <1>1 DEF StoreOf
  <2> QED
    BY <2>2, <2>3, ClickKeeps
<1>6. ASSUME NEW e, JumpToSearchResult(e)
      PROVE  ShownInv'
  <2>1. PICK i : i = FindIndex(IF e.session = view.selected THEN Merged(view) ELSE <<>>, e)
    OBVIOUS
  <2>2. PICK v : v = [view EXCEPT !.mode = "full", !.selected = e.session, !.event = e,
                                  !.index = i, !.pending = e]
    OBVIOUS
  <2>3. Render(v, waits) /\ failed' = failed
    BY <1>6, <2>1, <2>2 DEF JumpToSearchResult, Clicked
  <2>4. StoreOf(v) /\ v.live = view.live /\ v.bundle = view.bundle /\ v.replay = view.replay
    BY <2>2, <1>1 DEF StoreOf
  <2> QED
    BY <2>3, <2>4, ClickKeeps
<1>7. ASSUME NEW m, SetReplayMode(m)
      PROVE  ShownInv'
  <2>1. PICK v : v = [view EXCEPT !.mode = m, !.pending = Nil]
    OBVIOUS
  <2>2. Render(v, waits) /\ failed' = failed
    BY <1>7, <2>1 DEF SetReplayMode, Click, Clicked
  <2>3. StoreOf(v) /\ v.live = view.live /\ v.bundle = view.bundle /\ v.replay = view.replay
    BY <2>1, <1>1 DEF StoreOf
  <2> QED
    BY <2>2, <2>3, ClickKeeps
<1> QED
  BY <1>2, <1>3, <1>4, <1>5, <1>6, <1>7

LEMMA BundleArrivesKeeps ==
  ASSUME ShownInv, BundleArrives
  PROVE  ShownInv'
<1>1. PICK v : v = WithBundle(waits["bundle"])
  OBVIOUS
<1>2. PICK waiting : waiting = [waits EXCEPT !["bundle"] = Nil]
  OBVIOUS
<1>3. /\ waits["bundle"] # Nil /\ Render(v, waiting) /\ failed' = failed \ {"bundle"}
  BY <1>1, <1>2 DEF BundleArrives, EffectAnswered
<1>4. waits["bundle"] = view.selected
  BY <1>3 DEF ShownInv, Current, Effect, Key
<1>5. /\ StoreOf(v) /\ v.live = view.live /\ v.replay = view.replay
      /\ v.selected = view.selected /\ v.bundle.session = waits["bundle"]
  <2>1. PICK b : b = [session |-> waits["bundle"], last |-> recordedOf[waits["bundle"]],
                      load |-> 1 - view.bundle.load]
    OBVIOUS
  <2>2. \E e, p : v = [view EXCEPT !.bundle = b, !.event = e, !.pending = p]
    BY <1>1, <2>1 DEF WithBundle
  <2>3. b.session = waits["bundle"]
    BY <2>1
  <2>4. StoreOf(view)
    BY DEF ShownInv
  <2> QED
    BY <2>2, <2>3, <2>4 DEF StoreOf
<1>6. /\ waiting["bundle"] = Nil /\ waiting["replay"] = waits["replay"]
      /\ \A x \in Effect : waiting[x] \in {waits[x], Nil}
  BY <1>2 DEF ShownInv, Effect
<1>7. BundleRight(v, waiting, failed')
  BY <1>4, <1>5 DEF BundleRight
<1>8. Key("replay", v) = Key("replay", view) => ReplayRight(v, waiting, failed')
  BY <1>3, <1>5, <1>6 DEF ReplayRight, ShownInv
<1> QED
  BY <1>3, <1>5, <1>6, <1>7, <1>8, RenderKeeps

LEMMA ReplayArrivesKeeps ==
  ASSUME ShownInv, NEW stop, ReplayArrives(stop)
  PROVE  ShownInv'
<1>1. PICK waiting : waiting = [waits EXCEPT !["replay"] = Nil]
  OBVIOUS
<1>2. PICK v : /\ Render(v, waiting) /\ waits["replay"] # Nil
               /\ failed' = failed \ {"replay"}
               /\ \E i : v = [view EXCEPT !.replay = waits["replay"], !.index = i, !.pending = Nil]
  BY <1>1 DEF ReplayArrives
<1>3. waits["replay"] = Key("replay", view)
  BY <1>2 DEF ShownInv, Current, Effect
<1>4. /\ StoreOf(v) /\ v.live = view.live /\ v.bundle = view.bundle /\ v.replay = waits["replay"]
      /\ v.selected = view.selected /\ v.mode = view.mode /\ v.event = view.event
  BY <1>2 DEF StoreOf, ShownInv
<1>5. /\ waiting["replay"] = Nil /\ waiting["bundle"] = waits["bundle"]
      /\ \A x \in Effect : waiting[x] \in {waits[x], Nil}
  BY <1>1 DEF ShownInv, Effect
<1>6. BundleRight(v, waiting, failed')
  BY <1>2, <1>4, <1>5 DEF BundleRight, ShownInv
<1>7. Key("replay", v) = Key("replay", view)
  BY <1>4 DEF Key
<1>8. ReplayRight(v, waiting, failed')
  BY <1>3, <1>4, <1>7 DEF ReplayRight
<1> QED
  BY <1>2, <1>4, <1>5, <1>6, <1>8, RenderKeeps

LEMMA FailsKeeps ==
  ASSUME ShownInv, NEW x \in Effect, Fails(x)
  PROVE  ShownInv'
<1>1. PICK waiting : waiting = [waits EXCEPT ![x] = Nil]
  OBVIOUS
<1>2. PICK v : v = view
  OBVIOUS
<1>3. Render(v, waiting) /\ failed' = failed \cup {x}
  BY <1>1, <1>2 DEF Fails
<1>4. \A y \in Effect : waiting[y] = IF y = x THEN Nil ELSE waits[y]
  BY <1>1 DEF ShownInv
<1>5. BundleRight(v, waiting, failed') /\ ReplayRight(v, waiting, failed')
  BY <1>2, <1>3, <1>4 DEF BundleRight, ReplayRight, ShownInv, Effect
<1> QED
  BY <1>2, <1>3, <1>4, <1>5, RenderKeeps DEF ShownInv

LEMMA LiveEventKeeps ==
  ASSUME ShownInv, NEW e \in EventsOf(view.selected), LiveEvent(e)
  PROVE  ShownInv'
<1>1. /\ view' = [view EXCEPT !.live = @ \cup {e}] /\ UNCHANGED <<waits, failed>>
      /\ e.session = view.selected
  BY DEF LiveEvent, EventsOf, Ev
<1>2. /\ StoreOf(view') /\ view'.live = view.live \cup {e}
      /\ view'.selected = view.selected /\ view'.bundle = view.bundle /\ view'.mode = view.mode
      /\ view'.event = view.event /\ view'.replay = view.replay
  BY <1>1 DEF ShownInv, StoreOf
<1>3. \A x \in Effect : Key(x, view') = Key(x, view)
  BY <1>2 DEF Key
<1>4. Current(view', waits')
  BY <1>1, <1>3 DEF ShownInv, Current
<1>5. BundleRight(view', waits', failed') /\ ReplayRight(view', waits', failed')
  BY <1>1, <1>2, <1>3 DEF ShownInv, BundleRight, ReplayRight, Effect
<1> QED
  BY <1>1, <1>2, <1>4, <1>5 DEF ShownInv

-----------------------------------------------------------------------------
(* The theorem *)

LEMMA ShownStart == ViewInit => ShownInv
<1> SUFFICES ASSUME ViewInit
             PROVE  ShownInv
  OBVIOUS
<1>1. StoreOf(view) /\ view.selected = Nil /\ view.live = {} /\ waits = [x \in Effect |-> Nil]
  BY DEF ViewInit, StoreOf
<1>2. Key("replay", view) = Nil
  BY <1>1 DEF Key
<1> QED
  BY <1>1, <1>2 DEF ShownInv, Current, BundleRight, ReplayRight

LEMMA ShownStep == ShownInv /\ [ViewNext]_viewVars => ShownInv'
<1> SUFFICES ASSUME ShownInv, [ViewNext]_viewVars
             PROVE  ShownInv'
  OBVIOUS
<1>1. ASSUME UNCHANGED <<view, waits, failed>>
      PROVE  ShownInv'
  BY <1>1 DEF ShownInv, StoreOf, Current, BundleRight, ReplayRight, Key
<1>2. CASE \E s \in SessionIds : SelectSession(s) \/ SwitchSession(s) \/ SessionsLoaded(s)
  BY <1>2, UserKeeps
<1>3. CASE \E s \in SessionIds : Stored(s)
  BY <1>1, <1>3 DEF Stored
<1>4. CASE \E s \in SessionIds : \E e \in EventsOf(s) : Inspect(e) \/ JumpToSearchResult(e)
  BY <1>4, UserKeeps
<1>5. CASE \E e \in EventsOf(view.selected) : LiveEvent(e)
  BY <1>5, LiveEventKeeps
<1>6. CASE \E m \in {"full", "focus"} : SetReplayMode(m)
  BY <1>6, UserKeeps
<1>7. CASE \E s \in ignored : IgnoredArrives(s)
  BY <1>1, <1>7 DEF IgnoredArrives
<1>8. CASE UNCHANGED viewVars
  BY <1>1, <1>8 DEF viewVars
<1> QED
  BY <1>2, <1>3, <1>4, <1>5, <1>6, <1>7, <1>8, BundleArrivesKeeps, ReplayArrivesKeeps, FailsKeeps
     DEF ViewNext

\* What the page shows is of the selected session (App.tsx and its hooks): whatever
\* is clicked while answers are under way and in whatever order they come, bundle
\* and replay are those of the session, the event and the mode selected now, unless
\* their last request failed; and live events are of the selected session always.
THEOREM PageShowsSelected == ViewSpec => []ShownIsSelected
<1>1. ShownInv => ShownIsSelected
  <2> SUFFICES ASSUME ShownInv, view.selected # Nil
               PROVE  /\ \A e \in view.live : e.session = view.selected
                      /\ Settled("bundle") => view.bundle.session = view.selected
                      /\ Settled("bundle") /\ Settled("replay") => view.replay = Key("replay", view)
    BY DEF ShownIsSelected
  <2>1. Settled("bundle") => view.bundle.session = view.selected
    BY DEF ShownInv, BundleRight, Settled
  <2>2. view.bundle.session = view.selected => Key("replay", view) # Nil
    BY DEF Key, Nil
  <2> QED
    BY <2>1, <2>2 DEF ShownInv, ReplayRight, Settled
<1> QED
  BY <1>1, ShownStart, ShownStep, PTL DEF ViewSpec

-----------------------------------------------------------------------------
(* Search results: the inductive invariant *)

\* A session has been selected if anything has; live events are of it.
PageTypes ==
  /\ recordedOf \in [SessionIds -> Nat]
  /\ view.selected \in SessionIds \cup {Nil}
  /\ view.bundle.last \in Nat /\ view.bundle.load \in {0, 1}
  /\ IsFiniteSet(view.live)
  /\ \A e \in view.live : \E n \in Nat \ {0} : e = Ev(view.selected, n)

\* The replay stands at a search result.
AtResult == view.index = sought.n - 1

\* Since the jump to a search result nothing else has been selected.  As long as a
\* replay is awaited, the result is pending; when it no longer is, everything that
\* was asked for has come.
Standing ==
  /\ \E s \in SessionIds, n \in Nat \ {0} : sought = Ev(s, n)
  /\ view.event = sought /\ view.selected = sought.session /\ view.mode = "full"
  /\ view.pending \in {sought, Nil}
  /\ view.pending = Nil => /\ waits["bundle"] = Nil /\ waits["replay"] = Nil
                           /\ sought \in InBundle(view) => AtResult
  /\ waits["replay"] = Nil /\ "replay" \notin failed /\ sought \in InBundle(view) => AtResult

SoughtInv == PageTypes /\ (sought # Nil => Standing)

-----------------------------------------------------------------------------
(* Where an event is in the merged list *)

LEMMA EvIs ==
  ASSUME NEW s, NEW n
  PROVE  Ev(s, n).session = s /\ Ev(s, n).n = n /\ Ev(s, n) # Nil
  BY DEF Ev, Nil

\* Of one session, the first events are in the bundle, without a gap: an event of
\* the bundle has its own number as its place, wherever the live events come.
LEMMA MergedInOrder ==
  ASSUME PageTypes, view.bundle.session = view.selected, view.selected # Nil,
         NEW m \in 1..view.bundle.last
  PROVE  /\ m <= Len(Merged(view)) /\ Merged(view)[m] = Ev(view.selected, m)
         /\ Len(Merged(view)) \in Nat /\ Ev(view.selected, m) \in ToSet(Merged(view))
         /\ FindIndex(Merged(view), Ev(view.selected, m)) = m - 1
<1> DEFINE s == view.selected
           last == view.bundle.last
           all == InBundle(view) \cup view.live
           numbers == {e.n : e \in all}
           c == Cardinality(all)
           Earlier(a, b) == a.n < b.n \/ (a.n = b.n /\ a.session = s /\ b.session # a.session)
           Good(q) == \A i, j \in DOMAIN q : i < j => Earlier(q[i], q[j])
           p == Merged(view)
<1>1. last \in Nat /\ m \in Nat /\ IsFiniteSet(view.live)
  BY DEF PageTypes
<1>2. \A e \in all : e.n \in Nat \ {0} /\ e = Ev(s, e.n)
  <2>1. \A n : Ev(s, n).n = n
    BY EvIs
  <2>2. \A e \in InBundle(view) : \E n \in Nat \ {0} : e = Ev(s, n)
    BY DEF InBundle
  <2>3. \A e \in view.live : \E n \in Nat \ {0} : e = Ev(s, n)
    BY DEF PageTypes
  <2> QED
    BY <2>1, <2>2, <2>3
<1>3. \A n \in 1..last : Ev(s, n) \in all
  BY DEF InBundle
<1>4. IsFiniteSet(all)
  <2> DEFINE ev == [n \in 1..last |-> Ev(s, n)]
  <2>1. ev \in Surjection(1..last, InBundle(view))
    BY DEF InBundle, Surjection
  <2>2. IsFiniteSet(1..last)
    <3>1. 1 \in Int /\ last \in Int
      BY <1>1
    <3> QED
      BY <3>1, FS_Interval
  <2>3. IsFiniteSet(InBundle(view))
    BY <2>1, <2>2, FS_Surjection
  <2> QED
    BY <1>1, <2>3, FS_Union
<1> HIDE DEF all
<1>5. numbers \in SUBSET Nat /\ IsFiniteSet(numbers) /\ Cardinality(numbers) = c /\ c \in Nat
  <2> DEFINE no == [e \in all |-> e.n]
  <2>1. no \in Bijection(all, numbers)
    <3>1. no \in [all -> numbers] /\ \A k \in numbers : \E e \in all : no[e] = k
      OBVIOUS
    <3>2. \A e, f \in all : no[e] = no[f] => e = f
      BY <1>2
    <3>3. IsInjective(no)
      BY <3>1, <3>2 DEF IsInjective
    <3> QED
      BY <3>1, <3>3 DEF Bijection, Injection, Surjection
  <2>2. numbers \in SUBSET Nat
    BY <1>2
  <2> HIDE DEF no, numbers
  <2>3. IsFiniteSet(numbers) /\ Cardinality(numbers) = Cardinality(all)
    BY <1>4, <2>1, FS_Bijection DEF ExistsBijection
  <2> QED
    BY <1>4, <2>2, <2>3, FS_CardinalityType
<1>6. \A k \in numbers : Ev(s, k) \in all
  BY <1>2
<1> HIDE DEF numbers
<1>7. \E q \in [1..c -> all] : Good(q)
  <2>1. PICK r \in [1..c -> numbers] : Increasing(r)
    BY <1>5, SortedExists
  <2> DEFINE q == [i \in 1..c |-> Ev(s, r[i])]
  <2>2. q \in [1..c -> all]
    BY <1>6
  <2>3. \A i, j \in 1..c : i < j => r[i] < r[j]
    BY <2>1 DEF Increasing
  <2>4. \A i \in 1..c : q[i].n = r[i]
    BY EvIs
  <2>5. DOMAIN q = 1..c
    OBVIOUS
  <2> HIDE DEF q
  <2>6. Good(q)
    BY <2>3, <2>4, <2>5
  <2> QED
    BY <2>2, <2>6
<1>8. p \in [1..c -> all] /\ Good(p)
  <2>1. p = CHOOSE q \in [1..c -> all] : Good(q)
    BY DEF Merged, all
  <2> HIDE DEF p, Good
  <2> QED
    BY <1>7, <2>1
<1> HIDE DEF p
<1> DEFINE r == [i \in 1..c |-> p[i].n]
<1>9. /\ \A i \in 1..c : r[i] = p[i].n /\ r[i] \in numbers /\ p[i] = Ev(s, r[i]) /\ r[i] \in Nat
      /\ r \in Seq(Nat) /\ Len(r) = c /\ DOMAIN r = 1..c
  <2>1. \A i \in 1..c : r[i] = p[i].n /\ r[i] \in numbers /\ p[i] = Ev(s, r[i]) /\ r[i] \in Nat
    BY <1>2, <1>8 DEF numbers
  <2>2. r \in [1..c -> Nat] /\ DOMAIN r = 1..c
    BY <2>1
  <2>3. r \in Seq(Nat)
    BY <1>5, <2>2, SeqDef
  <2>4. DOMAIN r = 1..Len(r) /\ Len(r) \in Nat
    BY <2>3, LenProperties
  <2> HIDE DEF r
  <2>5. Len(r) = c
    BY <2>2, <2>3, <2>4, <1>5, LenProperties
  <2> QED
    BY <2>1, <2>2, <2>3, <2>5
<1> HIDE DEF r
<1>10. Increasing(r)
  <2> SUFFICES ASSUME NEW i \in 1..c, NEW j \in 1..c, i < j
               PROVE  r[i] < r[j]
    BY <1>9 DEF Increasing
  <2>1. Earlier(p[i], p[j])
    BY <1>8
  <2>2. p[i].session = s /\ p[j].session = s
    <3>1. p[i] = Ev(s, r[i]) /\ p[j] = Ev(s, r[j])
      BY <1>9
    <3> QED
      BY <3>1, EvIs
  <2>3. p[i].n < p[j].n
    BY <2>1, <2>2
  <2> QED
    BY <1>9, <2>3
<1>11. Elems(r) = numbers
  <2>1. \A i, j \in 1..c : i # j => r[i] # r[j]
    <3> SUFFICES ASSUME NEW i \in 1..c, NEW j \in 1..c, i # j
                 PROVE  r[i] # r[j]
      OBVIOUS
    <3>1. i < j \/ j < i
      BY <1>5
    <3>2. r[i] < r[j] \/ r[j] < r[i]
      BY <1>9, <1>10, <3>1 DEF Increasing
    <3>3. r[i] \in Nat /\ r[j] \in Nat
      BY <1>9
    <3> QED
      BY <3>2, <3>3
  <2>2. r \in [1..c -> numbers]
    <3>1. r \in [1..c -> Nat]
      BY <1>9, LenProperties
    <3> QED
      BY <1>9, <3>1
  <2>3. r \in Injection(1..c, numbers)
    BY <2>1, <2>2 DEF Injection, IsInjective
  <2>4. IsFiniteSet(1..c) /\ Cardinality(1..c) = c
    <3>1. 1 \in Int /\ c \in Int /\ (IF 1 > c THEN 0 ELSE c - 1 + 1) = c
      BY <1>5
    <3> QED
      BY <3>1, FS_Interval
  <2>5. r \in Surjection(1..c, numbers)
    BY <1>5, <2>3, <2>4, FS_Injection
  <2> QED
    BY <1>9, <2>5 DEF Elems, Surjection
<1> DEFINE id == [i \in 1..last |-> i]
<1>12. id \in Seq(Nat) /\ DOMAIN id = 1..last /\ \A i \in 1..last : id[i] = i
  <2>1. id \in [1..last -> Nat]
    OBVIOUS
  <2> QED
    BY <1>1, <2>1, SeqDef
<1> HIDE DEF id
<1>13. Len(id) = last
  BY <1>1, <1>12, LenProperties
<1>14. Increasing(id) /\ Elems(id) = 1..last
  BY <1>12 DEF Increasing, Elems
<1>15. 1..last \subseteq numbers
  <2>1. \A n \in 1..last : Ev(s, n) \in all /\ Ev(s, n).n = n
    BY <1>3, EvIs
  <2> QED
    BY <2>1 DEF numbers
<1>16. \A x \in Elems(id), d \in Elems(r) : d < x => d \in Elems(id)
  <2>1. \A d \in numbers : d \in Nat \ {0}
    BY <1>2 DEF numbers
  <2> QED
    BY <1>1, <1>11, <1>14, <2>1
<1>17. last <= c /\ \A i \in 1..last : r[i] = i
  <2>1. Elems(id) \subseteq Elems(r)
    BY <1>11, <1>14, <1>15
  <2>2. Len(id) <= Len(r) /\ \A i \in 1..Len(id) : id[i] = r[i]
    BY <1>9, <1>10, <1>12, <1>14, <1>16, <2>1, PartIsPrefix
  <2> QED
    BY <1>9, <1>12, <1>13, <2>2
<1>18. m \in 1..c /\ r[m] = m /\ p[m] = Ev(s, m)
  <2>1. m \in 1..c /\ r[m] = m
    BY <1>1, <1>5, <1>17
  <2> QED
    BY <1>9, <2>1
<1>19. Len(p) = c /\ DOMAIN p = 1..c
  <2>1. p \in Seq(all) /\ DOMAIN p = 1..c
    BY <1>5, <1>8, SeqDef
  <2> QED
    BY <1>5, <2>1, LenProperties
<1>20. Ev(s, m) \in ToSet(p)
  BY <1>18, <1>19 DEF ToSet
<1>21. FindIndex(p, Ev(s, m)) = m - 1
  <2>1. m - 1 \in 0..(Len(p) - 1) /\ p[(m - 1) + 1] = Ev(s, m)
    <3>1. (m - 1) + 1 = m /\ m - 1 \in 0..(c - 1)
      BY <1>1, <1>5, <1>18
    <3> QED
      BY <1>18, <1>19, <3>1
  <2>2. \A i \in 0..(Len(p) - 1) : p[i + 1] = Ev(s, m) => i = m - 1
    <3> SUFFICES ASSUME NEW i \in 0..(c - 1), p[i + 1] = Ev(s, m)
                 PROVE  i = m - 1
      BY <1>19
    <3>1. i + 1 \in 1..c
      BY <1>5
    <3>2. r[i + 1] = m
      BY <1>9, <3>1, EvIs
    <3>3. ~(i + 1 < m) /\ ~(m < i + 1)
      <4>1. i + 1 < m => r[i + 1] < r[m]
        BY <1>9, <1>10, <1>18, <3>1 DEF Increasing
      <4>2. m < i + 1 => r[m] < r[i + 1]
        BY <1>9, <1>10, <1>18, <3>1 DEF Increasing
      <4> QED
        BY <1>1, <1>18, <3>2, <4>1, <4>2
    <3> QED
      BY <1>1, <3>1, <3>3
  <2>3. PICK i \in 0..(Len(p) - 1) :
          i = (CHOOSE k \in 0..(Len(p) - 1) : p[k + 1] = Ev(s, m)) /\ p[i + 1] = Ev(s, m)
    BY <2>1
  <2> QED
    BY <1>20, <2>2, <2>3 DEF FindIndex
<1>22. m <= c
  BY <1>1, <1>5, <1>18
<1> QED
  BY <1>5, <1>18, <1>19, <1>20, <1>21, <1>22 DEF p

-----------------------------------------------------------------------------
(* Search results: the steps *)

\* What a change of the store, with the effects that it sets off, comes to.
LEMMA Rendered ==
  ASSUME NEW v, NEW waiting, Render(v, waiting), StoreOf(v)
  PROVE  /\ view'.selected = v.selected /\ view'.event = v.event /\ view'.mode = v.mode
         /\ view'.index = v.index /\ view'.pending = v.pending /\ view'.bundle = v.bundle
         /\ view'.live = IF v.selected # view.selected THEN {} ELSE v.live
         /\ waits'["bundle"] = IF v.selected # view.selected THEN v.selected
                               ELSE waiting["bundle"]
         /\ waits'["replay"] = IF Key("replay", v) # Key("replay", view) THEN Key("replay", v)
                               ELSE waiting["replay"]
<1>1. /\ view' = [v EXCEPT !.live = IF v.selected # view.selected THEN {} ELSE @]
      /\ waits' = [x \in Effect |-> IF Key(x, v) # Key(x, view) THEN Key(x, v) ELSE waiting[x]]
  BY DEF Render, AtOnce
<1>2. PICK l : l = IF v.selected # view.selected THEN {} ELSE v.live
  OBVIOUS
<1>3. view' = [selected |-> v.selected, event |-> v.event, mode |-> v.mode, index |-> v.index,
               pending |-> v.pending, bundle |-> v.bundle, live |-> l, replay |-> v.replay]
  BY <1>1, <1>2 DEF StoreOf
<1>4. Key("bundle", v) = v.selected /\ Key("bundle", view) = view.selected
  BY DEF Key
<1> QED
  BY <1>1, <1>2, <1>3, <1>4 DEF Effect

LEMMA PageTypesKept ==
  ASSUME PageTypes, NEW v, NEW waiting, Render(v, waiting), StoreOf(v),
         v.selected \in SessionIds \cup {Nil}, v.live = view.live,
         v.bundle.last \in Nat, v.bundle.load \in {0, 1}, UNCHANGED recordedOf
  PROVE  PageTypes'
<1>1. /\ view'.selected = v.selected /\ view'.bundle = v.bundle
      /\ view'.live = IF v.selected # view.selected THEN {} ELSE view.live
  BY Rendered
<1>2. IsFiniteSet(view'.live)
  BY <1>1, FS_EmptySet DEF PageTypes
<1>3. \A e \in view'.live : \E n \in Nat \ {0} : e = Ev(view'.selected, n)
  <2>1. CASE v.selected # view.selected
    BY <1>1, <2>1
  <2>2. CASE v.selected = view.selected
    BY <1>1, <2>2 DEF PageTypes
  <2> QED
    BY <2>1, <2>2
<1> QED
  BY <1>1, <1>2, <1>3 DEF PageTypes

\* A step that changes nothing of the store but live events.
LEMMA StandingStays ==
  ASSUME Standing, UNCHANGED <<waits, failed, sought>>,
         view'.event = view.event, view'.selected = view.selected, view'.mode = view.mode,
         view'.pending = view.pending, view'.index = view.index, view'.bundle = view.bundle
  PROVE  Standing'
<1>1. InBundle(view)' = InBundle(view)
  BY DEF InBundle
<1>2. AtResult' <=> AtResult
  BY DEF AtResult
<1> QED
  BY <1>1, <1>2 DEF Standing

LEMMA EventOf ==
  ASSUME PageTypes, NEW s \in SessionIds, NEW e \in EventsOf(s)
  PROVE  \E n \in Nat \ {0} : e = Ev(s, n)
<1>1. recordedOf[s] \in Nat
  BY DEF PageTypes
<1> QED
  BY <1>1 DEF EventsOf

\* An event of a bundle has the session of the bundle and a number in it.
LEMMA BundleEvent ==
  ASSUME NEW s, NEW n, NEW v, Ev(s, n) \in InBundle(v)
  PROVE  v.bundle.session = s /\ n \in 1..v.bundle.last
<1>1. PICK k \in 1..v.bundle.last : Ev(s, n) = Ev(v.bundle.session, k)
  BY DEF InBundle
<1> QED
  BY <1>1, EvIs

LEMMA ClicksForget ==
  ASSUME ShownInv, SoughtInv, NEW v, StoreOf(v),
         Render(v, waits), sought' = Nil, UNCHANGED recordedOf,
         v.selected \in SessionIds \cup {Nil}, v.live = view.live, v.bundle = view.bundle
  PROVE  SoughtInv'
<1>1. PICK waiting : waiting = waits
  OBVIOUS
<1>2. Render(v, waiting)
  BY <1>1
<1>3. v.bundle.last \in Nat /\ v.bundle.load \in {0, 1} /\ PageTypes
  BY DEF SoughtInv, PageTypes
<1>4. PageTypes'
  BY <1>2, <1>3, PageTypesKept
<1> QED
  BY <1>2, <1>4 DEF SoughtInv

\* A jump to a search result: if the replay need not be asked for again, the bundle
\* is the one at hand, and the place found in it is right.
LEMMA JumpSeeks ==
  ASSUME ShownInv, SoughtInv, NEW s \in SessionIds, NEW e \in EventsOf(s), JumpToSearchResult(e)
  PROVE  SoughtInv'
<1>1. PICK waiting : waiting = waits
  OBVIOUS
<1>2. PICK i : i = FindIndex(IF e.session = view.selected THEN Merged(view) ELSE <<>>, e)
  OBVIOUS
<1>3. PICK v : v = [view EXCEPT !.mode = "full", !.selected = e.session, !.event = e,
                                !.index = i, !.pending = e]
  OBVIOUS
<1>4. /\ Render(v, waiting) /\ sought' = e /\ UNCHANGED recordedOf
  BY <1>1, <1>2, <1>3 DEF JumpToSearchResult, Clicked
<1>5. PICK n \in Nat \ {0} : e = Ev(s, n)
  BY EventOf DEF SoughtInv
<1>6. e.session = s /\ e.n = n /\ e # Nil
  BY <1>5, EvIs
<1>7. /\ StoreOf(v) /\ v.live = view.live /\ v.bundle = view.bundle
      /\ v.selected = s /\ v.event = e /\ v.mode = "full" /\ v.index = i /\ v.pending = e
  BY <1>3, <1>6 DEF StoreOf, ShownInv
<1>8. PageTypes'
  <2>1. v.bundle.last \in Nat /\ v.bundle.load \in {0, 1} /\ PageTypes
    BY <1>7 DEF SoughtInv, PageTypes
  <2> QED
    BY <1>4, <1>7, <2>1, PageTypesKept
<1>9. /\ view'.selected = s /\ view'.event = e /\ view'.mode = "full"
      /\ view'.index = i /\ view'.pending = e /\ view'.bundle = view.bundle
      /\ waits'["replay"] = IF Key("replay", v) # Key("replay", view) THEN Key("replay", v)
                            ELSE waiting["replay"]
  BY <1>4, <1>7, Rendered
<1>10. ASSUME waits'["replay"] = Nil, e \in InBundle(view')
       PROVE  view'.index = n - 1
  <2>1. view.bundle.session = s /\ n \in 1..view.bundle.last
    BY <1>5, <1>9, <1>10, BundleEvent
  <2>2. s # Nil
    BY SessionAssumption
  <2>3. Key("replay", v) = <<s, view.bundle, "full", e>>
    BY <1>7, <2>1, <2>2 DEF Key
  <2>4. Key("replay", v) = Key("replay", view)
    <3>1. Key("replay", v) # Nil
      BY <2>3 DEF Nil
    <3> QED
      BY <1>9, <1>10, <3>1
  <2>5. view.selected = s
    <3>1. Key("replay", view) # Nil
      BY <2>3, <2>4 DEF Nil
    <3>2. Key("replay", view) = <<view.selected, view.bundle, view.mode, view.event>>
      BY <3>1 DEF Key
    <3> QED
      BY <2>3, <2>4, <3>2
  <2>6. FindIndex(Merged(view), Ev(s, n)) = n - 1
    BY <2>1, <2>2, <2>5, MergedInOrder DEF SoughtInv
  <2> QED
    BY <1>2, <1>5, <1>6, <1>9, <2>5, <2>6
<1>11. Standing'
  <2>1. e # Nil /\ InBundle(view)' = InBundle(view')
    BY <1>6 DEF InBundle
  <2>2. AtResult' <=> view'.index = n - 1
    BY <1>4, <1>6 DEF AtResult
  <2> QED
    BY <1>4, <1>5, <1>6, <1>9, <1>10, <2>1, <2>2 DEF Standing
<1> QED
  BY <1>8, <1>11 DEF SoughtInv

\* The list of sessions comes before any click.
LEMMA SessionsLoadedSeeks ==
  ASSUME ShownInv, SoughtInv, NEW s \in SessionIds, SessionsLoaded(s)
  PROVE  SoughtInv'
<1>1. PICK waiting : waiting = waits
  OBVIOUS
<1>2. PICK v : v = [view EXCEPT !.selected = s]
  OBVIOUS
<1>3. Render(v, waiting) /\ view.selected = Nil /\ UNCHANGED <<recordedOf, sought>>
  BY <1>1, <1>2 DEF SessionsLoaded
<1>4. StoreOf(v) /\ v.live = view.live /\ v.bundle = view.bundle /\ v.selected = s
  BY <1>2 DEF StoreOf, ShownInv
<1>5. PageTypes'
  <2>1. v.bundle.last \in Nat /\ v.bundle.load \in {0, 1} /\ PageTypes
    BY <1>4 DEF SoughtInv, PageTypes
  <2> QED
    BY <1>3, <1>4, <2>1, PageTypesKept
<1>6. sought = Nil
  <2> SUFFICES ASSUME sought # Nil
               PROVE  FALSE
    OBVIOUS
  <2>1. view.selected \in SessionIds
    BY EvIs DEF SoughtInv, Standing
  <2> QED
    BY <1>3, <2>1, SessionAssumption
<1> QED
  BY <1>3, <1>5, <1>6 DEF SoughtInv

\* A bundle that comes sets off a new replay: the result is looked for again.
LEMMA BundleSeeks ==
  ASSUME ShownInv, SoughtInv, BundleArrives
  PROVE  SoughtInv'
<1> DEFINE s == view.selected
<1>1. PICK waiting : waiting = [waits EXCEPT !["bundle"] = Nil]
  OBVIOUS
<1>2. PICK v : v = WithBundle(waits["bundle"])
  OBVIOUS
<1>3. /\ waits["bundle"] # Nil /\ Render(v, waiting) /\ failed' = failed \ {"bundle"}
      /\ UNCHANGED <<recordedOf, sought>>
  BY <1>1, <1>2 DEF BundleArrives, EffectAnswered
<1>4. waits["bundle"] = s
  BY <1>3 DEF ShownInv, Current, Effect, Key
<1>5. s \in SessionIds /\ s # Nil /\ recordedOf[s] \in Nat
  BY <1>3, <1>4 DEF SoughtInv, PageTypes
<1>6. PICK b : b = [session |-> s, last |-> recordedOf[s], load |-> 1 - view.bundle.load]
  OBVIOUS
<1>7. PICK ev : ev = IF view.event = Nil THEN Ev(s, 1) ELSE view.event
  OBVIOUS
<1>8. PICK pe : pe = IF ev = view.pending THEN view.pending ELSE Nil
  OBVIOUS
<1>9. v = [view EXCEPT !.bundle = b, !.event = ev, !.pending = pe]
  BY <1>2, <1>4, <1>6, <1>7, <1>8 DEF WithBundle, Keep
<1>10. /\ StoreOf(v) /\ v.live = view.live /\ v.selected = s /\ v.bundle = b
       /\ v.mode = view.mode /\ v.event = ev /\ v.pending = pe
  BY <1>9 DEF StoreOf, ShownInv
<1>11. /\ b.session = s /\ b.last \in Nat /\ b.load \in {0, 1} /\ b # view.bundle
  <2>1. b.session = s /\ b.last = recordedOf[s] /\ b.load = 1 - view.bundle.load
    BY <1>6
  <2>2. view.bundle.load \in {0, 1}
    BY DEF SoughtInv, PageTypes
  <2>3. b.load \in {0, 1} /\ b.load # view.bundle.load
    BY <2>1, <2>2
  <2> QED
    BY <1>5, <2>1, <2>3
<1>12. PageTypes'
  <2>1. PageTypes /\ v.selected \in SessionIds \cup {Nil}
    BY <1>5, <1>10 DEF SoughtInv
  <2> QED
    BY <1>3, <1>10, <1>11, <2>1, PageTypesKept
<1>13. Key("replay", v) = <<s, b, view.mode, ev>>
  BY <1>5, <1>10, <1>11 DEF Key
<1>14. Key("replay", v) # Nil /\ Key("replay", v) # Key("replay", view)
  <2>1. Key("replay", view) \in {<<s, view.bundle, view.mode, view.event>>, Nil}
    BY DEF Key
  <2>2. Key("replay", v) # Nil
    BY <1>13 DEF Nil
  <2>3. Key("replay", v) # <<s, view.bundle, view.mode, view.event>>
    BY <1>11, <1>13
  <2> QED
    BY <2>1, <2>2, <2>3
<1>15. waits'["replay"] # Nil /\ view'.event = ev /\ view'.pending = pe
       /\ view'.selected = s /\ view'.mode = view.mode
  BY <1>3, <1>10, <1>14, Rendered
<1>16. ASSUME sought # Nil
       PROVE  Standing'
  <2>1. Standing
    BY <1>16 DEF SoughtInv
  <2>2. view.pending = sought /\ view.event = sought
    BY <1>3, <2>1 DEF Standing
  <2>3. ev = sought /\ pe = sought
    BY <1>7, <1>8, <1>16, <2>2
  <2> QED
    BY <1>3, <1>15, <1>16, <2>1, <2>3 DEF Standing
<1> QED
  BY <1>3, <1>12, <1>16 DEF SoughtInv

\* A replay that comes while no bundle is awaited is of the bundle at hand: the
\* result is found in it if it is there.
LEMMA ReplaySeeks ==
  ASSUME ShownInv, SoughtInv, NEW stop, ReplayArrives(stop)
  PROVE  SoughtInv'
<1>1. PICK waiting : waiting = [waits EXCEPT !["replay"] = Nil]
  OBVIOUS
<1> DEFINE key == waits["replay"]
           lands == view.pending # Nil /\ view.pending.session = key[1] /\ key[3] = "full"
                    /\ view.pending \in ToSet(Merged(view))
<1>2. PICK i : i = IF lands THEN FindIndex(Merged(view), view.pending) ELSE stop
  OBVIOUS
<1>3. PICK v : v = [view EXCEPT !.replay = key, !.index = i, !.pending = Nil]
  OBVIOUS
<1>4. /\ Render(v, waiting) /\ key # Nil /\ UNCHANGED recordedOf
      /\ sought' = IF waits["bundle"] # Nil THEN Nil ELSE sought
  BY <1>1, <1>2, <1>3 DEF ReplayArrives
<1>5. key = Key("replay", view)
  BY <1>4 DEF ShownInv, Current, Effect
<1>6. /\ key = <<view.selected, view.bundle, view.mode, view.event>>
      /\ view.selected # Nil /\ view.bundle.session = view.selected
  BY <1>4, <1>5 DEF Key
<1>7. /\ StoreOf(v) /\ v.live = view.live /\ v.bundle = view.bundle /\ v.selected = view.selected
      /\ v.mode = view.mode /\ v.event = view.event /\ v.index = i /\ v.pending = Nil
  BY <1>3 DEF StoreOf, ShownInv
<1>8. PageTypes'
  <2>1. PageTypes /\ v.selected \in SessionIds \cup {Nil}
        /\ v.bundle.last \in Nat /\ v.bundle.load \in {0, 1}
    BY <1>7 DEF SoughtInv, PageTypes
  <2> QED
    BY <1>4, <1>7, <2>1, PageTypesKept
<1>9. Key("replay", v) = Key("replay", view)
  BY <1>7 DEF Key
<1>10. waiting["replay"] = Nil /\ waiting["bundle"] = waits["bundle"]
  BY <1>1 DEF ShownInv, Effect
<1>11. /\ view'.selected = view.selected /\ view'.event = view.event /\ view'.mode = view.mode
       /\ view'.index = i /\ view'.pending = Nil /\ view'.bundle = view.bundle
       /\ waits'["bundle"] = waits["bundle"] /\ waits'["replay"] = Nil
  BY <1>4, <1>7, <1>9, <1>10, Rendered
<1>12. ASSUME sought' # Nil
       PROVE  Standing'
  <2>1. sought' = sought /\ waits["bundle"] = Nil /\ Standing
    BY <1>4, <1>12 DEF SoughtInv
  <2>2. view.pending = sought
    BY <1>4, <1>12, <2>1 DEF Standing
  <2>3. PICK s \in SessionIds : \E n \in Nat \ {0} : sought = Ev(s, n)
    BY <2>1 DEF Standing
  <2>4. PICK n \in Nat \ {0} : sought = Ev(s, n)
    BY <2>3
  <2>5. sought.session = s /\ sought.n = n /\ view.selected = s /\ view.mode = "full"
    BY <2>1, <2>4, EvIs DEF Standing
  <2>6. ASSUME sought \in InBundle(view)
        PROVE  i = n - 1
    <3>1. n \in 1..view.bundle.last
      BY <2>4, <2>6, BundleEvent
    <3>2. /\ n <= Len(Merged(view)) /\ Merged(view)[n] = sought
          /\ FindIndex(Merged(view), sought) = n - 1 /\ sought \in ToSet(Merged(view))
      BY <1>6, <2>4, <2>5, <3>1, MergedInOrder DEF SoughtInv
    <3>3. lands
      BY <1>6, <1>12, <2>1, <2>2, <2>5, <3>2
    <3> QED
      BY <1>2, <2>2, <3>2, <3>3
  <2>7. InBundle(view)' = InBundle(view)
    BY <1>11 DEF InBundle
  <2>8. AtResult' <=> i = n - 1
    BY <1>11, <2>1, <2>5 DEF AtResult
  <2> QED
    BY <1>11, <2>1, <2>6, <2>7, <2>8 DEF Standing
<1> QED
  BY <1>8, <1>12 DEF SoughtInv

LEMMA FailsSeeks ==
  ASSUME ShownInv, SoughtInv, NEW x \in Effect, Fails(x)
  PROVE  SoughtInv'
<1>1. PICK waiting : waiting = [waits EXCEPT ![x] = Nil]
  OBVIOUS
<1>2. PICK v : v = view
  OBVIOUS
<1>3. /\ Render(v, waiting) /\ waits[x] # Nil /\ failed' = failed \cup {x}
      /\ UNCHANGED <<recordedOf, sought>>
  BY <1>1, <1>2 DEF Fails
<1>4. StoreOf(v) /\ \A y \in Effect : waiting[y] = IF y = x THEN Nil ELSE waits[y]
  BY <1>1, <1>2 DEF ShownInv
<1>5. PageTypes'
  <2>1. PageTypes /\ v.selected \in SessionIds \cup {Nil} /\ v.live = view.live
        /\ v.bundle.last \in Nat /\ v.bundle.load \in {0, 1}
    BY <1>2 DEF SoughtInv, PageTypes
  <2> QED
    BY <1>3, <1>4, <2>1, PageTypesKept
<1>6. /\ view'.selected = view.selected /\ view'.event = view.event /\ view'.mode = view.mode
      /\ view'.index = view.index /\ view'.pending = view.pending /\ view'.bundle = view.bundle
      /\ waits'["replay"] = waiting["replay"]
  BY <1>2, <1>3, <1>4, Rendered
<1>7. ASSUME sought # Nil
      PROVE  Standing'
  <2>1. Standing
    BY <1>7 DEF SoughtInv
  <2>2. x \in {"bundle", "replay"} /\ "bundle" \in Effect /\ "replay" \in Effect
    BY DEF Effect
  <2>3. view.pending # Nil
    BY <1>3, <2>1, <2>2 DEF Standing
  <2>4. waits'["replay"] = Nil /\ "replay" \notin failed' => waits["replay"] = Nil /\ "replay" \notin failed
    BY <1>3, <1>4, <1>6, <2>2
  <2>5. InBundle(view)' = InBundle(view)
    BY <1>6 DEF InBundle
  <2>6. AtResult' <=> AtResult
    BY <1>3, <1>6 DEF AtResult
  <2> QED
    BY <1>3, <1>6, <2>1, <2>3, <2>4, <2>5, <2>6 DEF Standing
<1> QED
  BY <1>3, <1>5, <1>7 DEF SoughtInv

LEMMA LiveEventSeeks ==
  ASSUME ShownInv, SoughtInv, view.selected # Nil, NEW e \in EventsOf(view.selected), LiveEvent(e)
  PROVE  SoughtInv'
<1>1. /\ view' = [view EXCEPT !.live = @ \cup {e}]
      /\ UNCHANGED <<recordedOf, waits, failed, sought>>
  BY DEF LiveEvent
<1>2. /\ view'.live = view.live \cup {e}
      /\ view'.selected = view.selected /\ view'.bundle = view.bundle /\ view'.mode = view.mode
      /\ view'.event = view.event /\ view'.pending = view.pending /\ view'.index = view.index
  BY <1>1 DEF ShownInv, StoreOf
<1>3. PICK n \in Nat \ {0} : e = Ev(view.selected, n)
  <2>1. view.selected \in SessionIds
    BY DEF SoughtInv, PageTypes
  <2> QED
    BY <2>1, EventOf DEF SoughtInv
<1>4. PageTypes'
  <2>1. IsFiniteSet(view'.live)
    BY <1>2, FS_AddElement DEF SoughtInv, PageTypes
  <2>2. \A f \in view'.live : \E k \in Nat \ {0} : f = Ev(view'.selected, k)
    BY <1>2, <1>3 DEF SoughtInv, PageTypes
  <2> QED
    BY <1>1, <1>2, <2>1, <2>2 DEF SoughtInv, PageTypes
<1>5. Standing => Standing'
  BY <1>1, <1>2, StandingStays
<1> QED
  BY <1>1, <1>4, <1>5 DEF SoughtInv

LEMMA UserSeeks ==
  ASSUME ShownInv, SoughtInv,
         \/ \E s \in SessionIds : SelectSession(s) \/ SwitchSession(s)
         \/ \E e : Inspect(e)
         \/ \E m : SetReplayMode(m)
  PROVE  SoughtInv'
<1>1. StoreOf(view) /\ view.selected \in SessionIds \cup {Nil}
  BY DEF ShownInv, SoughtInv, PageTypes
<1>2. ASSUME NEW s \in SessionIds, SelectSession(s)
      PROVE  SoughtInv'
  <2>1. PICK v : v = [view EXCEPT !.selected = s, !.mode = "full", !.event = Nil, !.pending = Nil]
    OBVIOUS
  <2>2. Render(v, waits) /\ sought' = Nil /\ UNCHANGED recordedOf
    BY <1>2, <2>1 DEF SelectSession, Click, Clicked
  <2>3. StoreOf(v) /\ v.live = view.live /\ v.bundle = view.bundle /\ v.selected = s
    BY <2>1, <1>1 DEF StoreOf
  <2> QED
    BY <2>2, <2>3, ClicksForget
<1>3. ASSUME NEW s \in SessionIds, SwitchSession(s)
      PROVE  SoughtInv'
  <2>1. PICK v : v = [view EXCEPT !.selected = s, !.pending = Nil]
    OBVIOUS
  <2>2. Render(v, waits) /\ sought' = Nil /\ UNCHANGED recordedOf
    BY <1>3, <2>1 DEF SwitchSession, Click, Clicked
  <2>3. StoreOf(v) /\ v.live = view.live /\ v.bundle = view.bundle /\ v.selected = s
    BY <2>1, <1>1 DEF StoreOf
  <2> QED
    BY <2>2, <2>3, ClicksForget
<1>4. ASSUME NEW e, Inspect(e)
      PROVE  SoughtInv'
  <2>1. PICK v : v = [view EXCEPT !.event = e, !.pending = Nil, !.index = FindIndex(Merged(view), e)]
    OBVIOUS
  <2>2. Render(v, waits) /\ sought' = Nil /\ UNCHANGED recordedOf
    BY <1>4, <2>1 DEF Inspect, Click, Clicked
  <2>3. StoreOf(v) /\ v.live = view.live /\ v.bundle = view.bundle /\ v.selected = view.selected
    BY <2>1, <1>1 DEF StoreOf
  <2> QED
    BY <1>1, <2>2, <2>3, ClicksForget
<1>5. ASSUME NEW m, SetReplayMode(m)
      PROVE  SoughtInv'
  <2>1. PICK v : v = [view EXCEPT !.mode = m, !.pending = Nil]
    OBVIOUS
  <2>2. Render(v, waits) /\ sought' = Nil /\ UNCHANGED recordedOf
    BY <1>5, <2>1 DEF SetReplayMode, Click, Clicked
  <2>3. StoreOf(v) /\ v.live = view.live /\ v.bundle = view.bundle /\ v.selected = view.selected
    BY <2>1, <1>1 DEF StoreOf
  <2> QED
    BY <1>1, <2>2, <2>3, ClicksForget
<1> QED
  BY <1>2, <1>3, <1>4, <1>5

-----------------------------------------------------------------------------
(* Search results: the theorem *)

LEMMA SoughtStart == ViewInit => SoughtInv
<1> SUFFICES ASSUME ViewInit
             PROVE  SoughtInv
  OBVIOUS
<1>1. view.selected = Nil /\ view.live = {} /\ view.bundle.last = 0 /\ view.bundle.load = 0
  BY DEF ViewInit
<1>2. recordedOf \in [SessionIds -> Nat] /\ sought = Nil
  BY DEF ViewInit
<1> QED
  BY <1>1, <1>2, FS_EmptySet DEF SoughtInv, PageTypes

LEMMA SoughtStep == ShownInv /\ SoughtInv /\ [ViewNext]_viewVars => SoughtInv'
<1> SUFFICES ASSUME ShownInv, SoughtInv, [ViewNext]_viewVars
             PROVE  SoughtInv'
  OBVIOUS
<1>1. ASSUME UNCHANGED <<view, waits, failed, sought>>, recordedOf' \in [SessionIds -> Nat]
      PROVE  SoughtInv'
  <2>1. PageTypes'
    BY <1>1 DEF SoughtInv, PageTypes
  <2>2. Standing => Standing'
    BY <1>1, StandingStays
  <2> QED
    BY <1>1, <2>1, <2>2 DEF SoughtInv
<1>2. recordedOf \in [SessionIds -> Nat]
  BY DEF SoughtInv, PageTypes
<1>3. CASE \E s \in SessionIds : SelectSession(s) \/ SwitchSession(s)
  BY <1>3, UserSeeks
<1>4. CASE \E s \in SessionIds : SessionsLoaded(s)
  BY <1>4, SessionsLoadedSeeks
<1>5. ASSUME NEW s \in SessionIds, Stored(s)
      PROVE  SoughtInv'
  <2>1. recordedOf[s] + 1 \in Nat
    BY <1>2
  <2>2. recordedOf' \in [SessionIds -> Nat]
    BY <1>2, <1>5, <2>1 DEF Stored
  <2> QED
    BY <1>1, <1>5, <2>2 DEF Stored
<1>6. CASE \E s \in SessionIds : \E e \in EventsOf(s) : Inspect(e)
  BY <1>6, UserSeeks
<1>7. CASE \E s \in SessionIds : \E e \in EventsOf(s) : JumpToSearchResult(e)
  BY <1>7, JumpSeeks
<1>8. CASE view.selected # Nil /\ \E e \in EventsOf(view.selected) : LiveEvent(e)
  BY <1>8, LiveEventSeeks
<1>9. CASE \E m \in {"full", "focus"} : SetReplayMode(m)
  BY <1>9, UserSeeks
<1>10. CASE \E s \in ignored : IgnoredArrives(s)
  BY <1>1, <1>2, <1>10 DEF IgnoredArrives
<1>11. CASE UNCHANGED viewVars
  BY <1>1, <1>2, <1>11 DEF viewVars
<1> QED
  BY <1>3, <1>4, <1>5, <1>6, <1>7, <1>8, <1>9, <1>10, <1>11,
     BundleSeeks, ReplaySeeks, FailsSeeks DEF ViewNext

\* Jumping to a search result (jumpToSearchResult of App.tsx and its hooks): once
\* bundle and replay have loaded, a result that is in the bundle is the selected
\* event and the replay stands at it, whatever arrived in between and in whatever
\* order, until the user does something else.
THEOREM SearchedEventIsShown == ViewSpec => []SearchLands
<1>1. ShownInv /\ SoughtInv => SearchLands
  <2> SUFFICES ASSUME ShownInv, SoughtInv, sought # Nil, Settled("bundle"), Settled("replay"),
                      sought \in InBundle(view)
               PROVE  /\ view.event = sought /\ view.index < Len(Merged(view))
                      /\ Merged(view)[view.index + 1] = sought
    BY DEF SearchLands
  <2>1. /\ Standing /\ waits["bundle"] = Nil /\ waits["replay"] = Nil /\ "replay" \notin failed
    BY DEF SoughtInv, Settled
  <2>2. AtResult
    BY <2>1 DEF Standing
  <2>3. PICK s \in SessionIds : \E n \in Nat \ {0} : sought = Ev(s, n)
    BY <2>1 DEF Standing
  <2>4. PICK n \in Nat \ {0} : sought = Ev(s, n)
    BY <2>3
  <2>5. sought.session = s /\ sought.n = n /\ view.selected = s /\ s # Nil
    BY <2>1, <2>4, EvIs, SessionAssumption DEF Standing
  <2>6. view.bundle.session = s /\ n \in 1..view.bundle.last
    BY <2>4, BundleEvent
  <2>7. n <= Len(Merged(view)) /\ Merged(view)[n] = sought /\ Len(Merged(view)) \in Nat
    BY <2>4, <2>5, <2>6, MergedInOrder DEF SoughtInv
  <2>8. view.index = n - 1 /\ view.index + 1 = n
    BY <2>2, <2>5 DEF AtResult
  <2> QED
    BY <2>1, <2>7, <2>8 DEF Standing
<1>2. ViewInit => ShownInv /\ SoughtInv
  BY ShownStart, SoughtStart
<1>3. (ShownInv /\ SoughtInv) /\ [ViewNext]_viewVars => (ShownInv /\ SoughtInv)'
  BY ShownStep, SoughtStep
<1> QED
  BY <1>1, <1>2, <1>3, PTL DEF ViewSpec

-----------------------------------------------------------------------------
(* The audit: walks over the events *)

\* A level further.
Further(next, w) ==
  [seen |-> w.seen \cup (w.frontier \ w.seen),
   frontier |-> UNION {next[x] : x \in w.frontier \ w.seen}]

\* The levels of a walk up to n, as WalkOf takes them.
LevelsOf(g, F, S, next, n) ==
  g = [k \in 0..n |-> IF k = 0 THEN [seen |-> S, frontier |-> F]
                      ELSE Further(next, g[k - 1])]

\* The levels of a walk, however many.
Walks(w, F, S, next) ==
  /\ w[0] = [seen |-> S, frontier |-> F]
  /\ \A k \in Nat : w[k + 1] = Further(next, w[k])
  /\ \A k \in Nat : WalkOf(F, S, next, k) = w[k].seen

\* Induction, for a set of numbers.
LEMMA Counting ==
  ASSUME NEW G \in SUBSET Nat, 0 \in G, \A k \in G : k + 1 \in G
  PROVE  G = Nat
<1>1. SUFFICES ASSUME Nat \ G # {}
               PROVE  FALSE
  OBVIOUS
<1> DEFINE Missed == {n \in Nat : n \notin G}
<1>2. PICK n \in Missed : \A y \in Missed : ~(<<y, n>> \in OpToRel(<, Nat))
  BY <1>1, NatLessThanWellFounded, WFMin
<1>3. \A y \in Missed : ~(y < n)
  BY <1>2 DEF OpToRel
<1>4. n \in Nat /\ n \notin G /\ \A y \in Nat : y < n => y \in G
  BY <1>2, <1>3
<1>5. n - 1 \in Nat /\ n - 1 < n /\ (n - 1) + 1 = n
  BY <1>4
<1>6. n - 1 \in G
  BY <1>4, <1>5
<1> QED
  BY <1>4, <1>5, <1>6

LEMMA LevelsExist ==
  ASSUME NEW F, NEW S, NEW next, NEW n \in Nat
  PROVE  \E g : LevelsOf(g, F, S, next, n)
<1> DEFINE G == {m \in Nat : \E g : LevelsOf(g, F, S, next, m)}
<1>1. 0 \in G
  <2>1. PICK g : g = [k \in 0..0 |-> [seen |-> S, frontier |-> F]]
    OBVIOUS
  <2>2. g = [k \in 0..0 |-> IF k = 0 THEN [seen |-> S, frontier |-> F] ELSE Further(next, g[k - 1])]
    BY <2>1
  <2> QED
    BY <2>2 DEF LevelsOf
<1>2. \A m \in G : m + 1 \in G
  <2> SUFFICES ASSUME NEW m \in Nat, NEW g, LevelsOf(g, F, S, next, m)
               PROVE  \E h : LevelsOf(h, F, S, next, m + 1)
    OBVIOUS
  <2>1. PICK last : last = Further(next, g[m])
    OBVIOUS
  <2>2. PICK h : h = [k \in 0..(m + 1) |-> IF k <= m THEN g[k] ELSE last]
    OBVIOUS
  <2>3. \A k \in 0..m : h[k] = g[k] /\ g[k] = IF k = 0 THEN [seen |-> S, frontier |-> F]
                                             ELSE Further(next, g[k - 1])
    BY <2>2 DEF LevelsOf
  <2>4. h[m + 1] = last
    BY <2>2
  <2>5. \A k \in 0..(m + 1) : h[k] = IF k = 0 THEN [seen |-> S, frontier |-> F]
                                   ELSE Further(next, h[k - 1])
    <3> TAKE k \in 0..(m + 1)
    <3>1. CASE k \in 0..m
      <4>1. k = 0 \/ (k - 1) \in 0..m
        BY <3>1
      <4>2. CASE k = 0
        BY <2>3, <3>1, <4>2
      <4>3. CASE k # 0 /\ (k - 1) \in 0..m
        BY <2>3, <3>1, <4>3
      <4> QED
        BY <4>1, <4>2, <4>3
    <3>2. CASE k = m + 1
      <4>1. k # 0 /\ k - 1 = m /\ m \in 0..m
        BY <3>2
      <4>2. h[m] = g[m]
        BY <2>3, <4>1
      <4> QED
        BY <2>1, <2>4, <3>2, <4>1, <4>2
    <3> QED
      BY <3>1, <3>2
  <2>6. h = [k \in 0..(m + 1) |-> h[k]]
    BY <2>2
  <2>7. h = [k \in 0..(m + 1) |-> IF k = 0 THEN [seen |-> S, frontier |-> F]
                                  ELSE Further(next, h[k - 1])]
    BY <2>5, <2>6
  <2> QED
    BY <2>7 DEF LevelsOf
<1> HIDE DEF G
<1>3. G = Nat
  BY <1>1, <1>2, Counting DEF G
<1> QED
  BY <1>3 DEF G

LEMMA LevelsAgree ==
  ASSUME NEW F, NEW S, NEW next, NEW m \in Nat, NEW n \in Nat, NEW g, NEW h,
         LevelsOf(g, F, S, next, m), LevelsOf(h, F, S, next, n),
         NEW k \in Nat, k <= m, k <= n
  PROVE  g[k] = h[k]
<1> DEFINE G == {j \in Nat : j <= m /\ j <= n => g[j] = h[j]}
<1>1. \A j \in Nat : j <= m => g[j] = IF j = 0 THEN [seen |-> S, frontier |-> F]
                                     ELSE Further(next, g[j - 1])
  BY DEF LevelsOf
<1>2. \A j \in Nat : j <= n => h[j] = IF j = 0 THEN [seen |-> S, frontier |-> F]
                                     ELSE Further(next, h[j - 1])
  BY DEF LevelsOf
<1>3. 0 \in G
  BY <1>1, <1>2
<1>4. \A j \in G : j + 1 \in G
  <2> SUFFICES ASSUME NEW j \in Nat, j <= m /\ j <= n => g[j] = h[j], j + 1 <= m, j + 1 <= n
               PROVE  g[j + 1] = h[j + 1]
    OBVIOUS
  <2>1. j <= m /\ j <= n /\ j + 1 \in Nat /\ j + 1 # 0 /\ (j + 1) - 1 = j
    OBVIOUS
  <2>2. g[j + 1] = Further(next, g[j]) /\ h[j + 1] = Further(next, h[j])
    BY <1>1, <1>2, <2>1
  <2> QED
    BY <2>1, <2>2
<1> HIDE DEF G
<1>5. G = Nat
  BY <1>3, <1>4, Counting DEF G
<1> QED
  BY <1>5 DEF G

\* A walk, level by level.
LEMMA WalkIs ==
  ASSUME NEW F, NEW S, NEW next
  PROVE  \E w : Walks(w, F, S, next)
<1> DEFINE take(k) == CHOOSE g : LevelsOf(g, F, S, next, k)
<1>1. PICK w : w = [k \in Nat |-> take(k)[k]]
  OBVIOUS
<1>2. \A k \in Nat : LevelsOf(take(k), F, S, next, k)
  BY LevelsExist
<1>3. \A k \in Nat : w[k] = take(k)[k]
  BY <1>1
<1>4. ASSUME NEW k \in Nat
      PROVE  WalkOf(F, S, next, k) = take(k)[k].seen
  BY DEF WalkOf, LevelsOf, Further
<1> HIDE DEF take
<1>5. take(0)[0] = [seen |-> S, frontier |-> F]
  <2>1. LevelsOf(take(0), F, S, next, 0)
    BY <1>2
  <2> QED
    BY <2>1 DEF LevelsOf
<1>6. ASSUME NEW k \in Nat
      PROVE  take(k + 1)[k + 1] = Further(next, take(k)[k])
  <2>1. LevelsOf(take(k), F, S, next, k) /\ LevelsOf(take(k + 1), F, S, next, k + 1)
    BY <1>2
  <2>2. k + 1 \in 0..(k + 1) /\ k + 1 # 0 /\ (k + 1) - 1 = k /\ k <= k /\ k <= k + 1 /\ k + 1 \in Nat
    OBVIOUS
  <2>3. take(k + 1)[k + 1] = Further(next, take(k + 1)[k])
    <3>1. PICK g : g = take(k + 1)
      OBVIOUS
    <3>2. g[k + 1] = IF k + 1 = 0 THEN [seen |-> S, frontier |-> F] ELSE Further(next, g[(k + 1) - 1])
      BY <2>1, <2>2, <3>1 DEF LevelsOf
    <3> QED
      BY <2>2, <3>1, <3>2
  <2>4. take(k)[k] = take(k + 1)[k]
    BY <2>1, <2>2, LevelsAgree
  <2> QED
    BY <2>3, <2>4
<1>7. Walks(w, F, S, next)
  BY <1>3, <1>4, <1>5, <1>6 DEF Walks
<1> QED
  BY <1>7

\* The fields of a level.
LEMMA FurtherIs ==
  ASSUME NEW next, NEW w
  PROVE  /\ Further(next, w).seen = w.seen \cup w.frontier
         /\ \A x : x \in Further(next, w).frontier <=>
                     \E y \in w.frontier : y \notin w.seen /\ x \in next[y]
<1>1. PICK A, B : /\ A = w.seen \cup (w.frontier \ w.seen)
                /\ B = UNION {next[x] : x \in w.frontier \ w.seen}
  OBVIOUS
<1>2. Further(next, w) = [seen |-> A, frontier |-> B]
  BY <1>1 DEF Further
<1>3. Further(next, w).seen = A /\ Further(next, w).frontier = B
  BY <1>2
<1> QED
  BY <1>1, <1>3

\* A walk stays in a set that holds what it begins with and what follows.
LEMMA WalkWithin ==
  ASSUME NEW F, NEW S, NEW next, NEW C, F \subseteq C, S \subseteq C,
         \A x \in C : next[x] \subseteq C, NEW n \in Nat
  PROVE  WalkOf(F, S, next, n) \subseteq C
<1>0. PICK w : Walks(w, F, S, next)
  BY WalkIs
<1>1. /\ w[0] = [seen |-> S, frontier |-> F]
      /\ \A k \in Nat : w[k + 1] = Further(next, w[k])
      /\ \A k \in Nat : WalkOf(F, S, next, k) = w[k].seen
  BY <1>0 DEF Walks
<1> DEFINE G == {k \in Nat : w[k].seen \subseteq C /\ w[k].frontier \subseteq C}
<1>2. 0 \in G
  BY <1>1
<1>3. \A k \in G : k + 1 \in G
  BY <1>1, FurtherIs
<1> HIDE DEF G
<1>4. G = Nat
  BY <1>2, <1>3, Counting DEF G
<1> QED
  BY <1>1, <1>4 DEF G

\* A level more has all that follows what was seen.
LEMMA WalkGoesOn ==
  ASSUME NEW F, NEW S, NEW next, NEW n \in Nat
  PROVE  LET now == WalkOf(F, S, next, n)
             then == WalkOf(F, S, next, n + 1)
         IN  /\ now \subseteq then /\ S \subseteq now /\ F \subseteq then
             /\ \A x \in now : x \notin S => next[x] \subseteq then
<1>0. PICK w : Walks(w, F, S, next)
  BY WalkIs
<1>1. /\ w[0] = [seen |-> S, frontier |-> F]
      /\ \A k \in Nat : w[k + 1] = Further(next, w[k])
      /\ \A k \in Nat : WalkOf(F, S, next, k) = w[k].seen
  BY <1>0 DEF Walks
<1>2. \A k \in Nat : /\ w[k + 1].seen = w[k].seen \cup w[k].frontier
                     /\ \A x : x \in w[k + 1].frontier <=>
                                 \E y \in w[k].frontier : y \notin w[k].seen /\ x \in next[y]
  BY <1>1, FurtherIs
<1> DEFINE G == {k \in Nat : /\ S \subseteq w[k].seen /\ F \subseteq w[k + 1].seen
                             /\ \A x \in w[k].seen : x \notin S => next[x] \subseteq w[k + 1].seen}
<1>3. 0 \in G
  <2>1. w[0].seen = S /\ w[0].frontier = F /\ w[0 + 1].seen = S \cup F
    BY <1>1, <1>2
  <2> QED
    BY <2>1
<1>4. \A k \in G : k + 1 \in G
  <2> SUFFICES ASSUME NEW k \in G
               PROVE  k + 1 \in G
    OBVIOUS
  <2>1. k \in Nat /\ k + 1 \in Nat
    OBVIOUS
  <2>2. /\ w[k + 1].seen = w[k].seen \cup w[k].frontier
        /\ w[(k + 1) + 1].seen = w[k + 1].seen \cup w[k + 1].frontier
    BY <1>2, <2>1
  <2>3. ASSUME NEW x \in w[k + 1].seen, x \notin S
        PROVE  next[x] \subseteq w[(k + 1) + 1].seen
    <3>1. CASE x \in w[k].seen
      BY <2>2, <2>3, <3>1
    <3>2. CASE x \in w[k].frontier /\ x \notin w[k].seen
      <4>1. next[x] \subseteq w[k + 1].frontier
        BY <1>2, <2>1, <3>2
      <4> QED
        BY <2>2, <4>1
    <3> QED
      BY <2>2, <2>3, <3>1, <3>2
  <2> QED
    BY <2>1, <2>2, <2>3
<1> HIDE DEF G
<1>5. G = Nat
  BY <1>3, <1>4, Counting DEF G
<1>6. n \in G
  BY <1>5
<1>7. w[n].seen \subseteq w[n + 1].seen
  BY <1>2
<1> QED
  BY <1>1, <1>6, <1>7 DEF G

LEMMA WalkGrows ==
  ASSUME NEW F, NEW S, NEW next, NEW m \in Nat, NEW n \in Nat, m <= n
  PROVE  WalkOf(F, S, next, m) \subseteq WalkOf(F, S, next, n)
<1> DEFINE walk(k) == WalkOf(F, S, next, k)
           G == {k \in Nat : m <= k => walk(m) \subseteq walk(k)}
<1>1. \A k \in Nat : walk(k) \subseteq walk(k + 1)
  BY WalkGoesOn
<1> HIDE DEF walk
<1>2. 0 \in G
  <2>1. m <= 0 => m = 0
    OBVIOUS
  <2> QED
    BY <2>1
<1>3. \A k \in G : k + 1 \in G
  <2> SUFFICES ASSUME NEW k \in Nat, m <= k => walk(m) \subseteq walk(k), m <= k + 1
               PROVE  walk(m) \subseteq walk(k + 1)
    OBVIOUS
  <2>1. m = k + 1 \/ m <= k
    OBVIOUS
  <2> QED
    BY <1>1, <2>1
<1> HIDE DEF G
<1>4. G = Nat
  BY <1>2, <1>3, Counting DEF G
<1> QED
  BY <1>4 DEF G, walk

\* What is new on a level follows something that was new on the level before.
LEMMA WalkComesFrom ==
  ASSUME NEW F, NEW S, NEW next, NEW n \in Nat, NEW x \in WalkOf(F, S, next, n + 1),
         x \notin WalkOf(F, S, next, n)
  PROVE  /\ n = 0 => x \in F
         /\ n # 0 => \E y \in WalkOf(F, S, next, n) :
                       y \notin WalkOf(F, S, next, n - 1) /\ x \in next[y]
<1>0. PICK w : Walks(w, F, S, next)
  BY WalkIs
<1>1. /\ w[0] = [seen |-> S, frontier |-> F]
      /\ \A k \in Nat : w[k + 1] = Further(next, w[k])
      /\ \A k \in Nat : WalkOf(F, S, next, k) = w[k].seen
  BY <1>0 DEF Walks
<1>2. \A k \in Nat : /\ w[k + 1].seen = w[k].seen \cup w[k].frontier
                     /\ \A z : z \in w[k + 1].frontier <=>
                                 \E y \in w[k].frontier : y \notin w[k].seen /\ z \in next[y]
  <2> TAKE k \in Nat
  <2>1. w[k + 1] = Further(next, w[k])
    BY <1>1
  <2> QED
    BY <2>1, FurtherIs
<1>3. x \in w[n].frontier
  <2>1. WalkOf(F, S, next, n + 1) = w[n + 1].seen /\ WalkOf(F, S, next, n) = w[n].seen
    BY <1>1
  <2> QED
    BY <1>2, <2>1
<1>4. n = 0 => x \in F
  BY <1>1, <1>3
<1>5. ASSUME n # 0
      PROVE  \E y \in WalkOf(F, S, next, n) : y \notin WalkOf(F, S, next, n - 1) /\ x \in next[y]
  <2>1. n - 1 \in Nat /\ (n - 1) + 1 = n
    BY <1>5
  <2>2. /\ w[n].seen = w[n - 1].seen \cup w[n - 1].frontier
        /\ \E y \in w[n - 1].frontier : y \notin w[n - 1].seen /\ x \in next[y]
    BY <1>2, <1>3, <2>1
  <2>3. WalkOf(F, S, next, n) = w[n].seen /\ WalkOf(F, S, next, n - 1) = w[n - 1].seen
    BY <1>1, <2>1
  <2> QED
    BY <2>2, <2>3
<1> QED
  BY <1>4, <1>5

\* A walk of more levels than there are events has nowhere left to go.
LEMMA WalkEnds ==
  ASSUME NEW P, IsFiniteSet(P), NEW next \in [P -> SUBSET P], NEW F \in SUBSET P, NEW S \in SUBSET P,
         NEW n \in Nat, Cardinality(P) < n, NEW found, found = WalkOf(F, S, next, n)
  PROVE  /\ found \subseteq P /\ S \subseteq found /\ F \subseteq found
         /\ \A x \in found : x \notin S => next[x] \subseteq found
<1>0. PICK w : Walks(w, F, S, next)
  BY WalkIs
<1>1. /\ w[0] = [seen |-> S, frontier |-> F]
      /\ \A k \in Nat : w[k + 1] = Further(next, w[k])
      /\ \A k \in Nat : WalkOf(F, S, next, k) = w[k].seen
  BY <1>0 DEF Walks
<1>2. \A k \in Nat : /\ w[k + 1].seen = w[k].seen \cup w[k].frontier
                     /\ \A x : x \in w[k + 1].frontier <=>
                                 \E y \in w[k].frontier : y \notin w[k].seen /\ x \in next[y]
  BY <1>1, FurtherIs
<1> DEFINE G == {k \in Nat : /\ w[k].seen \subseteq P /\ w[k].frontier \subseteq P
                             /\ k <= Cardinality(w[k].seen) \/ w[k].frontier \subseteq w[k].seen}
<1>3. \A Q \in SUBSET P : /\ IsFiniteSet(Q) /\ Cardinality(Q) \in Nat
                          /\ Cardinality(Q) <= Cardinality(P) /\ Cardinality(P) \in Nat
  BY FS_Subset, FS_CardinalityType
<1>4. 0 \in G
  <2>1. w[0].seen = S /\ w[0].frontier = F
    BY <1>1
  <2> QED
    BY <1>3, <2>1
<1>5. \A k \in G : k + 1 \in G
  <2> SUFFICES ASSUME NEW k \in G
               PROVE  k + 1 \in G
    OBVIOUS
  <2>1. /\ k \in Nat /\ k + 1 \in Nat /\ w[k].seen \subseteq P /\ w[k].frontier \subseteq P
        /\ k <= Cardinality(w[k].seen) \/ w[k].frontier \subseteq w[k].seen
    OBVIOUS
  <2> HIDE DEF G
  <2>2. w[k + 1].seen = w[k].seen \cup w[k].frontier
    BY <1>2, <2>1
  <2>3. w[k + 1].seen \subseteq P /\ w[k + 1].frontier \subseteq P
    BY <1>2, <2>1, <2>2
  <2>4. CASE w[k].frontier \subseteq w[k].seen
    <3>1. w[k + 1].frontier \subseteq w[k + 1].seen
      BY <1>2, <2>1, <2>4
    <3> QED
      BY <2>1, <2>3, <3>1 DEF G
  <2>5. CASE k <= Cardinality(w[k].seen) /\ ~(w[k].frontier \subseteq w[k].seen)
    <3>1. PICK A, B : A = w[k].seen /\ B = w[k + 1].seen
      OBVIOUS
    <3>2. A \in SUBSET B /\ A # B /\ B \in SUBSET P /\ IsFiniteSet(B)
      BY <1>3, <2>2, <2>3, <2>5, <3>1
    <3>3. Cardinality(A) <= Cardinality(B) /\ Cardinality(B) # Cardinality(A)
      BY <3>2, FS_Subset
    <3>4. Cardinality(A) \in Nat /\ Cardinality(B) \in Nat
      BY <1>3, <2>1, <3>1, <3>2
    <3>5. k + 1 <= Cardinality(B)
      BY <2>1, <2>5, <3>1, <3>3, <3>4
    <3> QED
      BY <2>1, <2>3, <3>1, <3>5 DEF G
  <2> QED
    BY <2>1, <2>4, <2>5
<1> HIDE DEF G
<1>6. G = Nat
  BY <1>4, <1>5, Counting DEF G
<1>7. n <= Cardinality(w[n].seen) \/ w[n].frontier \subseteq w[n].seen
  BY <1>6 DEF G
<1>8. w[n].frontier \subseteq w[n].seen
  <2>1. w[n].seen \in SUBSET P
    BY <1>6 DEF G
  <2>2. PICK c, d : c = Cardinality(w[n].seen) /\ d = Cardinality(P)
    OBVIOUS
  <2>3. c \in Nat /\ d \in Nat /\ c <= d /\ d < n
    BY <1>3, <2>1, <2>2
  <2>4. ~(n <= c)
    BY <2>3
  <2> QED
    BY <1>7, <2>2, <2>4
<1>9. WalkOf(F, S, next, n + 1) = WalkOf(F, S, next, n)
  <2>1. w[n + 1].seen = w[n].seen
    <3>1. w[n + 1].seen = w[n].seen \cup w[n].frontier
      BY <1>2
    <3>2. w[n].seen \cup w[n].frontier = w[n].seen
      BY <1>8
    <3> QED
      BY <3>1, <3>2
  <2> QED
    BY <1>1, <2>1
<1>10. WalkOf(F, S, next, n) \subseteq P
  BY <1>1, <1>6 DEF G
<1> QED
  BY <1>9, <1>10, WalkGoesOn

\* No level yet.
LEMMA WalkStarts ==
  ASSUME NEW F, NEW S, NEW next
  PROVE  WalkOf(F, S, next, 0) = S
<1>0. PICK w : Walks(w, F, S, next)
  BY WalkIs
<1>1. /\ w[0] = [seen |-> S, frontier |-> F]
      /\ \A k \in Nat : w[k + 1] = Further(next, w[k])
      /\ \A k \in Nat : WalkOf(F, S, next, k) = w[k].seen
  BY <1>0 DEF Walks
<1> QED
  BY <1>1

-----------------------------------------------------------------------------
(* The audit: what its walks find *)

AuditTypes == Landed \subseteq Places /\ trace \in [Landed -> Said]

LEMMA LandedIs ==
  ASSUME AuditTypes
  PROVE  /\ IsFiniteSet(Landed) /\ AllLevels \in Nat /\ Cardinality(Landed) < AllLevels
         /\ TraceLength \in Nat \ {0} /\ ContradictionLevels \in Nat \ {0}
<1>1. TraceLength \in Nat \ {0} /\ ContradictionLevels \in Nat \ {0}
  BY AuditAssumption
<1>2. IsFiniteSet(Places) /\ Cardinality(Places) = TraceLength
  <2>1. 1 \in Int /\ TraceLength \in Int
        /\ (IF 1 > TraceLength THEN 0 ELSE TraceLength - 1 + 1) = TraceLength
    BY <1>1
  <2> QED
    BY <2>1, FS_Interval DEF Places
<1>3. /\ IsFiniteSet(Landed) /\ Cardinality(Landed) <= Cardinality(Places)
  BY <1>2, FS_Subset DEF AuditTypes
<1>4. Cardinality(Landed) \in Nat
  BY <1>3, FS_CardinalityType
<1> QED
  BY <1>1, <1>2, <1>3, <1>4 DEF AllLevels

LEMMA ChildrenAre ==
  /\ ChildrenIndex \in [Landed -> SUBSET Landed]
  /\ \A e \in Landed : ChildrenIndex[e] = ChildrenOf(e) /\ ChildrenOf(e) \subseteq Landed
  BY DEF ChildrenIndex, ChildrenOf

\* What refers to an event, what refers to that, and nothing else.
LEMMA SubtreeIs ==
  ASSUME AuditTypes, NEW e \in Landed
  PROVE  /\ Subtree(e) \subseteq Landed /\ ChildrenOf(e) \subseteq Subtree(e)
         /\ \A x \in Subtree(e) : ChildrenOf(x) \subseteq Subtree(e)
         /\ \A C \in SUBSET Landed :
              ChildrenOf(e) \subseteq C /\ (\A x \in C : ChildrenOf(x) \subseteq C)
                => Subtree(e) \subseteq C
<1>1. /\ ChildrenOf(e) \in SUBSET Landed /\ ChildrenIndex \in [Landed -> SUBSET Landed]
      /\ IsFiniteSet(Landed) /\ AllLevels \in Nat /\ Cardinality(Landed) < AllLevels
  BY ChildrenAre, LandedIs
<1>2. {} \in SUBSET Landed
  OBVIOUS
<1>3. /\ Subtree(e) \subseteq Landed /\ ChildrenOf(e) \subseteq Subtree(e)
      /\ \A x \in Subtree(e) : ChildrenIndex[x] \subseteq Subtree(e)
  <2>1. PICK found : found = WalkOf(ChildrenOf(e), {}, ChildrenIndex, AllLevels)
    OBVIOUS
  <2>2. /\ found \subseteq Landed /\ ChildrenOf(e) \subseteq found
        /\ \A x \in found : x \notin {} => ChildrenIndex[x] \subseteq found
    BY <1>1, <1>2, <2>1, WalkEnds
  <2> QED
    BY <2>1, <2>2 DEF Subtree
<1>4. ASSUME NEW C \in SUBSET Landed, ChildrenOf(e) \subseteq C,
             \A x \in C : ChildrenOf(x) \subseteq C
      PROVE  Subtree(e) \subseteq C
  <2>1. \A x \in C : ChildrenIndex[x] \subseteq C
    BY <1>4, ChildrenAre
  <2>2. {} \subseteq C
    OBVIOUS
  <2> QED
    BY <1>1, <1>4, <2>1, <2>2, WalkWithin DEF Subtree
<1>5. \A x \in Subtree(e) : ChildrenOf(x) \subseteq Subtree(e)
  BY <1>3, ChildrenAre
<1> QED
  BY <1>3, <1>4, <1>5

-----------------------------------------------------------------------------

Pairs == SUBSET (Landed \X Landed)
Along(e, deps) == Reached(e, deps) \cup {e}

\* An event and what depends on it.
LEMMA ReachedIs ==
  ASSUME AuditTypes, NEW deps \in Pairs, NEW e \in Landed
  PROVE  /\ e \notin Reached(e, deps) /\ Along(e, deps) \subseteq Landed
         /\ \A x \in Along(e, deps), y \in Landed : <<x, y>> \in deps => y \in Along(e, deps)
         /\ \A C \in SUBSET Landed :
              e \in C /\ (\A x \in C, y \in Landed : <<x, y>> \in deps => y \in C)
                => Along(e, deps) \subseteq C
<1> DEFINE next == [x \in Landed |-> {g[2] : g \in {h \in deps : h[1] = x}}]
           walk == WalkOf(next[e], {e}, next, AllLevels)
<1>1. \A x \in Landed : \A y : y \in next[x] <=> y \in Landed /\ <<x, y>> \in deps
  BY DEF Pairs
<1>2. next \in [Landed -> SUBSET Landed]
  BY DEF Pairs
<1>3. Reached(e, deps) = walk \ {e}
  BY DEF Reached
<1> HIDE DEF next
<1>4. next[e] \in SUBSET Landed /\ {e} \in SUBSET Landed
  BY <1>2
<1>5. /\ walk \subseteq Landed /\ {e} \subseteq walk /\ next[e] \subseteq walk
      /\ \A x \in walk : x \notin {e} => next[x] \subseteq walk
  <2>1. IsFiniteSet(Landed) /\ AllLevels \in Nat /\ Cardinality(Landed) < AllLevels
    BY LandedIs
  <2>2. PICK F, S : F = next[e] /\ S = {e}
    OBVIOUS
  <2>3. PICK found : found = WalkOf(F, S, next, AllLevels)
    OBVIOUS
  <2>4. F \in SUBSET Landed /\ S \in SUBSET Landed
    BY <1>4, <2>2
  <2>5. /\ found \subseteq Landed /\ S \subseteq found /\ F \subseteq found
        /\ \A x \in found : x \notin S => next[x] \subseteq found
    BY <1>2, <2>1, <2>3, <2>4, WalkEnds
  <2>6. walk = found
    BY <2>2, <2>3
  <2> HIDE DEF walk
  <2> QED
    BY <2>2, <2>5, <2>6
<1>6. ASSUME NEW C \in SUBSET Landed, e \in C,
             \A x \in C, y \in Landed : <<x, y>> \in deps => y \in C
      PROVE  walk \subseteq C
  <2>1. \A x \in C : next[x] \subseteq C
    BY <1>1, <1>6
  <2>2. next[e] \subseteq C /\ {e} \subseteq C /\ AllLevels \in Nat
    BY <1>6, <2>1, LandedIs
  <2> QED
    BY <2>1, <2>2, WalkWithin
<1> HIDE DEF walk
<1>7. Along(e, deps) = walk
  BY <1>3, <1>5 DEF Along
<1>8. \A x \in walk : next[x] \subseteq walk
  BY <1>5
<1>9. \A x \in walk, y \in Landed : <<x, y>> \in deps => y \in walk
  BY <1>1, <1>5, <1>8
<1> QED
  BY <1>3, <1>5, <1>6, <1>7, <1>9

\* Going back, one finds where one came from.
LEMMA ReachedBack ==
  ASSUME AuditTypes, NEW deps \in Pairs, NEW back \in Pairs,
         \A x, y \in Landed : <<x, y>> \in deps => <<y, x>> \in back,
         NEW d \in Landed, NEW e \in Reached(d, deps)
  PROVE  d \in Reached(e, back)
<1> DEFINE C == {x \in Landed : d \in Along(x, back)}
<1>1. d \in C
  BY DEF Along
<1>2. ASSUME NEW x \in C, NEW y \in Landed, <<x, y>> \in deps
      PROVE  y \in C
  <2>1. /\ y \in Along(y, back) /\ Along(y, back) \in SUBSET Landed
        /\ \A a \in Along(y, back), b \in Landed : <<a, b>> \in back => b \in Along(y, back)
    BY ReachedIs DEF Along
  <2>2. x \in Landed /\ x \in Along(y, back)
    BY <1>2, <2>1
  <2>3. Along(x, back) \subseteq Along(y, back)
    BY <2>1, <2>2, ReachedIs
  <2>4. d \in Along(x, back)
    BY <1>2
  <2> QED
    BY <2>3, <2>4
<1>3. C \in SUBSET Landed /\ \A x \in C, y \in Landed : <<x, y>> \in deps => y \in C
  BY <1>2
<1> HIDE DEF C
<1>4. Along(d, deps) \subseteq C /\ d \notin Reached(d, deps)
  BY <1>1, <1>3, ReachedIs
<1>5. e \in C /\ e # d
  BY <1>4 DEF Along
<1> QED
  BY <1>5 DEF C, Along

-----------------------------------------------------------------------------
(* The audit: paths to failures *)

\* What an event says.
LEMMA SaidIs ==
  ASSUME AuditTypes, NEW e \in Landed
  PROVE  /\ trace[e].refs \subseteq Places /\ trace[e].cites \subseteq Places
         /\ trace[e].kind # "decision" => trace[e].cites = {}
  BY DEF AuditTypes, Said

\* Searched at least as deep as there are events, nothing more is found.
LEMMA DeeperFinds ==
  ASSUME AuditTypes, NEW d \in Landed, NEW m \in Nat, NEW n \in Nat, FailsWithin(d, m),
         m <= n \/ AllLevels <= n
  PROVE  FailsWithin(d, n)
<1> DEFINE walk(k) == WalkOf(ChildrenOf(d), {d}, ChildrenIndex, k)
<1>1. IsFiniteSet(Landed) /\ AllLevels \in Nat /\ Cardinality(Landed) < AllLevels
  BY LandedIs
<1>2. /\ ChildrenOf(d) \in SUBSET Landed /\ {d} \in SUBSET Landed
      /\ ChildrenIndex \in [Landed -> SUBSET Landed] /\ ChildrenIndex[d] = ChildrenOf(d)
  BY ChildrenAre
<1>3. walk(m) \subseteq walk(n)
  <2>1. CASE m <= n
    BY <2>1, WalkGrows
  <2>2. CASE AllLevels <= n
    <3>1. PICK F, S : F = ChildrenOf(d) /\ S = {d}
      OBVIOUS
    <3>2. PICK found : found = WalkOf(F, S, ChildrenIndex, AllLevels)
      OBVIOUS
    <3>3. F \in SUBSET Landed /\ S \in SUBSET Landed
      BY <1>2, <3>1
    <3>4. /\ S \subseteq found /\ F \subseteq found
          /\ \A x \in found : x \notin S => ChildrenIndex[x] \subseteq found
      BY <1>1, <1>2, <3>3, <3>2, WalkEnds
    <3>5. \A x \in found : ChildrenIndex[x] \subseteq found
      BY <1>2, <3>1, <3>4
    <3>6. WalkOf(F, S, ChildrenIndex, m) \subseteq found
      BY <3>4, <3>5, WalkWithin
    <3>7. found \subseteq WalkOf(F, S, ChildrenIndex, n)
      BY <1>1, <2>2, <3>2, WalkGrows
    <3> QED
      BY <3>1, <3>2, <3>6, <3>7
  <2> QED
    BY <2>1, <2>2
<1> QED
  BY <1>3 DEF FailsWithin

\* The path to the nearest failure.
LEMMA PathIs ==
  ASSUME AuditTypes, NEW d \in Landed
  PROVE  /\ PathLength(d) \in Nat /\ PathLength(d) <= AllLevels
         /\ PathLength(d) # 0 => FailsWithin(d, PathLength(d))
         /\ \A n \in 1..AllLevels : FailsWithin(d, n) => PathLength(d) \in 1..n
<1> DEFINE found == {n \in 1..AllLevels : FailsWithin(d, n)}
<1>1. AllLevels \in Nat
  BY LandedIs
<1>2. CASE found = {}
  <2>1. PathLength(d) = 0
    BY <1>2 DEF PathLength
  <2> QED
    BY <1>1, <1>2, <2>1
<1>3. CASE found # {}
  <2>1. found \in SUBSET Nat
    BY <1>1
  <2>2. \E n \in found : \A m \in found : n <= m
    <3>1. PICK n \in found : \A y \in found : ~(<<y, n>> \in OpToRel(<, Nat))
      BY <1>3, <2>1, NatLessThanWellFounded, WFMin
    <3>2. \A m \in found : ~(m < n)
      BY <2>1, <3>1 DEF OpToRel
    <3> QED
      BY <2>1, <3>2
  <2>3. PathLength(d) = CHOOSE n \in found : \A m \in found : n <= m
    BY <1>3 DEF PathLength
  <2> HIDE DEF found
  <2>4. PathLength(d) \in found /\ \A m \in found : PathLength(d) <= m
    BY <2>2, <2>3
  <2>5. PathLength(d) \in 1..AllLevels /\ FailsWithin(d, PathLength(d))
    BY <2>4 DEF found
  <2>6. \A n \in 1..AllLevels : FailsWithin(d, n) => PathLength(d) \in 1..n
    <3> SUFFICES ASSUME NEW n \in 1..AllLevels, FailsWithin(d, n)
                 PROVE  PathLength(d) \in 1..n
      OBVIOUS
    <3>1. n \in found
      BY DEF found
    <3>2. PathLength(d) <= n
      BY <2>4, <3>1
    <3> QED
      BY <1>1, <2>5, <3>2
  <2> QED
    BY <1>1, <2>5, <2>6
<1> QED
  BY <1>2, <1>3

LEMMA ContradictedByPath ==
  ASSUME AuditTypes, NEW d \in Decisions
  PROVE  Verdict(d) = "contradicted" <=> trace[d].sure /\ PathLength(d) \in 1..ContradictionLevels
<1>1. d \in Landed /\ ContradictionLevels \in Nat \ {0} /\ AllLevels \in Nat /\ 1 <= AllLevels
  BY LandedIs DEF Decisions, AllLevels
<1>2. GroundedVerdict(d) # "contradicted"
  BY DEF GroundedVerdict
<1>3. Verdict(d) = "contradicted" <=> trace[d].sure /\ FailsWithin(d, ContradictionLevels)
  BY <1>2 DEF Verdict
<1>4. ASSUME FailsWithin(d, ContradictionLevels)
      PROVE  PathLength(d) \in 1..ContradictionLevels
  <2>1. CASE ContradictionLevels <= AllLevels
    <3>1. ContradictionLevels \in 1..AllLevels
      BY <1>1, <2>1
    <3> QED
      BY <1>1, <1>4, <3>1, PathIs
  <2>2. CASE AllLevels <= ContradictionLevels
    <3>1. FailsWithin(d, AllLevels)
      BY <1>1, <1>4, DeeperFinds
    <3>2. PathLength(d) \in 1..AllLevels
      BY <1>1, <3>1, PathIs
    <3> QED
      BY <1>1, <2>2, <3>2
  <2> QED
    BY <1>1, <2>1, <2>2
<1>5. ASSUME PathLength(d) \in 1..ContradictionLevels
      PROVE  FailsWithin(d, ContradictionLevels)
  <2>1. PathLength(d) \in Nat /\ PathLength(d) # 0 /\ PathLength(d) <= ContradictionLevels
    BY <1>1, <1>5
  <2>2. FailsWithin(d, PathLength(d))
    BY <1>1, <2>1, PathIs
  <2> QED
    BY <1>1, <2>1, <2>2, DeeperFinds
<1> QED
  BY <1>3, <1>4, <1>5

\* Who refers to an event has it among its direct causes.
LEMMA CausesAre ==
  ASSUME AuditTypes, NEW x \in Landed, NEW y \in ChildrenOf(x), x # y
  PROVE  y \in Landed /\ x \in DirectCauses(y)
  BY DEF ChildrenOf, DirectCauses

\* Three steps up from a failure find what is three steps away.
LEMMA NearIsCandidate ==
  ASSUME AuditTypes, NEW d \in Landed, FailsWithin(d, 3)
  PROVE  \E f \in Failures \cap Subtree(d) : d \in Candidates(f)
<1> DEFINE walk(k) == WalkOf(ChildrenOf(d), {d}, ChildrenIndex, k)
           causes == [e \in Landed |-> DirectCauses(e)]
<1>1. /\ ChildrenOf(d) \subseteq Subtree(d) /\ Subtree(d) \subseteq Landed
      /\ \A x \in Subtree(d) : ChildrenOf(x) \subseteq Subtree(d)
  BY SubtreeIs
<1>2. \A x \in Landed : ChildrenIndex[x] = ChildrenOf(x)
  BY ChildrenAre
<1>3. PICK f \in Failures : f \in walk(3) /\ f # d
  BY DEF FailsWithin
<1>4. walk(3) \subseteq Subtree(d) \cup {d}
  <2>1. PICK C : C = Subtree(d) \cup {d}
    OBVIOUS
  <2>2. \A x \in C : ChildrenIndex[x] \subseteq C
    BY <1>1, <1>2, <2>1
  <2>3. ChildrenOf(d) \subseteq C /\ {d} \subseteq C /\ 3 \in Nat
    BY <1>1, <2>1
  <2>4. walk(3) \subseteq C
    BY <2>2, <2>3, WalkWithin
  <2> QED
    BY <2>1, <2>4
<1>5. walk(0) = {d}
  BY WalkStarts
<1>6. \A n \in Nat : walk(n) \subseteq walk(n + 1) /\ d \in walk(n)
  BY WalkGoesOn
<1>7. ASSUME NEW n \in Nat, NEW x, x \in walk(n + 1), x \notin walk(n)
      PROVE  /\ n = 0 => x \in ChildrenOf(d)
             /\ n # 0 => \E y \in walk(n) : y \notin walk(n - 1) /\ x \in ChildrenIndex[y]
  BY <1>7, WalkComesFrom
<1> HIDE DEF walk
<1>8. walk(1) \subseteq walk(2) /\ walk(2) \subseteq walk(3)
  BY <1>6
<1>9. \/ d \in DirectCauses(f)
      \/ \E x \in Landed : d \in DirectCauses(x) /\ x \in DirectCauses(f)
      \/ \E x, y \in Landed : d \in DirectCauses(x) /\ x \in DirectCauses(y) /\ y \in DirectCauses(f)
  <2>1. \A x \in walk(1) : x # d => x \in Landed /\ d \in DirectCauses(x)
    <3> SUFFICES ASSUME NEW x \in walk(1), x # d
                 PROVE  x \in Landed /\ d \in DirectCauses(x)
      OBVIOUS
    <3>1. x \in ChildrenOf(d)
      BY <1>5, <1>7
    <3> QED
      BY <3>1, CausesAre
  <2>2. \A x \in walk(2) : x \notin walk(1) =>
          x \in Landed /\ \E y \in Landed : d \in DirectCauses(y) /\ y \in DirectCauses(x)
    <3> SUFFICES ASSUME NEW x \in walk(2), x \notin walk(1)
                 PROVE  x \in Landed /\ \E y \in Landed : d \in DirectCauses(y) /\ y \in DirectCauses(x)
      OBVIOUS
    <3>1. PICK y \in walk(1) : y \notin walk(0) /\ x \in ChildrenIndex[y]
      BY <1>7
    <3>2. y # d /\ y # x /\ y \in Landed /\ d \in DirectCauses(y)
      BY <1>5, <2>1, <3>1
    <3>3. x \in ChildrenOf(y)
      BY <1>2, <3>1, <3>2
    <3> QED
      BY <3>2, <3>3, CausesAre
  <2>3. CASE f \in walk(1)
    BY <1>3, <2>1, <2>3
  <2>4. CASE f \in walk(2) /\ f \notin walk(1)
    BY <2>2, <2>4
  <2>5. CASE f \notin walk(2)
    <3>1. PICK y \in walk(2) : y \notin walk(1) /\ f \in ChildrenIndex[y]
      <4>1. 2 \in Nat /\ f \in walk(2 + 1) /\ f \notin walk(2)
        BY <1>3, <2>5
      <4>2. \E y \in walk(2) : y \notin walk(2 - 1) /\ f \in ChildrenIndex[y]
        BY <1>7, <4>1
      <4> QED
        BY <4>2
    <3>2. y # f /\ y \in Landed
      BY <2>2, <2>5, <3>1
    <3>3. f \in ChildrenOf(y)
      BY <1>2, <3>1, <3>2
    <3>4. y \in DirectCauses(f)
      BY <3>2, <3>3, CausesAre
    <3> QED
      BY <2>2, <3>1, <3>4
  <2> QED
    BY <2>3, <2>4, <2>5
<1>10. f \in Landed /\ f \in Subtree(d)
  BY <1>1, <1>3, <1>4
<1> DEFINE found(k) == WalkOf(DirectCauses(f), {}, causes, k)
<1>11. /\ found(1) \subseteq found(2) /\ found(2) \subseteq found(3) /\ DirectCauses(f) \subseteq found(1)
       /\ \A x \in found(1) : causes[x] \subseteq found(2)
       /\ \A x \in found(2) : causes[x] \subseteq found(3)
  <2>1. ASSUME NEW n \in Nat
        PROVE  /\ found(n) \subseteq found(n + 1) /\ DirectCauses(f) \subseteq found(n + 1)
               /\ \A x \in found(n) : causes[x] \subseteq found(n + 1)
    <3>1. LET now == WalkOf(DirectCauses(f), {}, causes, n)
              then == WalkOf(DirectCauses(f), {}, causes, n + 1)
          IN  /\ now \subseteq then /\ {} \subseteq now /\ DirectCauses(f) \subseteq then
              /\ \A x \in now : x \notin {} => causes[x] \subseteq then
      BY WalkGoesOn
    <3> QED
      BY <3>1
  <2>2. 0 + 1 = 1 /\ 1 + 1 = 2 /\ 2 + 1 = 3
    OBVIOUS
  <2> HIDE DEF found, causes
  <2>3. DirectCauses(f) \subseteq found(1)
    BY <2>1, <2>2
  <2>4. found(1) \subseteq found(2) /\ \A x \in found(1) : causes[x] \subseteq found(2)
    BY <2>1, <2>2
  <2>5. found(2) \subseteq found(3) /\ \A x \in found(2) : causes[x] \subseteq found(3)
    BY <2>1, <2>2
  <2> QED
    BY <2>3, <2>4, <2>5
<1>12. \A x \in Landed : causes[x] = DirectCauses(x)
  OBVIOUS
<1>13. Candidates(f) = found(3)
  BY DEF Candidates
<1> HIDE DEF found, causes
<1>14. d \in found(3)
  <2>1. CASE d \in DirectCauses(f)
    BY <1>11, <2>1
  <2>2. ASSUME NEW x \in Landed, d \in DirectCauses(x), x \in DirectCauses(f)
        PROVE  d \in found(3)
    BY <1>11, <1>12, <2>2
  <2>3. ASSUME NEW x \in Landed, NEW y \in Landed,
               d \in DirectCauses(x), x \in DirectCauses(y), y \in DirectCauses(f)
        PROVE  d \in found(3)
    <3>1. y \in found(1)
      BY <1>11, <2>3
    <3>2. x \in found(2)
      BY <1>11, <1>12, <2>3, <3>1
    <3> QED
      BY <1>11, <1>12, <2>3, <3>2
  <2> QED
    BY <1>9, <2>1, <2>2, <2>3
<1> QED
  BY <1>3, <1>10, <1>13, <1>14

-----------------------------------------------------------------------------
(* The audit: slices *)

LEMMA NodesLanded ==
  /\ Nodes \subseteq Landed /\ Decisions \subseteq Landed
  /\ \A d \in Decisions : d \in Nodes /\ Resolved(d) \subseteq Nodes
  BY DEF Nodes, Decisions, Resolved

\* An event depends on what a claim of it resolves to and on what it refers to.
LEMMA DependenceIs ==
  /\ Dependence \in Pairs /\ Mirrored \in Pairs
  /\ \A x, y \in Landed :
       /\ <<x, y>> \in Dependence <=> <<y, x>> \in Mirrored
       /\ <<x, y>> \in Dependence <=> \/ y \in Decisions /\ x \in Resolved(y)
                                      \/ x \in Nodes /\ y \in Nodes /\ x \in trace[y].refs
<1>1. \A g : g \in EvidenceEdges => /\ g = <<g[1], g[2]>> /\ g[1] \in Decisions
                                    /\ g[2] \in Landed /\ g[2] \in Resolved(g[1])
  BY DEF EvidenceEdges
<1>2. \A g : g \in CausalEdges => /\ g = <<g[1], g[2]>> /\ g[1] \in Nodes /\ g[2] \in Nodes
                                  /\ g[1] \in trace[g[2]].refs
  BY DEF CausalEdges
<1>3. \A g : g \in Dependence =>
        /\ g = <<g[1], g[2]>> /\ g[1] \in Landed /\ g[2] \in Landed
        /\ \/ g[2] \in Decisions /\ g[1] \in Resolved(g[2])
           \/ g[1] \in Nodes /\ g[2] \in Nodes /\ g[1] \in trace[g[2]].refs
  <2> SUFFICES ASSUME NEW g \in Dependence
               PROVE  /\ g = <<g[1], g[2]>> /\ g[1] \in Landed /\ g[2] \in Landed
                      /\ \/ g[2] \in Decisions /\ g[1] \in Resolved(g[2])
                         \/ g[1] \in Nodes /\ g[2] \in Nodes /\ g[1] \in trace[g[2]].refs
    OBVIOUS
  <2>1. CASE g \in CausalEdges
    BY <1>2, <2>1, NodesLanded
  <2>2. CASE g \in {<<h[2], h[1]>> : h \in EvidenceEdges}
    <3>1. PICK h \in EvidenceEdges : g = <<h[2], h[1]>>
      BY <2>2
    <3>2. g[1] = h[2] /\ g[2] = h[1]
      BY <3>1
    <3> QED
      BY <1>1, <3>1, <3>2, NodesLanded
  <2> QED
    BY <2>1, <2>2 DEF Dependence
<1>4. ASSUME NEW x \in Landed, NEW y \in Decisions, x \in Resolved(y)
      PROVE  <<x, y>> \in Dependence
  <2>1. PICK h : h = <<y, x>>
    OBVIOUS
  <2>2. h \in EvidenceEdges /\ <<x, y>> = <<h[2], h[1]>>
    BY <1>4, <2>1 DEF EvidenceEdges
  <2> QED
    BY <2>2 DEF Dependence
<1>5. ASSUME NEW x \in Nodes, NEW y \in Nodes, x \in trace[y].refs
      PROVE  <<x, y>> \in Dependence
  <2>1. <<x, y>> \in CausalEdges
    BY <1>5 DEF CausalEdges
  <2> QED
    BY <2>1 DEF Dependence
<1>6. \A x, y \in Landed : <<x, y>> \in Dependence <=>
        \/ y \in Decisions /\ x \in Resolved(y)
        \/ x \in Nodes /\ y \in Nodes /\ x \in trace[y].refs
  <2> SUFFICES ASSUME NEW x \in Landed, NEW y \in Landed
               PROVE  <<x, y>> \in Dependence <=>
                        \/ y \in Decisions /\ x \in Resolved(y)
                        \/ x \in Nodes /\ y \in Nodes /\ x \in trace[y].refs
    OBVIOUS
  <2>1. PICK g : g = <<x, y>>
    OBVIOUS
  <2>2. g[1] = x /\ g[2] = y
    BY <2>1
  <2>3. g \in Dependence => \/ y \in Decisions /\ x \in Resolved(y)
                            \/ x \in Nodes /\ y \in Nodes /\ x \in trace[y].refs
    BY <1>3, <2>2
  <2> QED
    BY <1>4, <1>5, <2>1, <2>3
<1>7. \A x, y : <<x, y>> \in Dependence <=> <<y, x>> \in Mirrored
  <2>1. ASSUME NEW x, NEW y, <<x, y>> \in Dependence
        PROVE  <<y, x>> \in Mirrored
    <3>1. PICK g : g = <<x, y>> /\ g \in Dependence
      BY <2>1
    <3>2. <<y, x>> = <<g[2], g[1]>>
      BY <3>1
    <3> QED
      BY <3>1, <3>2 DEF Mirrored
  <2>2. ASSUME NEW x, NEW y, <<y, x>> \in Mirrored
        PROVE  <<x, y>> \in Dependence
    <3>1. PICK g \in Dependence : <<y, x>> = <<g[2], g[1]>>
      BY <2>2 DEF Mirrored
    <3>2. g = <<g[1], g[2]>>
      BY <1>3
    <3>3. g[1] = x /\ g[2] = y
      BY <3>1
    <3> QED
      BY <3>2, <3>3
  <2> QED
    BY <2>1, <2>2
<1>8. Dependence \in Pairs
  <2>1. \A g \in Dependence : g \in Landed \X Landed
    BY <1>3
  <2> QED
    BY <2>1 DEF Pairs
<1>9. Mirrored \in Pairs
  <2>1. \A m \in Mirrored : m \in Landed \X Landed
    BY <1>3 DEF Mirrored
  <2> QED
    BY <2>1 DEF Pairs
<1> QED
  BY <1>6, <1>7, <1>8, <1>9

\* A slice is what is reached, or says that it is not all of it.
LEMMA SliceIsReached ==
  ASSUME AuditTypes, NEW deps \in Pairs, NEW e \in Landed
  PROVE  /\ Slice(e, deps) \subseteq Reached(e, deps)
         /\ ~Truncated(e, deps) => Slice(e, deps) = Reached(e, deps)
<1>1. PICK reached : reached = Reached(e, deps)
  OBVIOUS
<1>2. Slice(e, deps) = {x \in reached : Cardinality({y \in reached : y < x}) < SliceCap}
  BY <1>1 DEF Slice
<1>3. IsFiniteSet(reached) /\ reached \subseteq Places
  <2>1. reached \subseteq Landed
    BY <1>1, ReachedIs DEF Along
  <2>2. IsFiniteSet(Places)
    BY FS_Interval, AuditAssumption DEF Places
  <2> QED
    BY <2>1, <2>2, FS_Subset DEF AuditTypes
<1>4. ASSUME Cardinality(reached) <= SliceCap, NEW x \in reached
      PROVE  Cardinality({y \in reached : y < x}) < SliceCap
  <2>1. PICK before : before = {y \in reached : y < x}
    OBVIOUS
  <2>2. IsFiniteSet(reached \ {x}) /\ Cardinality(reached \ {x}) = Cardinality(reached) - 1
    BY <1>3, FS_RemoveElement
  <2>3. before \subseteq reached \ {x}
    BY <1>3, <2>1 DEF Places
  <2>4. Cardinality(before) <= Cardinality(reached \ {x})
    BY <2>2, <2>3, FS_Subset
  <2>5. IsFiniteSet(before)
    BY <2>2, <2>3, FS_Subset
  <2>6. Cardinality(before) \in Nat /\ Cardinality(reached) \in Nat /\ SliceCap \in Nat
    BY <1>3, <2>5, FS_CardinalityType, AuditAssumption
  <2> QED
    BY <1>4, <2>1, <2>2, <2>4, <2>6
<1>5. ~Truncated(e, deps) => Cardinality(reached) <= SliceCap
  <2>1. Cardinality(reached) \in Nat /\ SliceCap \in Nat
    BY <1>3, FS_CardinalityType, AuditAssumption
  <2> QED
    BY <1>1, <2>1 DEF Truncated
<1> QED
  BY <1>1, <1>2, <1>4, <1>5

LEMMA SlicesAre ==
  ASSUME AuditTypes, NEW e \in Landed
  PROVE  /\ ForwardSlice(e) \subseteq Reached(e, Dependence)
         /\ ForwardSlice(e) = Reached(e, Dependence) \/ ForwardCut(e)
         /\ BackwardSlice(e) \subseteq Reached(e, Mirrored)
         /\ BackwardSlice(e) = Reached(e, Mirrored) \/ BackwardCut(e)
  BY SliceIsReached, DependenceIs DEF ForwardSlice, BackwardSlice, ForwardCut, BackwardCut

\* Who depends on an event refers to it; in the graph, who refers to it depends on it.
LEMMA DependentsAreChildren ==
  ASSUME AuditTypes, NEW x \in Landed, NEW y \in Landed
  PROVE  /\ <<x, y>> \in Dependence => y \in ChildrenOf(x)
         /\ x \in Nodes /\ y \in Nodes /\ y \in ChildrenOf(x) => <<x, y>> \in Dependence
<1>1. <<x, y>> \in Dependence <=> \/ y \in Decisions /\ x \in Resolved(y)
                                  \/ x \in Nodes /\ y \in Nodes /\ x \in trace[y].refs
  BY DependenceIs
<1>2. y \in ChildrenOf(x) <=> x \in trace[y].refs \/ x \in trace[y].cites
  BY DEF ChildrenOf
<1>3. x \in trace[y].cites => y \in Decisions /\ x \in Resolved(y)
  BY SaidIs DEF Decisions, Resolved
<1>4. x \in Resolved(y) => x \in trace[y].cites
  BY DEF Resolved
<1> QED
  BY <1>1, <1>2, <1>3, <1>4

LEMMA ForwardIsDownstream ==
  ASSUME AuditTypes, NEW d \in Decisions
  PROVE  /\ Reached(d, Dependence) \subseteq Subtree(d)
         /\ Subtree(d) \subseteq Nodes => Reached(d, Dependence) = Subtree(d) \ {d}
<1>1. d \in Landed /\ d \in Nodes /\ Dependence \in Pairs
  BY NodesLanded, DependenceIs
<1>2. /\ d \notin Reached(d, Dependence) /\ Along(d, Dependence) \subseteq Landed
      /\ \A x \in Along(d, Dependence), y \in Landed :
           <<x, y>> \in Dependence => y \in Along(d, Dependence)
  BY <1>1, ReachedIs
<1>3. /\ Subtree(d) \subseteq Landed /\ ChildrenOf(d) \subseteq Subtree(d)
      /\ \A x \in Subtree(d) : ChildrenOf(x) \subseteq Subtree(d)
  BY <1>1, SubtreeIs
<1>4. Reached(d, Dependence) \subseteq Subtree(d)
  <2>1. PICK C : C = Subtree(d) \cup {d}
    OBVIOUS
  <2>2. ASSUME NEW x \in C, NEW y \in Landed, <<x, y>> \in Dependence
        PROVE  y \in C
    <3>1. x \in Landed
      BY <1>1, <1>3, <2>1
    <3>2. y \in ChildrenOf(x)
      BY <2>2, <3>1, DependentsAreChildren
    <3> QED
      BY <1>3, <2>1, <3>2
  <2>3. C \in SUBSET Landed /\ d \in C
    BY <1>1, <1>3, <2>1
  <2>4. Along(d, Dependence) \subseteq C
    BY <1>1, <2>2, <2>3, ReachedIs
  <2> QED
    BY <1>1, <1>2, <2>1, <2>4 DEF Along
<1>5. ASSUME Subtree(d) \subseteq Nodes
      PROVE  Reached(d, Dependence) = Subtree(d) \ {d}
  <2>1. PICK C : C = Along(d, Dependence) \cap Subtree(d)
    OBVIOUS
  <2>2. C \in SUBSET Landed /\ C \subseteq Along(d, Dependence) /\ C \subseteq Subtree(d)
    BY <1>3, <2>1
  <2>3. ASSUME NEW x \in Along(d, Dependence), x \in Subtree(d) \/ x = d
        PROVE  ChildrenOf(x) \subseteq C
    <3>1. x \in Landed /\ x \in Nodes /\ ChildrenOf(x) \subseteq Subtree(d)
      BY <1>1, <1>3, <1>5, <2>3
    <3>2. \A y \in ChildrenOf(x) : y \in Landed /\ y \in Nodes
      BY <1>3, <1>5, <3>1
    <3>3. \A y \in ChildrenOf(x) : <<x, y>> \in Dependence
      BY <3>1, <3>2, DependentsAreChildren
    <3>4. \A y \in ChildrenOf(x) : y \in Along(d, Dependence)
      BY <1>2, <2>3, <3>2, <3>3
    <3> QED
      BY <2>1, <3>1, <3>4
  <2>4. ChildrenOf(d) \subseteq C
    BY <2>3 DEF Along
  <2>5. \A x \in C : ChildrenOf(x) \subseteq C
    BY <2>2, <2>3
  <2>6. Subtree(d) \subseteq C
    BY <1>1, <2>2, <2>4, <2>5, SubtreeIs
  <2> QED
    BY <1>1, <1>2, <1>4, <2>2, <2>6 DEF Along
<1> QED
  BY <1>4, <1>5

LEMMA SlicesMirror ==
  ASSUME AuditTypes, NEW d \in Landed, NEW e \in Landed
  PROVE  /\ e \in ForwardSlice(d) => d \in BackwardSlice(e) \/ BackwardCut(e)
         /\ d \in BackwardSlice(e) => e \in ForwardSlice(d) \/ ForwardCut(d)
<1>1. /\ Dependence \in Pairs /\ Mirrored \in Pairs
      /\ \A x, y \in Landed : <<x, y>> \in Dependence => <<y, x>> \in Mirrored
      /\ \A x, y \in Landed : <<x, y>> \in Mirrored => <<y, x>> \in Dependence
  BY DependenceIs
<1>2. e \in Reached(d, Dependence) => d \in Reached(e, Mirrored)
  BY <1>1, ReachedBack
<1>3. d \in Reached(e, Mirrored) => e \in Reached(d, Dependence)
  BY <1>1, ReachedBack
<1> QED
  BY <1>2, <1>3, SlicesAre

\* What runs again feeds the decision, or is downstream of it.
LEMMA RerunFeeds ==
  ASSUME AuditTypes, NEW d \in Decisions, NEW e \in RerunSet(d), e # d, e \notin Subtree(d)
  PROVE  d \in Subtree(e)
<1>1. d \in Landed
  BY NodesLanded
<1>2. CASE e \in Resolved(d)
  <2>1. e \in Landed /\ d \in ChildrenOf(e)
    BY <1>1, <1>2 DEF Resolved, ChildrenOf
  <2> QED
    BY <2>1, SubtreeIs
<1>3. CASE e \in Producers(d)
  <2>1. PICK r \in Resolved(d) \ {d} : e \in Landed /\ e \in trace[r].refs
    BY <1>3 DEF Producers
  <2>2. r \in Landed /\ d \in ChildrenOf(r) /\ r \in ChildrenOf(e)
    BY <1>1, <2>1 DEF Resolved, ChildrenOf
  <2> QED
    BY <2>1, <2>2, SubtreeIs
<1> QED
  BY <1>2, <1>3 DEF RerunSet

\* A claim that what it cites verifies has a fact in its backward slice, or that is cut.
LEMMA VerifiedByFact ==
  ASSUME AuditTypes, NEW d \in Decisions, Verdict(d) = "verified", trace[d].source = "none"
  PROVE  BackwardSlice(d) \cap (ToolFacts \cup UserFacts) # {} \/ BackwardCut(d)
<1>1. GroundedVerdict(d) = "verified"
  BY DEF Verdict
<1>2. Backed(d, ToolFacts, "tool") \/ Backed(d, UserFacts, "user")
  BY <1>1 DEF GroundedVerdict
<1>3. PICK f \in Resolved(d) : f \in ToolFacts \cup UserFacts
  BY <1>2 DEF Backed
<1>4. d \in Landed /\ f \in Landed /\ f # d
  BY <1>3 DEF Resolved, Decisions, ToolFacts, UserFacts, FactsNamed
<1>5. <<f, d>> \in Dependence
  BY <1>3, <1>4, DependenceIs
<1>6. <<d, f>> \in Mirrored /\ Mirrored \in Pairs
  BY <1>4, <1>5, DependenceIs
<1>7. f \in Reached(d, Mirrored)
  <2>1. f \in Along(d, Mirrored)
    <3>1. d \in Along(d, Mirrored)
      BY DEF Along
    <3> QED
      BY <1>4, <1>6, <3>1, ReachedIs
  <2> QED
    BY <1>4, <2>1 DEF Along
<1> QED
  BY <1>3, <1>4, <1>7, SlicesAre

LEMMA AuditStepsTyped ==
  /\ AuditInit => AuditTypes
  /\ AuditTypes /\ [AuditNext]_auditVars => AuditTypes'
<1>1. AuditInit => AuditTypes
  BY DEF AuditInit, AuditTypes, Landed
<1>2. ASSUME AuditTypes, NEW e \in Places, Land(e)
      PROVE  AuditTypes'
  <2>1. PICK say \in Said : trace' = [p \in Landed \cup {e} |-> IF p = e THEN say ELSE trace[p]]
    BY <1>2 DEF Land
  <2>2. Landed' = Landed \cup {e}
    BY <2>1 DEF Landed
  <2> QED
    BY <1>2, <2>1, <2>2 DEF AuditTypes
<1>3. AuditTypes /\ UNCHANGED auditVars => AuditTypes'
  BY DEF AuditTypes, auditVars, Landed
<1> QED
  BY <1>1, <1>2, <1>3 DEF AuditNext

LEMMA TypedViewsAgree == AuditTypes => ViewsAgree
<1> SUFFICES ASSUME AuditTypes, NEW d \in Decisions
             PROVE  LET forward == ForwardSlice(d)
                        backward == BackwardSlice(d)
                        subtree == Subtree(d)
                    IN  /\ Verdict(d) = "contradicted" <=>
                             trace[d].sure /\ PathLength(d) \in 1..ContradictionLevels
                        /\ PathLength(d) \in 1..3 =>
                             \E f \in Failures \cap subtree : \A best \in SuspectLists(f) :
                               d \in best \/ Cardinality(best) = MaxSuspects
                        /\ forward \subseteq subtree
                        /\ subtree \subseteq Nodes => forward = subtree \ {d} \/ ForwardCut(d)
                        /\ \A e \in Landed :
                             /\ e \in forward => d \in BackwardSlice(e) \/ BackwardCut(e)
                             /\ d \in BackwardSlice(e) => e \in forward \/ ForwardCut(d)
                             /\ e \in backward => d \in ForwardSlice(e) \/ ForwardCut(e)
                             /\ d \in ForwardSlice(e) => e \in backward \/ BackwardCut(d)
                        /\ \A e \in RerunSet(d) \ ({d} \cup subtree) : d \in Subtree(e)
                        /\ Verdict(d) = "verified" /\ trace[d].source = "none" =>
                             backward \cap (ToolFacts \cup UserFacts) # {} \/ BackwardCut(d)
  BY DEF ViewsAgree
<1>1. d \in Landed
  BY NodesLanded
<1>2. Verdict(d) = "contradicted" <=> trace[d].sure /\ PathLength(d) \in 1..ContradictionLevels
  BY ContradictedByPath
<1>3. PathLength(d) \in 1..3 =>
        \E f \in Failures \cap Subtree(d) : \A best \in SuspectLists(f) :
          d \in best \/ Cardinality(best) = MaxSuspects
  <2> SUFFICES ASSUME PathLength(d) \in 1..3
               PROVE  \E f \in Failures \cap Subtree(d) : \A best \in SuspectLists(f) :
                        d \in best \/ Cardinality(best) = MaxSuspects
    OBVIOUS
  <2>1. PathLength(d) \in Nat /\ PathLength(d) # 0 /\ PathLength(d) <= 3 /\ 3 \in Nat
    OBVIOUS
  <2>2. FailsWithin(d, PathLength(d))
    BY <1>1, <2>1, PathIs
  <2>3. FailsWithin(d, 3)
    BY <1>1, <2>1, <2>2, DeeperFinds
  <2>4. PICK f \in Failures \cap Subtree(d) : d \in Candidates(f)
    BY <1>1, <2>3, NearIsCandidate
  <2> QED
    BY <2>4 DEF SuspectLists
<1>4. /\ ForwardSlice(d) \subseteq Subtree(d)
      /\ Subtree(d) \subseteq Nodes => ForwardSlice(d) = Subtree(d) \ {d} \/ ForwardCut(d)
  <2>1. /\ Reached(d, Dependence) \subseteq Subtree(d)
        /\ Subtree(d) \subseteq Nodes => Reached(d, Dependence) = Subtree(d) \ {d}
    BY ForwardIsDownstream
  <2>2. /\ ForwardSlice(d) \subseteq Reached(d, Dependence)
        /\ ForwardSlice(d) = Reached(d, Dependence) \/ ForwardCut(d)
    BY <1>1, SlicesAre
  <2> QED
    BY <2>1, <2>2
<1>5. \A e \in Landed :
        /\ e \in ForwardSlice(d) => d \in BackwardSlice(e) \/ BackwardCut(e)
        /\ d \in BackwardSlice(e) => e \in ForwardSlice(d) \/ ForwardCut(d)
        /\ e \in BackwardSlice(d) => d \in ForwardSlice(e) \/ ForwardCut(e)
        /\ d \in ForwardSlice(e) => e \in BackwardSlice(d) \/ BackwardCut(d)
  BY <1>1, SlicesMirror
<1>6. \A e \in RerunSet(d) \ ({d} \cup Subtree(d)) : d \in Subtree(e)
  BY RerunFeeds
<1>7. Verdict(d) = "verified" /\ trace[d].source = "none" =>
        BackwardSlice(d) \cap (ToolFacts \cup UserFacts) # {} \/ BackwardCut(d)
  BY VerifiedByFact
<1> QED
  BY <1>2, <1>3, <1>4, <1>5, <1>6, <1>7

\* The views of an audit tell one story of every decision, whatever has landed and
\* whatever the references: its verdict and the path to the failure, its suspects, its
\* slices, the events downstream and the events to run again.
THEOREM AuditTellsOneStory == AuditSpec => []ViewsAgree
<1>1. AuditInit => AuditTypes
  BY AuditStepsTyped
<1>2. AuditTypes /\ [AuditNext]_auditVars => AuditTypes'
  BY AuditStepsTyped
<1> QED
  BY <1>1, <1>2, TypedViewsAgree, PTL DEF AuditSpec
=============================================================================
