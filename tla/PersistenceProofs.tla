--------------------------- MODULE PersistenceProofs ---------------------------
(***************************************************************************)
(* Theorems about Persistence, for every set of sessions and callers and   *)
(* every bound.                                                            *)
(***************************************************************************)
EXTENDS Persistence, SequenceTheorems, FiniteSetTheorems, WellFoundedInduction, TLAPS

Assumptions ==
  /\ MaxEventsPerSession \in Nat \ {0}
  /\ MaxSessions \in Nat \ {0}
  /\ Session # {}
  /\ Loop \cap Caller = {}
  /\ NoOne \notin Flusher

\* The constants are what PersistenceManager and EventBuffer can be given.
LEMMA ConstantsOK == Assumptions
BY EventBoundAssumption, SessionBoundAssumption, SessionAssumption,
   FlusherAssumption DEF Assumptions

-----------------------------------------------------------------------------
(* Lemmas about the buffer. *)

\* Publishing keeps the buffer's types and its bound per session.
LEMMA PublishType ==
  ASSUME BufferTypeOK, NEW s \in Session, Publish(s)
  PROVE  BufferTypeOK'
<1> DEFINE kept == SubSeq(events[s], Excess(s) + 1, Len(events[s]))
<1>1. /\ events[s] \in Seq(Nat)
      /\ Len(events[s]) \in Nat
      /\ Len(events[s]) <= MaxEventsPerSession
      /\ published[s] \in Nat
  BY DEF BufferTypeOK
<1>2. /\ Excess(s) \in Nat
      /\ Excess(s) <= Len(events[s])
      /\ Len(events[s]) - Excess(s) < MaxEventsPerSession
  <2>1. MaxEventsPerSession \in Nat /\ MaxEventsPerSession > 0
    BY EventBoundAssumption
  <2>2. CASE Len(events[s]) >= MaxEventsPerSession
    <3>1. Excess(s) = Len(events[s]) - MaxEventsPerSession + 1
      BY <2>2 DEF Excess
    <3>2. QED
      BY <1>1, <2>1, <2>2, <3>1
  <2>3. CASE ~(Len(events[s]) >= MaxEventsPerSession)
    <3>1. Excess(s) = 0
      BY <2>3 DEF Excess
    <3>2. QED
      BY <1>1, <2>1, <2>3, <3>1
  <2>4. QED
    BY <2>2, <2>3
<1>3. /\ kept \in Seq(Nat)
      /\ Len(kept) < MaxEventsPerSession
  <2>1. \A i \in Excess(s) + 1 .. Len(events[s]) : events[s][i] \in Nat
    BY <1>1, <1>2
  <2>2. /\ kept \in Seq(Nat)
        /\ Len(kept) = IF Excess(s) + 1 <= Len(events[s])
                       THEN Len(events[s]) - (Excess(s) + 1) + 1 ELSE 0
    BY <1>1, <1>2, <2>1, SubSeqProperties
  <2>3. QED
    BY <1>1, <1>2, <2>2, EventBoundAssumption
<1>4. /\ Append(kept, published[s] + 1) \in Seq(Nat)
      /\ Len(Append(kept, published[s] + 1)) <= MaxEventsPerSession
  BY <1>1, <1>3, AppendProperties, EventBoundAssumption
<1>5. /\ events' \in [Session -> Seq(Nat)]
      /\ \A t \in Session : Len(events'[t]) <= MaxEventsPerSession
  BY <1>4, EventBoundAssumption DEF Publish, BufferTypeOK
<1>6. /\ activity' \in [Session -> Nat]
      /\ clock' \in Nat
      /\ published' \in [Session -> Nat]
  BY DEF Publish, BufferTypeOK
<1>7. dropped' \in [Session -> SUBSET Nat]
  <2>1. {events[s][i] : i \in 1..Excess(s)} \subseteq Nat
    BY <1>1, <1>2
  <2>2. \A t \in Session : Elems(events[t]) \subseteq Nat
    BY DEF BufferTypeOK, Elems
  <2>3. QED
    BY <2>1, <2>2 DEF Publish, BufferTypeOK
<1>8. QED
  BY <1>5, <1>6, <1>7 DEF BufferTypeOK

\* So does taking a session's events out.
LEMMA PopType ==
  ASSUME BufferTypeOK, NEW s \in Session, PopEvents(s)
  PROVE  BufferTypeOK'
BY EventBoundAssumption DEF BufferTypeOK, PopEvents

\* A prefix of a sequence over S, and the tail of one.
LEMMA PrefixType ==
  ASSUME NEW S, NEW q \in Seq(S), NEW k \in Nat, k <= Len(q)
  PROVE  /\ SubSeq(q, 1, k) \in Seq(S)
         /\ Len(SubSeq(q, 1, k)) = k
         /\ \A i \in 1..k : SubSeq(q, 1, k)[i] = q[i]
<1>1. \A i \in 1..k : q[i] \in S
  BY LenProperties
<1>2. QED
  BY <1>1, SubSeqProperties, LenProperties

-----------------------------------------------------------------------------
(* Type correctness. *)

\* What a step of a flush under the lock leaves typed.
LEMMA DrainType ==
  ASSUME TypeOK,
         NEW f \in Flusher, NEW ids \in SUBSET Session,
         NEW owned \in [Session -> Seq(Nat)], NEW w \in WriteStates,
         Drain(f, ids, owned, w)
  PROVE  /\ BufferTypeOK'
         /\ pc' \in [Flusher -> Stages]
         /\ holder' \in Flusher \cup {NoOne}
         /\ snapshot' \in SUBSET Session
         /\ listed' \in BOOLEAN
         /\ pending' \in [Session -> Seq(Nat)]
         /\ write' = "running" \/ (write' = w /\ target' = target)
         /\ target' \in Session
         /\ batch' \in Seq(Nat)
         /\ current' \in Session
<1>1. CASE /\ ids \cap SessionIds = {}
           /\ ReleaseLock(f)
           /\ pending' = owned
           /\ write' = w
           /\ UNCHANGED <<bufferVars, target, batch, current>>
  BY <1>1 DEF ReleaseLock, Rest, Stages, TypeOK, BufferTypeOK, bufferVars, WriteStates
<1>2. ASSUME NEW s \in ids \cap SessionIds, NEW skipped \in SUBSET (ids \ SessionIds),
             PopEvents(s),
             pending' = [owned EXCEPT ![s] = events[s]],
             AwaitWrite(f, s, events[s], w),
             snapshot' = (ids \ skipped) \ {s},
             listed' = TRUE
      PROVE  /\ BufferTypeOK'
             /\ pc' \in [Flusher -> Stages]
             /\ holder' \in Flusher \cup {NoOne}
             /\ snapshot' \in SUBSET Session
             /\ listed' \in BOOLEAN
             /\ pending' \in [Session -> Seq(Nat)]
             /\ write' = "running" \/ (write' = w /\ target' = target)
             /\ target' \in Session
             /\ batch' \in Seq(Nat)
             /\ current' \in Session
  <2>1. s \in Session /\ events[s] \in Seq(Nat)
    BY <1>2 DEF TypeOK, BufferTypeOK
  <2>2. BufferTypeOK'
    BY <1>2, <2>1, PopType DEF TypeOK
  <2>3. QED
    BY <1>2, <2>1, <2>2 DEF AwaitWrite, TypeOK, Stages, WriteStates
<1>3. QED
  BY <1>1, <1>2 DEF Drain

\* What an append leaves in a file is a file, and no shorter than before.
LEMMA AppendedType ==
  ASSUME TypeOK, NEW s \in Session, NEW lines \in Seq(Nat)
  PROVE  /\ Appended(s, lines) \in Seq(Nat)
         /\ Len(Appended(s, lines)) >= Len(disk[s])
<1>1. disk[s] \in Seq(Nat)
  BY DEF TypeOK
<1>2. CASE lines = <<>>
  BY <1>1, <1>2, ConcatProperties DEF Appended
<1>3. CASE lines # <<>>
  <2>1. Tail(lines) \in Seq(Nat)
    BY <1>3, HeadTailProperties
  <2>2. QED
    BY <1>1, <2>1, ConcatProperties DEF Appended
<1>4. QED
  BY <1>2, <1>3

\* Nobody flushes and no loop exists: what a new process begins with.
LEMMA RestType == AtRest \in [Flusher -> Stages]
BY DEF AtRest, Stages

\* start(), stop(), a cancellation and the beginning of a flush touch no event, no batch
\* and no file, and give the lock up at most.
LEMMA LifeFrame ==
  ASSUME NEW f \in Flusher, LifeStep(f)
  PROVE  /\ UNCHANGED <<bufferVars, managerVars, fileVars, crashes>>
         /\ holder' = holder \/ holder' = NoOne
<1>1. UNCHANGED <<bufferVars, managerVars, fileVars, crashes>>
  BY DEF LifeStep
<1>2. ASSUME NEW c, CallerStep(c)
      PROVE  holder' = holder \/ holder' = NoOne
  BY <1>2 DEF CallerStep, Start, StartFails, Stop, StopFlushes, Cancel, CreateLoop, ReleaseLock
<1>3. QED
  BY <1>1, <1>2 DEF LifeStep, EnterLoop, BeginFlush

\* They keep the types of who runs, who waits and who holds the lock.
LEMMA LifeType ==
  ASSUME TypeOK, NEW f \in Flusher, LifeStep(f)
  PROVE  TypeOK'
<1> DEFINE Typed == /\ running' \in BOOLEAN
                    /\ task' \in Loop \cup {NoOne}
                    /\ pc' \in [Flusher -> Stages]
                    /\ holder' \in Flusher \cup {NoOne}
                    /\ snapshot' \in SUBSET Session
                    /\ listed' \in BOOLEAN
<1>0. /\ running \in BOOLEAN /\ task \in Loop \cup {NoOne} /\ pc \in [Flusher -> Stages]
      /\ holder \in Flusher \cup {NoOne} /\ snapshot \in SUBSET Session /\ listed \in BOOLEAN
  BY DEF TypeOK
<1>1. Loop \subseteq Flusher
  BY DEF Flusher
<1>2. ASSUME Start(f) \/ StartFails(f) \/ StopFlushes(f) \/ EnterLoop(f) \/ BeginFlush(f)
      PROVE  Typed
  BY <1>0, <1>2 DEF Start, StartFails, StopFlushes, EnterLoop, BeginFlush, Rest, Stages, lifeVars
<1>3. ASSUME NEW l \in Loop, CreateLoop(f, l)
      PROVE  Typed
  BY <1>0, <1>1, <1>3 DEF CreateLoop, Stages
<1>4. ASSUME Stop(f)
      PROVE  Typed
  <2>1. running' \in BOOLEAN /\ task' \in Loop \cup {NoOne}
    BY <1>0, <1>4 DEF Stop
  <2>2. pc' \in [Flusher -> Stages]
    BY <1>0, <1>1, <1>4 DEF Stop, Stages
  <2>3. holder' \in Flusher \cup {NoOne} /\ snapshot' \in SUBSET Session /\ listed' \in BOOLEAN
    BY <1>0, <1>4 DEF Stop
  <2>4. QED
    BY <2>1, <2>2, <2>3
<1>5. ASSUME Cancel(f)
      PROVE  Typed
  BY <1>0, <1>5 DEF Cancel, ReleaseLock, Rest, Stages, lifeVars
<1>6. Typed
  BY <1>2, <1>3, <1>4, <1>5 DEF LifeStep, CallerStep
<1> HIDE DEF Typed
<1>7. BufferTypeOK'
  BY LifeFrame DEF TypeOK, BufferTypeOK, bufferVars
<1>8. /\ UNCHANGED <<pending, write, target, batch, current>>
      /\ UNCHANGED <<base, disk, torn, scarred, badRollbacks, crashes>>
  BY LifeFrame DEF managerVars, fileVars
<1>9. QED
  BY <1>6, <1>7, <1>8 DEF Typed, TypeOK

\* Every step of the manager, the buffer and the write task keeps the types.
LEMMA TypeInductive == TypeOK /\ [Next]_vars => TypeOK'
<1> SUFFICES ASSUME TypeOK, [Next]_vars
             PROVE  TypeOK'
  OBVIOUS
<1> USE DEF bufferVars, managerVars, flushVars, fileVars, lifeVars
<1>1. ASSUME NEW s \in Session, PublishEvent(s)
      PROVE  TypeOK'
  <2>1. BufferTypeOK'
    BY <1>1, PublishType DEF PublishEvent, TypeOK
  <2>2. QED
    BY <1>1, <2>1 DEF PublishEvent, TypeOK
<1>2. ASSUME NEW f \in Flusher, LifeStep(f)
      PROVE  TypeOK'
  BY <1>2, LifeType
<1>5. ASSUME NEW f \in Flusher, FlushStep(f)
      PROVE  TypeOK'
  <2>2. CASE Acquire(f)
    <3>1. CASE \E s \in Session :
                 /\ pending[s] # <<>>
                 /\ AwaitWrite(f, s, pending[s], write)
                 /\ UNCHANGED <<bufferVars, pending, snapshot, listed>>
      <4>1. PICK s \in Session :
                 /\ AwaitWrite(f, s, pending[s], write)
                 /\ UNCHANGED <<bufferVars, pending, snapshot, listed>>
        BY <3>1
      <4>2. BufferTypeOK'
        BY <4>1 DEF TypeOK, BufferTypeOK
      <4>3. QED
        BY <2>2, <4>1, <4>2 DEF Acquire, AwaitWrite, TypeOK, Stages, WriteStates
    <3>2. CASE Drain(f, SessionIds, pending, write)
      <4>1. SessionIds \in SUBSET Session
        BY DEF SessionIds
      <4> HIDE DEF bufferVars, managerVars, flushVars
      <4>2. QED
        <5>1. write \in WriteStates /\ pending \in [Session -> Seq(Nat)]
          BY DEF TypeOK
        <5>2. UNCHANGED <<base, disk, torn, scarred, badRollbacks, running, task, crashes>>
          BY <2>2 DEF Acquire
        <5>3. /\ BufferTypeOK'
              /\ pc' \in [Flusher -> Stages]
              /\ holder' \in Flusher \cup {NoOne}
              /\ snapshot' \in SUBSET Session
              /\ listed' \in BOOLEAN
              /\ pending' \in [Session -> Seq(Nat)]
              /\ write' = "running" \/ (write' = write /\ target' = target)
              /\ target' \in Session
              /\ batch' \in Seq(Nat)
              /\ current' \in Session
          BY <3>2, <4>1, <5>1, DrainType
        <5>4. QED
          BY <5>1, <5>2, <5>3 DEF TypeOK, WriteStates
    <3>3. QED
      BY <2>2, <3>1, <3>2 DEF Acquire
  <2>3. CASE Acknowledge(f)
    <3> DEFINE ids == IF listed THEN snapshot ELSE SessionIds
               owned == [pending EXCEPT ![current] = <<>>]
    <3>1. ids \in SUBSET Session
      BY DEF SessionIds, TypeOK
    <3>2. owned \in [Session -> Seq(Nat)] /\ "none" \in WriteStates
      BY DEF TypeOK, WriteStates
    <3>3. Drain(f, ids, owned, "none")
      BY <2>3 DEF Acknowledge
    <3> HIDE DEF bufferVars, managerVars, flushVars, fileVars, ids, owned
    <3>4. QED
      <4>1. UNCHANGED <<base, disk, torn, scarred, badRollbacks, running, task, crashes>>
        BY <2>3 DEF Acknowledge, fileVars, lifeVars
      <4>2. /\ BufferTypeOK'
            /\ pc' \in [Flusher -> Stages]
            /\ holder' \in Flusher \cup {NoOne}
            /\ snapshot' \in SUBSET Session
            /\ listed' \in BOOLEAN
            /\ pending' \in [Session -> Seq(Nat)]
            /\ write' = "running" \/ (write' = "none" /\ target' = target)
            /\ target' \in Session
            /\ batch' \in Seq(Nat)
            /\ current' \in Session
        BY <3>1, <3>2, <3>3, DrainType
      <4>3. QED
        BY <4>1, <4>2 DEF TypeOK, WriteStates
  <2>4. CASE PropagateFailure(f)
    BY <2>4 DEF PropagateFailure, ReleaseLock, Rest, Stages, TypeOK, BufferTypeOK, WriteStates
  <2>5. QED
    BY <1>5, <2>2, <2>3, <2>4 DEF FlushStep
<1>6. CASE WriteStep
  <2>1. BufferTypeOK'
    BY <1>6 DEF WriteStep, WriteOk, WriteRefused, WritePartly, Rollback, RollbackFails,
                TypeOK, BufferTypeOK
  <2>2. disk[target] \in Seq(Nat) /\ Len(disk[target]) \in Nat /\ batch \in Seq(Nat)
    BY DEF TypeOK
  <2>3. CASE WriteOk
    <3>1. Appended(target, batch) \in Seq(Nat)
      BY AppendedType DEF TypeOK
    <3>2. QED
      BY <2>1, <2>2, <2>3, <3>1 DEF WriteOk, TypeOK, WriteStates
  <2>4. CASE WriteRefused
    BY <2>1, <2>4 DEF WriteRefused, TypeOK, WriteStates
  <2>5. ASSUME NEW k \in 0..(Len(batch) - 1), NEW cut \in BOOLEAN, WritePartly(k, cut)
        PROVE  TypeOK'
    <3> DEFINE whole == Appended(target, SubSeq(batch, 1, k))
               file == IF cut /\ ~(torn[target] /\ k = 0)
                       THEN Append(whole, Garbage) ELSE whole
    <3>1. SubSeq(batch, 1, k) \in Seq(Nat)
      BY <2>2, PrefixType
    <3>2. whole \in Seq(Nat) /\ Garbage \in Nat
      BY <3>1, AppendedType DEF TypeOK, Garbage
    <3>3. file \in Seq(Nat) /\ Len(file) >= Len(disk[target])
      <4>0. target \in Session
        BY DEF TypeOK
      <4>1. Len(whole) >= Len(disk[target]) /\ Len(whole) \in Nat
        BY <3>1, <3>2, <4>0, AppendedType, LenProperties
      <4>2. /\ Append(whole, Garbage) \in Seq(Nat)
            /\ Len(Append(whole, Garbage)) = Len(whole) + 1
        BY <3>2, AppendProperties
      <4>3. QED
        BY <2>2, <3>2, <4>1, <4>2
    <3>4. disk' = [disk EXCEPT ![target] = file]
      BY <2>5 DEF WritePartly
    <3> HIDE DEF file
    <3>5. base' = [lines |-> Len(disk[target]), torn |-> torn[target]]
          /\ target' = target
      BY <2>5 DEF WritePartly
    <3>6. disk'[target'] = file
      BY <3>4, <3>5 DEF TypeOK
    <3>7. base'.lines <= Len(disk'[target'])
      BY <2>2, <3>3, <3>5, <3>6
    <3>8. disk' \in [Session -> Seq(Nat)] /\ base' \in [lines : Nat, torn : BOOLEAN]
      BY <2>2, <3>3, <3>4, <3>5 DEF TypeOK
    <3>9. QED
      BY <2>1, <2>5, <3>7, <3>8 DEF WritePartly, TypeOK, WriteStates
  <2>6. CASE Rollback
    <3>1. SubSeq(disk[target], 1, base.lines) \in Seq(Nat)
      BY <2>2, <2>6, PrefixType DEF Rollback, TypeOK
    <3>2. QED
      BY <2>1, <2>6, <3>1 DEF Rollback, TypeOK, WriteStates
  <2>7. CASE RollbackFails
    BY <2>1, <2>7 DEF RollbackFails, TypeOK, WriteStates
  <2>8. QED
    BY <1>6, <2>3, <2>4, <2>5, <2>6, <2>7 DEF WriteStep
<1>7. CASE Crash
  <2>1. dropped' \in [Session -> SUBSET Nat]
    <3>1. \A s \in Session : /\ Elems(events[s]) \subseteq Nat
                             /\ Elems(pending[s]) \subseteq Nat
      <4>1. \A s \in Session : events[s] \in Seq(Nat) /\ pending[s] \in Seq(Nat)
        BY DEF TypeOK, BufferTypeOK
      <4>2. \A q \in Seq(Nat) : Elems(q) \subseteq Nat
        BY DEF Elems
      <4>3. QED
        BY <4>1, <4>2
    <3>2. QED
      BY <1>7, <3>1 DEF Crash, TypeOK, BufferTypeOK
  <2>2. BufferTypeOK'
    BY <1>7, <2>1, EventBoundAssumption DEF Crash, TypeOK, BufferTypeOK
  <2>3. scarred' \in [Session -> BOOLEAN]
    BY <1>7 DEF Crash, TypeOK
  <2>4. /\ running' \in BOOLEAN
        /\ task' \in Loop \cup {NoOne}
        /\ pc' \in [Flusher -> Stages]
        /\ holder' \in Flusher \cup {NoOne}
        /\ snapshot' \in SUBSET Session
        /\ listed' \in BOOLEAN
        /\ pending' \in [Session -> Seq(Nat)]
        /\ write' = "none"
        /\ crashes' \in Nat
    <3>1. crashes \in Nat
      BY DEF TypeOK
    <3>2. /\ running' = FALSE
          /\ task' = NoOne
          /\ pc' = AtRest
          /\ holder' = NoOne
          /\ snapshot' = {}
          /\ listed' = FALSE
          /\ pending' = [s \in Session |-> <<>>]
          /\ write' = "none"
          /\ crashes' = crashes + 1
      BY <1>7 DEF Crash
    <3>3. pc' \in [Flusher -> Stages]
      BY <3>2, RestType
    <3>4. pending' \in [Session -> Seq(Nat)]
      BY <3>2, EmptySeq
    <3>5. running' \in BOOLEAN /\ listed' \in BOOLEAN
      BY <3>2
    <3>6. crashes' \in Nat
      BY <3>1, <3>2
    <3>7. holder' \in Flusher \cup {NoOne} /\ snapshot' \in SUBSET Session
      BY <3>2
    <3>8. QED
      BY <3>2, <3>3, <3>4, <3>5, <3>6, <3>7
  <2>5. UNCHANGED <<target, batch, current, base, disk, torn, badRollbacks>>
    BY <1>7 DEF Crash
  <2>6. QED
    BY <2>2, <2>3, <2>4, <2>5 DEF TypeOK, WriteStates
<1>8. CASE UNCHANGED vars
  BY <1>8 DEF vars, TypeOK, BufferTypeOK
<1>9. QED
  BY <1>1, <1>2, <1>5, <1>6, <1>7, <1>8 DEF Next

\* A new manager over an empty buffer is well typed.
LEMMA TypeInit == Init => TypeOK
<1> SUFFICES ASSUME Init PROVE TypeOK
  OBVIOUS
<1>1. BufferTypeOK
  BY EmptySeq, EventBoundAssumption DEF Init, BufferInit, BufferTypeOK
<1>2. QED
  BY <1>1, EmptySeq, RestType DEF Init, TypeOK, WriteStates

\* Type correctness of every reachable state, with the buffer's bound per
\* session (buffer.py: _enforce_bounds).
THEOREM TypeCorrect == Spec => []TypeOK
<1>1. QED
  BY TypeInit, TypeInductive, PTL DEF Spec

-----------------------------------------------------------------------------
(* The write task always belongs to the one owned batch. *)

\* A flush that owns nothing and finds no task starts the write of the batch it
\* drains, or leaves nothing owned and no task.
LEMMA DrainMatches ==
  ASSUME NEW f \in Flusher, NEW ids \in SUBSET Session,
         NEW owned \in [Session -> Seq(Nat)],
         \A s \in Session : owned[s] = <<>>,
         Drain(f, ids, owned, "none")
  PROVE  WriteTaskMatchesBatch'
<1>1. CASE /\ ReleaseLock(f)
           /\ pending' = owned
           /\ write' = "none"
  BY <1>1 DEF ReleaseLock, WriteTaskMatchesBatch
<1>2. ASSUME NEW s \in ids \cap SessionIds,
             pending' = [owned EXCEPT ![s] = events[s]],
             AwaitWrite(f, s, events[s], "none")
      PROVE  WriteTaskMatchesBatch'
  <2>1. s \in Session /\ events[s] # <<>>
    BY <1>2 DEF SessionIds
  <2>2. \A t \in Session : pending'[t] = IF t = s THEN events[s] ELSE <<>>
    BY <1>2, <2>1
  <2>3. write' = "running" /\ target' = s /\ batch' = events[s] /\ current' = s
    BY <1>2 DEF AwaitWrite
  <2>4. QED
    BY <2>1, <2>2, <2>3 DEF WriteTaskMatchesBatch
<1>3. QED
  BY <1>1, <1>2 DEF Drain

\* Every step keeps the write task and the one owned batch together.
LEMMA MatchesInductive ==
  TypeOK /\ WriteTaskMatchesBatch /\ [Next]_vars => WriteTaskMatchesBatch'
<1> SUFFICES ASSUME TypeOK, WriteTaskMatchesBatch, [Next]_vars
             PROVE  WriteTaskMatchesBatch'
  OBVIOUS
<1>1. ASSUME NEW s \in Session, PublishEvent(s)
      PROVE  WriteTaskMatchesBatch'
  BY <1>1 DEF PublishEvent, WriteTaskMatchesBatch, managerVars, flushVars
<1>2. ASSUME NEW f \in Flusher, LifeStep(f)
      PROVE  WriteTaskMatchesBatch'
  BY <1>2, LifeFrame DEF WriteTaskMatchesBatch, managerVars
<1>5. ASSUME NEW f \in Flusher, FlushStep(f)
      PROVE  WriteTaskMatchesBatch'
  <2>2. ASSUME Acquire(f), NEW s \in Session, pending[s] # <<>>,
               AwaitWrite(f, s, pending[s], write), UNCHANGED pending
        PROVE  WriteTaskMatchesBatch'
    <3>1. CASE write = "none"
      BY <2>2, <3>1 DEF AwaitWrite, WriteTaskMatchesBatch
    <3>2. CASE write # "none"
      <4>1. target = s
        BY <2>2, <3>2 DEF WriteTaskMatchesBatch, TypeOK
      <4>2. QED
        BY <2>2, <3>2, <4>1 DEF AwaitWrite, WriteTaskMatchesBatch
    <3>3. QED
      BY <3>1, <3>2
  <2>3. ASSUME \A s \in Session : pending[s] = <<>>,
               Drain(f, SessionIds, pending, write)
        PROVE  WriteTaskMatchesBatch'
    <3>1. write = "none"
      BY <2>3 DEF WriteTaskMatchesBatch, TypeOK
    <3>2. QED
      BY <2>3, <3>1, DrainMatches DEF SessionIds, TypeOK
  <2>4. CASE Acknowledge(f)
    <3>1. \A s \in Session : s # current => pending[s] = <<>>
      <4>1. holder # NoOne
        BY <2>4, FlusherAssumption DEF Acknowledge
      <4>2. target = current /\ pending[target] # <<>> /\ current \in Session
        BY <4>1 DEF WriteTaskMatchesBatch, TypeOK
      <4>3. QED
        BY <4>2 DEF WriteTaskMatchesBatch
    <3> DEFINE ids == IF listed THEN snapshot ELSE SessionIds
               owned == [pending EXCEPT ![current] = <<>>]
    <3>2. owned \in [Session -> Seq(Nat)] /\ \A s \in Session : owned[s] = <<>>
      BY <3>1 DEF TypeOK
    <3>3. ids \in SUBSET Session
      BY DEF SessionIds, TypeOK
    <3>4. Drain(f, ids, owned, "none")
      BY <2>4 DEF Acknowledge
    <3> HIDE DEF ids, owned
    <3>5. QED
      BY <3>2, <3>3, <3>4, DrainMatches
  <2>5. CASE PropagateFailure(f)
    BY <2>5 DEF PropagateFailure, ReleaseLock, WriteTaskMatchesBatch
  <2>6. QED
    BY <1>5, <2>2, <2>3, <2>4, <2>5 DEF FlushStep, Acquire
<1>6. CASE WriteStep
  BY <1>6 DEF WriteStep, WriteOk, WriteRefused, WritePartly, Rollback, RollbackFails,
              WriteTaskMatchesBatch, flushVars
<1>7. CASE Crash
  BY <1>7 DEF Crash, WriteTaskMatchesBatch
<1>8. CASE UNCHANGED vars
  BY <1>8 DEF vars, WriteTaskMatchesBatch, managerVars, flushVars
<1>9. QED
  BY <1>1, <1>2, <1>5, <1>6, <1>7, <1>8 DEF Next

\* However flushes are cancelled, fail and follow one another, there is one
\* owned batch at most and any write task found is the write of that batch
\* (persistence.py: _write_pending_events awaits whatever task it finds).
THEOREM WriteTaskAlwaysMatches == Spec => []WriteTaskMatchesBatch
<1>1. Init => WriteTaskMatchesBatch
  BY DEF Init, WriteTaskMatchesBatch
<1>2. QED
  BY <1>1, TypeCorrect, MatchesInductive, PTL DEF Spec

-----------------------------------------------------------------------------
(* The bound on sessions *)

\* The buffer's keys are few, and finitely many.
Bounded == IsFiniteSet(SessionIds) /\ SessionsBounded

\* A session that was active longest ago exists when there is any.
LEMMA LeastActive ==
  ASSUME TypeOK, SessionIds # {}
  PROVE  \E v \in SessionIds : \A t \in SessionIds : activity[v] <= activity[t]
<1> DEFINE T == {activity[v] : v \in SessionIds}
<1>1. \A v \in SessionIds : activity[v] \in Nat
  BY DEF SessionIds, TypeOK, BufferTypeOK
<1>2. T \subseteq Nat /\ T # {}
  BY <1>1
<1>3. PICK a \in T : \A b \in T : ~(<<b, a>> \in OpToRel(<, Nat))
  BY <1>2, NatLessThanWellFounded, WFMin
<1>4. PICK v \in SessionIds : a = activity[v]
  OBVIOUS
<1>5. ASSUME NEW t \in SessionIds
      PROVE  activity[v] <= activity[t]
  <2>1. ~(activity[t] < activity[v])
    BY <1>1, <1>3, <1>4 DEF OpToRel
  <2>2. QED
    BY <1>1, <2>1
<1>6. QED
  BY <1>5

\* Keys that were there before stay within the bound.
LEMMA FewerKeys ==
  ASSUME Bounded, NEW T \in SUBSET SessionIds
  PROVE  IsFiniteSet(T) /\ Cardinality(T) <= MaxSessions
<1>1. /\ IsFiniteSet(T) /\ Cardinality(T) <= Cardinality(SessionIds)
      /\ Cardinality(T) \in Nat /\ Cardinality(SessionIds) \in Nat
  BY FS_Subset, FS_CardinalityType DEF Bounded
<1>2. QED
  BY <1>1, SessionBoundAssumption DEF Bounded, SessionsBounded

\* publish makes room for a new session before it adds it.
LEMMA PublishBounded ==
  ASSUME TypeOK, Bounded, NEW s \in Session, Publish(s)
  PROVE  Bounded'
<1>1. PICK ids : ids = SessionIds'
  OBVIOUS
<1>2. /\ events'[s] # <<>>
      /\ \A t \in Session : t # s => events'[t] = IF t \in Evicted(s) THEN <<>> ELSE events[t]
      /\ s \in Session
  <2>1. ASSUME NEW q \in Seq(Nat), NEW n \in Nat
        PROVE  Append(q, n) # <<>>
    BY AppendProperties
  <2>2. SubSeq(events[s], Excess(s) + 1, Len(events[s])) \in Seq(Nat) /\ published[s] + 1 \in Nat
    <3>1. events[s] \in Seq(Nat) /\ published[s] \in Nat
      BY DEF TypeOK, BufferTypeOK
    <3>2. Excess(s) \in Nat /\ Len(events[s]) \in Nat
      BY <3>1, EventBoundAssumption, LenProperties DEF Excess
    <3>3. \A i \in Excess(s) + 1 .. Len(events[s]) : events[s][i] \in Nat
      BY <3>1, <3>2
    <3>4. QED
      BY <3>1, <3>2, <3>3, SubSeqProperties
  <2>3. QED
    BY <2>1, <2>2 DEF Publish
<1>3. ids \subseteq (SessionIds \ Evicted(s)) \cup {s}
  BY <1>1, <1>2 DEF SessionIds
<1>4. Cardinality(SessionIds) \in Nat /\ IsFiniteSet(SessionIds) /\ Cardinality(SessionIds) <= MaxSessions
      /\ MaxSessions \in Nat \ {0}
  BY FS_CardinalityType, SessionBoundAssumption DEF Bounded, SessionsBounded
<1>5. \E T : ids \subseteq T /\ IsFiniteSet(T) /\ Cardinality(T) <= MaxSessions
  <2>1. CASE events[s] # <<>>
    <3>1. s \in SessionIds
      BY <2>1 DEF SessionIds
    <3>2. ids \subseteq SessionIds
      BY <1>3, <3>1
    <3>3. QED
      BY <1>4, <3>2
  <2>2. CASE events[s] = <<>> /\ ~(Cardinality(SessionIds) >= MaxSessions)
    <3>1. /\ IsFiniteSet(SessionIds \cup {s})
          /\ Cardinality(SessionIds \cup {s}) \in {Cardinality(SessionIds), Cardinality(SessionIds) + 1}
      BY <1>4, FS_AddElement
    <3>2. Cardinality(SessionIds \cup {s}) <= MaxSessions
      BY <1>4, <2>2, <3>1
    <3>3. QED
      BY <1>3, <3>1, <3>2
  <2>3. CASE events[s] = <<>> /\ Cardinality(SessionIds) >= MaxSessions
    <3>1. SessionIds # {}
      BY <1>4, <2>3, FS_EmptySet
    <3>2. PICK v \in SessionIds : \A t \in SessionIds : activity[v] <= activity[t]
      BY <3>1, LeastActive
    <3>3. v \in Evicted(s)
      BY <2>3, <3>2 DEF Evicted
    <3> DEFINE rest == SessionIds \ {v}
    <3>4. ids \subseteq rest \cup {s}
      BY <1>3, <3>3
    <3>5. IsFiniteSet(rest) /\ Cardinality(rest) = Cardinality(SessionIds) - 1
      BY <1>4, <3>2, FS_RemoveElement
    <3> HIDE DEF rest
    <3>6. /\ IsFiniteSet(rest \cup {s})
          /\ Cardinality(rest \cup {s}) \in {Cardinality(rest), Cardinality(rest) + 1}
      BY <3>5, FS_AddElement
    <3>7. Cardinality(rest \cup {s}) <= MaxSessions
      BY <1>4, <3>5, <3>6
    <3>8. QED
      BY <3>4, <3>6, <3>7
  <2>4. QED
    BY <2>1, <2>2, <2>3
<1>6. PICK T : ids \subseteq T /\ IsFiniteSet(T) /\ Cardinality(T) <= MaxSessions
  BY <1>5
<1>7. /\ IsFiniteSet(ids) /\ Cardinality(ids) <= Cardinality(T)
      /\ Cardinality(ids) \in Nat /\ Cardinality(T) \in Nat
  BY <1>6, FS_Subset, FS_CardinalityType
<1>8. IsFiniteSet(ids) /\ Cardinality(ids) <= MaxSessions
  BY <1>4, <1>6, <1>7
<1>9. QED
  BY <1>1, <1>8 DEF Bounded, SessionsBounded

\* No other step adds a key.
LEMMA BoundedInductive == TypeOK /\ Bounded /\ [Next]_vars => Bounded'
<1> SUFFICES ASSUME TypeOK, Bounded, [Next]_vars
             PROVE  Bounded'
  OBVIOUS
<1>1. ASSUME NEW s \in Session, PublishEvent(s)
      PROVE  Bounded'
  BY <1>1, PublishBounded DEF PublishEvent
<1>2. ASSUME SessionIds' \subseteq SessionIds
      PROVE  Bounded'
  <2>1. PICK T \in SUBSET SessionIds : T = SessionIds'
    BY <1>2
  <2>2. IsFiniteSet(T) /\ Cardinality(T) <= MaxSessions
    BY FewerKeys
  <2>3. QED
    BY <2>1, <2>2 DEF Bounded, SessionsBounded
<1>3. ASSUME events' = events
      PROVE  SessionIds' \subseteq SessionIds
  BY <1>3 DEF SessionIds
<1>4. ASSUME NEW s, PopEvents(s)
      PROVE  SessionIds' \subseteq SessionIds
  BY <1>4 DEF PopEvents, SessionIds, TypeOK, BufferTypeOK
<1>5. ASSUME NEW f \in Flusher, NEW ids, NEW owned, NEW w, Drain(f, ids, owned, w)
      PROVE  SessionIds' \subseteq SessionIds
  BY <1>3, <1>4, <1>5 DEF Drain, bufferVars
<1>6. ASSUME NEW f \in Flusher, FlushStep(f)
      PROVE  SessionIds' \subseteq SessionIds
  <2>1. CASE PropagateFailure(f)
    BY <1>3, <2>1 DEF PropagateFailure, bufferVars
  <2>2. CASE Acquire(f)
    BY <1>3, <1>5, <2>2 DEF Acquire, bufferVars
  <2>3. CASE Acknowledge(f)
    BY <1>5, <2>3 DEF Acknowledge
  <2>4. QED
    BY <1>6, <2>1, <2>2, <2>3 DEF FlushStep
<1>7. ASSUME Crash
      PROVE  SessionIds' \subseteq SessionIds
  <2>1. \A s \in Session : events'[s] = <<>>
    BY <1>7 DEF Crash
  <2>2. QED
    BY <2>1 DEF SessionIds
<1>8. ASSUME \/ \E f \in Flusher : LifeStep(f)
             \/ WriteStep
             \/ UNCHANGED vars
      PROVE  events' = events
  BY <1>8, LifeFrame DEF vars, bufferVars, WriteStep, WriteOk, WriteRefused,
              WritePartly, Rollback, RollbackFails
<1>9. QED
  BY <1>1, <1>2, <1>3, <1>6, <1>7, <1>8 DEF Next

\* The dictionary of sessions stays within max_sessions (buffer.py:
\* _enforce_bounds evicts before it adds), however publishes and flushes mix.
THEOREM SessionsAlwaysBounded == Spec => []SessionsBounded
<1>1. Init => Bounded
  <2>1. SUFFICES ASSUME Init
                 PROVE  Bounded
    OBVIOUS
  <2>2. SessionIds = {}
    <3>1. \A s \in Session : events[s] = <<>>
      BY <2>1 DEF Init, BufferInit
    <3>2. QED
      BY <3>1 DEF SessionIds
  <2>3. QED
    BY <2>2, FS_EmptySet, SessionBoundAssumption DEF Bounded, SessionsBounded
<1>2. Bounded => SessionsBounded
  BY DEF Bounded
<1>3. QED
  BY <1>1, <1>2, TypeCorrect, BoundedInductive, PTL DEF Spec

-----------------------------------------------------------------------------
(* Three sequences that continue one another: the file, the owned batch    *)
(* and the buffer of a session that has published n events and given up    *)
(* those in g.                                                             *)

AtMost(q, n) == \A i \in DOMAIN q : q[i] <= n

InOrder(d, p, e, n) ==
  /\ Increasing(d) /\ Increasing(p) /\ Increasing(e)
  /\ Precedes(d, p) /\ Precedes(d, e) /\ Precedes(p, e)
  /\ AtMost(d, n) /\ AtMost(p, n) /\ AtMost(e, n)

Account(d, p, e, n, g) ==
  /\ InOrder(d, p, e, n)
  /\ 1..n = Elems(d) \cup Elems(p) \cup Elems(e) \cup g

\* What the members of a concatenation, a prefix and an extension are.
LEMMA ElemsConcat ==
  ASSUME NEW q \in Seq(Nat), NEW r \in Seq(Nat)
  PROVE  Elems(q \o r) = Elems(q) \cup Elems(r)
<1>1. /\ q \o r \in Seq(Nat)
      /\ Len(q \o r) = Len(q) + Len(r)
      /\ \A i \in 1 .. Len(q) + Len(r) :
           (q \o r)[i] = IF i <= Len(q) THEN q[i] ELSE r[i - Len(q)]
  BY ConcatProperties
<1>2. /\ Len(q) \in Nat /\ Len(r) \in Nat
      /\ DOMAIN q = 1..Len(q) /\ DOMAIN r = 1..Len(r)
      /\ DOMAIN (q \o r) = 1..(Len(q) + Len(r))
  BY <1>1, LenProperties
<1>3. ASSUME NEW x \in Elems(q \o r)
      PROVE  x \in Elems(q) \cup Elems(r)
  <2>1. PICK i \in 1..(Len(q) + Len(r)) : x = (q \o r)[i]
    BY <1>2 DEF Elems
  <2>2. CASE i <= Len(q)
    BY <1>1, <1>2, <2>1, <2>2 DEF Elems
  <2>3. CASE ~(i <= Len(q))
    <3>1. i - Len(q) \in 1..Len(r) /\ x = r[i - Len(q)]
      BY <1>1, <1>2, <2>1, <2>3
    <3>2. QED
      BY <1>2, <3>1 DEF Elems
  <2>4. QED
    BY <2>2, <2>3
<1>4. ASSUME NEW x \in Elems(q)
      PROVE  x \in Elems(q \o r)
  <2>1. PICK i \in 1..Len(q) : x = q[i]
    BY <1>2 DEF Elems
  <2>2. i \in 1..(Len(q) + Len(r)) /\ x = (q \o r)[i]
    BY <1>1, <1>2, <2>1
  <2>3. QED
    BY <1>2, <2>2 DEF Elems
<1>5. ASSUME NEW x \in Elems(r)
      PROVE  x \in Elems(q \o r)
  <2>1. PICK i \in 1..Len(r) : x = r[i]
    BY <1>2 DEF Elems
  <2>2. i + Len(q) \in 1..(Len(q) + Len(r)) /\ x = (q \o r)[i + Len(q)]
    BY <1>1, <1>2, <2>1
  <2>3. QED
    BY <1>2, <2>2 DEF Elems
<1>6. QED
  BY <1>3, <1>4, <1>5

\* The concatenation of increasing sequences of which one precedes the other.
LEMMA ConcatIncreasing ==
  ASSUME NEW q \in Seq(Nat), NEW r \in Seq(Nat),
         Increasing(q), Increasing(r), Precedes(q, r)
  PROVE  Increasing(q \o r)
<1>1. /\ q \o r \in Seq(Nat)
      /\ Len(q \o r) = Len(q) + Len(r)
      /\ \A i \in 1 .. Len(q) + Len(r) :
           (q \o r)[i] = IF i <= Len(q) THEN q[i] ELSE r[i - Len(q)]
  BY ConcatProperties
<1>2. /\ Len(q) \in Nat /\ Len(r) \in Nat
      /\ DOMAIN q = 1..Len(q) /\ DOMAIN r = 1..Len(r)
      /\ DOMAIN (q \o r) = 1..(Len(q) + Len(r))
  BY <1>1, LenProperties
<1>3. SUFFICES ASSUME NEW i \in 1..(Len(q) + Len(r)), NEW j \in 1..(Len(q) + Len(r)), i < j
               PROVE  (q \o r)[i] < (q \o r)[j]
  BY <1>2 DEF Increasing
<1>4. CASE j <= Len(q)
  <2>1. i \in 1..Len(q) /\ j \in 1..Len(q) /\ (q \o r)[i] = q[i] /\ (q \o r)[j] = q[j]
    BY <1>1, <1>2, <1>3, <1>4
  <2>2. QED
    BY <1>2, <1>3, <2>1 DEF Increasing
<1>5. CASE i <= Len(q) /\ ~(j <= Len(q))
  <2>1. /\ i \in 1..Len(q) /\ j - Len(q) \in 1..Len(r)
        /\ (q \o r)[i] = q[i] /\ (q \o r)[j] = r[j - Len(q)]
    BY <1>1, <1>2, <1>3, <1>5
  <2>2. QED
    BY <1>2, <2>1 DEF Precedes
<1>6. CASE ~(i <= Len(q))
  <2>1. /\ i - Len(q) \in 1..Len(r) /\ j - Len(q) \in 1..Len(r)
        /\ i - Len(q) < j - Len(q)
        /\ (q \o r)[i] = r[i - Len(q)] /\ (q \o r)[j] = r[j - Len(q)]
    BY <1>1, <1>2, <1>3, <1>6
  <2>2. QED
    BY <1>2, <2>1 DEF Increasing
<1>7. QED
  BY <1>3, <1>4, <1>5, <1>6

\* Order and bounds speak of members only.
LEMMA OrderByMembers ==
  ASSUME NEW q \in Seq(Nat), NEW r \in Seq(Nat), NEW n \in Nat
  PROVE  /\ Precedes(q, r) <=> \A x \in Elems(q), y \in Elems(r) : x < y
         /\ AtMost(q, n) <=> \A x \in Elems(q) : x <= n
BY DEF Precedes, AtMost, Elems

\* The empty sequence holds nothing and is in order with everything.
LEMMA EmptyInOrder == Elems(<<>>) = {} /\ Increasing(<<>>) /\ <<>> \in Seq(Nat)
BY EmptySeq DEF Elems, Increasing

\* What is left of a sequence without its first k members.
LEMMA KeptPart ==
  ASSUME NEW q \in Seq(Nat), NEW k \in 0..Len(q)
  PROVE  /\ SubSeq(q, k + 1, Len(q)) \in Seq(Nat)
         /\ Increasing(q) => Increasing(SubSeq(q, k + 1, Len(q)))
         /\ Elems(q) = {q[i] : i \in 1..k} \cup Elems(SubSeq(q, k + 1, Len(q)))
<1> DEFINE kept == SubSeq(q, k + 1, Len(q))
<1>1. Len(q) \in Nat /\ DOMAIN q = 1..Len(q) /\ k \in Nat /\ k <= Len(q)
  BY LenProperties
<1>2. /\ kept \in Seq(Nat)
      /\ Len(kept) = Len(q) - k
      /\ \A i \in 1..(Len(q) - k) : kept[i] = q[k + i]
  <2>1. \A i \in k + 1 .. Len(q) : q[i] \in Nat
    BY <1>1
  <2>2. /\ kept \in Seq(Nat)
        /\ Len(kept) = IF k + 1 <= Len(q) THEN Len(q) - (k + 1) + 1 ELSE 0
        /\ \A i \in 1 .. Len(q) - (k + 1) + 1 : kept[i] = q[(k + 1) + i - 1]
    BY <1>1, <2>1, SubSeqProperties
  <2> HIDE DEF kept
  <2>3. Len(kept) = Len(q) - k
    <3>1. CASE k + 1 <= Len(q)
      <4>1. Len(kept) = Len(q) - (k + 1) + 1
        BY <2>2, <3>1
      <4>2. QED
        BY <1>1, <4>1
    <3>2. CASE ~(k + 1 <= Len(q))
      <4>1. Len(kept) = 0
        BY <2>2, <3>2
      <4>2. Len(q) = k
        <5>1. \A a, b \in Nat : a <= b /\ ~(a + 1 <= b) => b = a
          OBVIOUS
        <5>2. QED
          BY <1>1, <3>2, <5>1
      <4>3. Len(q) - k = 0
        BY <1>1, <4>2
      <4>4. QED
        BY <4>1, <4>3
    <3>3. QED
      BY <3>1, <3>2
  <2>4. ASSUME NEW i \in 1..(Len(q) - k)
        PROVE  kept[i] = q[k + i]
    <3>1. i \in 1 .. Len(q) - (k + 1) + 1 /\ (k + 1) + i - 1 = k + i
      BY <1>1
    <3>2. kept[i] = q[(k + 1) + i - 1]
      BY <2>2, <3>1
    <3>3. QED
      BY <3>1, <3>2
  <2>5. QED
    BY <2>2, <2>3, <2>4
<1>3. DOMAIN kept = 1..(Len(q) - k)
  BY <1>2, LenProperties
<1> HIDE DEF kept
<1>4. ASSUME Increasing(q), NEW i \in 1..(Len(q) - k), NEW j \in 1..(Len(q) - k), i < j
      PROVE  kept[i] < kept[j]
  <2>1. k + i \in 1..Len(q) /\ k + j \in 1..Len(q) /\ k + i < k + j
    BY <1>1, <1>4
  <2>2. q[k + i] < q[k + j]
    BY <1>1, <1>4, <2>1 DEF Increasing
  <2>3. QED
    BY <1>2, <2>2
<1>5. ASSUME NEW i \in 1..Len(q)
      PROVE  q[i] \in {q[j] : j \in 1..k} \cup Elems(kept)
  <2>1. CASE i <= k
    BY <1>1, <2>1
  <2>2. CASE ~(i <= k)
    <3>1. i - k \in 1..(Len(q) - k) /\ kept[i - k] = q[i]
      BY <1>1, <1>2, <2>2
    <3>2. QED
      BY <1>3, <3>1 DEF Elems
  <2>3. QED
    BY <2>1, <2>2
<1>6. Elems(q) \subseteq {q[j] : j \in 1..k} \cup Elems(kept)
  BY <1>1, <1>5 DEF Elems
<1>7. {q[j] : j \in 1..k} \subseteq Elems(q)
  BY <1>1 DEF Elems
<1>8. Elems(kept) \subseteq Elems(q)
  <2>1. \A i \in 1..(Len(q) - k) : k + i \in 1..Len(q)
    BY <1>1
  <2>2. QED
    BY <1>1, <1>2, <1>3, <2>1 DEF Elems
<1>9. Increasing(q) => Increasing(kept)
  BY <1>3, <1>4 DEF Increasing
<1>10. QED
  BY <1>2, <1>6, <1>7, <1>8, <1>9 DEF kept

\* The first k members of a sequence.
LEMMA FirstPart ==
  ASSUME NEW q \in Seq(Nat), NEW k \in 0..Len(q)
  PROVE  /\ SubSeq(q, 1, k) \in Seq(Nat)
         /\ Len(SubSeq(q, 1, k)) = k
         /\ Increasing(q) => Increasing(SubSeq(q, 1, k))
         /\ Elems(SubSeq(q, 1, k)) \subseteq Elems(q)
<1>1. Len(q) \in Nat /\ DOMAIN q = 1..Len(q) /\ k \in Nat /\ k <= Len(q)
  BY LenProperties
<1>2. /\ SubSeq(q, 1, k) \in Seq(Nat)
      /\ Len(SubSeq(q, 1, k)) = k
      /\ \A i \in 1..k : SubSeq(q, 1, k)[i] = q[i]
  BY <1>1, PrefixType
<1>3. DOMAIN SubSeq(q, 1, k) = 1..k
  BY <1>2, LenProperties
<1>4. QED
  BY <1>1, <1>2, <1>3 DEF Increasing, Elems

-----------------------------------------------------------------------------
(* What the operations do to an account. *)

\* Every account in order is one increasing sequence.
LEMMA AccountIncreasing ==
  ASSUME NEW d \in Seq(Nat), NEW p \in Seq(Nat), NEW e \in Seq(Nat), NEW n \in Nat,
         InOrder(d, p, e, n)
  PROVE  Increasing(d \o p \o e)
<1>1. Increasing(d \o p) /\ d \o p \in Seq(Nat)
  BY ConcatIncreasing, ConcatProperties DEF InOrder
<1>2. Elems(d \o p) = Elems(d) \cup Elems(p)
  BY ElemsConcat
<1>3. Precedes(d \o p, e)
  <2>1. Precedes(d, e) /\ Precedes(p, e)
    BY DEF InOrder
  <2>2. QED
    BY <1>1, <1>2, <2>1, OrderByMembers
<1>4. QED
  BY <1>1, <1>3, ConcatIncreasing DEF InOrder

\* publish: the oldest k make room for the next event.
LEMMA AccountPublish ==
  ASSUME NEW d \in Seq(Nat), NEW p \in Seq(Nat), NEW e \in Seq(Nat), NEW n \in Nat, NEW g,
         NEW k \in 0..Len(e), Account(d, p, e, n, g)
  PROVE  Account(d, p, Append(SubSeq(e, k + 1, Len(e)), n + 1), n + 1,
                 g \cup {e[i] : i \in 1..k})
<1> DEFINE kept == SubSeq(e, k + 1, Len(e))
           last == <<n + 1>>
           next == Append(kept, n + 1)
           gone == {e[i] : i \in 1..k}
<1>1. /\ kept \in Seq(Nat)
      /\ Increasing(kept)
      /\ Elems(e) = gone \cup Elems(kept)
  BY KeptPart DEF Account, InOrder
<1> HIDE DEF kept, gone
<1>2. n + 1 \in Nat /\ last \in Seq(Nat) /\ Increasing(last) /\ Elems(last) = {n + 1}
  BY DEF Increasing, Elems
<1>3. next = kept \o last
  BY <1>1, <1>2, AppendIsConcat
<1> HIDE DEF next, last
<1>4. next \in Seq(Nat) /\ Elems(next) = Elems(kept) \cup {n + 1}
  <2>1. kept \o last \in Seq(Nat)
    BY <1>1, <1>2, ConcatProperties
  <2>2. Elems(kept \o last) = Elems(kept) \cup Elems(last)
    BY <1>1, <1>2, ElemsConcat
  <2>3. QED
    BY <1>2, <1>3, <2>1, <2>2
<1>5. /\ \A x \in Elems(d), y \in Elems(p) \cup Elems(e) : x < y
      /\ \A x \in Elems(p), y \in Elems(e) : x < y
      /\ \A x \in Elems(d) \cup Elems(p) \cup Elems(e) : x <= n
  BY OrderByMembers DEF Account, InOrder
<1>6. \A x \in Elems(d) \cup Elems(p) \cup Elems(e) : x \in Nat /\ x < n + 1
  <2>1. \A q \in Seq(Nat) : Elems(q) \subseteq Nat
    BY DEF Elems
  <2>2. QED
    BY <1>5, <2>1
<1>7. Increasing(next)
  <2>1. Precedes(kept, last)
    BY <1>1, <1>2, <1>6, OrderByMembers
  <2>2. QED
    BY <1>1, <1>2, <1>3, <2>1, ConcatIncreasing
<1>8. /\ \A x \in Elems(d) \cup Elems(p), y \in Elems(next) : x < y
      /\ \A x \in Elems(d) \cup Elems(p) \cup Elems(next) : x <= n + 1
  BY <1>1, <1>4, <1>5, <1>6
<1>9. InOrder(d, p, next, n + 1)
  <2>1. Precedes(d, next) /\ Precedes(p, next)
    BY <1>4, <1>8, OrderByMembers
  <2>2. AtMost(d, n + 1) /\ AtMost(p, n + 1) /\ AtMost(next, n + 1)
    BY <1>2, <1>4, <1>8, OrderByMembers
  <2>3. QED
    BY <1>7, <2>1, <2>2 DEF Account, InOrder
<1>10. 1..(n + 1) = Elems(d) \cup Elems(p) \cup Elems(next) \cup (g \cup gone)
  <2>1. 1..(n + 1) = (1..n) \cup {n + 1}
    OBVIOUS
  <2>2. 1..n = Elems(d) \cup Elems(p) \cup Elems(e) \cup g
    BY DEF Account
  <2>3. QED
    BY <1>1, <1>4, <2>1, <2>2
<1>11. QED
  BY <1>9, <1>10 DEF Account, next, kept, gone

\* An eviction: the buffer gives up all it has.
LEMMA AccountEvict ==
  ASSUME NEW d \in Seq(Nat), NEW p \in Seq(Nat), NEW e \in Seq(Nat), NEW n \in Nat, NEW g,
         Account(d, p, e, n, g)
  PROVE  Account(d, p, <<>>, n, g \cup Elems(e))
BY EmptyInOrder, OrderByMembers DEF Account, InOrder, Precedes, AtMost

\* A flush takes the buffered events over.
LEMMA AccountDrain ==
  ASSUME NEW d \in Seq(Nat), NEW e \in Seq(Nat), NEW n \in Nat, NEW g,
         Account(d, <<>>, e, n, g)
  PROVE  Account(d, e, <<>>, n, g)
BY EmptyInOrder DEF Account, InOrder, Precedes, AtMost

\* A successful write is acknowledged.
LEMMA AccountCommit ==
  ASSUME NEW d \in Seq(Nat), NEW p \in Seq(Nat), NEW e \in Seq(Nat), NEW n \in Nat, NEW g,
         Account(d, p, e, n, g)
  PROVE  Account(d \o p, <<>>, e, n, g)
<1>1. d \o p \in Seq(Nat) /\ Elems(d \o p) = Elems(d) \cup Elems(p)
  BY ElemsConcat, ConcatProperties
<1>2. Increasing(d \o p)
  BY ConcatIncreasing DEF Account, InOrder
<1>3. Precedes(d \o p, e) /\ AtMost(d \o p, n)
  BY <1>1, OrderByMembers DEF Account, InOrder
<1>4. Precedes(d \o p, <<>>) /\ Precedes(<<>>, e) /\ AtMost(<<>>, n)
  BY DEF Precedes, AtMost
<1>5. QED
  BY <1>1, <1>2, <1>3, <1>4, EmptyInOrder DEF Account, InOrder

\* A crash: k lines of the owned batch are in the file, the rest of memory is gone.
LEMMA AccountCrash ==
  ASSUME NEW d \in Seq(Nat), NEW p \in Seq(Nat), NEW e \in Seq(Nat), NEW n \in Nat, NEW g,
         NEW k \in 0..Len(p), Account(d, p, e, n, g)
  PROVE  Account(d \o SubSeq(p, 1, k), <<>>, <<>>, n,
                 g \cup ((Elems(e) \cup Elems(p)) \ Elems(d \o SubSeq(p, 1, k))))
<1> DEFINE part == SubSeq(p, 1, k)
           file == d \o part
<1>1. part \in Seq(Nat) /\ Increasing(part) /\ Elems(part) \subseteq Elems(p)
  BY FirstPart DEF Account, InOrder
<1> HIDE DEF part
<1>2. file \in Seq(Nat) /\ Elems(file) = Elems(d) \cup Elems(part)
  BY <1>1, ElemsConcat, ConcatProperties
<1>3. Precedes(d, part) /\ AtMost(part, n)
  BY <1>1, OrderByMembers DEF Account, InOrder
<1>4. Increasing(file)
  BY <1>1, <1>3, ConcatIncreasing DEF Account, InOrder
<1>5. AtMost(file, n)
  BY <1>1, <1>2, <1>3, OrderByMembers DEF Account, InOrder
<1> HIDE DEF file
<1>6. /\ Precedes(file, <<>>) /\ Precedes(<<>>, <<>>) /\ AtMost(<<>>, n)
  BY DEF Precedes, AtMost
<1>7. InOrder(file, <<>>, <<>>, n)
  BY <1>4, <1>5, <1>6, EmptyInOrder DEF InOrder
<1>8. 1..n = Elems(file) \cup (g \cup ((Elems(e) \cup Elems(p)) \ Elems(file)))
  BY <1>1, <1>2 DEF Account
<1>9. QED
  BY <1>7, <1>8, EmptyInOrder DEF Account, file, part

\* The lines a file had are the first of what it has after an append.
LEMMA PrefixOfConcat ==
  ASSUME NEW q \in Seq(Nat), NEW r \in Seq(Nat)
  PROVE  /\ q \o r \in Seq(Nat)
         /\ Len(q) <= Len(q \o r)
         /\ SubSeq(q \o r, 1, Len(q)) = q
<1>1. /\ q \o r \in Seq(Nat)
      /\ Len(q \o r) = Len(q) + Len(r)
      /\ \A i \in 1 .. Len(q) + Len(r) :
           (q \o r)[i] = IF i <= Len(q) THEN q[i] ELSE r[i - Len(q)]
      /\ Len(q) \in Nat /\ Len(r) \in Nat
  BY ConcatProperties, LenProperties
<1>2. Len(q) <= Len(q \o r)
  BY <1>1
<1>3. /\ SubSeq(q \o r, 1, Len(q)) \in Seq(Nat)
      /\ Len(SubSeq(q \o r, 1, Len(q))) = Len(q)
      /\ \A i \in 1..Len(q) : SubSeq(q \o r, 1, Len(q))[i] = (q \o r)[i]
  BY <1>1, <1>2, PrefixType
<1>4. \A i \in 1..Len(q) : SubSeq(q \o r, 1, Len(q))[i] = q[i]
  BY <1>1, <1>3
<1>5. QED
  BY <1>1, <1>2, <1>3, <1>4, SeqEqual

-----------------------------------------------------------------------------
(* The invariant. *)

\* The recorded size of a file is not more than it has.
BaseInFile == write \in {"partial", "ok"} => base.lines <= Len(disk[target])

\* A file whose appends were all undone or finished, with the memory behind
\* it: its last line is cut only while an append that can be undone is under
\* way, and what an append has added is the owned batch or a prefix of it.
FileState(s) ==
  /\ Account(Durable(s), pending[s], events[s], published[s], dropped[s])
  /\ torn[s] => write = "partial" /\ target = s
  /\ InFlight(s) => ~base.torn
  /\ write = "ok" /\ target = s => disk[s] = Durable(s) \o pending[s]
  /\ write = "partial" /\ target = s /\ ~torn[s] =>
       \E k \in 0..Len(pending[s]) : disk[s] = Durable(s) \o SubSeq(pending[s], 1, k)

FilesOK == \A s \in Session : ~scarred[s] => FileState(s)

\* Concatenation is associative.
LEMMA ConcatAssoc ==
  ASSUME NEW q \in Seq(Nat), NEW u \in Seq(Nat), NEW v \in Seq(Nat)
  PROVE  (q \o u) \o v = q \o (u \o v)
<1>1. /\ Len(q) \in Nat /\ Len(u) \in Nat /\ Len(v) \in Nat
      /\ q \o u \in Seq(Nat) /\ u \o v \in Seq(Nat)
      /\ Len(q \o u) = Len(q) + Len(u) /\ Len(u \o v) = Len(u) + Len(v)
  BY LenProperties, ConcatProperties
<1>2. /\ (q \o u) \o v \in Seq(Nat) /\ Len((q \o u) \o v) = Len(q) + Len(u) + Len(v)
      /\ \A i \in 1 .. Len(q) + Len(u) + Len(v) :
           ((q \o u) \o v)[i] = IF i <= Len(q) + Len(u) THEN (q \o u)[i]
                                ELSE v[i - (Len(q) + Len(u))]
  BY <1>1, ConcatProperties
<1>3. /\ q \o (u \o v) \in Seq(Nat) /\ Len(q \o (u \o v)) = Len(q) + Len(u) + Len(v)
      /\ \A i \in 1 .. Len(q) + Len(u) + Len(v) :
           (q \o (u \o v))[i] = IF i <= Len(q) THEN q[i] ELSE (u \o v)[i - Len(q)]
  BY <1>1, ConcatProperties
<1>4. /\ \A i \in 1 .. Len(q) + Len(u) :
           (q \o u)[i] = IF i <= Len(q) THEN q[i] ELSE u[i - Len(q)]
      /\ \A i \in 1 .. Len(u) + Len(v) :
           (u \o v)[i] = IF i <= Len(u) THEN u[i] ELSE v[i - Len(u)]
  BY ConcatProperties
<1>5. ASSUME NEW i \in 1 .. Len(q) + Len(u) + Len(v)
      PROVE  ((q \o u) \o v)[i] = (q \o (u \o v))[i]
  <2>1. CASE i <= Len(q)
    BY <1>1, <1>2, <1>3, <1>4, <2>1
  <2>2. CASE ~(i <= Len(q)) /\ i <= Len(q) + Len(u)
    BY <1>1, <1>2, <1>3, <1>4, <2>2
  <2>3. CASE ~(i <= Len(q) + Len(u))
    BY <1>1, <1>2, <1>3, <1>4, <2>3
  <2>4. QED
    BY <2>1, <2>2, <2>3
<1>6. QED
  BY <1>2, <1>3, <1>5, SeqEqual

\* Every append that the write task makes adds lines at the end.
LEMMA AppendedIsLonger ==
  ASSUME TypeOK, NEW s \in Session, NEW lines \in Seq(Nat)
  PROVE  \E r \in Seq(Nat) : Appended(s, lines) = disk[s] \o r
<1>1. CASE torn[s] /\ lines # <<>>
  <2>1. Tail(lines) \in Seq(Nat)
    BY <1>1, HeadTailProperties
  <2>2. Appended(s, lines) = disk[s] \o Tail(lines)
    BY <1>1 DEF Appended
  <2>3. QED
    BY <2>1, <2>2
<1>2. CASE ~(torn[s] /\ lines # <<>>)
  BY <1>2 DEF Appended
<1>3. QED
  BY <1>1, <1>2

\* The same of an append that is cut short, a part of a line included.
LEMMA PartIsLonger ==
  ASSUME TypeOK, NEW k \in 0..(Len(batch) - 1), NEW cut \in BOOLEAN, WritePartly(k, cut)
  PROVE  \E r \in Seq(Nat) : disk' = [disk EXCEPT ![target] = disk[target] \o r]
<1> DEFINE whole == Appended(target, SubSeq(batch, 1, k))
<1>1. target \in Session /\ batch \in Seq(Nat) /\ disk[target] \in Seq(Nat)
  BY DEF TypeOK
<1>2. SubSeq(batch, 1, k) \in Seq(Nat)
  BY <1>1, PrefixType, LenProperties
<1>3. PICK r \in Seq(Nat) : whole = disk[target] \o r
  BY <1>1, <1>2, AppendedIsLonger
<1>4. CASE cut /\ ~(torn[target] /\ k = 0)
  <2>1. disk' = [disk EXCEPT ![target] = Append(whole, Garbage)]
    BY <1>4 DEF WritePartly
  <2> DEFINE half == <<Garbage>>
  <2>2. Garbage \in Nat /\ half \in Seq(Nat)
    BY DEF Garbage
  <2>3. Append(whole, Garbage) = whole \o half
    BY <1>1, <1>3, <2>2, AppendIsConcat, ConcatProperties
  <2> HIDE DEF half, whole
  <2>4. Append(whole, Garbage) = disk[target] \o (r \o half)
    <3>1. (disk[target] \o r) \o half = disk[target] \o (r \o half)
      BY <1>1, <2>2, ConcatAssoc
    <3>2. QED
      BY <1>3, <2>3, <3>1
  <2>5. r \o half \in Seq(Nat)
    BY <2>2, ConcatProperties
  <2>6. QED
    BY <2>1, <2>4, <2>5
<1>5. CASE ~(cut /\ ~(torn[target] /\ k = 0))
  <2>1. disk' = [disk EXCEPT ![target] = whole]
    BY <1>5 DEF WritePartly
  <2>2. QED
    BY <1>3, <2>1
<1>6. QED
  BY <1>4, <1>5

\* Every step keeps the recorded size within the file.
LEMMA BaseInductive ==
  TypeOK /\ WriteTaskMatchesBatch /\ BaseInFile /\ [Next]_vars => BaseInFile'
<1> SUFFICES ASSUME TypeOK, WriteTaskMatchesBatch, BaseInFile, [Next]_vars
             PROVE  BaseInFile'
  OBVIOUS
<1>0. target \in Session /\ batch \in Seq(Nat) /\ disk[target] \in Seq(Nat) /\ disk \in [Session -> Seq(Nat)]
  BY DEF TypeOK
<1>1. CASE WriteOk
  <2>1. PICK r \in Seq(Nat) : Appended(target, batch) = disk[target] \o r
    BY <1>0, AppendedIsLonger
  <2>2. disk' = [disk EXCEPT ![target] = disk[target] \o r] /\ target' = target
        /\ base' = [lines |-> Len(disk[target]), torn |-> torn[target]]
    BY <1>1, <2>1 DEF WriteOk
  <2>3. disk'[target'] = disk[target] \o r
    BY <1>0, <2>2
  <2>4. QED
    BY <1>0, <2>2, <2>3, PrefixOfConcat DEF BaseInFile
<1>2. ASSUME NEW k \in 0..(Len(batch) - 1), NEW cut \in BOOLEAN, WritePartly(k, cut)
      PROVE  BaseInFile'
  <2>1. PICK r \in Seq(Nat) : disk' = [disk EXCEPT ![target] = disk[target] \o r]
    BY <1>2, PartIsLonger
  <2>2. target' = target /\ base' = [lines |-> Len(disk[target]), torn |-> torn[target]]
    BY <1>2 DEF WritePartly
  <2>3. disk'[target'] = disk[target] \o r
    BY <1>0, <2>1, <2>2
  <2>4. QED
    BY <1>0, <2>2, <2>3, PrefixOfConcat DEF BaseInFile
<1>3. CASE WriteRefused \/ Rollback \/ RollbackFails \/ Crash
  BY <1>3 DEF WriteRefused, Rollback, RollbackFails, Crash, BaseInFile
<1>4. ASSUME NEW f \in Flusher, NEW ids, NEW owned, Drain(f, ids, owned, "none")
      PROVE  write' \in {"none", "running"}
  BY <1>4 DEF Drain, AwaitWrite
<1>5. ASSUME NEW f \in Flusher, FlushStep(f)
      PROVE  BaseInFile'
  <2>2. ASSUME Acquire(f), NEW s \in Session, AwaitWrite(f, s, pending[s], write)
        PROVE  BaseInFile'
    BY <2>2 DEF Acquire, AwaitWrite, fileVars, BaseInFile
  <2>3. ASSUME Acquire(f), \A s \in Session : pending[s] = <<>>, Drain(f, SessionIds, pending, write)
        PROVE  BaseInFile'
    <3>1. write = "none"
      BY <1>0, <2>3 DEF WriteTaskMatchesBatch
    <3>2. QED
      BY <1>4, <2>3, <3>1 DEF BaseInFile
  <2>4. CASE Acknowledge(f)
    BY <1>4, <2>4 DEF Acknowledge, BaseInFile
  <2>5. CASE PropagateFailure(f)
    BY <2>5 DEF PropagateFailure, BaseInFile
  <2>6. QED
    BY <1>5, <2>2, <2>3, <2>4, <2>5 DEF FlushStep, Acquire
<1>6. ASSUME \/ \E s \in Session : PublishEvent(s)
             \/ \E f \in Flusher : LifeStep(f)
             \/ UNCHANGED vars
      PROVE  BaseInFile'
  <2>1. UNCHANGED <<write, target, base, disk>>
    BY <1>6, LifeFrame DEF PublishEvent, vars, managerVars, fileVars
  <2>2. QED
    BY <2>1 DEF BaseInFile
<1>7. QED
  BY <1>1, <1>2, <1>3, <1>5, <1>6 DEF Next, WriteStep

\* The acknowledged part of a file is a file.
LEMMA DurableType ==
  ASSUME TypeOK, BaseInFile, NEW s \in Session
  PROVE  Durable(s) \in Seq(Nat) /\ disk[s] \in Seq(Nat)
<1>1. disk[s] \in Seq(Nat) /\ base.lines \in Nat
  BY DEF TypeOK
<1>2. CASE InFlight(s)
  <2>1. base.lines <= Len(disk[s])
    BY <1>2 DEF InFlight, BaseInFile
  <2>2. QED
    BY <1>1, <1>2, <2>1, PrefixType DEF Durable
<1>3. CASE ~InFlight(s)
  BY <1>1, <1>3 DEF Durable
<1>4. QED
  BY <1>2, <1>3

\* A step that touches no file, no batch and no buffer keeps the invariant.
LEMMA FilesFrame ==
  ASSUME FilesOK,
         UNCHANGED <<events, published, dropped, pending, target, base, disk, torn, scarred>>,
         \/ write' = write
         \/ write \notin {"partial", "ok"} /\ write' \notin {"partial", "ok"}
  PROVE  FilesOK'
BY DEF FilesOK, FileState, InFlight, Durable

\* A flush that owns nothing drains the next session, or ends.
LEMMA DrainFiles ==
  ASSUME TypeOK, NEW f \in Flusher, NEW ids \in SUBSET Session,
         NEW owned \in [Session -> Seq(Nat)], \A s \in Session : owned[s] = <<>>,
         \A s \in Session : ~scarred[s] =>
           ~torn[s] /\ Account(disk[s], <<>>, events[s], published[s], dropped[s]),
         Drain(f, ids, owned, "none"), UNCHANGED fileVars
  PROVE  FilesOK'
<1>1. SUFFICES ASSUME NEW t \in Session, ~scarred'[t]
               PROVE  FileState(t)'
  BY DEF FilesOK
<1>2. /\ disk' = disk /\ torn' = torn /\ ~scarred[t] /\ ~torn[t]
      /\ Account(disk[t], <<>>, events[t], published[t], dropped[t])
      /\ disk[t] \in Seq(Nat) /\ events[t] \in Seq(Nat) /\ published[t] \in Nat
  BY <1>1 DEF fileVars, TypeOK, BufferTypeOK
<1>3. write' \in {"none", "running"}
  BY DEF Drain, AwaitWrite
<1>4. /\ ~InFlight(t)' /\ Durable(t)' = disk[t]
      /\ write' # "ok" /\ write' # "partial"
  BY <1>2, <1>3 DEF InFlight, Durable
<1>5. Account(disk[t], pending'[t], events'[t], published'[t], dropped'[t])
  <2>1. CASE pending' = owned /\ UNCHANGED bufferVars
    BY <1>2, <2>1 DEF bufferVars
  <2>2. ASSUME NEW s \in ids \cap SessionIds, PopEvents(s),
               pending' = [owned EXCEPT ![s] = events[s]]
        PROVE  Account(disk[t], pending'[t], events'[t], published'[t], dropped'[t])
    <3>1. UNCHANGED <<published, dropped>>
      BY <2>2 DEF PopEvents
    <3>2. CASE t = s
      <4>1. pending'[t] = events[t] /\ events'[t] = <<>>
        BY <2>2, <3>2 DEF PopEvents, TypeOK, BufferTypeOK
      <4>2. Account(disk[t], events[t], <<>>, published[t], dropped[t])
        BY <1>2, AccountDrain
      <4>3. QED
        BY <3>1, <4>1, <4>2
    <3>3. CASE t # s
      <4>1. pending'[t] = <<>> /\ events'[t] = events[t]
        BY <2>2, <3>3 DEF PopEvents, TypeOK, BufferTypeOK
      <4>2. QED
        BY <1>2, <3>1, <4>1
    <3>4. QED
      BY <3>2, <3>3
  <2>3. QED
    BY <2>1, <2>2 DEF Drain
<1>6. QED
  BY <1>2, <1>4, <1>5 DEF FileState

\* publish trims no more than there is.
LEMMA ExcessInRange ==
  ASSUME BufferTypeOK, NEW s \in Session
  PROVE  Excess(s) \in 0..Len(events[s])
<1>1. Len(events[s]) \in Nat /\ MaxEventsPerSession \in Nat \ {0}
      /\ Len(events[s]) <= MaxEventsPerSession
  BY EventBoundAssumption, LenProperties DEF BufferTypeOK
<1>2. CASE Len(events[s]) >= MaxEventsPerSession
  <2>1. Excess(s) = Len(events[s]) - MaxEventsPerSession + 1
    BY <1>2 DEF Excess
  <2>2. QED
    BY <1>1, <1>2, <2>1
<1>3. CASE ~(Len(events[s]) >= MaxEventsPerSession)
  <2>1. Excess(s) = 0
    BY <1>3 DEF Excess
  <2>2. QED
    BY <1>1, <2>1
<1>4. QED
  BY <1>2, <1>3

\* publish keeps the accounts, those of the evicted sessions included.
LEMMA PublishFiles ==
  ASSUME TypeOK, BaseInFile, FilesOK, NEW s \in Session, PublishEvent(s)
  PROVE  FilesOK'
<1>1. UNCHANGED <<pending, write, target, base, disk, torn, scarred>>
  BY DEF PublishEvent, managerVars, fileVars
<1>2. SUFFICES ASSUME NEW t \in Session, ~scarred[t]
               PROVE  FileState(t)'
  BY <1>1 DEF FilesOK
<1>3. /\ Account(Durable(t), pending[t], events[t], published[t], dropped[t])
      /\ FileState(t)
  BY <1>2 DEF FilesOK, FileState
<1>4. /\ Durable(t) \in Seq(Nat) /\ pending[t] \in Seq(Nat) /\ events[t] \in Seq(Nat)
      /\ published[t] \in Nat
  BY <1>2, DurableType DEF TypeOK, BufferTypeOK
<1>5. Publish(s)
  BY DEF PublishEvent
<1>6. Account(Durable(t), pending[t], events'[t], published'[t], dropped'[t])
  <2>1. CASE t = s
    <3>1. Excess(s) \in 0..Len(events[s])
      BY ExcessInRange DEF TypeOK
    <3>2. /\ events'[t] = Append(SubSeq(events[t], Excess(t) + 1, Len(events[t])), published[t] + 1)
          /\ published'[t] = published[t] + 1
          /\ dropped'[t] = dropped[t] \cup {events[t][i] : i \in 1..Excess(t)}
      BY <1>5, <2>1 DEF Publish, TypeOK, BufferTypeOK
    <3>3. PICK k \in 0..Len(events[t]) : k = Excess(t)
      BY <2>1, <3>1
    <3>4. Account(Durable(t), pending[t],
                  Append(SubSeq(events[t], k + 1, Len(events[t])), published[t] + 1),
                  published[t] + 1, dropped[t] \cup {events[t][i] : i \in 1..k})
      BY <1>3, <1>4, AccountPublish
    <3>5. QED
      BY <3>2, <3>3, <3>4
  <2>2. CASE t # s /\ t \in Evicted(s)
    <3>1. /\ events'[t] = <<>> /\ published'[t] = published[t]
          /\ dropped'[t] = dropped[t] \cup Elems(events[t])
      BY <1>5, <2>2 DEF Publish, TypeOK, BufferTypeOK
    <3>2. Account(Durable(t), pending[t], <<>>, published[t], dropped[t] \cup Elems(events[t]))
      BY <1>3, <1>4, AccountEvict
    <3>3. QED
      BY <3>1, <3>2
  <2>3. CASE t # s /\ t \notin Evicted(s)
    <3>1. events'[t] = events[t] /\ published'[t] = published[t] /\ dropped'[t] = dropped[t]
      BY <1>5, <2>3 DEF Publish, TypeOK, BufferTypeOK
    <3>2. QED
      BY <1>3, <3>1
  <2>4. QED
    BY <2>1, <2>2, <2>3
<1>7. Durable(t)' = Durable(t) /\ (InFlight(t)' <=> InFlight(t))
  BY <1>1 DEF Durable, InFlight
<1>8. QED
  BY <1>1, <1>3, <1>6, <1>7 DEF FileState

\* A finished or partial append leaves what was acknowledged in its place.
LEMMA WriteFiles ==
  ASSUME TypeOK, WriteTaskMatchesBatch, BaseInFile, FilesOK, WriteStep
  PROVE  FilesOK'
<1>1. UNCHANGED <<events, published, dropped, pending, target>>
  BY DEF WriteStep, WriteOk, WriteRefused, WritePartly, Rollback, RollbackFails, bufferVars
<1>2. SUFFICES ASSUME NEW t \in Session, ~scarred'[t]
               PROVE  FileState(t)'
  BY DEF FilesOK
<1>3. ~scarred[t]
  <2>1. CASE scarred' = scarred
    BY <1>2, <2>1
  <2>2. CASE scarred' = [scarred EXCEPT ![target] = TRUE]
    BY <1>2, <2>2 DEF TypeOK
  <2>3. QED
    BY <2>1, <2>2 DEF WriteStep, WriteOk, WriteRefused, WritePartly, Rollback,
                      RollbackFails, fileVars
<1>4. FileState(t)
  BY <1>2, <1>3 DEF FilesOK
<1>5. /\ target \in Session /\ base.lines \in Nat /\ base.torn \in BOOLEAN
      /\ disk \in [Session -> Seq(Nat)] /\ torn \in [Session -> BOOLEAN]
      /\ disk[t] \in Seq(Nat) /\ pending[t] \in Seq(Nat) /\ batch \in Seq(Nat)
  BY <1>2 DEF TypeOK
<1>6. CASE t # target
  <2>1. /\ disk'[t] = disk[t] /\ torn'[t] = torn[t]
        /\ ~InFlight(t) /\ ~InFlight(t)' /\ t # target'
    <3>1. ~InFlight(t) /\ ~InFlight(t)' /\ t # target'
      BY <1>1, <1>6 DEF InFlight
    <3>2. \/ UNCHANGED <<disk, torn>>
          \/ \E q, b : /\ disk' = [disk EXCEPT ![target] = q]
                       /\ torn' = [torn EXCEPT ![target] = b]
      BY DEF WriteStep, WriteOk, WriteRefused, WritePartly, Rollback, RollbackFails, fileVars
    <3>3. QED
      BY <1>5, <1>6, <3>1, <3>2
  <2>2. Durable(t)' = Durable(t)
    BY <2>1 DEF Durable
  <2>3. QED
    BY <1>1, <1>4, <1>6, <2>1, <2>2 DEF FileState
<1>7. CASE t = target
  <2>1. write = "running" => ~torn[t] /\ Durable(t) = disk[t] /\ batch = pending[t]
    BY <1>4, <1>7 DEF FileState, Durable, InFlight, WriteTaskMatchesBatch
  <2>2. CASE WriteOk
    <3>1. /\ disk'[t] = disk[t] \o pending[t] /\ torn'[t] = FALSE /\ write' = "ok"
          /\ base' = [lines |-> Len(disk[t]), torn |-> FALSE]
      BY <1>5, <1>7, <2>1, <2>2 DEF WriteOk, Appended
    <3>2. InFlight(t)' /\ ~base'.torn
      BY <1>1, <1>7, <3>1 DEF InFlight
    <3>3. Durable(t)' = disk[t]
      <4>1. Durable(t)' = SubSeq(disk[t] \o pending[t], 1, Len(disk[t]))
        BY <3>1, <3>2 DEF Durable
      <4>2. QED
        BY <1>5, <4>1, PrefixOfConcat
    <3>4. QED
      BY <1>1, <1>4, <2>1, <2>2, <3>1, <3>2, <3>3 DEF FileState, WriteOk
  <2>3. ASSUME NEW k \in 0..(Len(batch) - 1), NEW cut \in BOOLEAN, WritePartly(k, cut)
        PROVE  FileState(t)'
    <3>1. /\ write' = "partial" /\ write = "running"
          /\ base' = [lines |-> Len(disk[t]), torn |-> FALSE]
      BY <1>5, <1>7, <2>1, <2>3 DEF WritePartly
    <3>2. InFlight(t)' /\ ~base'.torn
      BY <1>1, <1>7, <3>1 DEF InFlight
    <3>3. Durable(t)' = disk[t]
      <4>1. PICK r \in Seq(Nat) : disk' = [disk EXCEPT ![target] = disk[target] \o r]
        BY <2>3, PartIsLonger
      <4>2. disk'[t] = disk[t] \o r
        BY <1>5, <1>7, <4>1
      <4>3. Durable(t)' = SubSeq(disk[t] \o r, 1, Len(disk[t]))
        BY <3>1, <3>2, <4>2 DEF Durable
      <4>4. QED
        BY <1>5, <4>3, PrefixOfConcat
    <3>4. torn'[t] = cut
      BY <1>5, <1>7, <2>1, <2>3, <3>1 DEF WritePartly
    <3>5. ASSUME ~cut
          PROVE  disk'[t] = disk[t] \o SubSeq(pending[t], 1, k)
      BY <1>5, <1>7, <2>1, <2>3, <3>1, <3>5 DEF WritePartly, Appended
    <3>6. k \in 0..Len(pending[t])
      <4>1. Len(batch) \in Nat
        BY <1>5
      <4>2. QED
        BY <2>1, <3>1, <4>1
    <3>7. \A q : q = pending[t] => q = pending'[t]
      BY <1>1
    <3>8. ~torn'[t] => \E j \in 0..Len(pending'[t]) : disk'[t] = Durable(t)' \o SubSeq(pending'[t], 1, j)
      BY <1>1, <3>3, <3>4, <3>5, <3>6
    <3>9. Account(Durable(t)', pending'[t], events'[t], published'[t], dropped'[t])
      BY <1>1, <1>4, <2>1, <3>1, <3>3 DEF FileState
    <3>10. QED
      BY <1>1, <1>7, <3>1, <3>2, <3>8, <3>9 DEF FileState
  <2>4. CASE Rollback
    <3>1. /\ write = "partial" /\ write' = "failed" /\ InFlight(t) /\ ~base.torn
      BY <1>4, <1>7, <2>4 DEF Rollback, InFlight, FileState
    <3>2. disk'[t] = Durable(t) /\ ~torn'[t]
      BY <1>5, <1>7, <2>4, <3>1 DEF Rollback, Durable
    <3>3. ~InFlight(t)' /\ Durable(t)' = Durable(t)
      BY <3>1, <3>2 DEF InFlight, Durable
    <3>4. QED
      BY <1>1, <1>4, <3>1, <3>2, <3>3 DEF FileState
  <2>5. CASE WriteRefused
    <3>1. /\ write = "running" /\ write' = "failed" /\ disk' = disk /\ torn' = torn
      BY <2>5 DEF WriteRefused, fileVars
    <3>2. ~InFlight(t)' /\ Durable(t)' = Durable(t)
      BY <2>1, <3>1 DEF InFlight, Durable
    <3>3. QED
      BY <1>1, <1>4, <2>1, <3>1, <3>2 DEF FileState
  <2>6. CASE RollbackFails
    BY <1>2, <1>7, <2>6 DEF RollbackFails, TypeOK
  <2>7. QED
    BY <2>2, <2>3, <2>4, <2>5, <2>6 DEF WriteStep
<1>8. QED
  BY <1>6, <1>7

\* What a crash leaves of an append is the owned batch, a prefix of it, or a
\* cut line and a file that is not vouched for.
LEMMA CrashFiles ==
  ASSUME TypeOK, WriteTaskMatchesBatch, BaseInFile, FilesOK, Crash
  PROVE  FilesOK'
<1>1. SUFFICES ASSUME NEW t \in Session, ~scarred'[t]
               PROVE  FileState(t)'
  BY DEF FilesOK
<1>2. /\ ~scarred[t]
      /\ ~(write = "partial" /\ t = target /\ torn[t])
  BY <1>1 DEF Crash, TypeOK
<1>3. FileState(t) /\ ~torn[t]
  BY <1>1, <1>2 DEF FilesOK, FileState
<1>4. /\ Durable(t) \in Seq(Nat) /\ pending[t] \in Seq(Nat) /\ events[t] \in Seq(Nat)
      /\ published[t] \in Nat /\ Len(pending[t]) \in Nat
  BY <1>1, DurableType, LenProperties DEF TypeOK, BufferTypeOK
<1>5. \E k \in 0..Len(pending[t]) : disk[t] = Durable(t) \o SubSeq(pending[t], 1, k)
  <2>1. CASE write = "ok" /\ t = target
    <3>1. disk[t] = Durable(t) \o pending[t]
      BY <1>3, <2>1 DEF FileState
    <3>2. SubSeq(pending[t], 1, Len(pending[t])) = pending[t]
      BY <1>4, SubSeqFull
    <3>3. Len(pending[t]) \in 0..Len(pending[t])
      BY <1>4
    <3>4. disk[t] = Durable(t) \o SubSeq(pending[t], 1, Len(pending[t]))
      BY <3>1, <3>2
    <3>5. QED
      BY <3>3, <3>4
  <2>2. CASE write = "partial" /\ t = target
    BY <1>3, <2>2 DEF FileState
  <2>3. CASE ~(write \in {"ok", "partial"} /\ t = target)
    <3>1. Durable(t) = disk[t]
      BY <2>3 DEF Durable, InFlight
    <3>2. SubSeq(pending[t], 1, 0) = <<>>
      BY <1>4, SubSeqEmpty
    <3>3. Durable(t) \o <<>> = Durable(t)
      BY <1>4, ConcatEmptySeq
    <3>4. disk[t] = Durable(t) \o SubSeq(pending[t], 1, 0) /\ 0 \in 0..Len(pending[t])
      BY <1>4, <3>1, <3>2, <3>3
    <3>5. QED
      BY <3>4
  <2>4. QED
    BY <2>1, <2>2, <2>3
<1>6. PICK k \in 0..Len(pending[t]) : disk[t] = Durable(t) \o SubSeq(pending[t], 1, k)
  BY <1>5
<1>7. Account(disk[t], <<>>, <<>>, published[t],
              dropped[t] \cup ((Elems(events[t]) \cup Elems(pending[t])) \ Elems(disk[t])))
  <2>1. Account(Durable(t), pending[t], events[t], published[t], dropped[t])
    BY <1>3 DEF FileState
  <2> DEFINE file == Durable(t) \o SubSeq(pending[t], 1, k)
  <2>2. Account(file, <<>>, <<>>, published[t],
                dropped[t] \cup ((Elems(events[t]) \cup Elems(pending[t])) \ Elems(file)))
    BY <1>4, <2>1, AccountCrash
  <2>3. QED
    BY <1>6, <2>2
<1>8. /\ disk' = disk /\ torn' = torn /\ write' = "none"
      /\ pending'[t] = <<>> /\ events'[t] = <<>> /\ published'[t] = published[t]
      /\ dropped'[t] = dropped[t] \cup ((Elems(events[t]) \cup Elems(pending[t])) \ Elems(disk[t]))
  BY <1>1 DEF Crash
<1>9. ~InFlight(t)' /\ Durable(t)' = disk[t]
  BY <1>8 DEF InFlight, Durable
<1>10. QED
  BY <1>3, <1>7, <1>8, <1>9 DEF FileState

\* A step of a flush moves a session's events on, or nothing.
LEMMA FlushFiles ==
  ASSUME TypeOK, WriteTaskMatchesBatch, BaseInFile, FilesOK, NEW f \in Flusher, FlushStep(f)
  PROVE  FilesOK'
<1>1. \A s \in Session : ~scarred[s] => FileState(s)
  BY DEF FilesOK
<1>2. SessionIds \in SUBSET Session /\ pending \in [Session -> Seq(Nat)]
      /\ target \in Session /\ current \in Session
  BY DEF SessionIds, TypeOK
<1>4. CASE PropagateFailure(f)
  BY <1>4, FilesFrame DEF PropagateFailure, bufferVars, fileVars
<1>5. ASSUME Acquire(f), NEW s \in Session, pending[s] # <<>>,
             AwaitWrite(f, s, pending[s], write), UNCHANGED <<bufferVars, pending>>
      PROVE  FilesOK'
  <2>1. UNCHANGED <<base, disk, torn, scarred>>
    BY <1>5 DEF Acquire, fileVars
  <2>2. CASE write # "none"
    <3>1. write' = write /\ target' = target
      BY <1>5, <2>2 DEF AwaitWrite
    <3>2. QED
      BY <1>5, <2>1, <3>1, FilesFrame DEF bufferVars
  <2>3. CASE write = "none"
    <3>1. write' = "running"
      BY <1>5, <2>3 DEF AwaitWrite
    <3>2. SUFFICES ASSUME NEW t \in Session, ~scarred[t]
                   PROVE  FileState(t)'
      BY <2>1 DEF FilesOK
    <3>3. /\ ~InFlight(t) /\ ~InFlight(t)'
          /\ Durable(t)' = Durable(t)
      BY <2>1, <2>3, <3>1 DEF InFlight, Durable
    <3>4. FileState(t)
      BY <1>1, <3>2
    <3>5. QED
      BY <1>5, <2>1, <2>3, <3>1, <3>3, <3>4 DEF FileState, bufferVars
  <2>4. QED
    BY <2>2, <2>3
<1>6. ASSUME Acquire(f), \A s \in Session : pending[s] = <<>>,
             Drain(f, SessionIds, pending, write)
      PROVE  FilesOK'
  <2>1. write = "none"
    BY <1>2, <1>6 DEF WriteTaskMatchesBatch
  <2>2. ASSUME NEW s \in Session, ~scarred[s]
        PROVE  ~torn[s] /\ Account(disk[s], <<>>, events[s], published[s], dropped[s])
    <3>1. FileState(s) /\ Durable(s) = disk[s]
      BY <1>1, <2>1, <2>2 DEF InFlight, Durable
    <3>2. QED
      BY <1>6, <2>1, <3>1 DEF FileState
  <2>3. Drain(f, SessionIds, pending, "none") /\ UNCHANGED fileVars
    BY <1>6, <2>1 DEF Acquire
  <2>4. QED
    BY <1>2, <1>6, <2>2, <2>3, DrainFiles
<1>7. CASE Acknowledge(f)
  <2> DEFINE ids == IF listed THEN snapshot ELSE SessionIds
             owned == [pending EXCEPT ![current] = <<>>]
  <2>1. holder # NoOne /\ write = "ok"
    BY <1>7, FlusherAssumption DEF Acknowledge
  <2>2. target = current /\ pending[current] # <<>>
    BY <2>1 DEF WriteTaskMatchesBatch
  <2>3. \A s \in Session : s # current => pending[s] = <<>>
    BY <1>2, <2>2 DEF WriteTaskMatchesBatch
  <2>4. owned \in [Session -> Seq(Nat)] /\ \A s \in Session : owned[s] = <<>>
    BY <1>2, <2>3, EmptySeq
  <2>5. ids \in SUBSET Session
    BY <1>2 DEF TypeOK
  <2>6. Drain(f, ids, owned, "none") /\ UNCHANGED fileVars
    BY <1>7 DEF Acknowledge
  <2>7. ASSUME NEW s \in Session, ~scarred[s]
        PROVE  ~torn[s] /\ Account(disk[s], <<>>, events[s], published[s], dropped[s])
    <3>1. FileState(s) /\ ~torn[s]
      BY <1>1, <2>1, <2>7 DEF FileState
    <3>2. CASE s = current
      <4>1. disk[s] = Durable(s) \o pending[s]
        BY <2>1, <2>2, <3>1, <3>2 DEF FileState
      <4>2. /\ Durable(s) \in Seq(Nat) /\ pending[s] \in Seq(Nat) /\ events[s] \in Seq(Nat)
            /\ published[s] \in Nat
        BY <2>7, DurableType DEF TypeOK, BufferTypeOK
      <4>3. Account(Durable(s) \o pending[s], <<>>, events[s], published[s], dropped[s])
        BY <3>1, <4>2, AccountCommit DEF FileState
      <4>4. QED
        BY <3>1, <4>1, <4>3
    <3>3. CASE s # current
      <4>1. Durable(s) = disk[s] /\ pending[s] = <<>>
        BY <2>2, <2>3, <2>7, <3>3 DEF Durable, InFlight
      <4>2. QED
        BY <3>1, <4>1 DEF FileState
    <3>4. QED
      BY <3>2, <3>3
  <2> HIDE DEF ids, owned
  <2>8. QED
    BY <2>4, <2>5, <2>6, <2>7, DrainFiles
<1>8. QED
  BY <1>4, <1>5, <1>6, <1>7 DEF FlushStep, Acquire

-----------------------------------------------------------------------------
(* The theorems. *)

IInv == TypeOK /\ WriteTaskMatchesBatch /\ BaseInFile /\ FilesOK

\* Every step keeps the files and the memory behind them in order.
LEMMA IInvInductive == IInv /\ [Next]_vars => IInv'
<1> SUFFICES ASSUME IInv, [Next]_vars
             PROVE  IInv'
  OBVIOUS
<1>1. TypeOK' /\ WriteTaskMatchesBatch' /\ BaseInFile'
  BY TypeInductive, MatchesInductive, BaseInductive DEF IInv
<1>2. ASSUME NEW s \in Session, PublishEvent(s)
      PROVE  FilesOK'
  BY <1>2, PublishFiles DEF IInv
<1>3. ASSUME \/ \E f \in Flusher : LifeStep(f)
             \/ UNCHANGED vars
      PROVE  FilesOK'
  <2>1. UNCHANGED <<events, published, dropped, pending, write, target, base, disk, torn, scarred>>
    BY <1>3, LifeFrame DEF vars, bufferVars, managerVars, fileVars
  <2>2. QED
    BY <2>1, FilesFrame DEF IInv
<1>4. ASSUME NEW f \in Flusher, FlushStep(f)
      PROVE  FilesOK'
  BY <1>4, FlushFiles DEF IInv
<1>5. CASE WriteStep
  BY <1>1, <1>5, WriteFiles DEF IInv
<1>6. CASE Crash
  BY <1>1, <1>6, CrashFiles DEF IInv
<1>7. QED
  BY <1>1, <1>2, <1>3, <1>4, <1>5, <1>6 DEF IInv, Next

\* New files and an empty buffer are in order.
LEMMA IInvInit == Init => IInv
<1> SUFFICES ASSUME Init
             PROVE  IInv
  OBVIOUS
<1>1. TypeOK /\ WriteTaskMatchesBatch /\ BaseInFile
  BY TypeInit DEF Init, WriteTaskMatchesBatch, BaseInFile
<1>2. ASSUME NEW s \in Session
      PROVE  FileState(s)
  <2>1. /\ ~InFlight(s) /\ ~torn[s] /\ write = "none"
        /\ Durable(s) = <<>> /\ pending[s] = <<>> /\ events[s] = <<>>
        /\ published[s] = 0 /\ dropped[s] = {}
    BY DEF Init, BufferInit, InFlight, Durable
  <2>2. Account(<<>>, <<>>, <<>>, 0, {})
    <3>1. 1..0 = {}
      OBVIOUS
    <3>2. Precedes(<<>>, <<>>) /\ AtMost(<<>>, 0)
      BY DEF Precedes, AtMost
    <3>3. QED
      BY <3>1, <3>2, EmptyInOrder DEF Account, InOrder
  <2>3. QED
    BY <2>1, <2>2 DEF FileState
<1>3. QED
  BY <1>1, <1>2 DEF IInv, FilesOK

LEMMA IInvAlways == Spec => []IInv
BY IInvInit, IInvInductive, PTL DEF Spec

\* A file whose appends were all undone or finished holds each event once, in
\* publication order and ahead of everything in memory (persistence.py:
\* _write_sync and its retries), whatever fails, is cancelled or crashes.
THEOREM EachEventOnceInOrder == Spec => []ExactlyOnceInOrder
<1>1. ASSUME IInv
      PROVE  ExactlyOnceInOrder
  <2>1. SUFFICES ASSUME NEW s \in Session, ~scarred[s]
                 PROVE  /\ Increasing(Durable(s) \o pending[s] \o events[s])
                        /\ write = "ok" /\ target = s => disk[s] = Durable(s) \o pending[s]
    BY DEF ExactlyOnceInOrder
  <2>2. FileState(s)
    BY <1>1, <2>1 DEF IInv, FilesOK
  <2>3. /\ Durable(s) \in Seq(Nat) /\ pending[s] \in Seq(Nat) /\ events[s] \in Seq(Nat)
        /\ published[s] \in Nat
    BY <1>1, <2>1, DurableType DEF IInv, TypeOK, BufferTypeOK
  <2>4. InOrder(Durable(s), pending[s], events[s], published[s])
    BY <2>2 DEF FileState, Account
  <2>5. QED
    BY <2>2, <2>3, <2>4, AccountIncreasing DEF FileState
<1>2. QED
  BY <1>1, IInvAlways, PTL

\* Every published event is in the file, owned, buffered, or given up by the
\* bounds or a crash (persistence.py: _pending_events keeps what a flush took).
THEOREM NoEventLost == Spec => []NothingLost
<1>1. IInv => NothingLost
  BY DEF IInv, FilesOK, FileState, Account, NothingLost
<1>2. QED
  BY <1>1, IInvAlways, PTL

\* The acknowledged lines are the first of the file.
LEMMA DurableIsPrefix ==
  ASSUME TypeOK, BaseInFile, NEW s \in Session
  PROVE  /\ Len(Durable(s)) <= Len(disk[s])
         /\ SubSeq(disk[s], 1, Len(Durable(s))) = Durable(s)
<1>1. disk[s] \in Seq(Nat) /\ base.lines \in Nat /\ Len(disk[s]) \in Nat
  BY DEF TypeOK
<1>2. CASE InFlight(s)
  <2>1. base.lines <= Len(disk[s])
    BY <1>2 DEF InFlight, BaseInFile
  <2>2. Durable(s) = SubSeq(disk[s], 1, base.lines)
    BY <1>2 DEF Durable
  <2>3. Len(Durable(s)) = base.lines
    BY <1>1, <2>1, <2>2, PrefixType
  <2>4. QED
    BY <2>1, <2>2, <2>3
<1>3. CASE ~InFlight(s)
  BY <1>1, <1>3, SubSeqFull DEF Durable
<1>4. QED
  BY <1>2, <1>3

\* A step leaves the acknowledged lines as they are, or acknowledges the file.
LEMMA DurableStep ==
  ASSUME TypeOK, WriteTaskMatchesBatch, BaseInFile, [Next]_vars, NEW s \in Session
  PROVE  Durable(s)' = Durable(s) \/ Durable(s)' = disk[s]
<1>0. /\ target \in Session /\ batch \in Seq(Nat) /\ disk \in [Session -> Seq(Nat)]
      /\ disk[s] \in Seq(Nat) /\ disk[target] \in Seq(Nat)
  BY DEF TypeOK
<1>1. ASSUME UNCHANGED disk, write' \notin {"partial", "ok"}
      PROVE  Durable(s)' = disk[s]
  BY <1>1 DEF Durable, InFlight
<1>2. ASSUME UNCHANGED <<write, target, base, disk>>
      PROVE  Durable(s)' = Durable(s)
  BY <1>2 DEF Durable, InFlight
<1>3. ASSUME NEW r \in Seq(Nat), write = "running", write' \in {"partial", "ok"}, target' = target,
             disk' = [disk EXCEPT ![target] = disk[target] \o r],
             base' = [lines |-> Len(disk[target]), torn |-> torn[target]]
      PROVE  Durable(s)' = disk[s]
  <2>1. CASE s = target
    <3>1. Durable(s)' = SubSeq(disk'[s], 1, Len(disk[s]))
      BY <1>3, <2>1 DEF Durable, InFlight
    <3>2. disk'[s] = disk[s] \o r
      BY <1>0, <1>3, <2>1
    <3>3. QED
      BY <1>0, <3>1, <3>2, PrefixOfConcat
  <2>2. CASE s # target
    BY <1>0, <1>3, <2>2 DEF Durable, InFlight
  <2>3. QED
    BY <2>1, <2>2
<1>4. CASE WriteOk
  <2>1. PICK r \in Seq(Nat) : Appended(target, batch) = disk[target] \o r
    BY <1>0, AppendedIsLonger
  <2>2. QED
    BY <1>3, <1>4, <2>1 DEF WriteOk
<1>5. ASSUME NEW k \in 0..(Len(batch) - 1), NEW cut \in BOOLEAN, WritePartly(k, cut)
      PROVE  Durable(s)' = disk[s]
  <2>1. PICK r \in Seq(Nat) : disk' = [disk EXCEPT ![target] = disk[target] \o r]
    BY <1>5, PartIsLonger
  <2>2. QED
    BY <1>3, <1>5, <2>1 DEF WritePartly
<1>6. CASE Rollback
  <2>1. CASE s = target
    BY <1>0, <1>6, <2>1 DEF Rollback, Durable, InFlight
  <2>2. CASE s # target
    BY <1>0, <1>6, <2>2 DEF Rollback, Durable, InFlight
  <2>3. QED
    BY <2>1, <2>2
<1>7. CASE WriteRefused \/ RollbackFails \/ Crash
  BY <1>1, <1>7 DEF WriteRefused, RollbackFails, Crash, fileVars
<1>8. ASSUME NEW f \in Flusher, NEW ids, NEW owned, Drain(f, ids, owned, "none")
      PROVE  write' \notin {"partial", "ok"}
  BY <1>8 DEF Drain, AwaitWrite
<1>9. ASSUME NEW f \in Flusher, FlushStep(f)
      PROVE  Durable(s)' = Durable(s) \/ Durable(s)' = disk[s]
  <2>2. CASE PropagateFailure(f)
    BY <1>1, <2>2 DEF PropagateFailure, fileVars
  <2>3. ASSUME Acquire(f), NEW t \in Session, AwaitWrite(f, t, pending[t], write)
        PROVE  Durable(s)' = Durable(s) \/ Durable(s)' = disk[s]
    <3>1. UNCHANGED <<base, disk>>
      BY <2>3 DEF Acquire, fileVars
    <3>2. \/ write' = "running"
          \/ write' = write /\ target' = target
      BY <2>3 DEF AwaitWrite
    <3>3. QED
      BY <1>1, <1>2, <3>1, <3>2
  <2>4. ASSUME Acquire(f), \A t \in Session : pending[t] = <<>>, Drain(f, SessionIds, pending, write)
        PROVE  Durable(s)' = disk[s]
    <3>1. write = "none"
      BY <1>0, <2>4 DEF WriteTaskMatchesBatch
    <3>2. QED
      BY <1>1, <1>8, <2>4, <3>1 DEF Acquire, fileVars
  <2>5. CASE Acknowledge(f)
    BY <1>1, <1>8, <2>5 DEF Acknowledge, fileVars
  <2>6. QED
    BY <1>9, <2>2, <2>3, <2>4, <2>5 DEF FlushStep, Acquire
<1>10. ASSUME \/ \E t \in Session : PublishEvent(t)
              \/ \E f \in Flusher : LifeStep(f)
              \/ UNCHANGED vars
       PROVE  Durable(s)' = Durable(s)
  BY <1>2, <1>10, LifeFrame DEF PublishEvent, vars, managerVars, fileVars
<1>11. QED
  BY <1>4, <1>5, <1>6, <1>7, <1>9, <1>10 DEF Next, WriteStep

\* No step, a rollback, a retry and a crash included, takes back or changes a
\* line whose write a flush has seen succeed (persistence.py: _write_sync
\* truncates to original_size, which is never below it).
THEOREM AcknowledgedStays == Spec => DurableGrows
<1>1. ASSUME IInv, [Next]_vars
      PROVE  [\A s \in Session :
                /\ Len(Durable(s)) <= Len(Durable(s)')
                /\ SubSeq(Durable(s)', 1, Len(Durable(s))) = Durable(s)]_vars
  <2>1. SUFFICES ASSUME NEW s \in Session
                 PROVE  /\ Len(Durable(s)) <= Len(Durable(s)')
                        /\ SubSeq(Durable(s)', 1, Len(Durable(s))) = Durable(s)
    OBVIOUS
  <2>2. CASE Durable(s)' = Durable(s)
    <3>1. Durable(s) \in Seq(Nat)
      BY <1>1, DurableType DEF IInv
    <3>2. Len(Durable(s)) \in Nat /\ SubSeq(Durable(s), 1, Len(Durable(s))) = Durable(s)
      BY <3>1, SubSeqFull, LenProperties
    <3>3. QED
      BY <2>2, <3>2
  <2>3. CASE Durable(s)' = disk[s]
    <3>1. /\ Len(Durable(s)) <= Len(disk[s])
          /\ SubSeq(disk[s], 1, Len(Durable(s))) = Durable(s)
      BY <1>1, DurableIsPrefix DEF IInv
    <3>2. QED
      BY <2>3, <3>1
  <2>4. QED
    BY <1>1, <2>2, <2>3, DurableStep DEF IInv
<1>2. QED
  BY <1>1, IInvAlways, PTL DEF Spec, DurableGrows

=============================================================================
