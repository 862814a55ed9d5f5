--------------------------- MODULE DurableLogProofs ---------------------------
(***************************************************************************)
(* Persistence implements DurableLog: the file of every session is the     *)
(* append-only log that its readers rely on, for every set of sessions and *)
(* callers and every bound.                                                *)
(***************************************************************************)
EXTENDS PersistenceProofs

\* Nothing that a log or its queue is made of has changed.
LEMMA LogStutters ==
  ASSUME NEW s \in Session, published'[s] = published[s], scarred'[s] = scarred[s],
         LogOf(s)' = LogOf(s), QueueOf(s)' = QueueOf(s)
  PROVE  [SessionLog(s)!LogNext]_(SessionLog(s)!dvars)
BY DEF SessionLog!dvars

\* A file that is not vouched for promises nothing more.
LEMMA LogCorrupt ==
  ASSUME NEW s \in Session, scarred[s], scarred'[s]
  PROVE  SessionLog(s)!LogNext
BY DEF SessionLog!LogNext

LEMMA LogCorrupts ==
  ASSUME NEW s \in Session, ~scarred[s], scarred'[s] = TRUE, published'[s] = published[s]
  PROVE  SessionLog(s)!LogNext
BY DEF SessionLog!LogNext, SessionLog!Corrupt

\* Memory gives up what is not in the file: a step of GiveUp.
LEMMA LogGivesUp ==
  ASSUME NEW s \in Session, ~scarred[s], scarred'[s] = scarred[s], published'[s] = published[s],
         NEW n \in 0..Len(QueueOf(s)),
         LogOf(s)' = LogOf(s) \o SubSeq(QueueOf(s), 1, n),
         Increasing(QueueOf(s)'),
         Elems(QueueOf(s)') \subseteq Elems(SubSeq(QueueOf(s), n + 1, Len(QueueOf(s))))
  PROVE  SessionLog(s)!LogNext
BY DEF SessionLog!LogNext, SessionLog!GiveUp, SessionLog!PartOf, SessionLog!Ascending,
       SessionLog!Members, Increasing, Elems

\* The members of a sequence with one more.
LEMMA ElemsAppend ==
  ASSUME NEW q \in Seq(Nat), NEW x \in Nat
  PROVE  Append(q, x) \in Seq(Nat) /\ Elems(Append(q, x)) = Elems(q) \cup {x}
<1> DEFINE last == <<x>>
<1>1. last \in Seq(Nat) /\ Elems(last) = {x} /\ Append(q, x) = q \o last
  BY AppendIsConcat DEF Elems
<1> HIDE DEF last
<1>2. QED
  BY <1>1, ElemsConcat, ConcatProperties

\* A log and its queue are sequences.
LEMMA LogType ==
  ASSUME TypeOK, BaseInFile, NEW s \in Session
  PROVE  /\ LogOf(s) \in Seq(Nat) /\ QueueOf(s) \in Seq(Nat)
         /\ pending[s] \in Seq(Nat) /\ events[s] \in Seq(Nat)
         /\ published[s] \in Nat
<1>1. pending[s] \in Seq(Nat) /\ events[s] \in Seq(Nat) /\ published[s] \in Nat
  BY DEF TypeOK, BufferTypeOK
<1>2. LogOf(s) \in Seq(Nat)
  BY DurableType DEF LogOf
<1>3. QED
  BY <1>1, <1>2, ConcatProperties DEF QueueOf

\* What a step leaves in memory for a session is in order.
LEMMA QueueInOrder ==
  ASSUME IInv', NEW s \in Session, ~scarred'[s]
  PROVE  Increasing(QueueOf(s)')
<1>1. InOrder(Durable(s)', pending'[s], events'[s], published'[s])
  BY DEF IInv, FilesOK, FileState, Account
<1>2. pending'[s] \in Seq(Nat) /\ events'[s] \in Seq(Nat)
  BY DEF IInv, TypeOK, BufferTypeOK
<1>3. PICK p \in Seq(Nat), e \in Seq(Nat) : p = pending'[s] /\ e = events'[s]
  BY <1>2
<1>4. Increasing(p) /\ Increasing(e) /\ Precedes(p, e)
  BY <1>1, <1>3 DEF InOrder
<1>5. Increasing(p \o e)
  BY <1>4, ConcatIncreasing
<1>6. QED
  BY <1>3, <1>4, <1>5 DEF QueueOf

LEMMA LogInitially ==
  ASSUME Init, NEW s \in Session
  PROVE  SessionLog(s)!LogInit
<1>1. /\ published[s] = 0 /\ scarred[s] = FALSE /\ write = "none"
      /\ disk[s] = <<>> /\ pending[s] = <<>> /\ events[s] = <<>>
  BY DEF Init, BufferInit
<1>2. QueueOf(s) = <<>> /\ LogOf(s) = <<>>
  BY <1>1, ConcatEmptySeq, EmptyInOrder DEF QueueOf, LogOf
<1>3. QED
  BY <1>1, <1>2 DEF SessionLog!LogInit

-----------------------------------------------------------------------------
(* Each step, for the log of one session. *)

\* publish appends to the log's queue, and may empty another's.
LEMMA PublishLogs ==
  ASSUME IInv, IInv', NEW t \in Session, PublishEvent(t), NEW s \in Session
  PROVE  [SessionLog(s)!LogNext]_(SessionLog(s)!dvars)
<1>1. /\ UNCHANGED <<pending, write, target, base, disk, scarred>>
      /\ Publish(t)
  BY DEF PublishEvent, managerVars, fileVars
<1>2. /\ LogOf(s)' = LogOf(s) /\ scarred'[s] = scarred[s]
  BY <1>1 DEF LogOf, Durable, InFlight
<1>3. CASE scarred[s]
  BY <1>2, <1>3, LogCorrupt
<1>4. /\ LogOf(s) \in Seq(Nat) /\ QueueOf(s) \in Seq(Nat)
      /\ pending[s] \in Seq(Nat) /\ events[s] \in Seq(Nat) /\ published[s] \in Nat
      /\ published \in [Session -> Nat] /\ events \in [Session -> Seq(Nat)]
  BY LogType DEF IInv, TypeOK, BufferTypeOK
<1>5. QueueOf(s)' = IF write = "ok" /\ target = s THEN events'[s] ELSE pending[s] \o events'[s]
  BY <1>1 DEF QueueOf
<1>6. CASE ~scarred[s] /\ s = t
  <2>1. Increasing(QueueOf(s)')
    BY <1>2, <1>6, QueueInOrder
  <2>2. published'[s] = published[s] + 1
    BY <1>1, <1>4, <1>6 DEF Publish
  <2>3. PICK k \in 0..Len(events[s]) : k = Excess(s)
    BY ExcessInRange DEF IInv, TypeOK
  <2> DEFINE kept == SubSeq(events[s], k + 1, Len(events[s]))
             next == Append(kept, published[s] + 1)
  <2>4. events'[s] = next
    BY <1>1, <1>4, <1>6, <2>3 DEF Publish
  <2>5. kept \in Seq(Nat) /\ Elems(kept) \subseteq Elems(events[s])
    <3>1. /\ kept \in Seq(Nat)
          /\ Elems(events[s]) = {events[s][i] : i \in 1..k} \cup Elems(kept)
      BY <1>4, KeptPart
    <3> HIDE DEF kept
    <3>2. QED
      BY <3>1
  <2> HIDE DEF kept
  <2>6. next \in Seq(Nat) /\ Elems(next) = Elems(kept) \cup {published[s] + 1}
    BY <1>4, <2>5, ElemsAppend
  <2> HIDE DEF next
  <2>7. /\ published[s] + 1 \in Elems(QueueOf(s)')
        /\ Elems(QueueOf(s)') \subseteq Elems(QueueOf(s)) \cup {published[s] + 1}
    <3>1. CASE write = "ok" /\ target = s
      <4>1. QueueOf(s)' = next /\ QueueOf(s) = events[s]
        BY <1>5, <2>4, <3>1 DEF QueueOf
      <4>2. QED
        BY <2>5, <2>6, <4>1
    <3>2. CASE ~(write = "ok" /\ target = s)
      <4>1. QueueOf(s)' = pending[s] \o next /\ QueueOf(s) = pending[s] \o events[s]
        BY <1>5, <2>4, <3>2 DEF QueueOf
      <4>2. /\ Elems(pending[s] \o next) = Elems(pending[s]) \cup Elems(next)
            /\ Elems(pending[s] \o events[s]) = Elems(pending[s]) \cup Elems(events[s])
        BY <1>4, <2>6, ElemsConcat
      <4>3. QED
        BY <2>5, <2>6, <4>1, <4>2
    <3>3. QED
      BY <3>1, <3>2
  <2>8. Elems(Append(QueueOf(s), published[s] + 1)) = Elems(QueueOf(s)) \cup {published[s] + 1}
    BY <1>4, ElemsAppend
  <2>9. Elems(QueueOf(s)') \subseteq Elems(Append(QueueOf(s), published[s] + 1))
    BY <2>7, <2>8
  <2>10. SessionLog(s)!Accept
    BY <1>2, <2>1, <2>2, <2>7, <2>9
    DEF SessionLog!Accept, SessionLog!PartOf, SessionLog!Ascending,
        SessionLog!Members, Increasing, Elems
  <2>11. QED
    BY <1>6, <2>10 DEF SessionLog!LogNext
<1>7. CASE ~scarred[s] /\ s # t
  <2>1. published'[s] = published[s]
    BY <1>1, <1>4, <1>7 DEF Publish
  <2>2. CASE s \in Evicted(t)
    <3>1. events'[s] = <<>>
      BY <1>1, <1>7, <2>2 DEF Publish
    <3>2. Increasing(QueueOf(s)')
      BY <1>2, <1>7, QueueInOrder
    <3>3. Elems(QueueOf(s)') \subseteq Elems(QueueOf(s))
      <4>1. CASE write = "ok" /\ target = s
        BY <1>5, <3>1, <4>1, EmptyInOrder
      <4>2. CASE ~(write = "ok" /\ target = s)
        <5>1. QueueOf(s)' = pending[s] /\ QueueOf(s) = pending[s] \o events[s]
          BY <1>4, <1>5, <3>1, <4>2, ConcatEmptySeq DEF QueueOf
        <5>2. QED
          BY <1>4, <5>1, ElemsConcat
      <4>3. QED
        BY <4>1, <4>2
    <3>4. /\ 0 \in 0..Len(QueueOf(s))
          /\ SubSeq(QueueOf(s), 1, 0) = <<>>
          /\ SubSeq(QueueOf(s), 0 + 1, Len(QueueOf(s))) = QueueOf(s)
          /\ LogOf(s) \o <<>> = LogOf(s)
      BY <1>4, SubSeqEmpty, SubSeqFull, ConcatEmptySeq, LenProperties
    <3>5. SessionLog(s)!LogNext
      BY <1>2, <1>7, <2>1, <3>2, <3>3, <3>4, LogGivesUp
    <3>6. QED
      BY <3>5
  <2>3. CASE s \notin Evicted(t)
    <3>1. events'[s] = events[s]
      BY <1>1, <1>7, <2>3 DEF Publish
    <3>2. QueueOf(s)' = QueueOf(s)
      BY <1>5, <3>1 DEF QueueOf
    <3>3. QED
      BY <1>2, <2>1, <3>2, LogStutters
  <2>4. QED
    BY <2>2, <2>3
<1>8. QED
  BY <1>3, <1>6, <1>7

\* The rest of a concatenation after its first part.
LEMMA SuffixOfConcat ==
  ASSUME NEW q \in Seq(Nat), NEW r \in Seq(Nat)
  PROVE  SubSeq(q \o r, Len(q) + 1, Len(q \o r)) = r
<1> DEFINE all == q \o r
           rest == SubSeq(all, Len(q) + 1, Len(all))
<1>1. /\ all \in Seq(Nat) /\ Len(all) = Len(q) + Len(r)
      /\ \A i \in 1 .. Len(q) + Len(r) : all[i] = IF i <= Len(q) THEN q[i] ELSE r[i - Len(q)]
      /\ Len(q) \in Nat /\ Len(r) \in Nat
  BY ConcatProperties, LenProperties
<1> HIDE DEF all
<1>2. Len(q) \in 0..Len(all)
  BY <1>1
<1>3. rest \in Seq(Nat)
  BY <1>1, <1>2, KeptPart
<1>4. /\ Len(rest) = IF Len(q) + 1 <= Len(all) THEN Len(all) - (Len(q) + 1) + 1 ELSE 0
      /\ \A i \in 1 .. Len(all) - (Len(q) + 1) + 1 : rest[i] = all[(Len(q) + 1) + i - 1]
  <2>1. \A i \in Len(q) + 1 .. Len(all) : all[i] \in Nat
    BY <1>1
  <2>2. QED
    BY <1>1, <2>1, SubSeqProperties
<1> HIDE DEF rest
<1>5. Len(rest) = Len(r)
  BY <1>1, <1>4
<1>6. ASSUME NEW i \in 1..Len(r)
      PROVE  rest[i] = r[i]
  <2>1. /\ i \in 1 .. Len(all) - (Len(q) + 1) + 1
        /\ (Len(q) + 1) + i - 1 = Len(q) + i
        /\ Len(q) + i \in 1 .. Len(q) + Len(r)
        /\ ~(Len(q) + i <= Len(q)) /\ (Len(q) + i) - Len(q) = i
    BY <1>1
  <2>2. rest[i] = all[Len(q) + i]
    BY <1>4, <2>1
  <2>3. all[Len(q) + i] = r[(Len(q) + i) - Len(q)]
    BY <1>1, <2>1
  <2>4. QED
    BY <2>1, <2>2, <2>3
<1>7. QED
  BY <1>3, <1>5, <1>6, SeqEqual DEF rest, all

\* A finished write is a step of Commit; one under way or undone is none.
LEMMA WriteLogs ==
  ASSUME IInv, IInv', WriteStep, NEW s \in Session
  PROVE  [SessionLog(s)!LogNext]_(SessionLog(s)!dvars)
<1>1. /\ UNCHANGED <<events, published, dropped, pending, target>>
      /\ [Next]_vars
  BY DEF Next, WriteStep, WriteOk, WriteRefused, WritePartly, Rollback, RollbackFails, bufferVars
<1>2. \/ scarred' = scarred
      \/ RollbackFails /\ scarred' = [scarred EXCEPT ![target] = TRUE]
  BY DEF WriteStep, WriteOk, WriteRefused, WritePartly, Rollback, RollbackFails, fileVars
<1>3. /\ target \in Session /\ disk \in [Session -> Seq(Nat)] /\ scarred \in [Session -> BOOLEAN]
      /\ disk[s] \in Seq(Nat) /\ pending[s] \in Seq(Nat) /\ events[s] \in Seq(Nat)
      /\ batch \in Seq(Nat) /\ published'[s] = published[s]
  BY <1>1 DEF IInv, TypeOK, BufferTypeOK
<1>4. CASE scarred[s]
  BY <1>2, <1>3, <1>4, LogCorrupt
<1>5. CASE ~scarred[s] /\ s # target
  <2>1. scarred'[s] = scarred[s] /\ disk'[s] = disk[s]
    <3>1. \/ UNCHANGED disk
          \/ \E q : disk' = [disk EXCEPT ![target] = q]
      BY DEF WriteStep, WriteOk, WriteRefused, WritePartly, Rollback, RollbackFails, fileVars
    <3>2. QED
      BY <1>2, <1>3, <1>5, <3>1
  <2>2. LogOf(s)' = LogOf(s) /\ QueueOf(s)' = QueueOf(s)
    BY <1>1, <1>5, <2>1 DEF LogOf, QueueOf
  <2>3. QED
    BY <1>3, <2>1, <2>2, LogStutters
<1>6. CASE ~scarred[s] /\ s = target /\ RollbackFails
  <2>1. scarred'[s] = TRUE
    BY <1>3, <1>6 DEF RollbackFails
  <2>2. QED
    BY <1>3, <1>6, <2>1, LogCorrupts
<1>7. CASE ~scarred[s] /\ s = target /\ WriteOk
  <2>1. /\ scarred'[s] = scarred[s] /\ write = "running" /\ write' = "ok"
        /\ batch = pending[s] /\ pending[s] # <<>>
    BY <1>7 DEF WriteOk, IInv, WriteTaskMatchesBatch
  <2>2. Durable(s) = disk[s] /\ LogOf(s) = disk[s]
    BY <2>1 DEF Durable, InFlight, LogOf
  <2>3. Durable(s)' = disk[s]
    BY <1>1, <2>2, DurableStep DEF IInv
  <2>4. disk'[s] = disk[s] \o pending[s]
    BY <1>1, <1>7, <2>1, <2>3 DEF IInv, FilesOK, FileState
  <2>5. LogOf(s)' = LogOf(s) \o pending[s]
    BY <2>1, <2>2, <2>4 DEF LogOf
  <2>6. QueueOf(s) = pending[s] \o events[s] /\ QueueOf(s)' = events[s]
    BY <1>1, <1>7, <2>1 DEF QueueOf
  <2>7. /\ Len(pending[s]) \in 1..Len(QueueOf(s))
        /\ SubSeq(QueueOf(s), 1, Len(pending[s])) = pending[s]
        /\ SubSeq(QueueOf(s), Len(pending[s]) + 1, Len(QueueOf(s))) = events[s]
    <3>1. /\ Len(pending[s]) <= Len(pending[s] \o events[s])
          /\ SubSeq(pending[s] \o events[s], 1, Len(pending[s])) = pending[s]
          /\ SubSeq(pending[s] \o events[s], Len(pending[s]) + 1, Len(pending[s] \o events[s])) = events[s]
          /\ pending[s] \o events[s] \in Seq(Nat)
      BY <1>3, PrefixOfConcat, SuffixOfConcat
    <3>2. Len(pending[s]) \in Nat \ {0} /\ Len(pending[s] \o events[s]) \in Nat
      BY <1>3, <2>1, <3>1, EmptySeq, LenProperties
    <3>3. Len(pending[s]) \in 1..Len(pending[s] \o events[s])
      <4>1. \A a \in Nat \ {0}, b \in Nat : a <= b => a \in 1..b
        OBVIOUS
      <4>2. QED
        BY <3>1, <3>2, <4>1
    <3>4. QED
      BY <2>6, <3>1, <3>3
  <2>8. SessionLog(s)!Commit
    BY <1>3, <2>1, <2>5, <2>6, <2>7 DEF SessionLog!Commit
  <2>9. QED
    BY <1>7, <2>8 DEF SessionLog!LogNext
<1>8. CASE ~scarred[s] /\ s = target /\ ~RollbackFails /\ ~WriteOk
  <2>1. /\ scarred'[s] = scarred[s] /\ write # "ok" /\ write' # "ok"
    BY <1>2, <1>8 DEF WriteStep, WriteRefused, WritePartly, Rollback
  <2>2. QueueOf(s)' = QueueOf(s)
    BY <1>1, <2>1 DEF QueueOf
  <2>3. LogOf(s)' = LogOf(s)
    <3>1. CASE WriteRefused
      BY <3>1 DEF WriteRefused, fileVars, LogOf
    <3>2. CASE Rollback
      BY <1>1, <1>3, <1>8, <3>2 DEF Rollback, LogOf, Durable, InFlight
    <3>3. ASSUME NEW k \in 0..(Len(batch) - 1), NEW cut \in BOOLEAN, WritePartly(k, cut)
          PROVE  LogOf(s)' = LogOf(s)
      <4>1. write = "running" /\ write' = "partial"
        BY <3>3 DEF WritePartly
      <4>2. Durable(s) = disk[s] /\ LogOf(s) = disk[s]
        BY <4>1 DEF Durable, InFlight, LogOf
      <4>3. Durable(s)' = disk[s]
        BY <1>1, <4>2, DurableStep DEF IInv
      <4>4. LogOf(s)' = Durable(s)'
        BY <1>1, <1>8, <4>1 DEF LogOf
      <4>5. QED
        BY <4>2, <4>3, <4>4
    <3>4. QED
      BY <1>8, <3>1, <3>2, <3>3 DEF WriteStep
  <2>4. QED
    BY <1>3, <2>1, <2>2, <2>3, LogStutters
<1>9. QED
  BY <1>4, <1>5, <1>6, <1>7, <1>8

\* A prefix of the first part is a prefix of the concatenation.
LEMMA FirstOfConcat ==
  ASSUME NEW q \in Seq(Nat), NEW r \in Seq(Nat), NEW k \in 0..Len(q)
  PROVE  k \in 0..Len(q \o r) /\ SubSeq(q \o r, 1, k) = SubSeq(q, 1, k)
<1>1. /\ q \o r \in Seq(Nat) /\ Len(q \o r) = Len(q) + Len(r)
      /\ \A i \in 1 .. Len(q) + Len(r) :
           (q \o r)[i] = IF i <= Len(q) THEN q[i] ELSE r[i - Len(q)]
      /\ Len(q) \in Nat /\ Len(r) \in Nat
  BY ConcatProperties, LenProperties
<1>2. k \in Nat /\ k <= Len(q) /\ k <= Len(q \o r) /\ k \in 0..Len(q \o r)
  BY <1>1
<1>3. /\ SubSeq(q \o r, 1, k) \in Seq(Nat) /\ Len(SubSeq(q \o r, 1, k)) = k
      /\ \A i \in 1..k : SubSeq(q \o r, 1, k)[i] = (q \o r)[i]
  BY <1>1, <1>2, PrefixType
<1>4. /\ SubSeq(q, 1, k) \in Seq(Nat) /\ Len(SubSeq(q, 1, k)) = k
      /\ \A i \in 1..k : SubSeq(q, 1, k)[i] = q[i]
  BY <1>2, PrefixType
<1>5. \A i \in 1..k : (q \o r)[i] = q[i]
  BY <1>1, <1>2
<1>6. QED
  BY <1>2, <1>3, <1>4, <1>5, SeqEqual

\* A crash is a step of GiveUp, or leaves a file that is not vouched for.
LEMMA CrashLogs ==
  ASSUME IInv, IInv', Crash, NEW s \in Session
  PROVE  [SessionLog(s)!LogNext]_(SessionLog(s)!dvars)
<1>1. /\ events'[s] = <<>> /\ pending'[s] = <<>> /\ write' = "none"
      /\ disk' = disk /\ published' = published
      /\ scarred'[s] = (scarred[s] \/ (write = "partial" /\ s = target /\ torn[s]))
  BY DEF Crash
<1>2. scarred[s] \in BOOLEAN /\ torn[s] \in BOOLEAN
  BY DEF IInv, TypeOK
<1>3. CASE scarred[s]
  BY <1>1, <1>3, LogCorrupt
<1>4. CASE ~scarred[s] /\ write = "partial" /\ s = target /\ torn[s]
  BY <1>1, <1>4, LogCorrupts
<1>5. CASE ~scarred[s] /\ ~(write = "partial" /\ s = target /\ torn[s])
  <2>1. scarred'[s] = scarred[s]
    BY <1>1, <1>2, <1>5
  <2>2. /\ LogOf(s) \in Seq(Nat) /\ QueueOf(s) \in Seq(Nat)
        /\ pending[s] \in Seq(Nat) /\ events[s] \in Seq(Nat)
    BY LogType DEF IInv
  <2>3. LogOf(s)' = disk[s] /\ QueueOf(s)' = <<>>
    <3>1. LogOf(s)' = disk[s] /\ QueueOf(s)' = <<>> \o <<>>
      BY <1>1 DEF LogOf, QueueOf
    <3>2. QED
      BY <3>1, ConcatEmptySeq, EmptyInOrder
  <2>4. \E n \in 0..Len(QueueOf(s)) : disk[s] = LogOf(s) \o SubSeq(QueueOf(s), 1, n)
    <3>1. CASE write = "partial" /\ s = target
      <4>1. FileState(s) /\ LogOf(s) = Durable(s) /\ QueueOf(s) = pending[s] \o events[s]
        BY <1>5, <3>1 DEF IInv, FilesOK, LogOf, QueueOf
      <4>2. PICK k \in 0..Len(pending[s]) : disk[s] = Durable(s) \o SubSeq(pending[s], 1, k)
        BY <1>5, <3>1, <4>1 DEF FileState
      <4>3. k \in 0..Len(QueueOf(s)) /\ SubSeq(QueueOf(s), 1, k) = SubSeq(pending[s], 1, k)
        <5>1. /\ k \in 0..Len(pending[s] \o events[s])
              /\ SubSeq(pending[s] \o events[s], 1, k) = SubSeq(pending[s], 1, k)
          BY <2>2, FirstOfConcat
        <5>2. QED
          BY <4>1, <5>1
      <4>4. QED
        BY <4>1, <4>2, <4>3
    <3>2. CASE ~(write = "partial" /\ s = target)
      <4>1. LogOf(s) = disk[s]
        BY <3>2 DEF LogOf
      <4>2. 0 \in 0..Len(QueueOf(s)) /\ disk[s] = LogOf(s) \o SubSeq(QueueOf(s), 1, 0)
        BY <2>2, <4>1, SubSeqEmpty, ConcatEmptySeq, LenProperties
      <4>3. QED
        BY <4>2
    <3>3. QED
      BY <3>1, <3>2
  <2>5. PICK n \in 0..Len(QueueOf(s)) : disk[s] = LogOf(s) \o SubSeq(QueueOf(s), 1, n)
    BY <2>4
  <2>6. SessionLog(s)!LogNext
    BY <1>1, <1>5, <2>1, <2>3, <2>5, EmptyInOrder, LogGivesUp
  <2>7. QED
    BY <2>6
<1>6. QED
  BY <1>3, <1>4, <1>5

\* A flush moves events within memory: the log and its queue stay.
LEMMA DrainLogs ==
  ASSUME TypeOK, NEW f \in Flusher, NEW ids \in SUBSET Session,
         NEW owned \in [Session -> Seq(Nat)], \A t \in Session : owned[t] = <<>>,
         Drain(f, ids, owned, "none"), UNCHANGED fileVars, NEW s \in Session,
         LogOf(s) = disk[s], QueueOf(s) = events[s]
  PROVE  LogOf(s)' = LogOf(s) /\ QueueOf(s)' = QueueOf(s) /\ UNCHANGED <<published, scarred>>
<1>1. write' \in {"none", "running"} /\ disk' = disk /\ scarred' = scarred
  BY DEF Drain, AwaitWrite, fileVars
<1>2. LogOf(s)' = disk[s] /\ QueueOf(s)' = pending'[s] \o events'[s]
  BY <1>1 DEF LogOf, QueueOf
<1>3. events[s] \in Seq(Nat) /\ events \in [Session -> Seq(Nat)]
  BY DEF TypeOK, BufferTypeOK
<1>4. CASE pending' = owned /\ UNCHANGED bufferVars
  <2>1. pending'[s] = <<>> /\ events'[s] = events[s] /\ published' = published
    BY <1>4 DEF bufferVars
  <2>2. QED
    BY <1>1, <1>2, <1>3, <2>1, ConcatEmptySeq
<1>5. ASSUME NEW t \in ids \cap SessionIds, PopEvents(t),
             pending' = [owned EXCEPT ![t] = events[t]]
      PROVE  LogOf(s)' = LogOf(s) /\ QueueOf(s)' = QueueOf(s) /\ UNCHANGED <<published, scarred>>
  <2>1. published' = published
    BY <1>5 DEF PopEvents
  <2>2. \/ pending'[s] = events[s] /\ events'[s] = <<>>
        \/ pending'[s] = <<>> /\ events'[s] = events[s]
    BY <1>3, <1>5 DEF PopEvents
  <2>3. QED
    BY <1>1, <1>2, <1>3, <2>1, <2>2, ConcatEmptySeq
<1>6. QED
  BY <1>4, <1>5 DEF Drain

LEMMA FlushLogs ==
  ASSUME IInv, NEW f \in Flusher, FlushStep(f), NEW s \in Session
  PROVE  LogOf(s)' = LogOf(s) /\ QueueOf(s)' = QueueOf(s) /\ UNCHANGED <<published, scarred>>
<1>1. SessionIds \in SUBSET Session /\ pending \in [Session -> Seq(Nat)] /\ events[s] \in Seq(Nat)
      /\ target \in Session /\ current \in Session /\ TypeOK
  BY DEF SessionIds, IInv, TypeOK, BufferTypeOK
<1>2. ASSUME UNCHANGED <<events, pending, disk, base>>,
             \/ write' = write /\ target' = target
             \/ write \notin {"partial", "ok"} /\ write' \notin {"partial", "ok"}
      PROVE  LogOf(s)' = LogOf(s) /\ QueueOf(s)' = QueueOf(s)
  BY <1>2 DEF LogOf, QueueOf, Durable, InFlight
<1>4. CASE PropagateFailure(f)
  BY <1>2, <1>4 DEF PropagateFailure, bufferVars, fileVars
<1>5. ASSUME Acquire(f), NEW t \in Session,
             AwaitWrite(f, t, pending[t], write), UNCHANGED <<bufferVars, pending>>
      PROVE  LogOf(s)' = LogOf(s) /\ QueueOf(s)' = QueueOf(s) /\ UNCHANGED <<published, scarred>>
  <2>1. \/ write' = write /\ target' = target
        \/ write = "none" /\ write' = "running"
    BY <1>5 DEF AwaitWrite
  <2>2. UNCHANGED <<events, published, pending, disk, base, scarred>>
    BY <1>5 DEF Acquire, bufferVars, fileVars
  <2>3. QED
    BY <1>2, <2>1, <2>2
<1>6. ASSUME Acquire(f), \A t \in Session : pending[t] = <<>>,
             Drain(f, SessionIds, pending, write)
      PROVE  LogOf(s)' = LogOf(s) /\ QueueOf(s)' = QueueOf(s) /\ UNCHANGED <<published, scarred>>
  <2>1. write = "none"
    BY <1>1, <1>6 DEF IInv, WriteTaskMatchesBatch
  <2>2. LogOf(s) = disk[s] /\ QueueOf(s) = events[s]
    BY <1>1, <1>6, <2>1, ConcatEmptySeq DEF LogOf, QueueOf
  <2>3. Drain(f, SessionIds, pending, "none") /\ UNCHANGED fileVars
    BY <1>6, <2>1 DEF Acquire
  <2>4. QED
    BY <1>1, <1>6, <2>2, <2>3, DrainLogs
<1>7. CASE Acknowledge(f)
  <2> DEFINE ids == IF listed THEN snapshot ELSE SessionIds
             owned == [pending EXCEPT ![current] = <<>>]
  <2>1. write = "ok" /\ target = current /\ pending[current] # <<>>
    BY <1>7, FlusherAssumption DEF Acknowledge, IInv, WriteTaskMatchesBatch
  <2>2. \A t \in Session : t # current => pending[t] = <<>>
    BY <1>1, <2>1 DEF IInv, WriteTaskMatchesBatch
  <2>3. owned \in [Session -> Seq(Nat)] /\ \A t \in Session : owned[t] = <<>>
    BY <1>1, <2>2, EmptySeq
  <2>4. ids \in SUBSET Session
    BY <1>1 DEF TypeOK
  <2>5. Drain(f, ids, owned, "none") /\ UNCHANGED fileVars
    BY <1>7 DEF Acknowledge
  <2> HIDE DEF ids, owned
  <2>6. LogOf(s) = disk[s] /\ QueueOf(s) = events[s]
    BY <1>1, <2>1, <2>2, ConcatEmptySeq DEF LogOf, QueueOf
  <2>7. QED
    BY <1>1, <2>3, <2>4, <2>5, <2>6, DrainLogs
<1>8. QED
  BY <1>4, <1>5, <1>6, <1>7 DEF FlushStep, Acquire, PropagateFailure, bufferVars, fileVars

-----------------------------------------------------------------------------

\* Whatever flushes, failures, cancellations and crashes interleave, the file
\* of each session is an append-only log with a queue before it, in which
\* events move once and in order (persistence.py with buffer.py).
THEOREM FilesAreLogs == Spec => ImplementsDurableLog
<1>1. Init => \A s \in Session : SessionLog(s)!LogInit
  BY LogInitially
<1>2. ASSUME IInv, IInv', [Next]_vars
      PROVE  [\A s \in Session : [SessionLog(s)!LogNext]_(SessionLog(s)!dvars)]_vars
  <2>1. SUFFICES ASSUME NEW s \in Session
                 PROVE  [SessionLog(s)!LogNext]_(SessionLog(s)!dvars)
    OBVIOUS
  <2>2. ASSUME NEW t \in Session, PublishEvent(t)
        PROVE  [SessionLog(s)!LogNext]_(SessionLog(s)!dvars)
    BY <1>2, <2>2, PublishLogs
  <2>3. ASSUME \/ \E f \in Flusher : LifeStep(f)
               \/ UNCHANGED vars
        PROVE  [SessionLog(s)!LogNext]_(SessionLog(s)!dvars)
    <3>1. UNCHANGED <<events, published, pending, write, target, base, disk, scarred>>
      BY <2>3, LifeFrame DEF vars, bufferVars, managerVars, fileVars
    <3>2. LogOf(s)' = LogOf(s) /\ QueueOf(s)' = QueueOf(s)
      BY <3>1 DEF LogOf, QueueOf, Durable, InFlight
    <3>3. QED
      BY <3>1, <3>2, LogStutters
  <2>4. ASSUME NEW f \in Flusher, FlushStep(f)
        PROVE  [SessionLog(s)!LogNext]_(SessionLog(s)!dvars)
    <3>1. LogOf(s)' = LogOf(s) /\ QueueOf(s)' = QueueOf(s) /\ UNCHANGED <<published, scarred>>
      BY <1>2, <2>4, FlushLogs
    <3>2. QED
      BY <3>1, LogStutters
  <2>5. CASE WriteStep
    BY <1>2, <2>5, WriteLogs
  <2>6. CASE Crash
    BY <1>2, <2>6, CrashLogs
  <2>7. QED
    BY <1>2, <2>2, <2>3, <2>4, <2>5, <2>6 DEF Next
<1>3. QED
  BY <1>1, <1>2, IInvAlways, PTL DEF Spec, ImplementsDurableLog

=============================================================================
