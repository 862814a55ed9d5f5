---------------------------- MODULE DeliveryProofs ----------------------------
(***************************************************************************)
(* What the delivery counters, the live buffer and the kept summary say is *)
(* true of the database, for every number of tasks, contexts, retries,     *)
(* timeouts and faults; and, in a process with one context, what the       *)
(* completeness report says of its sequence markers.                       *)
(***************************************************************************)
EXTENDS Delivery, OrderingProofs

Entry == [seq : Nat \ {0}, parent : Nat, kind : {"start", "llm", "end"}]

\* TypeOK says nothing of the domains, nor that what is awaited is finite.
Domains ==
  /\ stack \in [Task -> Seq(Context)]
  /\ emitted \in [Context -> Seq(Entry)]
  /\ stored \in [Context -> SUBSET Nat]
  /\ published \in [Context -> Seq(Nat)]
  /\ IsFiniteSet(sends)

\* A context emits from its session_start on, and no more than the bound.
Lengths ==
  \A c \in Context :
    /\ Len(emitted[c]) <= MaxEvents
    /\ phase[c] \in {"new", "starting"} <=> Len(emitted[c]) = 0

Typing == TypeOK /\ Domains /\ Lengths

\* A request about an event is about one that was emitted.
Known ==
  /\ \A s \in sends : s.msg.kind = "event" => s.msg.id \in DOMAIN emitted[s.msg.ctx]
  /\ \A p \in wire : p.msg.kind = "event" => p.msg.id \in DOMAIN emitted[p.msg.ctx]

\* Only one request is awaited for an event.
Unique ==
  \A s, r \in sends :
    s.msg.kind = "event" /\ r.msg.kind = "event" /\ s.msg.ctx = r.msg.ctx /\ s.msg.id = r.msg.id
      => s = r

\* A copy that has been handled is of an event in the database.
HandledIsStored ==
  \A p \in wire : p.msg.kind = "event" /\ p.stage \in {"stored", "ok"} =>
    p.msg.id \in stored[p.msg.ctx]

\* Events of c that are still awaited: the counters have nothing of them yet.
Awaited(c) == {s.msg.id : s \in {r \in sends : r.msg.kind = "event" /\ r.msg.ctx = c}}

CountedIsStored ==
  \A c \in Context : stats[c].eventsAccepted <= Cardinality(stored[c] \ Awaited(c))

\* A handler between its commit and its publish is the only one for its event.
Unpublished ==
  \A p \in wire : p.msg.kind = "event" /\ p.stage = "stored" =>
    /\ p.msg.id \notin ToSet(published[p.msg.ctx])
    /\ \A q \in wire :
         q.msg.kind = "event" /\ q.stage = "stored" /\ q.msg.ctx = p.msg.ctx /\ q.msg.id = p.msg.id
           => p = q

\* Requests about the session of c that are awaited, and those ever made at most:
\* the first, one for every event, and the last.
SessionSends(c) == {s \in sends : s.msg.kind # "event" /\ s.msg.ctx = c}

Begun(c) == IF phase[c] = "new" THEN 0 ELSE 1
Over(c) == IF phase[c] \in {"updating", "closed"} THEN 1 ELSE 0
Asked(c) == Begun(c) + Len(emitted[c]) + Over(c)

SessionsAsked ==
  \A c \in Context : stats[c].sessionsAccepted + Cardinality(SessionSends(c)) <= Asked(c)

\* What was kept on exit is bounded as the counters were.
SummaryKept ==
  \A c \in Context : phase[c] = "closed" =>
    /\ summary[c].eventsAccepted <= Cardinality(stored[c])
    /\ summary[c].sessionsAccepted <= Len(emitted[c]) + 2

IInv ==
  /\ Typing /\ Known /\ Unique
  /\ HandledIsStored /\ CountedIsStored
  /\ StreamedOnceAfterStored /\ Unpublished
  /\ SessionsAsked /\ SummaryKept

-----------------------------------------------------------------------------
(* Types *)

\* A log's length, and its LLM calls.
LEMMA LogType ==
  ASSUME NEW log \in Seq(Entry)
  PROVE  /\ Len(log) \in Nat /\ DOMAIN log = 1..Len(log)
         /\ LlmCalls(log) \in 0..Len(log)
<1>1. Len(log) \in Nat /\ DOMAIN log = 1..Len(log)
  BY LenProperties
<1>2. IsFiniteSet(1..Len(log)) /\ Cardinality(1..Len(log)) = Len(log)
  BY <1>1, FS_Interval
<1>3. {i \in DOMAIN log : log[i].kind = "llm"} \in SUBSET (1..Len(log))
  BY <1>1
<1>4. /\ LlmCalls(log) <= Len(log)
      /\ LlmCalls(log) \in Nat
  BY <1>2, <1>3, FS_Subset, FS_CardinalityType DEF LlmCalls
<1>5. QED
  BY <1>1, <1>4

LEMMA NoRowType == NoRow \in [status : {"none", "running", "done"}, calls : 0..MaxEvents]
BY BoundsAssumption DEF NoRow

\* One or two requests are issued.
Issued(a, b) ==
  /\ sends' = sends \cup {[msg |-> a, attempt |-> 0], [msg |-> b, attempt |-> 0]}
  /\ wire' = wire \cup {FirstCopy(a), FirstCopy(b)}

LEMMA IssuedOne ==
  /\ \A a : Issue({a}) => Issued(a, a)
  /\ \A a, b : Issue({a, b}) => Issued(a, b)
BY DEF Issue, Issued

LEMMA IssuedType ==
  ASSUME Typing, NEW a \in Message, NEW b \in Message, Issued(a, b)
  PROVE  /\ \A s \in sends' : s \in [msg : Message, attempt : 0..MaxRetries]
         /\ \A p \in wire' : p \in Copy
         /\ IsFiniteSet(sends')
<1>1. 0 \in 0..MaxRetries
  BY RetriesAssumption
<1>2. FirstCopy(a) \in Copy /\ FirstCopy(b) \in Copy
  BY <1>1, NoRowType DEF FirstCopy, Copy
<1>3. /\ [msg |-> a, attempt |-> 0] \in [msg : Message, attempt : 0..MaxRetries]
      /\ [msg |-> b, attempt |-> 0] \in [msg : Message, attempt : 0..MaxRetries]
  BY <1>1
<1>4. IsFiniteSet((sends \cup {[msg |-> a, attempt |-> 0]}) \cup {[msg |-> b, attempt |-> 0]})
  BY FS_AddElement DEF Typing, Domains
<1>5. (sends \cup {[msg |-> a, attempt |-> 0]}) \cup {[msg |-> b, attempt |-> 0]} = sends'
  BY DEF Issued
<1>6. QED
  BY <1>2, <1>3, <1>4, <1>5 DEF Issued, Typing, TypeOK

\* An event is emitted: two messages, of an event that has a new number.
LEMMA EmitType ==
  ASSUME Typing, NEW t \in Task, NEW c \in Context, NEW kind \in {"start", "llm", "end"},
         NEW parent \in 0..Len(emitted[c]), NEW status \in {"running", "done"},
         Len(emitted[c]) < MaxEvents, Emit(t, c, kind, parent, status)
  PROVE  /\ seqVar' \in [Task -> Nat]
         /\ \A d \in Context : \A i \in DOMAIN emitted'[d] :
              emitted'[d][i] \in [seq : Nat \ {0}, parent : 0..(i - 1), kind : {"start", "llm", "end"}]
         /\ emitted' \in [Context -> Seq(Entry)]
         /\ Len(emitted'[c]) = Len(emitted[c]) + 1
         /\ \A d \in Context : d # c => emitted'[d] = emitted[d]
         /\ \A s \in sends' : s \in [msg : Message, attempt : 0..MaxRetries]
         /\ \A p \in wire' : p \in Copy
         /\ IsFiniteSet(sends')
         /\ \E a, b \in Message :
              /\ Issued(a, b)
              /\ a.kind = "event" /\ a.ctx = c /\ a.id = Len(emitted[c]) + 1
              /\ b.kind = "update" /\ b.ctx = c
<1> DEFINE e == [seq |-> NextSeq(t), kind |-> kind, parent |-> parent]
           log == Append(emitted[c], e)
<1>1. seqVar[t] \in Nat /\ emitted[c] \in Seq(Entry)
  BY DEF Typing, TypeOK, Domains
<1>2. Len(emitted[c]) \in Nat /\ DOMAIN emitted[c] = 1..Len(emitted[c])
  BY <1>1, LogType
<1>3. e \in Entry /\ e.parent = parent
  BY <1>1, <1>2 DEF NextSeq, Entry
<1>4. /\ seqVar' = [seqVar EXCEPT ![t] = NextSeq(t)]
      /\ emitted' = [emitted EXCEPT ![c] = log]
      /\ Issue({EventMsg(t, c, Len(log)), UpdateMsg(t, c, status, log)})
  BY DEF Emit
<1>5. seqVar' \in [Task -> Nat]
  BY <1>1, <1>4 DEF NextSeq, Typing, TypeOK
<1> HIDE DEF e
<1>6. /\ log \in Seq(Entry) /\ Len(log) = Len(emitted[c]) + 1
      /\ \A i \in 1..Len(emitted[c]) : log[i] = emitted[c][i]
      /\ log[Len(emitted[c]) + 1] = e
  BY <1>1, <1>3, AppendProperties
<1> HIDE DEF log
<1>7. Len(log) \in 0..MaxEvents /\ DOMAIN log = 1..Len(log) /\ LlmCalls(log) \in 0..MaxEvents
  <2>1. LlmCalls(log) \in 0..Len(log) /\ DOMAIN log = 1..Len(log)
    BY <1>6, LogType
  <2>2. QED
    BY <1>2, <1>6, <2>1, BoundsAssumption
<1>8. \A i \in DOMAIN log :
        log[i] \in [seq : Nat \ {0}, parent : 0..(i - 1), kind : {"start", "llm", "end"}]
  <2>1. SUFFICES ASSUME NEW i \in DOMAIN log
                 PROVE  log[i] \in [seq : Nat \ {0}, parent : 0..(i - 1), kind : {"start", "llm", "end"}]
    OBVIOUS
  <2>2. i \in 1..Len(emitted[c]) \/ i = Len(emitted[c]) + 1
    BY <1>2, <1>6, <1>7
  <2>3. CASE i \in 1..Len(emitted[c])
    BY <1>2, <1>6, <2>3 DEF Typing, TypeOK
  <2>4. CASE i = Len(emitted[c]) + 1
    <3>1. i - 1 = Len(emitted[c])
      BY <1>2, <2>4
    <3>2. QED
      BY <1>3, <1>6, <2>4, <3>1 DEF Entry
  <2>5. QED
    BY <2>2, <2>3, <2>4
<1>9. /\ emitted' \in [Context -> Seq(Entry)] /\ emitted'[c] = log
      /\ \A d \in Context : d # c => emitted'[d] = emitted[d]
  BY <1>4, <1>6 DEF Typing, Domains
<1>10. \A d \in Context : \A i \in DOMAIN emitted'[d] :
         emitted'[d][i] \in [seq : Nat \ {0}, parent : 0..(i - 1), kind : {"start", "llm", "end"}]
  BY <1>8, <1>9 DEF Typing, TypeOK
<1>11. /\ EventMsg(t, c, Len(log)) \in Message
       /\ UpdateMsg(t, c, status, log) \in Message
  BY <1>7, BoundsAssumption DEF EventMsg, UpdateMsg, Message
<1>12. PICK a \in Message, b \in Message : a = EventMsg(t, c, Len(log)) /\ b = UpdateMsg(t, c, status, log)
  BY <1>11
<1>13. Issued(a, b)
  BY <1>4, <1>12, IssuedOne
<1>14. /\ a.kind = "event" /\ a.ctx = c /\ a.id = Len(emitted[c]) + 1
       /\ b.kind = "update" /\ b.ctx = c
  BY <1>6, <1>12 DEF EventMsg, UpdateMsg
<1>15. QED
  BY <1>5, <1>6, <1>9, <1>10, <1>13, <1>14, IssuedType

\* What an agent step leaves alone and what it adds to the log keep the types.
LEMMA EmitTypes ==
  ASSUME Typing, NEW t \in Task, NEW c \in Context,
         EmitStart(t, c) \/ Record(t, c) \/ EmitEnd(t, c)
  PROVE  /\ Typing'
         /\ \A d \in Context : d # c => emitted'[d] = emitted[d]
         /\ Len(emitted'[c]) = Len(emitted[c]) + 1
         /\ \E a, b \in Message :
              /\ Issued(a, b)
              /\ a.kind = "event" /\ a.ctx = c /\ a.id = Len(emitted[c]) + 1
              /\ b.kind = "update" /\ b.ctx = c
<1>1. /\ emitted[c] \in Seq(Entry) /\ Len(emitted[c]) \in Nat
      /\ phase[c] \in {"new", "starting"} <=> Len(emitted[c]) = 0
  BY LogType DEF Typing, Domains, Lengths
<1>2. PICK kind \in {"start", "llm", "end"}, parent \in 0..Len(emitted[c]),
           status \in {"running", "done"} :
        Len(emitted[c]) < MaxEvents /\ Emit(t, c, kind, parent, status)
  <2>1. CASE EmitStart(t, c)
    <3>1. Len(emitted[c]) < MaxEvents /\ 0 \in 0..Len(emitted[c])
      BY <1>1, <2>1, BoundsAssumption DEF EmitStart
    <3>2. QED
      BY <2>1, <3>1 DEF EmitStart
  <2>2. CASE Record(t, c)
    <3>1. Len(emitted[c]) < MaxEvents /\ 0 \in 0..Len(emitted[c])
      BY <1>1, <2>2, BoundsAssumption DEF Record
    <3>2. SessionStatus(c) \in {"running", "done"}
      BY DEF SessionStatus
    <3>3. QED
      BY <2>2, <3>1, <3>2 DEF Record
  <2>3. CASE EmitEnd(t, c)
    <3>1. Len(emitted[c]) < MaxEvents /\ 1 \in 0..Len(emitted[c])
      BY <1>1, <2>3 DEF EmitEnd
    <3>2. QED
      BY <2>3, <3>1 DEF EmitEnd
  <2>4. QED
    BY <2>1, <2>2, <2>3
<1>3. /\ seqVar' \in [Task -> Nat]
      /\ \A d \in Context : \A i \in DOMAIN emitted'[d] :
           emitted'[d][i] \in [seq : Nat \ {0}, parent : 0..(i - 1), kind : {"start", "llm", "end"}]
      /\ emitted' \in [Context -> Seq(Entry)]
      /\ Len(emitted'[c]) = Len(emitted[c]) + 1
      /\ \A d \in Context : d # c => emitted'[d] = emitted[d]
      /\ \A s \in sends' : s \in [msg : Message, attempt : 0..MaxRetries]
      /\ \A p \in wire' : p \in Copy
      /\ IsFiniteSet(sends')
      /\ \E a, b \in Message :
           /\ Issued(a, b)
           /\ a.kind = "event" /\ a.ctx = c /\ a.id = Len(emitted[c]) + 1
           /\ b.kind = "update" /\ b.ctx = c
  BY <1>2, EmitType
<1>4. /\ UNCHANGED <<started, stack, stats, summary, serverVars, timeouts, faults>>
      /\ phase' \in [Context -> {"new", "starting", "open", "ending", "updating", "closed"}]
      /\ phase'[c] \notin {"new", "starting"}
      /\ \A d \in Context : d # c => phase'[d] = phase[d]
  BY DEF EmitStart, Record, EmitEnd, Typing, TypeOK
<1>5. Lengths'
  <2>1. ASSUME NEW d \in Context
        PROVE  /\ Len(emitted'[d]) <= MaxEvents
               /\ phase'[d] \in {"new", "starting"} <=> Len(emitted'[d]) = 0
    <3>1. CASE d = c
      BY <1>1, <1>2, <1>3, <1>4, <3>1, BoundsAssumption
    <3>2. CASE d # c
      BY <1>3, <1>4, <3>2 DEF Typing, Lengths
    <3>3. QED
      BY <3>1, <3>2
  <2>2. QED
    BY <2>1 DEF Lengths
<1>6. \A d \in Context : stored'[d] \subseteq DOMAIN emitted'[d]
  <2>1. ASSUME NEW d \in Context
        PROVE  DOMAIN emitted[d] \subseteq DOMAIN emitted'[d]
    <3>1. /\ DOMAIN emitted'[c] = 1..Len(emitted'[c]) /\ DOMAIN emitted[c] = 1..Len(emitted[c])
      BY <1>1, <1>3, LenProperties
    <3>2. \A n \in Nat : 1..n \subseteq 1..(n + 1)
      OBVIOUS
    <3>3. QED
      BY <1>1, <1>3, <3>1, <3>2
  <2>2. QED
    BY <1>4, <2>1 DEF serverVars, Typing, TypeOK
<1>7. TypeOK'
  BY <1>3, <1>4, <1>6 DEF serverVars, Typing, TypeOK
<1>8. Domains'
  BY <1>3, <1>4 DEF serverVars, Typing, Domains
<1>9. QED
  BY <1>3, <1>5, <1>7, <1>8 DEF Typing

LEMMA EnterTypes ==
  ASSUME Typing, NEW t \in Task, NEW c \in Context, Enter(t, c)
  PROVE  /\ Typing'
         /\ \E a \in Message : Issued(a, a) /\ a.kind = "start" /\ a.ctx = c
<1>1. StartMsg(t, c) \in Message
  BY BoundsAssumption DEF StartMsg, Message
<1>2. PICK a \in Message : a = StartMsg(t, c)
  BY <1>1
<1>3. Issued(a, a) /\ a.kind = "start" /\ a.ctx = c
  BY <1>2, IssuedOne DEF Enter, StartMsg
<1>4. /\ \A s \in sends' : s \in [msg : Message, attempt : 0..MaxRetries]
      /\ \A p \in wire' : p \in Copy
      /\ IsFiniteSet(sends')
  BY <1>3, IssuedType
<1>5. stack' \in [Task -> Seq(Context)]
  <2>1. Append(stack[t], c) \in Seq(Context)
    BY AppendProperties DEF Typing, Domains
  <2>2. QED
    BY <2>1 DEF Enter, Typing, Domains
<1>6. TypeOK'
  BY <1>4, <1>5 DEF Enter, serverVars, Typing, TypeOK
<1>7. Domains' /\ Lengths'
  BY <1>4, <1>5 DEF Enter, serverVars, Typing, TypeOK, Domains, Lengths
<1>8. QED
  BY <1>3, <1>6, <1>7 DEF Typing

LEMMA FinalUpdateTypes ==
  ASSUME Typing, NEW t \in Task, NEW c \in Context, FinalUpdate(t, c)
  PROVE  /\ Typing'
         /\ \E a \in Message : Issued(a, a) /\ a.kind = "update" /\ a.ctx = c
<1>1. UpdateMsg(t, c, "done", emitted[c]) \in Message
  <2>1. /\ Len(emitted[c]) \in Nat /\ Len(emitted[c]) <= MaxEvents
        /\ LlmCalls(emitted[c]) \in 0..Len(emitted[c])
    BY LogType DEF Typing, Domains, Lengths
  <2>2. Len(emitted[c]) \in 0..MaxEvents /\ LlmCalls(emitted[c]) \in 0..MaxEvents
    BY <2>1, BoundsAssumption
  <2>3. QED
    BY <2>2 DEF UpdateMsg, Message
<1>2. PICK a \in Message : a = UpdateMsg(t, c, "done", emitted[c])
  BY <1>1
<1>3. Issued(a, a) /\ a.kind = "update" /\ a.ctx = c
  BY <1>2, IssuedOne DEF FinalUpdate, UpdateMsg
<1>4. /\ \A s \in sends' : s \in [msg : Message, attempt : 0..MaxRetries]
      /\ \A p \in wire' : p \in Copy
      /\ IsFiniteSet(sends')
  BY <1>3, IssuedType
<1>5. TypeOK'
  BY <1>4 DEF FinalUpdate, serverVars, Typing, TypeOK
<1>6. Domains' /\ Lengths'
  BY <1>4 DEF FinalUpdate, serverVars, Typing, TypeOK, Domains, Lengths
<1>7. QED
  BY <1>3, <1>5, <1>6 DEF Typing

LEMMA CloseTypes ==
  ASSUME Typing, NEW t \in Task, NEW c \in Context, Close(t, c)
  PROVE  Typing'
<1>1. stack' \in [Task -> Seq(Context)]
  <2>1. stack[t] \in Seq(Context) /\ Len(stack[t]) \in Nat
    BY LenProperties DEF Typing, Domains
  <2>2. \A i \in 1..(Len(stack[t]) - 1) : stack[t][i] \in Context
    BY <2>1, ElementOfSeq
  <2>3. Front(stack[t]) \in Seq(Context)
    BY <2>1, <2>2, SubSeqProperties DEF Front
  <2>4. QED
    BY <2>3 DEF Close, Typing, Domains
<1>2. stats[c] \in [DOMAIN NoStats -> Nat]
  BY DEF Typing, TypeOK
<1>3. TypeOK'
  BY <1>1, <1>2 DEF Close, serverVars, Typing, TypeOK
<1>4. Domains' /\ Lengths'
  BY <1>1 DEF Close, serverVars, Typing, TypeOK, Domains, Lengths
<1>5. QED
  BY <1>3, <1>4 DEF Typing

LEMMA SpawnTypes ==
  ASSUME Typing, NEW t \in Task, NEW u \in Task, Spawn(t, u)
  PROVE  Typing'
BY DEF Spawn, serverVars, Typing, TypeOK, Domains, Lengths

\* The steps that leave the agent and the tables alone.
LEMMA WireTypes ==
  ASSUME Typing, UNCHANGED agentVars, UNCHANGED <<stored, published>>,
         \A s \in sends' : s \in [msg : Message, attempt : 0..MaxRetries],
         IsFiniteSet(sends'),
         \A p \in wire' : p \in Copy,
         stats' \in [Context -> [DOMAIN NoStats -> Nat]],
         row' \in [Context -> [status : {"none", "running", "done"}, calls : 0..MaxEvents]],
         timeouts' \in 0..MaxTimeouts, faults' \in 0..MaxFaults
  PROVE  Typing'
BY DEF agentVars, Typing, TypeOK, Domains, Lengths

\* A request is over: its context's counter goes up.
LEMMA SettleType ==
  ASSUME Typing, NEW s \in sends, NEW delivered \in BOOLEAN, Settle(s, delivered)
  PROVE  /\ stats' \in [Context -> [DOMAIN NoStats -> Nat]]
         /\ \A r \in sends' : r \in [msg : Message, attempt : 0..MaxRetries]
         /\ IsFiniteSet(sends')
<1>1. s.msg \in Message /\ s.msg.ctx \in Context
  BY DEF Typing, TypeOK, Message
<1>2. Counter(s.msg, delivered) \in DOMAIN NoStats
  <2>1. DOMAIN NoStats = {"eventsAccepted", "eventsFailed", "sessionsAccepted", "sessionsFailed"}
    BY DEF NoStats
  <2>2. QED
    BY <2>1 DEF Counter
<1>3. PICK k \in DOMAIN NoStats : k = Counter(s.msg, delivered)
  BY <1>2
<1>4. PICK c \in Context : c = s.msg.ctx
  BY <1>1
<1>5. stats' = [stats EXCEPT ![c][k] = @ + 1]
  BY <1>3, <1>4 DEF Settle
<1>6. PICK K : K = DOMAIN NoStats
  OBVIOUS
<1>7. stats' \in [Context -> [K -> Nat]]
  BY <1>3, <1>5, <1>6 DEF Typing, TypeOK
<1>8. IsFiniteSet(sends')
  BY FS_RemoveElement DEF Settle, Typing, Domains
<1>9. QED
  BY <1>6, <1>7, <1>8 DEF Settle, Typing, TypeOK

LEMMA ResendType ==
  ASSUME Typing, NEW s \in sends, NEW rest \in SUBSET wire, Resend(s, rest)
  PROVE  /\ \A r \in sends' : r \in [msg : Message, attempt : 0..MaxRetries]
         /\ IsFiniteSet(sends')
         /\ \A p \in wire' : p \in Copy
<1>1. /\ s \in [msg : Message, attempt : 0..MaxRetries]
      /\ s.attempt < MaxRetries /\ s.attempt + 1 \in 0..MaxRetries
  BY RetriesAssumption DEF Resend, CanRetry, Typing, TypeOK
<1>2. [s EXCEPT !.attempt = @ + 1] \in [msg : Message, attempt : 0..MaxRetries]
  BY <1>1
<1>3. [FirstCopy(s.msg) EXCEPT !.attempt = s.attempt + 1] \in Copy
  BY <1>1, NoRowType DEF FirstCopy, Copy
<1>4. IsFiniteSet(sends')
  BY FS_RemoveElement, FS_AddElement DEF Resend, Typing, Domains
<1>5. QED
  BY <1>2, <1>3, <1>4 DEF Resend, Typing, TypeOK

LEMMA ClientTypes ==
  ASSUME Typing, NEW s \in sends, ClientStep(s)
  PROVE  Typing'
<1>1. PICK rest \in SUBSET wire :
        \/ Resend(s, rest)
        \/ \E delivered \in BOOLEAN : Settle(s, delivered) /\ wire' = rest
  <2>1. ASSUME NEW p \in wire, Accepted(s, p) \/ Rejected(s, p) \/ TransientAnswer(s, p)
        PROVE  \/ Resend(s, wire \ {p})
               \/ \E delivered \in BOOLEAN : Settle(s, delivered) /\ wire' = wire \ {p}
    BY <2>1 DEF Accepted, Rejected, TransientAnswer
  <2>2. ASSUME TimedOut(s) \/ Disconnected(s)
        PROVE  Resend(s, wire) \/ \E delivered \in BOOLEAN : Settle(s, delivered) /\ wire' = wire
    BY <2>2 DEF TimedOut, Disconnected, NoAnswer
  <2>3. QED
    BY <2>1, <2>2 DEF ClientStep
<1>2. /\ UNCHANGED <<agentVars, serverVars, faults>>
      /\ timeouts' \in 0..MaxTimeouts
  <2>1. timeouts \in 0..MaxTimeouts
    BY DEF Typing, TypeOK
  <2>2. CASE TimedOut(s)
    BY <2>1, <2>2, BoundsAssumption DEF TimedOut
  <2>3. CASE Disconnected(s)
    BY <2>1, <2>3 DEF Disconnected
  <2>4. CASE \E p \in wire : Accepted(s, p) \/ Rejected(s, p) \/ TransientAnswer(s, p)
    BY <2>1, <2>4 DEF Accepted, Rejected, TransientAnswer
  <2>5. QED
    BY <2>2, <2>3, <2>4 DEF ClientStep
<1>3. CASE Resend(s, rest)
  <2>1. stats' = stats
    BY <1>3 DEF Resend
  <2>2. QED
    BY <1>2, <1>3, <2>1, ResendType, WireTypes DEF serverVars, Typing, TypeOK
<1>4. CASE \E delivered \in BOOLEAN : Settle(s, delivered) /\ wire' = rest
  BY <1>2, <1>4, SettleType, WireTypes DEF serverVars, Typing, TypeOK
<1>5. QED
  BY <1>1, <1>3, <1>4

\* An answer, or the next stage of a handler.
LEMMA AdvanceType ==
  ASSUME Typing, NEW p \in wire,
         NEW stage \in {"sent", "stored", "checked", "loaded"} \cup Answers,
         Advance(p, stage) \/ Answer(p, stage)
  PROVE  \A q \in wire' : q \in Copy
<1>1. p \in Copy /\ \A q \in wire : q \in Copy
  BY DEF Typing, TypeOK
<1>2. [p EXCEPT !.stage = stage] \in Copy
  BY <1>1 DEF Copy
<1>3. wire' \subseteq wire \cup {[p EXCEPT !.stage = stage]}
  BY DEF Advance, Answer
<1>4. QED
  BY <1>1, <1>2, <1>3

LEMMA ServerTypes ==
  ASSUME Typing, Known, NEW p \in wire, Handler(p) \/ ServerError(p) \/ Lose(p)
  PROVE  Typing'
<1> DEFINE c == p.msg.ctx
<1>1. p \in Copy /\ p.msg \in Message /\ c \in Context
  BY DEF Typing, TypeOK, Copy, Message
<1>2. row[c] \in [status : {"none", "running", "done"}, calls : 0..MaxEvents]
  BY <1>1 DEF Typing, TypeOK
<1>3. UNCHANGED <<agentVars, sends, stats, timeouts>>
  BY DEF Handler, CreateSession, StoreEvent, PublishEvent, CheckUpdate, LoadRow, CommitUpdate,
         ServerError, Lose
<1>4. \A q \in wire' : q \in Copy
  <2>1. CASE LoadRow(p)
    BY <1>1, <1>2, <2>1 DEF LoadRow, Copy, Typing, TypeOK
  <2>2. CASE Lose(p)
    BY <2>2 DEF Lose, Typing, TypeOK
  <2>3. CASE ~LoadRow(p) /\ ~Lose(p)
    BY <2>3, AdvanceType DEF Handler, CreateSession, StoreEvent, PublishEvent, CheckUpdate,
       CommitUpdate, ServerError, Answers
  <2>4. QED
    BY <2>1, <2>2, <2>3
<1>5. row' \in [Context -> [status : {"none", "running", "done"}, calls : 0..MaxEvents]]
  <2>1. CASE CreateSession(p)
    <3>1. [status |-> "running", calls |-> 0] \in [status : {"none", "running", "done"}, calls : 0..MaxEvents]
      BY BoundsAssumption
    <3>2. QED
      BY <2>1, <3>1 DEF CreateSession, Typing, TypeOK
  <2>2. CASE CommitUpdate(p)
    <3>1. [status |-> IF p.msg.status # p.seen.status THEN p.msg.status ELSE row[c].status,
           calls  |-> IF p.msg.calls # p.seen.calls THEN p.msg.calls ELSE row[c].calls]
            \in [status : {"none", "running", "done"}, calls : 0..MaxEvents]
      BY <1>1, <1>2 DEF Copy, Message
    <3>2. QED
      BY <2>2, <3>1 DEF CommitUpdate, Typing, TypeOK
  <2>3. CASE ~CreateSession(p) /\ ~CommitUpdate(p)
    BY <2>3 DEF Handler, StoreEvent, PublishEvent, CheckUpdate, LoadRow, ServerError, Lose,
       serverVars, Typing, TypeOK
  <2>4. QED
    BY <2>1, <2>2, <2>3
<1>6. faults' \in 0..MaxFaults
  BY BoundsAssumption DEF Handler, CreateSession, StoreEvent, PublishEvent, CheckUpdate, LoadRow,
     CommitUpdate, ServerError, Lose, Typing, TypeOK
<1>7. CASE UNCHANGED <<stored, published>>
  BY <1>3, <1>4, <1>5, <1>6, <1>7, WireTypes DEF Typing, TypeOK, Domains
<1>8. CASE StoreEvent(p) /\ ~UNCHANGED stored
  <2>1. /\ p.msg.kind = "event" /\ stored' = [stored EXCEPT ![c] = @ \cup {p.msg.id}]
        /\ UNCHANGED <<row, published, faults>>
    BY <1>8 DEF StoreEvent
  <2>2. p.msg.id \in DOMAIN emitted[c] /\ p.msg.id \in Nat /\ emitted' = emitted
    BY <1>1, <1>3, <2>1 DEF Known, Message, agentVars
  <2>3. stored' \in [Context -> SUBSET Nat]
    BY <1>1, <2>1, <2>2 DEF Typing, Domains
  <2>4. \A d \in Context : stored'[d] \subseteq DOMAIN emitted'[d]
    BY <1>1, <2>1, <2>2 DEF Typing, TypeOK, Domains
  <2>5. TypeOK'
    BY <1>3, <1>4, <2>1, <2>4 DEF agentVars, Typing, TypeOK
  <2>6. QED
    BY <1>3, <2>1, <2>3, <2>5 DEF agentVars, Typing, Domains, Lengths
<1>9. CASE PublishEvent(p)
  <2>1. /\ published' = [published EXCEPT ![c] = Append(@, p.msg.id)]
        /\ UNCHANGED <<row, stored, faults>>
    BY <1>9 DEF PublishEvent
  <2>2. Append(published[c], p.msg.id) \in Seq(Nat)
    BY <1>1, AppendProperties DEF Typing, Domains, Message
  <2>3. published' \in [Context -> Seq(Nat)]
    BY <2>1, <2>2 DEF Typing, Domains
  <2>4. TypeOK'
    BY <1>3, <1>4, <2>1 DEF agentVars, Typing, TypeOK
  <2>5. QED
    BY <1>3, <2>1, <2>3, <2>4 DEF agentVars, Typing, Domains, Lengths
<1>10. UNCHANGED <<stored, published>> \/ (StoreEvent(p) /\ ~UNCHANGED stored) \/ PublishEvent(p)
  BY DEF Handler, CreateSession, StoreEvent, CheckUpdate, LoadRow, CommitUpdate, ServerError,
         Lose, serverVars
<1>11. QED
  BY <1>7, <1>8, <1>9, <1>10

-----------------------------------------------------------------------------
(* Lemmas on what the invariant counts *)

LEMMA Counts ==
  ASSUME NEW S, IsFiniteSet(S), NEW T \in SUBSET S
  PROVE  /\ IsFiniteSet(T) /\ Cardinality(T) \in Nat /\ Cardinality(S) \in Nat
         /\ Cardinality(T) <= Cardinality(S)
BY FS_Subset, FS_CardinalityType

LEMMA AddOne ==
  ASSUME NEW S, IsFiniteSet(S), NEW x
  PROVE  /\ IsFiniteSet(S \cup {x}) /\ Cardinality(S) \in Nat /\ Cardinality(S \cup {x}) \in Nat
         /\ Cardinality(S \cup {x}) <= Cardinality(S) + 1
         /\ x \notin S => Cardinality(S \cup {x}) = Cardinality(S) + 1
<1>1. /\ IsFiniteSet(S \cup {x})
      /\ Cardinality(S \cup {x}) = IF x \in S THEN Cardinality(S) ELSE Cardinality(S) + 1
      /\ Cardinality(S) \in Nat
  BY FS_AddElement, FS_CardinalityType
<1>2. QED
  BY <1>1

LEMMA StoredFinite ==
  ASSUME NEW log \in Seq(Entry), NEW S \in SUBSET DOMAIN log
  PROVE  IsFiniteSet(S)
<1>1. Len(log) \in Nat /\ DOMAIN log = 1..Len(log)
  BY LogType
<1>2. IsFiniteSet(DOMAIN log)
  BY <1>1, FS_Interval
<1>3. QED
  BY <1>2, FS_Subset

\* The shapes of what is awaited, in flight and counted.
LEMMA Shapes ==
  ASSUME Typing
  PROVE  /\ \A s \in sends : s.msg.ctx \in Context /\ s.msg.id \in Nat
         /\ \A p \in wire : p.msg.ctx \in Context /\ p.msg.id \in Nat /\ p \in Copy
         /\ \A c \in Context :
              /\ emitted[c] \in Seq(Entry) /\ Len(emitted[c]) \in Nat
              /\ DOMAIN emitted[c] = 1..Len(emitted[c])
              /\ stored[c] \in SUBSET DOMAIN emitted[c] /\ IsFiniteSet(stored[c])
              /\ stats[c].eventsAccepted \in Nat /\ stats[c].sessionsAccepted \in Nat
              /\ IsFiniteSet(SessionSends(c)) /\ Cardinality(SessionSends(c)) \in Nat
<1>1. \A c \in Context : emitted[c] \in Seq(Entry) /\ stored[c] \in SUBSET DOMAIN emitted[c]
  BY DEF Typing, TypeOK, Domains
<1>2. \A c \in Context : /\ Len(emitted[c]) \in Nat /\ DOMAIN emitted[c] = 1..Len(emitted[c])
                         /\ IsFiniteSet(stored[c])
  BY <1>1, LogType, StoredFinite
<1>3. \A c \in Context : stats[c].eventsAccepted \in Nat /\ stats[c].sessionsAccepted \in Nat
  BY DEF NoStats, Typing, TypeOK
<1>4. \A c \in Context : IsFiniteSet(SessionSends(c)) /\ Cardinality(SessionSends(c)) \in Nat
  BY Counts DEF SessionSends, Typing, Domains
<1>5. \A s \in sends : s.msg.ctx \in Context /\ s.msg.id \in Nat
  BY DEF Typing, TypeOK, Message
<1>6. \A p \in wire : p.msg.ctx \in Context /\ p.msg.id \in Nat /\ p \in Copy
  BY DEF Typing, TypeOK, Copy, Message
<1>7. QED
  BY <1>1, <1>2, <1>3, <1>4, <1>5, <1>6

\* A request that is issued, and its copy.
LEMMA IssuedShapes ==
  ASSUME NEW a, NEW b, Issued(a, b)
  PROVE  /\ \A s \in sends' : s \in sends \/ s.msg = a \/ s.msg = b
         /\ \A s \in sends' : s \notin sends => s = [msg |-> s.msg, attempt |-> 0]
         /\ sends \subseteq sends'
         /\ \A p \in wire' : p \in wire \/ ((p.msg = a \/ p.msg = b) /\ p.stage = "sent")
BY DEF Issued, FirstCopy

\* New copies that are not of handled events leave what is said of copies.
LEMMA CopiesKeep ==
  ASSUME HandledIsStored, Unpublished, UNCHANGED <<stored, published>>,
         \A p \in wire' : p \in wire \/ p.msg.kind # "event" \/ p.stage \notin {"stored", "ok"}
  PROVE  HandledIsStored' /\ Unpublished'
BY DEF HandledIsStored, Unpublished

-----------------------------------------------------------------------------
(* The agent *)

LEMMA EmitKeeps ==
  ASSUME IInv, NEW t \in Task, NEW c \in Context,
         EmitStart(t, c) \/ Record(t, c) \/ EmitEnd(t, c)
  PROVE  IInv'
<1>1. /\ Typing'
      /\ \A d \in Context : d # c => emitted'[d] = emitted[d]
      /\ Len(emitted'[c]) = Len(emitted[c]) + 1
  BY EmitTypes DEF IInv
<1>2. PICK a \in Message, b \in Message :
        /\ Issued(a, b)
        /\ a.kind = "event" /\ a.ctx = c /\ a.id = Len(emitted[c]) + 1
        /\ b.kind = "update" /\ b.ctx = c
  BY EmitTypes DEF IInv
<1>3. /\ \A s \in sends' : s \in sends \/ s.msg = a \/ s.msg = b
      /\ \A s \in sends' : s \notin sends => s = [msg |-> s.msg, attempt |-> 0]
      /\ sends \subseteq sends'
      /\ \A p \in wire' : p \in wire \/ ((p.msg = a \/ p.msg = b) /\ p.stage = "sent")
  BY <1>2, IssuedShapes
<1>4. /\ \A s \in sends : s.msg.ctx \in Context /\ s.msg.id \in Nat
      /\ \A p \in wire : p.msg.ctx \in Context /\ p.msg.id \in Nat
      /\ \A d \in Context :
           /\ Len(emitted[d]) \in Nat /\ DOMAIN emitted[d] = 1..Len(emitted[d])
           /\ stored[d] \in SUBSET DOMAIN emitted[d]
           /\ stats[d].sessionsAccepted \in Nat
           /\ IsFiniteSet(SessionSends(d)) /\ Cardinality(SessionSends(d)) \in Nat
  BY Shapes DEF IInv
<1>5. /\ UNCHANGED <<stats, summary, stored, published>>
      /\ \A d \in Context : d # c => phase'[d] = phase[d]
      /\ phase[c] \notin {"new", "closed"} /\ phase'[c] \notin {"new", "closed"}
      /\ phase[c] \in {"updating"} <=> phase'[c] \in {"updating"}
  BY DEF EmitStart, Record, EmitEnd, serverVars, IInv, Typing, TypeOK
<1>6. /\ DOMAIN emitted'[c] = 1..(Len(emitted[c]) + 1)
      /\ \A d \in Context : DOMAIN emitted[d] \subseteq DOMAIN emitted'[d]
      /\ Len(emitted[c]) + 1 \notin DOMAIN emitted[c]
      /\ Len(emitted[c]) + 1 \in DOMAIN emitted'[c]
  <2>1. DOMAIN emitted'[c] = 1..Len(emitted'[c])
    BY <1>1, LenProperties DEF Typing, Domains
  <2>2. \A n \in Nat : n + 1 \notin 1..n /\ n + 1 \in 1..(n + 1) /\ 1..n \subseteq 1..(n + 1)
    OBVIOUS
  <2>3. QED
    BY <1>1, <1>4, <2>1, <2>2
<1>7. Known'
  BY <1>2, <1>3, <1>4, <1>6 DEF IInv, Known
<1>8. Unique'
  <2>1. \A s \in sends : s.msg.kind = "event" /\ s.msg.ctx = c => s.msg.id # Len(emitted[c]) + 1
    BY <1>6 DEF IInv, Known
  <2>2. \A s \in sends' : s.msg.kind = "event" =>
          s \in sends \/ (s.msg = a /\ s = [msg |-> a, attempt |-> 0])
    BY <1>2, <1>3
  <2>3. QED
    BY <1>2, <2>1, <2>2 DEF IInv, Unique
<1>9. HandledIsStored' /\ Unpublished'
  BY <1>3, <1>5, CopiesKeep DEF IInv
<1>10. StreamedOnceAfterStored'
  BY <1>5 DEF IInv, StreamedOnceAfterStored
<1>11. CountedIsStored'
  <2>1. ASSUME NEW d \in Context
        PROVE  stored'[d] \ Awaited(d)' = stored[d] \ Awaited(d)
    <3>1. \A n \in Awaited(d)' : n \in Awaited(d) \/ (d = c /\ n = Len(emitted[c]) + 1)
      BY <1>2, <1>3 DEF Awaited
    <3>2. Awaited(d) \subseteq Awaited(d)'
      BY <1>3 DEF Awaited
    <3>3. QED
      BY <1>4, <1>5, <1>6, <3>1, <3>2
  <2>2. QED
    BY <1>5, <2>1 DEF IInv, CountedIsStored
<1>12. SessionsAsked'
  <2>1. ASSUME NEW d \in Context
        PROVE  stats'[d].sessionsAccepted + Cardinality(SessionSends(d)') <= Asked(d)'
    <3>1. CASE d = c
      <4>1. SessionSends(c)' \in SUBSET (SessionSends(c) \cup {[msg |-> b, attempt |-> 0]})
        BY <1>2, <1>3 DEF SessionSends
      <4>2. /\ Cardinality(SessionSends(c)') \in Nat
            /\ Cardinality(SessionSends(c)') <= Cardinality(SessionSends(c)) + 1
        <5>1. PICK S, T, x : S = SessionSends(c) /\ T = SessionSends(c)' /\ x = [msg |-> b, attempt |-> 0]
          OBVIOUS
        <5>2. /\ IsFiniteSet(S \cup {x}) /\ Cardinality(S) \in Nat
              /\ Cardinality(S \cup {x}) \in Nat /\ Cardinality(S \cup {x}) <= Cardinality(S) + 1
          BY <1>4, <5>1, AddOne
        <5>3. /\ Cardinality(T) \in Nat
              /\ Cardinality(T) <= Cardinality(S \cup {x})
          BY <4>1, <5>1, <5>2, Counts
        <5>4. QED
          BY <5>1, <5>2, <5>3
      <4>3. Asked(c)' = Asked(c) + 1 /\ Asked(c) \in Nat
        <5>1. Begun(c)' = Begun(c) /\ Over(c)' = Over(c) /\ Begun(c) \in Nat /\ Over(c) \in Nat
          BY <1>5 DEF Begun, Over
        <5>2. \A x, y, z \in Nat : x + (y + 1) + z = (x + y + z) + 1 /\ x + y + z \in Nat
          OBVIOUS
        <5>3. QED
          BY <1>1, <1>4, <5>1, <5>2 DEF Asked
      <4>4. stats[c].sessionsAccepted + Cardinality(SessionSends(c)) <= Asked(c)
        BY DEF IInv, SessionsAsked
      <4>5. \A x, y, v, z \in Nat : x + y <= z /\ v <= y + 1 => x + v <= z + 1
        OBVIOUS
      <4>6. QED
        BY <1>4, <1>5, <3>1, <4>2, <4>3, <4>4, <4>5
    <3>2. CASE d # c
      <4>1. SessionSends(d)' = SessionSends(d)
        BY <1>2, <1>3, <3>2 DEF SessionSends
      <4>2. Asked(d)' = Asked(d)
        BY <1>1, <1>5, <3>2 DEF Asked, Begun, Over
      <4>3. QED
        BY <1>5, <4>1, <4>2 DEF IInv, SessionsAsked
    <3>3. QED
      BY <3>1, <3>2
  <2>2. QED
    BY <2>1 DEF SessionsAsked
<1>13. SummaryKept'
  BY <1>1, <1>5 DEF IInv, SummaryKept
<1>14. QED
  BY <1>1, <1>7, <1>8, <1>9, <1>10, <1>11, <1>12, <1>13 DEF IInv

\* Entering and leaving: one request about the session.
LEMMA IssueKeeps ==
  ASSUME IInv, NEW t \in Task, NEW c \in Context, Enter(t, c) \/ FinalUpdate(t, c)
  PROVE  IInv'
<1>1. Typing' /\ UNCHANGED <<emitted, stats, summary, stored, published>>
  BY EnterTypes, FinalUpdateTypes DEF Enter, FinalUpdate, serverVars, IInv
<1>2. PICK a \in Message : Issued(a, a) /\ a.kind # "event" /\ a.ctx = c
  BY EnterTypes, FinalUpdateTypes DEF IInv
<1>3. /\ \A s \in sends' : s \in sends \/ s.msg = a
      /\ \A s \in sends' : s \notin sends => s = [msg |-> s.msg, attempt |-> 0]
      /\ sends \subseteq sends'
      /\ \A p \in wire' : p \in wire \/ (p.msg = a /\ p.stage = "sent")
  BY <1>2, IssuedShapes
<1>4. /\ \A s \in sends' : s.msg.kind = "event" => s \in sends
      /\ \A p \in wire' : p.msg.kind = "event" => p \in wire
  BY <1>2, <1>3
<1>5. \A d \in Context :
        /\ Len(emitted[d]) \in Nat /\ stats[d].sessionsAccepted \in Nat
        /\ IsFiniteSet(SessionSends(d)) /\ Cardinality(SessionSends(d)) \in Nat
  BY Shapes DEF IInv
<1>6. /\ \A d \in Context : d # c => phase'[d] = phase[d]
      /\ phase[c] # "closed" /\ phase'[c] # "closed"
      /\ \/ phase[c] = "new" /\ phase'[c] = "starting"
         \/ phase[c] = "ending" /\ phase'[c] = "updating"
  BY DEF Enter, FinalUpdate, IInv, Typing, TypeOK
<1>7. Known' /\ Unique'
  BY <1>1, <1>4 DEF IInv, Known, Unique
<1>8. HandledIsStored' /\ Unpublished'
  BY <1>1, <1>4, CopiesKeep DEF IInv
<1>9. StreamedOnceAfterStored'
  BY <1>1 DEF IInv, StreamedOnceAfterStored
<1>10. CountedIsStored'
  <2>1. \A d \in Context : Awaited(d)' = Awaited(d)
    BY <1>3, <1>4 DEF Awaited
  <2>2. QED
    BY <1>1, <2>1 DEF IInv, CountedIsStored
<1>11. SessionsAsked'
  <2>1. ASSUME NEW d \in Context
        PROVE  stats'[d].sessionsAccepted + Cardinality(SessionSends(d)') <= Asked(d)'
    <3>1. CASE d = c
      <4>1. SessionSends(c)' \in SUBSET (SessionSends(c) \cup {[msg |-> a, attempt |-> 0]})
        BY <1>3 DEF SessionSends
      <4>2. PICK S, T, x : S = SessionSends(c) /\ T = SessionSends(c)' /\ x = [msg |-> a, attempt |-> 0]
        OBVIOUS
      <4>3. /\ IsFiniteSet(S \cup {x}) /\ Cardinality(S) \in Nat
            /\ Cardinality(S \cup {x}) \in Nat /\ Cardinality(S \cup {x}) <= Cardinality(S) + 1
        BY <1>5, <4>2, AddOne
      <4>4. Cardinality(T) \in Nat /\ Cardinality(T) <= Cardinality(S \cup {x})
        BY <4>1, <4>2, <4>3, Counts
      <4>5. Asked(c)' = Asked(c) + 1 /\ Asked(c) \in Nat
        <5>1. /\ Begun(c) \in Nat /\ Over(c) \in Nat /\ Begun(c)' \in Nat /\ Over(c)' \in Nat
              /\ \/ Begun(c)' = Begun(c) + 1 /\ Over(c)' = Over(c)
                 \/ Begun(c)' = Begun(c) /\ Over(c)' = Over(c) + 1
          BY <1>6 DEF Begun, Over
        <5>2. \A n, l, m, n2, m2 \in Nat :
                (n2 = n + 1 /\ m2 = m) \/ (n2 = n /\ m2 = m + 1)
                  => n2 + l + m2 = (n + l + m) + 1 /\ n + l + m \in Nat
          OBVIOUS
        <5>3. Asked(c)' = Begun(c)' + Len(emitted[c]) + Over(c)'
          BY <1>1 DEF Asked
        <5>4. Asked(c) = Begun(c) + Len(emitted[c]) + Over(c)
          BY DEF Asked
        <5>5. PICK n, l, m, n2, m2, z, z2 :
                /\ n = Begun(c) /\ l = Len(emitted[c]) /\ m = Over(c)
                /\ n2 = Begun(c)' /\ m2 = Over(c)' /\ z = Asked(c) /\ z2 = Asked(c)'
          OBVIOUS
        <5>6. z2 = n2 + l + m2 /\ z = n + l + m
          BY <5>3, <5>4, <5>5
        <5>7. /\ n \in Nat /\ l \in Nat /\ m \in Nat /\ n2 \in Nat /\ m2 \in Nat
              /\ (n2 = n + 1 /\ m2 = m) \/ (n2 = n /\ m2 = m + 1)
          BY <1>5, <5>1, <5>5
        <5>8. z2 = z + 1 /\ z \in Nat
          BY <5>2, <5>6, <5>7
        <5>9. QED
          BY <5>5, <5>8
      <4>6. stats[c].sessionsAccepted + Cardinality(S) <= Asked(c)
        BY <4>2 DEF IInv, SessionsAsked
      <4>7. \A y, w, v, z, n \in Nat : n + y <= z /\ w <= y + 1 /\ v <= w => n + v <= z + 1
        OBVIOUS
      <4>8. QED
        BY <1>1, <1>5, <3>1, <4>2, <4>3, <4>4, <4>5, <4>6, <4>7
    <3>2. CASE d # c
      <4>1. SessionSends(d)' = SessionSends(d)
        BY <1>2, <1>3, <3>2 DEF SessionSends
      <4>2. Asked(d)' = Asked(d)
        BY <1>1, <1>6, <3>2 DEF Asked, Begun, Over
      <4>3. QED
        BY <1>1, <4>1, <4>2 DEF IInv, SessionsAsked
    <3>3. QED
      BY <3>1, <3>2
  <2>2. QED
    BY <2>1 DEF SessionsAsked
<1>12. SummaryKept'
  BY <1>1, <1>6 DEF IInv, SummaryKept
<1>13. QED
  BY <1>1, <1>7, <1>8, <1>9, <1>10, <1>11, <1>12 DEF IInv

\* Steps that send and answer nothing.
LEMMA QuietKeeps ==
  ASSUME IInv, Typing', SummaryKept', UNCHANGED <<emitted, sends, stats, stored, published>>,
         wire' \subseteq wire, \A c \in Context : Asked(c)' = Asked(c)
  PROVE  IInv'
<1>1. Known' /\ Unique' /\ HandledIsStored' /\ Unpublished' /\ StreamedOnceAfterStored'
  BY DEF IInv, Known, Unique, HandledIsStored, Unpublished, StreamedOnceAfterStored
<1>2. CountedIsStored'
  BY DEF IInv, CountedIsStored, Awaited
<1>3. SessionsAsked'
  BY DEF IInv, SessionsAsked, SessionSends
<1>4. QED
  BY <1>1, <1>2, <1>3 DEF IInv

\* __aexit__ keeps the counters as they are.
LEMMA CloseKeeps ==
  ASSUME IInv, NEW t \in Task, NEW c \in Context, Close(t, c)
  PROVE  IInv'
<1>1. Typing'
  BY CloseTypes DEF IInv
<1>2. /\ UNCHANGED <<emitted, sends, stats, stored, published, wire>>
      /\ summary'[c] = stats[c]
      /\ phase[c] = "updating" /\ phase'[c] = "closed"
      /\ \A d \in Context : d # c => summary'[d] = summary[d] /\ phase'[d] = phase[d]
  BY DEF Close, serverVars, IInv, Typing, TypeOK
<1>3. \A d \in Context : Asked(d)' = Asked(d)
  BY <1>2 DEF Asked, Begun, Over
<1>4. /\ Len(emitted[c]) \in Nat /\ IsFiniteSet(stored[c]) /\ stored[c] \ Awaited(c) \in SUBSET stored[c]
      /\ stats[c].eventsAccepted \in Nat /\ stats[c].sessionsAccepted \in Nat
      /\ Cardinality(SessionSends(c)) \in Nat
  BY Shapes DEF IInv
<1>5. stats[c].eventsAccepted <= Cardinality(stored[c])
  <2>1. /\ Cardinality(stored[c] \ Awaited(c)) \in Nat /\ Cardinality(stored[c]) \in Nat
        /\ Cardinality(stored[c] \ Awaited(c)) <= Cardinality(stored[c])
    BY <1>4, Counts
  <2>2. stats[c].eventsAccepted <= Cardinality(stored[c] \ Awaited(c))
    BY DEF IInv, CountedIsStored
  <2>3. \A x, y, z \in Nat : x <= y /\ y <= z => x <= z
    OBVIOUS
  <2>4. QED
    BY <1>4, <2>1, <2>2, <2>3
<1>6. stats[c].sessionsAccepted <= Len(emitted[c]) + 2
  <2>1. Begun(c) = 1 /\ Over(c) = 1
    BY <1>2 DEF Begun, Over
  <2>2. stats[c].sessionsAccepted + Cardinality(SessionSends(c)) <= 1 + Len(emitted[c]) + 1
    BY <2>1 DEF IInv, SessionsAsked, Asked
  <2>3. \A x, y, z \in Nat : x + y <= 1 + z + 1 => x <= z + 2
    OBVIOUS
  <2>4. QED
    BY <1>4, <2>2, <2>3
<1>7. SummaryKept'
  BY <1>2, <1>5, <1>6 DEF IInv, SummaryKept
<1>8. QED
  BY <1>1, <1>2, <1>3, <1>7, QuietKeeps

-----------------------------------------------------------------------------
(* The transport *)

\* A request that is sent again is the same request.
LEMMA ResendKeeps ==
  ASSUME IInv, Typing', NEW s \in sends, NEW rest \in SUBSET wire, Resend(s, rest),
         UNCHANGED <<agentVars, serverVars>>
  PROVE  IInv'
<1> DEFINE r == [s EXCEPT !.attempt = @ + 1]
<1>1. /\ sends' = (sends \ {s}) \cup {r} /\ stats' = stats
      /\ \A p \in wire' : p \in wire \/ (p.msg = s.msg /\ p.stage = "sent")
  BY DEF Resend, FirstCopy
<1>2. r.msg = s.msg
  BY DEF IInv, Typing, TypeOK
<1> HIDE DEF r
<1>3. UNCHANGED <<emitted, phase, summary, stored, published>>
  BY DEF agentVars, serverVars
<1>4. Known'
  BY <1>1, <1>2, <1>3 DEF IInv, Known
<1>5. Unique'
  BY <1>1, <1>2, <1>3 DEF IInv, Unique
<1>6. HandledIsStored' /\ Unpublished'
  BY <1>1, <1>3, CopiesKeep DEF IInv
<1>7. StreamedOnceAfterStored' /\ SummaryKept'
  BY <1>3 DEF IInv, StreamedOnceAfterStored, SummaryKept
<1>8. CountedIsStored'
  <2>1. \A c \in Context : Awaited(c)' = Awaited(c)
    BY <1>1, <1>2 DEF Awaited
  <2>2. QED
    BY <1>1, <1>3, <2>1 DEF IInv, CountedIsStored
<1>9. SessionsAsked'
  <2>1. ASSUME NEW c \in Context
        PROVE  stats'[c].sessionsAccepted + Cardinality(SessionSends(c)') <= Asked(c)'
    <3>1. /\ stats[c].sessionsAccepted \in Nat /\ Len(emitted[c]) \in Nat
          /\ IsFiniteSet(SessionSends(c)) /\ Cardinality(SessionSends(c)) \in Nat
      BY Shapes DEF IInv
    <3>2. Asked(c)' = Asked(c) /\ Asked(c) \in Nat
      <4>1. Asked(c)' = Asked(c) /\ Begun(c) \in Nat /\ Over(c) \in Nat
        BY <1>3 DEF Asked, Begun, Over
      <4>2. QED
        BY <3>1, <4>1 DEF Asked
    <3>3. CASE s \notin SessionSends(c)
      <4>1. SessionSends(c)' = SessionSends(c)
        BY <1>1, <1>2, <3>3 DEF SessionSends
      <4>2. QED
        BY <1>1, <3>2, <4>1 DEF IInv, SessionsAsked
    <3>4. CASE s \in SessionSends(c)
      <4>1. SessionSends(c)' \in SUBSET ((SessionSends(c) \ {s}) \cup {r})
        BY <1>1, <1>2, <3>4 DEF SessionSends
      <4>2. PICK S, T : S = SessionSends(c) /\ T = SessionSends(c)'
        OBVIOUS
      <4>3. /\ IsFiniteSet(S \ {s}) /\ Cardinality(S \ {s}) = Cardinality(S) - 1
        BY <3>1, <3>4, <4>2, FS_RemoveElement
      <4>4. /\ IsFiniteSet((S \ {s}) \cup {r}) /\ Cardinality((S \ {s}) \cup {r}) \in Nat
            /\ Cardinality((S \ {s}) \cup {r}) <= Cardinality(S)
        <5>1. /\ IsFiniteSet((S \ {s}) \cup {r}) /\ Cardinality((S \ {s}) \cup {r}) \in Nat
              /\ Cardinality((S \ {s}) \cup {r}) <= Cardinality(S \ {s}) + 1
          BY <4>3, AddOne
        <5>2. QED
          BY <3>1, <4>2, <4>3, <5>1
      <4>5. Cardinality(T) \in Nat /\ Cardinality(T) <= Cardinality((S \ {s}) \cup {r})
        BY <4>1, <4>2, <4>4, Counts
      <4>6. stats[c].sessionsAccepted + Cardinality(S) <= Asked(c)
        BY <4>2 DEF IInv, SessionsAsked
      <4>7. \A n, y, w, v, z \in Nat : n + y <= z /\ w <= y /\ v <= w => n + v <= z
        OBVIOUS
      <4>8. QED
        BY <1>1, <3>1, <3>2, <4>2, <4>4, <4>5, <4>6, <4>7
    <3>5. QED
      BY <3>3, <3>4
  <2>2. QED
    BY <2>1 DEF SessionsAsked
<1>10. QED
  BY <1>4, <1>5, <1>6, <1>7, <1>8, <1>9 DEF IInv

\* The counters of a context when a request of it is over.
LEMMA SettleCounts ==
  ASSUME Typing, NEW s \in sends, NEW d \in BOOLEAN, Settle(s, d), NEW c \in Context
  PROVE  /\ stats'[c].eventsAccepted = IF c = s.msg.ctx /\ s.msg.kind = "event" /\ d
                                         THEN stats[c].eventsAccepted + 1
                                         ELSE stats[c].eventsAccepted
         /\ stats'[c].sessionsAccepted = IF c = s.msg.ctx /\ s.msg.kind # "event" /\ d
                                           THEN stats[c].sessionsAccepted + 1
                                           ELSE stats[c].sessionsAccepted
<1>1. DOMAIN NoStats = {"eventsAccepted", "eventsFailed", "sessionsAccepted", "sessionsFailed"}
  BY DEF NoStats
<1>2. PICK K : K = DOMAIN NoStats
  OBVIOUS
<1>3. PICK k \in K : k = Counter(s.msg, d)
  BY <1>1, <1>2 DEF Counter
<1>4. PICK e \in Context : e = s.msg.ctx
  BY DEF Typing, TypeOK, Message
<1>5. stats \in [Context -> [K -> Nat]] /\ stats' = [stats EXCEPT ![e][k] = @ + 1]
  BY <1>2, <1>3, <1>4 DEF Settle, Typing, TypeOK
<1>6. \A f \in K : stats'[c][f] = IF c = e /\ f = k THEN stats[c][f] + 1 ELSE stats[c][f]
  BY <1>5
<1>7. /\ k = "eventsAccepted" <=> (s.msg.kind = "event" /\ d)
      /\ k = "sessionsAccepted" <=> (s.msg.kind # "event" /\ d)
  BY <1>3 DEF Counter
<1>8. "eventsAccepted" \in K /\ "sessionsAccepted" \in K
  BY <1>1, <1>2
<1>9. QED
  BY <1>4, <1>6, <1>7, <1>8

\* The end of a request: it is counted as accepted only with a copy answered so.
LEMMA SettleKeeps ==
  ASSUME IInv, Typing', NEW s \in sends, NEW d \in BOOLEAN, Settle(s, d),
         wire' \subseteq wire, UNCHANGED <<agentVars, serverVars>>,
         d => \E p \in wire : p.msg = s.msg /\ p.stage = "ok"
  PROVE  IInv'
<1>1. sends' = sends \ {s}
  BY DEF Settle
<1>2. UNCHANGED <<emitted, phase, summary, stored, published>>
  BY DEF agentVars, serverVars
<1>3. /\ Known' /\ Unique' /\ HandledIsStored' /\ Unpublished'
      /\ StreamedOnceAfterStored' /\ SummaryKept'
  BY <1>1, <1>2 DEF IInv, Known, Unique, HandledIsStored, Unpublished, StreamedOnceAfterStored, SummaryKept
<1>4. CountedIsStored'
  <2>1. ASSUME NEW c \in Context
        PROVE  stats'[c].eventsAccepted <= Cardinality(stored'[c] \ Awaited(c)')
    <3>1. /\ IsFiniteSet(stored[c]) /\ stats[c].eventsAccepted \in Nat
      BY Shapes DEF IInv
    <3>2. Awaited(c)' \subseteq Awaited(c)
      BY <1>1 DEF Awaited
    <3>3. PICK S, T : S = stored[c] \ Awaited(c) /\ T = stored[c] \ Awaited(c)'
      OBVIOUS
    <3>4. IsFiniteSet(S) /\ IsFiniteSet(T) /\ Cardinality(S) \in Nat /\ Cardinality(T) \in Nat
      <4>1. S \in SUBSET stored[c] /\ T \in SUBSET stored[c]
        BY <3>3
      <4>2. QED
        BY <3>1, <4>1, Counts
    <3>5. stats[c].eventsAccepted <= Cardinality(S)
      BY <3>3 DEF IInv, CountedIsStored
    <3>6. \A x, y, z \in Nat : (x <= y /\ y <= z => x <= z) /\ (x <= y /\ y + 1 <= z => x + 1 <= z)
      OBVIOUS
    <3>7. ASSUME c = s.msg.ctx, s.msg.kind = "event", d
          PROVE  stats'[c].eventsAccepted <= Cardinality(T)
      <4>1. PICK x : x = s.msg.id
        OBVIOUS
      <4>2. x \in stored[c] /\ x \in Awaited(c)
        BY <3>7, <4>1 DEF IInv, HandledIsStored, Awaited
      <4>3. x \notin Awaited(c)'
        BY <1>1, <3>7, <4>1 DEF IInv, Unique, Awaited
      <4>4. x \notin S /\ S \cup {x} \in SUBSET T
        BY <3>2, <3>3, <4>2, <4>3
      <4>5. Cardinality(S \cup {x}) = Cardinality(S) + 1
        BY <3>4, <4>4, AddOne
      <4>6. Cardinality(S) + 1 <= Cardinality(T)
        BY <3>4, <4>4, <4>5, Counts
      <4>7. stats'[c].eventsAccepted = stats[c].eventsAccepted + 1
        BY <3>7, SettleCounts DEF IInv
      <4>8. QED
        BY <3>1, <3>4, <3>5, <3>6, <4>6, <4>7
    <3>8. ASSUME ~(c = s.msg.ctx /\ s.msg.kind = "event" /\ d)
          PROVE  stats'[c].eventsAccepted <= Cardinality(T)
      <4>1. stats'[c].eventsAccepted = stats[c].eventsAccepted
        BY <3>8, SettleCounts DEF IInv
      <4>2. S \in SUBSET T
        BY <3>2, <3>3
      <4>3. Cardinality(S) <= Cardinality(T)
        BY <3>4, <4>2, Counts
      <4>4. QED
        BY <3>1, <3>4, <3>5, <3>6, <4>1, <4>3
    <3>9. QED
      BY <1>2, <3>3, <3>7, <3>8
  <2>2. QED
    BY <2>1 DEF CountedIsStored
<1>5. SessionsAsked'
  <2>1. ASSUME NEW c \in Context
        PROVE  stats'[c].sessionsAccepted + Cardinality(SessionSends(c)') <= Asked(c)'
    <3>1. /\ stats[c].sessionsAccepted \in Nat /\ Len(emitted[c]) \in Nat
          /\ IsFiniteSet(SessionSends(c)) /\ Cardinality(SessionSends(c)) \in Nat
      BY Shapes DEF IInv
    <3>2. Asked(c)' = Asked(c) /\ Asked(c) \in Nat
      <4>1. Asked(c)' = Asked(c) /\ Begun(c) \in Nat /\ Over(c) \in Nat
        BY <1>2 DEF Asked, Begun, Over
      <4>2. QED
        BY <3>1, <4>1 DEF Asked
    <3>3. CASE s \notin SessionSends(c)
      <4>1. SessionSends(c)' = SessionSends(c)
        BY <1>1, <3>3 DEF SessionSends
      <4>2. stats'[c].sessionsAccepted = stats[c].sessionsAccepted
        BY <3>3, SettleCounts DEF IInv, SessionSends
      <4>3. QED
        BY <3>2, <4>1, <4>2 DEF IInv, SessionsAsked
    <3>4. CASE s \in SessionSends(c)
      <4>1. PICK S : S = SessionSends(c)
        OBVIOUS
      <4>2. SessionSends(c)' = S \ {s}
        BY <1>1, <4>1 DEF SessionSends
      <4>3. Cardinality(S \ {s}) = Cardinality(S) - 1
        BY <3>1, <3>4, <4>1, FS_RemoveElement
      <4>4. \/ stats'[c].sessionsAccepted = stats[c].sessionsAccepted + 1
            \/ stats'[c].sessionsAccepted = stats[c].sessionsAccepted
        BY SettleCounts DEF IInv
      <4>5. stats[c].sessionsAccepted + Cardinality(S) <= Asked(c)
        BY <4>1 DEF IInv, SessionsAsked
      <4>6. \A n, n2, y, z \in Nat : n + y <= z /\ (n2 = n + 1 \/ n2 = n) => n2 + (y - 1) <= z
        OBVIOUS
      <4>7. Cardinality(S) \in Nat /\ stats'[c].sessionsAccepted \in Nat
        BY <3>1, <4>1, <4>4
      <4>8. stats'[c].sessionsAccepted + (Cardinality(S) - 1) <= Asked(c)
        BY <3>1, <3>2, <4>4, <4>5, <4>6, <4>7
      <4>9. QED
        BY <3>2, <4>2, <4>3, <4>8
    <3>5. QED
      BY <3>3, <3>4
  <2>2. QED
    BY <2>1 DEF SessionsAsked
<1>6. QED
  BY <1>3, <1>4, <1>5 DEF IInv

LEMMA ClientKeeps ==
  ASSUME IInv, NEW s \in sends, ClientStep(s)
  PROVE  IInv'
<1>1. Typing'
  BY ClientTypes DEF IInv
<1>2. UNCHANGED <<agentVars, serverVars>>
  BY DEF ClientStep, Accepted, Rejected, TransientAnswer, TimedOut, Disconnected
<1>3. ASSUME NEW p \in wire, Accepted(s, p)
      PROVE  IInv'
  <2>1. Settle(s, TRUE) /\ wire' \subseteq wire /\ p.msg = s.msg /\ p.stage = "ok"
    BY <1>3 DEF Accepted, Answered, CopyOf
  <2>2. QED
    BY <1>1, <1>2, <2>1, SettleKeeps
<1>4. ASSUME NEW p \in wire, Rejected(s, p)
      PROVE  IInv'
  BY <1>1, <1>2, <1>4, SettleKeeps DEF Rejected
<1>5. ASSUME NEW p \in wire, TransientAnswer(s, p)
      PROVE  IInv'
  <2>1. CASE Resend(s, wire \ {p})
    <3>1. wire \ {p} \in SUBSET wire
      OBVIOUS
    <3>2. QED
      BY <1>1, <1>2, <2>1, <3>1, ResendKeeps
  <2>2. CASE Settle(s, FALSE) /\ wire' = wire \ {p}
    BY <1>1, <1>2, <2>2, SettleKeeps
  <2>3. QED
    BY <1>5, <2>1, <2>2 DEF TransientAnswer
<1>6. ASSUME NoAnswer(s)
      PROVE  IInv'
  <2>1. CASE Resend(s, wire)
    BY <1>1, <1>2, <2>1, ResendKeeps
  <2>2. CASE Settle(s, FALSE) /\ UNCHANGED wire
    BY <1>1, <1>2, <2>2, SettleKeeps
  <2>3. QED
    BY <1>6, <2>1, <2>2 DEF NoAnswer
<1>7. QED
  BY <1>3, <1>4, <1>5, <1>6 DEF ClientStep, TimedOut, Disconnected

-----------------------------------------------------------------------------
(* The collector *)

\* The steps of a handler that neither commit an event nor publish one.
LEMMA PlainKeeps ==
  ASSUME IInv, Typing', UNCHANGED <<agentVars, sends, stats, stored, published>>,
         \A q \in wire' : \/ q \in wire
                          \/ /\ \E p \in wire : q.msg = p.msg
                             /\ q.msg.kind # "event" \/ q.stage \notin {"stored", "ok"}
  PROVE  IInv'
<1>1. UNCHANGED <<emitted, phase, summary>>
  BY DEF agentVars
<1>2. Known' /\ Unique'
  BY <1>1 DEF IInv, Known, Unique
<1>3. HandledIsStored' /\ Unpublished'
  BY CopiesKeep DEF IInv
<1>4. CountedIsStored'
  BY DEF IInv, CountedIsStored, Awaited
<1>5. SessionsAsked' /\ StreamedOnceAfterStored' /\ SummaryKept'
  BY <1>1 DEF IInv, SessionsAsked, Asked, Begun, Over, SessionSends, StreamedOnceAfterStored, SummaryKept
<1>6. QED
  BY <1>2, <1>3, <1>4, <1>5 DEF IInv

\* The commit of an event that was not stored.
LEMMA StoreKeeps ==
  ASSUME IInv, Typing', NEW p \in wire, StoreEvent(p), p.msg.id \notin stored[p.msg.ctx],
         Advance(p, "stored"), stored' = [stored EXCEPT ![p.msg.ctx] = @ \cup {p.msg.id}]
  PROVE  IInv'
<1>1. PICK c \in Context : c = p.msg.ctx
  BY Shapes DEF IInv
<1>2. PICK x : x = p.msg.id
  OBVIOUS
<1>3. PICK n : n = [p EXCEPT !.stage = "stored"]
  OBVIOUS
<1>4. /\ UNCHANGED <<emitted, phase, summary, sends, stats, published>>
      /\ p.msg.kind = "event"
  BY DEF StoreEvent, agentVars
<1>5. n.msg = p.msg /\ n.stage = "stored"
  BY <1>3, Shapes DEF IInv, Copy
<1>6. \A q \in wire' : q \in wire \/ q = n
  BY <1>3 DEF Advance
<1>7. /\ stored'[c] = stored[c] \cup {x} /\ x \notin stored[c]
      /\ \A d \in Context : stored[d] \subseteq stored'[d]
      /\ \A d \in Context : d # c => stored'[d] = stored[d]
  BY <1>1, <1>2 DEF IInv, Typing, Domains
<1>8. Known' /\ Unique'
  BY <1>4, <1>5, <1>6 DEF IInv, Known, Unique
<1>9. \A q \in wire : q.msg.ctx \in Context
  BY Shapes DEF IInv
<1>10. HandledIsStored'
  BY <1>1, <1>2, <1>5, <1>6, <1>7, <1>9 DEF IInv, HandledIsStored
<1>11. \A q \in wire : q.msg.kind = "event" /\ q.stage = "stored" /\ q.msg.ctx = c => q.msg.id # x
  BY <1>7 DEF IInv, HandledIsStored
<1>12. x \notin ToSet(published[c])
  BY <1>7 DEF IInv, StreamedOnceAfterStored
<1>13. Unpublished'
  BY <1>1, <1>2, <1>4, <1>5, <1>6, <1>11, <1>12 DEF IInv, Unpublished
<1>14. StreamedOnceAfterStored'
  BY <1>4, <1>7 DEF IInv, StreamedOnceAfterStored
<1>15. \A d \in Context : /\ IsFiniteSet(stored'[d]) /\ Cardinality(stored'[d]) \in Nat
                          /\ Cardinality(stored[d]) \in Nat
                          /\ Cardinality(stored[d]) <= Cardinality(stored'[d])
  <2>1. ASSUME NEW d \in Context
        PROVE  /\ IsFiniteSet(stored'[d]) /\ Cardinality(stored'[d]) \in Nat
               /\ Cardinality(stored[d]) \in Nat
               /\ Cardinality(stored[d]) <= Cardinality(stored'[d])
    <3>1. PICK S, T : S = stored[d] /\ T = stored'[d]
      OBVIOUS
    <3>2. IsFiniteSet(S) /\ S \in SUBSET T
      BY <1>7, <3>1, Shapes DEF IInv
    <3>3. IsFiniteSet(T)
      <4>1. T \subseteq S \cup {x}
        BY <1>7, <3>1
      <4>2. QED
        BY <3>2, <4>1, AddOne, FS_Subset
    <3>4. QED
      BY <3>1, <3>2, <3>3, Counts
  <2>2. QED
    BY <2>1
<1>16. CountedIsStored'
  <2>1. ASSUME NEW d \in Context
        PROVE  stats'[d].eventsAccepted <= Cardinality(stored'[d] \ Awaited(d)')
    <3>1. PICK S, T : S = stored[d] \ Awaited(d) /\ T = stored'[d] \ Awaited(d)'
      OBVIOUS
    <3>2. Awaited(d)' = Awaited(d)
      BY <1>4 DEF Awaited
    <3>3. S \in SUBSET T /\ T \in SUBSET stored'[d]
      BY <1>7, <3>1, <3>2
    <3>4. IsFiniteSet(T)
      BY <1>15, <3>3, FS_Subset
    <3>5. /\ Cardinality(S) \in Nat /\ Cardinality(T) \in Nat
          /\ Cardinality(S) <= Cardinality(T)
      BY <3>3, <3>4, Counts
    <3>6. stats[d].eventsAccepted <= Cardinality(S) /\ stats[d].eventsAccepted \in Nat
      BY <3>1, Shapes DEF IInv, CountedIsStored
    <3>7. QED
      BY <1>4, <3>1, <3>5, <3>6
  <2>2. QED
    BY <2>1 DEF CountedIsStored
<1>17. SessionsAsked'
  BY <1>4 DEF IInv, SessionsAsked, Asked, Begun, Over, SessionSends
<1>18. SummaryKept'
  <2>1. ASSUME NEW d \in Context, phase[d] = "closed"
        PROVE  summary[d].eventsAccepted <= Cardinality(stored'[d])
    <3>1. summary[d].eventsAccepted <= Cardinality(stored[d])
      BY <2>1 DEF IInv, SummaryKept
    <3>2. summary[d].eventsAccepted \in Nat
      BY DEF IInv, NoStats, Typing, TypeOK
    <3>3. QED
      BY <1>15, <3>1, <3>2
  <2>2. QED
    BY <1>4, <2>1 DEF IInv, SummaryKept
<1>19. QED
  BY <1>8, <1>10, <1>13, <1>14, <1>16, <1>17, <1>18 DEF IInv

\* An event that has not been published, appended to what was.
LEMMA AppendFresh ==
  ASSUME NEW log \in Seq(Nat), IsInjective(log), NEW x \in Nat, x \notin ToSet(log)
  PROVE  /\ IsInjective(Append(log, x))
         /\ ToSet(Append(log, x)) = ToSet(log) \cup {x}
<1>1. Len(log) \in Nat /\ DOMAIN log = 1..Len(log)
  BY LenProperties
<1>2. PICK new : new = Append(log, x)
  OBVIOUS
<1>3. /\ new \in Seq(Nat) /\ Len(new) = Len(log) + 1 /\ new[Len(log) + 1] = x
      /\ \A i \in 1..Len(log) : new[i] = log[i]
  BY <1>2, AppendProperties
<1>4. DOMAIN new = 1..(Len(log) + 1)
  BY <1>3, LenProperties
<1>5. \A i \in DOMAIN new : i \in DOMAIN log \/ i = Len(log) + 1
  BY <1>1, <1>4
<1>6. \A i \in DOMAIN log : i \in DOMAIN new /\ new[i] = log[i] /\ log[i] # x
  BY <1>1, <1>3, <1>4 DEF ToSet
<1>7. IsInjective(new)
  BY <1>3, <1>5, <1>6 DEF IsInjective
<1>8. Len(log) + 1 \in DOMAIN new
  BY <1>1, <1>4
<1>9. ToSet(new) = ToSet(log) \cup {x}
  BY <1>3, <1>5, <1>6, <1>8 DEF ToSet
<1>10. QED
  BY <1>2, <1>7, <1>9

LEMMA PublishKeeps ==
  ASSUME IInv, Typing', NEW p \in wire, PublishEvent(p)
  PROVE  IInv'
<1>1. PICK c \in Context : c = p.msg.ctx
  BY Shapes DEF IInv
<1>2. PICK x \in Nat : x = p.msg.id
  BY Shapes DEF IInv
<1>3. PICK n : n = [p EXCEPT !.stage = "ok"]
  OBVIOUS
<1>4. /\ UNCHANGED <<emitted, phase, summary, sends, stats, stored>>
      /\ p.msg.kind = "event" /\ p.stage = "stored"
  BY DEF PublishEvent, agentVars
<1>5. n.msg = p.msg /\ n.stage = "ok"
  BY <1>3, Shapes DEF IInv, Copy
<1>6. \A q \in wire' : (q \in wire /\ q # p) \/ q = n
  BY <1>3 DEF PublishEvent, Answer, Advance
<1>7. /\ published'[c] = Append(published[c], x)
      /\ \A d \in Context : d # c => published'[d] = published[d]
  BY <1>1, <1>2 DEF PublishEvent, IInv, Typing, Domains
<1>8. /\ published[c] \in Seq(Nat) /\ IsInjective(published[c])
      /\ x \notin ToSet(published[c]) /\ x \in stored[c]
  BY <1>1, <1>2, <1>4 DEF IInv, Typing, Domains, StreamedOnceAfterStored, Unpublished, HandledIsStored
<1>9. /\ IsInjective(published'[c])
      /\ ToSet(published'[c]) = ToSet(published[c]) \cup {x}
  BY <1>7, <1>8, AppendFresh
<1>10. StreamedOnceAfterStored'
  BY <1>4, <1>7, <1>8, <1>9 DEF IInv, StreamedOnceAfterStored
<1>11. HandledIsStored'
  BY <1>1, <1>2, <1>4, <1>5, <1>6, <1>8 DEF IInv, HandledIsStored
<1>12. \A q \in wire : q.msg.kind = "event" /\ q.stage = "stored" /\ q.msg.ctx = c /\ q.msg.id = x => q = p
  BY <1>1, <1>2, <1>4 DEF IInv, Unpublished
<1>13. \A q \in wire' : q.stage = "stored" => q \in wire /\ q # p
  BY <1>5, <1>6
<1>14. \A q \in wire : q.msg.ctx \in Context
  BY Shapes DEF IInv
<1>15. Unpublished'
  <2>1. ASSUME NEW q \in wire', q.msg.kind = "event", q.stage = "stored"
        PROVE  q.msg.id \notin ToSet(published'[q.msg.ctx])
    <3>1. q \in wire /\ q # p /\ q.msg.id \notin ToSet(published[q.msg.ctx])
      BY <1>13, <2>1 DEF IInv, Unpublished
    <3>2. CASE q.msg.ctx = c
      BY <1>9, <1>12, <2>1, <3>1, <3>2
    <3>3. CASE q.msg.ctx # c
      BY <1>7, <1>14, <3>1, <3>3
    <3>4. QED
      BY <3>2, <3>3
  <2>2. QED
    BY <1>13, <2>1 DEF IInv, Unpublished
<1>16. Known' /\ Unique'
  BY <1>4, <1>5, <1>6 DEF IInv, Known, Unique
<1>17. CountedIsStored'
  BY <1>4 DEF IInv, CountedIsStored, Awaited
<1>18. SessionsAsked' /\ SummaryKept'
  BY <1>4 DEF IInv, SessionsAsked, Asked, Begun, Over, SessionSends, SummaryKept
<1>19. QED
  BY <1>10, <1>11, <1>15, <1>16, <1>17, <1>18 DEF IInv

LEMMA ServerKeeps ==
  ASSUME IInv, NEW p \in wire, Handler(p) \/ ServerError(p) \/ Lose(p)
  PROVE  IInv'
<1>1. Typing'
  BY ServerTypes DEF IInv
<1>2. CASE PublishEvent(p)
  BY <1>1, <1>2, PublishKeeps
<1>3. CASE StoreEvent(p) /\ ~UNCHANGED stored
  BY <1>1, <1>3, StoreKeeps DEF StoreEvent
<1>4. ASSUME ~PublishEvent(p), ~(StoreEvent(p) /\ ~UNCHANGED stored)
      PROVE  IInv'
  <2>1. UNCHANGED <<agentVars, sends, stats, stored, published>>
    BY <1>4 DEF Handler, CreateSession, StoreEvent, CheckUpdate, LoadRow, CommitUpdate,
       ServerError, Lose, serverVars
  <2>2. p \in Copy
    BY Shapes DEF IInv
  <2>3. \A stage : [p EXCEPT !.stage = stage].msg = p.msg /\ [p EXCEPT !.stage = stage].stage = stage
    BY <2>2 DEF Copy
  <2>4. ASSUME NEW stage, Answer(p, stage) \/ Advance(p, stage),
               p.msg.kind # "event" \/ stage \notin {"stored", "ok"}
        PROVE  \A q \in wire' : \/ q \in wire
                                \/ /\ \E o \in wire : q.msg = o.msg
                                   /\ q.msg.kind # "event" \/ q.stage \notin {"stored", "ok"}
    <3>1. PICK n : n = [p EXCEPT !.stage = stage]
      OBVIOUS
    <3>2. n.msg = p.msg /\ n.stage = stage
      BY <2>3, <3>1
    <3>3. \A q \in wire' : q \in wire \/ q = n
      BY <2>4, <3>1 DEF Answer, Advance
    <3>4. QED
      BY <2>4, <3>2, <3>3
  <2>5. \A q \in wire' : \/ q \in wire
                         \/ /\ \E o \in wire : q.msg = o.msg
                            /\ q.msg.kind # "event" \/ q.stage \notin {"stored", "ok"}
    <3>1. CASE CreateSession(p)
      BY <2>4, <3>1 DEF CreateSession
    <3>2. CASE StoreEvent(p)
      <4>1. \/ Answer(p, "permanent") \/ Answer(p, "transient")
            \/ /\ p.msg.id \notin stored[p.msg.ctx]
               /\ stored' = [stored EXCEPT ![p.msg.ctx] = @ \cup {p.msg.id}]
        BY <3>2 DEF StoreEvent
      <4>2. p.msg.ctx \in DOMAIN stored
        BY Shapes DEF IInv, Typing, Domains
      <4>3. Answer(p, "permanent") \/ Answer(p, "transient")
        BY <2>1, <4>1, <4>2
      <4>4. QED
        BY <2>4, <4>3
    <3>3. CASE CheckUpdate(p)
      BY <2>4, <3>3 DEF CheckUpdate
    <3>4. CASE LoadRow(p)
      <4>1. PICK n : n = [p EXCEPT !.stage = "loaded", !.seen = row[p.msg.ctx]]
        OBVIOUS
      <4>2. n.msg = p.msg /\ n.stage = "loaded"
        BY <2>2, <4>1 DEF Copy
      <4>3. QED
        BY <3>4, <4>1, <4>2 DEF LoadRow
    <3>5. CASE CommitUpdate(p)
      BY <2>4, <3>5 DEF CommitUpdate
    <3>6. CASE ServerError(p)
      BY <2>4, <3>6 DEF ServerError
    <3>7. CASE Lose(p)
      BY <3>7 DEF Lose
    <3>8. QED
      BY <1>4, <3>1, <3>2, <3>3, <3>4, <3>5, <3>6, <3>7 DEF Handler
  <2>6. QED
    BY <1>1, <2>1, <2>5, PlainKeeps
<1>5. QED
  BY <1>2, <1>3, <1>4

-----------------------------------------------------------------------------
(* The invariant and the theorems *)

LEMMA IInvInit ==
  ASSUME Init
  PROVE  IInv
<1>1. Len(<<>>) = 0 /\ <<>> \in Seq(Context) /\ <<>> \in Seq(Entry) /\ <<>> \in Seq(Nat) /\ DOMAIN <<>> = {}
  BY EmptySeq
<1>2. NoStats \in [DOMAIN NoStats -> Nat] /\ NoStats.eventsAccepted = 0 /\ NoStats.sessionsAccepted = 0
  BY DEF NoStats
<1>3. IsFiniteSet(sends)
  BY FS_EmptySet DEF Init
<1>4. Typing
  BY <1>1, <1>2, <1>3, NoRowType, MainAssumption, BoundsAssumption
     DEF Init, Typing, TypeOK, Domains, Lengths
<1>5. Known /\ Unique /\ HandledIsStored /\ Unpublished /\ SummaryKept
  BY DEF Init, Known, Unique, HandledIsStored, Unpublished, SummaryKept
<1>6. Cardinality({}) = 0
  BY FS_EmptySet
<1>7. CountedIsStored
  <2>1. ASSUME NEW c \in Context
        PROVE  stats[c].eventsAccepted <= Cardinality(stored[c] \ Awaited(c))
    <3>1. stored[c] \ Awaited(c) = {} /\ stats[c].eventsAccepted = 0
      BY <1>2 DEF Init
    <3>2. QED
      BY <1>6, <3>1
  <2>2. QED
    BY <2>1 DEF CountedIsStored
<1>8. SessionsAsked
  <2>1. ASSUME NEW c \in Context
        PROVE  stats[c].sessionsAccepted + Cardinality(SessionSends(c)) <= Asked(c)
    <3>1. SessionSends(c) = {} /\ stats[c].sessionsAccepted = 0
      BY <1>2 DEF Init, SessionSends
    <3>2. Begun(c) = 0 /\ Over(c) = 0 /\ Len(emitted[c]) = 0
      BY <1>1 DEF Init, Begun, Over
    <3>3. QED
      BY <1>6, <3>1, <3>2 DEF Asked
  <2>2. QED
    BY <2>1 DEF SessionsAsked
<1>9. StreamedOnceAfterStored
  BY <1>1 DEF Init, StreamedOnceAfterStored, IsInjective, ToSet
<1>10. QED
  BY <1>4, <1>5, <1>7, <1>8, <1>9 DEF IInv

LEMMA IInvInductive ==
  ASSUME IInv, [Next]_vars
  PROVE  IInv'
<1>1. ASSUME NEW t \in Task, NEW c \in Context, EmitStart(t, c) \/ Record(t, c) \/ EmitEnd(t, c)
      PROVE  IInv'
  BY <1>1, EmitKeeps
<1>2. ASSUME NEW t \in Task, NEW c \in Context, Enter(t, c) \/ FinalUpdate(t, c)
      PROVE  IInv'
  BY <1>2, IssueKeeps
<1>3. ASSUME NEW t \in Task, NEW c \in Context, Close(t, c)
      PROVE  IInv'
  BY <1>3, CloseKeeps
<1>4. ASSUME NEW t \in Task, NEW u \in Task, Spawn(t, u)
      PROVE  IInv'
  <2>1. /\ Typing'
        /\ UNCHANGED <<emitted, phase, summary, sends, stats, stored, published, wire>>
    BY <1>4, SpawnTypes DEF IInv, Spawn, serverVars
  <2>2. SummaryKept' /\ \A c \in Context : Asked(c)' = Asked(c)
    BY <2>1 DEF IInv, SummaryKept, Asked, Begun, Over
  <2>3. QED
    BY <2>1, <2>2, QuietKeeps
<1>5. ASSUME NEW s \in sends, ClientStep(s)
      PROVE  IInv'
  BY <1>5, ClientKeeps
<1>6. ASSUME NEW p \in wire, Handler(p) \/ ServerError(p) \/ Lose(p)
      PROVE  IInv'
  BY <1>6, ServerKeeps
<1>7. CASE UNCHANGED vars
  <2>1. UNCHANGED <<started, seqVar, stack, phase, emitted, summary, sends, stats, row, stored,
                    published, wire, timeouts, faults>>
    BY <1>7 DEF vars, agentVars, serverVars
  <2>2. Typing'
    BY <2>1 DEF IInv, Typing, TypeOK, Domains, Lengths
  <2>3. SummaryKept' /\ \A c \in Context : Asked(c)' = Asked(c)
    BY <2>1 DEF IInv, SummaryKept, Asked, Begun, Over
  <2>4. QED
    BY <2>1, <2>2, <2>3, QuietKeeps
<1>8. QED
  BY <1>1, <1>2, <1>3, <1>4, <1>5, <1>6, <1>7 DEF Next

\* What the kept summary cannot hide: when every request was counted and none
\* failed, the events counted are as many as were emitted.
LEMMA CleanMeansAll ==
  ASSUME IInv
  PROVE  CleanSummaryMeansStored
<1>1. SUFFICES ASSUME NEW c \in Context, phase[c] = "closed",
                      summary[c].eventsAccepted + summary[c].sessionsAccepted = 2 * Len(emitted[c]) + 2
               PROVE  stored[c] = DOMAIN emitted[c]
  BY DEF CleanSummaryMeansStored
<1>2. /\ summary[c].eventsAccepted \in Nat /\ summary[c].sessionsAccepted \in Nat
      /\ summary[c].eventsAccepted <= Cardinality(stored[c])
      /\ summary[c].sessionsAccepted <= Len(emitted[c]) + 2
  BY <1>1 DEF IInv, SummaryKept, NoStats, Typing, TypeOK
<1>3. /\ Len(emitted[c]) \in Nat /\ DOMAIN emitted[c] = 1..Len(emitted[c])
      /\ stored[c] \in SUBSET DOMAIN emitted[c]
  BY Shapes DEF IInv
<1>4. PICK D, S, n : D = DOMAIN emitted[c] /\ S = stored[c] /\ n = Len(emitted[c])
  BY <1>3
<1>5. n \in Nat /\ IsFiniteSet(D) /\ Cardinality(D) = n
  <2>1. n \in Nat /\ D = 1..n
    BY <1>3, <1>4
  <2>2. QED
    BY <2>1, FS_Interval
<1>6. /\ S \in SUBSET D /\ Cardinality(S) \in Nat /\ Cardinality(S) <= n
      /\ Cardinality(S) = n => S = D
  BY <1>3, <1>4, <1>5, FS_Subset, FS_CardinalityType
<1>7. \A e, f, k, m \in Nat : e + f = 2 * m + 2 /\ f <= m + 2 /\ e <= k /\ k <= m => k = m
  OBVIOUS
<1>8. Cardinality(S) = n
  BY <1>1, <1>2, <1>4, <1>5, <1>6, <1>7
<1>9. QED
  BY <1>4, <1>6, <1>8

LEMMA Invariant == Spec => []IInv
<1>1. Init => IInv
  BY IInvInit
<1>2. IInv /\ [Next]_vars => IInv'
  BY IInvInductive
<1>3. QED
  BY <1>1, <1>2, PTL DEF Spec

\* The agent's contexts, the requests, the tables and the counters keep their
\* types (trace_context.py, transport.py, repository.py).
THEOREM DeliveryTypeCorrect == Spec => []TypeOK
<1>1. IInv => TypeOK
  BY DEF IInv, Typing
<1>2. QED
  BY <1>1, Invariant, PTL

\* The counters of delivery_summary() never claim more events than the database
\* holds, whatever is retried, lost or answered too late (transport.py,
\* _record_delivery): what is still awaited is never needed to make up the count.
THEOREM CounterNeverOverstates == Spec => []AcceptedIsStored
<1>1. IInv => AcceptedIsStored
  <2>1. SUFFICES ASSUME IInv, NEW c \in Context
                 PROVE  stats[c].eventsAccepted <= Cardinality(stored[c])
    BY DEF AcceptedIsStored
  <2>2. PICK S, T : S = stored[c] /\ T = stored[c] \ Awaited(c)
    OBVIOUS
  <2>3. IsFiniteSet(S) /\ T \in SUBSET S /\ stats[c].eventsAccepted \in Nat
    BY <2>1, <2>2, Shapes DEF IInv
  <2>4. Cardinality(T) \in Nat /\ Cardinality(S) \in Nat /\ Cardinality(T) <= Cardinality(S)
    BY <2>3, Counts
  <2>5. stats[c].eventsAccepted <= Cardinality(T)
    BY <2>1, <2>2 DEF IInv, CountedIsStored
  <2>6. QED
    BY <2>2, <2>3, <2>4, <2>5
<1>2. QED
  BY <1>1, Invariant, PTL

\* However often an event is resent, it reaches the live buffer once, after its
\* row was committed (server.py, _ingest_trace).
THEOREM LiveOnceAfterCommit == Spec => []StreamedOnceAfterStored
<1>1. IInv => StreamedOnceAfterStored
  BY DEF IInv
<1>2. QED
  BY <1>1, Invariant, PTL

\* A kept summary that counts every request of the run and no failure proves
\* that every event was stored (trace_context.py, delivery_summary).
THEOREM CleanSummaryProvesDelivery == Spec => []CleanSummaryMeansStored
<1>1. IInv => CleanSummaryMeansStored
  BY CleanMeansAll
<1>2. QED
  BY <1>1, Invariant, PTL

-----------------------------------------------------------------------------
(* Sequence markers of a process with one context *)

\* The markers of a context are dense: when an event is emitted, every smaller
\* marker has been emitted before it, and so have those the tasks have counted.
MarkersFilled ==
  \A c \in Context :
    /\ \A j \in DOMAIN emitted[c] : \A n \in 1..(emitted[c][j].seq - 1) :
         \E k \in DOMAIN emitted[c] : k < j /\ emitted[c][k].seq = n
    /\ \A t \in Task : \A n \in 1..seqVar[t] :
         \E k \in DOMAIN emitted[c] : emitted[c][k].seq = n

\* An event is stamped with the number after that of its task.
LEMMA EmitStamps ==
  ASSUME IInv, NEW t \in Task, NEW c \in Context,
         EmitStart(t, c) \/ Record(t, c) \/ EmitEnd(t, c)
  PROVE  LET size == Len(emitted[c])
         IN  /\ size \in Nat /\ DOMAIN emitted[c] = 1..size /\ DOMAIN emitted'[c] = 1..(size + 1)
             /\ \A i \in 1..size : emitted'[c][i] = emitted[c][i]
             /\ emitted'[c][size + 1].seq = seqVar[t] + 1
             /\ seqVar' = [seqVar EXCEPT ![t] = seqVar[t] + 1]
<1> DEFINE size == Len(emitted[c])
<1>1. PICK kind \in {"start", "llm", "end"}, parent \in Nat, status \in {"running", "done"} :
        Emit(t, c, kind, parent, status)
  BY DEF EmitStart, Record, EmitEnd, SessionStatus
<1>2. /\ emitted \in [Context -> Seq(Entry)] /\ emitted[c] \in Seq(Entry)
      /\ size \in Nat /\ DOMAIN emitted[c] = 1..size
      /\ seqVar[t] \in Nat
  BY LogType DEF IInv, Typing, TypeOK, Domains
<1>3. PICK e : e = [seq |-> seqVar[t] + 1, kind |-> kind, parent |-> parent]
  OBVIOUS
<1>4. e \in Entry /\ e.seq = seqVar[t] + 1
  BY <1>2, <1>3 DEF Entry
<1>5. /\ emitted' = [emitted EXCEPT ![c] = Append(emitted[c], e)]
      /\ seqVar' = [seqVar EXCEPT ![t] = seqVar[t] + 1]
  BY <1>1, <1>3 DEF Emit, NextSeq
<1>6. emitted'[c] = Append(emitted[c], e)
  BY <1>2, <1>5
<1>7. /\ Append(emitted[c], e) \in Seq(Entry) /\ Len(Append(emitted[c], e)) = size + 1
      /\ \A i \in 1..size : Append(emitted[c], e)[i] = emitted[c][i]
      /\ Append(emitted[c], e)[size + 1] = e
  BY <1>2, <1>4, AppendProperties
<1>8. DOMAIN Append(emitted[c], e) = 1..(size + 1)
  BY <1>7, LogType
<1>9. QED
  BY <1>2, <1>4, <1>5, <1>6, <1>7, <1>8

\* Steps that emit nothing and start no count keep the markers dense.
LEMMA MarkersStay ==
  ASSUME IInv, MarkersFilled, emitted' = emitted,
         \A t \in Task : \/ seqVar'[t] = 0
                         \/ \E u \in Task : seqVar'[t] = seqVar[u]
  PROVE  MarkersFilled'
<1>1. SUFFICES ASSUME NEW c \in Context, NEW t \in Task, NEW n \in 1..seqVar'[t]
               PROVE  \E k \in DOMAIN emitted[c] : emitted[c][k].seq = n
  BY DEF MarkersFilled
<1>2. seqVar'[t] # 0
  BY <1>1
<1>3. PICK u \in Task : seqVar'[t] = seqVar[u]
  BY <1>2
<1>4. n \in 1..seqVar[u]
  BY <1>1, <1>3
<1>5. QED
  BY <1>4 DEF MarkersFilled

LEMMA MarkersEmit ==
  ASSUME NEW C, Context = {C}, IInv, MarkersFilled, NEW t \in Task,
         EmitStart(t, C) \/ Record(t, C) \/ EmitEnd(t, C)
  PROVE  MarkersFilled'
<1> DEFINE size == Len(emitted[C])
           next == seqVar[t] + 1
<1>1. /\ size \in Nat /\ DOMAIN emitted[C] = 1..size /\ DOMAIN emitted'[C] = 1..(size + 1)
      /\ \A i \in 1..size : emitted'[C][i] = emitted[C][i]
      /\ emitted'[C][size + 1].seq = next
      /\ seqVar' = [seqVar EXCEPT ![t] = next]
  BY EmitStamps
<1>2. /\ seqVar \in [Task -> Nat] /\ next - 1 = seqVar[t] /\ next \in Nat
  BY DEF IInv, Typing, TypeOK
<1> HIDE DEF size, next
<1>3. \A i \in 1..size : i \in 1..(size + 1) /\ i < size + 1
  BY <1>1
<1>4. size + 1 \in 1..(size + 1)
  BY <1>1
<1>5. ASSUME NEW j \in DOMAIN emitted'[C], NEW n \in 1..(emitted'[C][j].seq - 1)
      PROVE  \E k \in DOMAIN emitted'[C] : k < j /\ emitted'[C][k].seq = n
  <2>1. CASE j \in 1..size
    <3>1. n \in 1..(emitted[C][j].seq - 1)
      BY <1>1, <1>5, <2>1
    <3>2. PICK k \in DOMAIN emitted[C] : k < j /\ emitted[C][k].seq = n
      BY <1>1, <2>1, <3>1 DEF MarkersFilled
    <3>3. QED
      BY <1>1, <1>3, <3>2
  <2>2. CASE j = size + 1
    <3>1. n \in 1..seqVar[t]
      BY <1>1, <1>2, <1>5, <2>2
    <3>2. PICK k \in DOMAIN emitted[C] : emitted[C][k].seq = n
      BY <3>1 DEF MarkersFilled
    <3>3. QED
      BY <1>1, <1>3, <2>2, <3>2
  <2>3. QED
    BY <1>1, <1>5, <2>1, <2>2
<1>6. ASSUME NEW u \in Task, NEW n \in 1..seqVar'[u]
      PROVE  \E k \in DOMAIN emitted'[C] : emitted'[C][k].seq = n
  <2>1. CASE u = t /\ n = next
    BY <1>1, <1>4, <2>1
  <2>2. CASE ~(u = t /\ n = next)
    <3>1. n \in 1..seqVar[u]
      BY <1>1, <1>2, <1>6, <2>2
    <3>2. PICK k \in DOMAIN emitted[C] : emitted[C][k].seq = n
      BY <3>1 DEF MarkersFilled
    <3>3. QED
      BY <1>1, <1>3, <3>2
  <2>3. QED
    BY <2>1, <2>2
<1>7. QED
  BY <1>5, <1>6 DEF MarkersFilled

LEMMA MarkersInductive ==
  ASSUME NEW C, Context = {C}, IInv, MarkersFilled, [Next]_vars
  PROVE  MarkersFilled'
<1>1. seqVar \in [Task -> Nat]
  BY DEF IInv, Typing, TypeOK
<1>2. ASSUME NEW t \in Task, NEW c \in Context, EmitStart(t, c) \/ Record(t, c) \/ EmitEnd(t, c)
      PROVE  MarkersFilled'
  <2>1. c = C
    OBVIOUS
  <2>2. QED
    BY <1>2, <2>1, MarkersEmit
<1>3. ASSUME NEW t \in Task, NEW c \in Context, Enter(t, c) \/ Close(t, c)
      PROVE  MarkersFilled'
  BY <1>1, <1>3, MarkersStay DEF Enter, Close
<1>4. ASSUME NEW t \in Task, NEW u \in Task, Spawn(t, u)
      PROVE  MarkersFilled'
  BY <1>1, <1>4, MarkersStay DEF Spawn
<1>5. ASSUME UNCHANGED <<emitted, seqVar>>
      PROVE  MarkersFilled'
  BY <1>1, <1>5, MarkersStay
<1>6. ASSUME NEW t \in Task, NEW c \in Context, FinalUpdate(t, c)
      PROVE  UNCHANGED <<emitted, seqVar>>
  BY <1>6 DEF FinalUpdate
<1>7. ASSUME NEW s \in sends, ClientStep(s)
      PROVE  UNCHANGED <<emitted, seqVar>>
  BY <1>7 DEF ClientStep, Accepted, Rejected, TransientAnswer, TimedOut, Disconnected, agentVars
<1>8. ASSUME NEW p \in wire, Handler(p) \/ ServerError(p) \/ Lose(p)
      PROVE  UNCHANGED <<emitted, seqVar>>
  BY <1>8 DEF Handler, CreateSession, StoreEvent, PublishEvent, CheckUpdate, LoadRow,
              CommitUpdate, ServerError, Lose, agentVars
<1>9. CASE UNCHANGED vars
  BY <1>5, <1>9 DEF vars, agentVars
<1>10. QED
  BY <1>2, <1>3, <1>4, <1>5, <1>6, <1>7, <1>8, <1>9 DEF Next

LEMMA MarkersAlwaysFilled ==
  ASSUME NEW C, Context = {C}
  PROVE  Spec => [](IInv /\ MarkersFilled)
<1>1. Init => MarkersFilled
  <2>1. DOMAIN <<>> = {} /\ 1..0 = {}
    OBVIOUS
  <2>2. QED
    BY <2>1 DEF Init, MarkersFilled
<1>2. IInv /\ MarkersFilled /\ [Next]_vars => MarkersFilled'
  BY MarkersInductive
<1>3. QED
  BY <1>1, <1>2, Invariant, PTL DEF Spec

\* What the report expects is the greatest marker stored.
LEMMA ExpectedIsGreatest ==
  ASSUME IInv, NEW c \in Context, stored[c] # {}
  PROVE  /\ Sequences(c) \in SUBSET (Nat \ {0}) /\ Expected(c) \in Sequences(c)
         /\ \A n \in Sequences(c) : n <= Expected(c)
<1>1. /\ stored[c] \in SUBSET DOMAIN emitted[c] /\ DOMAIN emitted[c] = 1..Len(emitted[c])
      /\ IsFiniteSet(stored[c])
  BY Shapes DEF IInv
<1>2. \A i \in DOMAIN emitted[c] : emitted[c][i].seq \in Nat \ {0}
  BY DEF IInv, Typing, TypeOK
<1>3. Sequences(c) \in SUBSET (Nat \ {0}) /\ Sequences(c) # {}
  BY <1>1, <1>2 DEF Sequences
<1>4. IsFiniteSet(Sequences(c))
  <2>1. PICK marker : marker = [i \in stored[c] |-> emitted[c][i].seq]
    OBVIOUS
  <2>2. marker \in Surjection(stored[c], Sequences(c))
    BY <2>1 DEF Sequences, Surjection
  <2>3. QED
    BY <1>1, <2>2, FS_Surjection
<1>5. PICK S : S = Sequences(c)
  OBVIOUS
<1>6. \E x \in S : \A y \in S : x >= y
  BY <1>3, <1>4, <1>5, GreatestOfFinite
<1>7. Max(S) \in S /\ \A y \in S : Max(S) >= y
  BY <1>6 DEF Max
<1>8. QED
  BY <1>3, <1>5, <1>7 DEF Expected

\* A gap below an emitted marker was emitted, in a process with one context.
LEMMA GapsWereEmitted ==
  ASSUME IInv, MarkersFilled
  PROVE  GapMeansLoss
<1>1. SUFFICES ASSUME NEW c \in Context, NEW n \in Gaps(c)
               PROVE  \E i \in DOMAIN emitted[c] : emitted[c][i].seq = n /\ i \notin stored[c]
  BY DEF GapMeansLoss
<1>2. stored[c] # {} /\ n \in 1..Expected(c) /\ n \notin Sequences(c)
  BY <1>1 DEF Gaps
<1>3. /\ Sequences(c) \in SUBSET (Nat \ {0}) /\ Expected(c) \in Sequences(c)
  BY <1>2, ExpectedIsGreatest
<1>4. PICK j \in stored[c] : emitted[c][j].seq = Expected(c)
  BY <1>3 DEF Sequences
<1>5. j \in DOMAIN emitted[c] /\ n \in 1..(emitted[c][j].seq - 1)
  <2>1. n # Expected(c)
    BY <1>2, <1>3
  <2>2. n \in 1..(Expected(c) - 1)
    BY <1>2, <1>3, <2>1
  <2>3. QED
    BY <1>4, <2>2 DEF IInv, Typing, TypeOK
<1>6. PICK k \in DOMAIN emitted[c] : emitted[c][k].seq = n
  BY <1>5 DEF MarkersFilled
<1>7. QED
  BY <1>2, <1>6 DEF Sequences

\* With markers of their own, events are numbered as they were emitted: an
\* earlier one has a smaller marker, which a stored later one makes a gap.
LEMMA InnerLossIsAGap ==
  ASSUME IInv, MarkersFilled
  PROVE  VerdictSeesInnerLoss
<1>1. SUFFICES ASSUME NEW c \in Context, Complete(c), DistinctMarkers(c),
                      NEW i \in stored[c], NEW j \in DOMAIN emitted[c], j < i
               PROVE  j \in stored[c]
  BY DEF VerdictSeesInnerLoss
<1>2. stored[c] # {} /\ i \in DOMAIN emitted[c] /\ DOMAIN emitted[c] = 1..Len(emitted[c])
  BY <1>1, Shapes DEF IInv
<1>3. emitted[c][i].seq \in Nat \ {0} /\ emitted[c][j].seq \in Nat \ {0}
  BY <1>1, <1>2 DEF IInv, Typing, TypeOK
<1>4. emitted[c][j].seq < emitted[c][i].seq
  <2>1. SUFFICES ASSUME ~(emitted[c][j].seq < emitted[c][i].seq)
                 PROVE  FALSE
    OBVIOUS
  <2>2. emitted[c][i].seq # emitted[c][j].seq
    BY <1>1, <1>2 DEF DistinctMarkers
  <2>3. emitted[c][i].seq \in 1..(emitted[c][j].seq - 1)
    BY <1>3, <2>1, <2>2
  <2>4. PICK k \in DOMAIN emitted[c] : k < j /\ emitted[c][k].seq = emitted[c][i].seq
    BY <1>1, <2>3 DEF MarkersFilled
  <2>5. k = i
    BY <1>1, <1>2, <2>4 DEF DistinctMarkers
  <2>6. QED
    BY <1>1, <1>2, <2>4, <2>5
<1>5. /\ Sequences(c) \in SUBSET (Nat \ {0}) /\ Expected(c) \in Sequences(c)
      /\ \A n \in Sequences(c) : n <= Expected(c)
  BY <1>2, ExpectedIsGreatest
<1>6. emitted[c][i].seq \in Sequences(c)
  BY <1>1 DEF Sequences
<1>7. emitted[c][j].seq \in 1..Expected(c)
  BY <1>3, <1>4, <1>5, <1>6
<1>8. emitted[c][j].seq \in Sequences(c)
  BY <1>1, <1>2, <1>7 DEF Complete, Gaps
<1>9. PICK k \in stored[c] : emitted[c][k].seq = emitted[c][j].seq
  BY <1>8 DEF Sequences
<1>10. k \in DOMAIN emitted[c]
  BY Shapes DEF IInv
<1>11. k = j
  BY <1>1, <1>9, <1>10 DEF DistinctMarkers
<1>12. QED
  BY <1>9, <1>11

\* In a process with one context, whatever its tasks record and however their
\* requests fare, a marker the completeness report misses was emitted and is not
\* stored (completeness.py, missing_sequence_values).
THEOREM GapsAreLosses ==
  ASSUME NEW C, Context = {C}
  PROVE  Spec => []GapMeansLoss
<1>1. IInv /\ MarkersFilled => GapMeansLoss
  BY GapsWereEmitted
<1>2. Spec => [](IInv /\ MarkersFilled)
  BY MarkersAlwaysFilled
<1>3. QED
  BY <1>1, <1>2, PTL

\* In such a process a verdict "complete" over markers that no two events share
\* means that every event up to the last one stored is stored (completeness.py,
\* complete).
THEOREM OnlyTailsGoUnseen ==
  ASSUME NEW C, Context = {C}
  PROVE  Spec => []VerdictSeesInnerLoss
<1>1. IInv /\ MarkersFilled => VerdictSeesInnerLoss
  BY InnerLossIsAGap
<1>2. Spec => [](IInv /\ MarkersFilled)
  BY MarkersAlwaysFilled
<1>3. QED
  BY <1>1, <1>2, PTL
=============================================================================
