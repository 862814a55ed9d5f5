------------------------------ MODULE Delivery ------------------------------
(***************************************************************************)
(* How a traced event gets from an agent to the collector: TraceContext,   *)
(* EventEmitter and HttpTransport in the agent's process, the ingestion    *)
(* and session-update routes in the collector, and the completeness        *)
(* verdict the collector computes from what it stored.                     *)
(*                                                                         *)
(* Events of a context are numbered in the order they are emitted; the     *)
(* number stands for the event's id and for its timestamp.  A request is a *)
(* message with an attempt number; a copy of it travels on the wire, and   *)
(* outlives the client's interest in it when the client times out.         *)
(***************************************************************************)
EXTENDS Integers, FiniteSets, SequencesExt

CONSTANTS
  Task,        \* asyncio tasks of the agent process
  Main,        \* the task the process starts with
  Context,     \* TraceContext instances, one session each
  MaxRetries,  \* RetryConfig.max_retries
  MaxEvents,   \* bound: events of one context
  MaxTimeouts, \* bound: timeouts
  MaxFaults    \* bound: lost copies and server errors

ASSUME MainAssumption == Main \in Task
ASSUME RetriesAssumption == MaxRetries \in Nat
ASSUME BoundsAssumption ==
  MaxEvents \in Nat \ {0} /\ MaxTimeouts \in Nat /\ MaxFaults \in Nat

VARIABLES
  started,    \* tasks that exist
  seqVar,     \* task -> its value of the _event_sequence ContextVar
  stack,      \* task -> contexts it has entered and not left, innermost last
  phase,      \* context -> how far __aenter__ and __aexit__ have got
  emitted,    \* context -> its events, in emission order
  sends,      \* requests a task of the agent awaits
  stats,      \* context -> _delivery_stats of its transport
  summary,    \* context -> _last_delivery_summary, taken on exit
  row,        \* context -> its row of the sessions table
  stored,     \* context -> its rows of the events table
  published,  \* context -> what the live buffer was given, in order
  wire,       \* copies of requests in flight or in a handler
  timeouts, faults

agentVars  == <<started, seqVar, stack, phase, emitted, summary>>
serverVars == <<row, stored, published>>
vars == <<agentVars, sends, stats, serverVars, wire, timeouts, faults>>

NoRow  == [status |-> "none", calls |-> 0]
NoStats == [eventsAccepted |-> 0, eventsFailed |-> 0,
            sessionsAccepted |-> 0, sessionsFailed |-> 0]

Message == [by : Task, kind : {"start", "event", "update"}, ctx : Context,
            id : 0..MaxEvents, status : {"running", "done"}, calls : 0..MaxEvents]
Answers == {"ok", "transient", "permanent"}
Copy == [msg : Message, attempt : 0..MaxRetries, seen : [status : {"none", "running", "done"}, calls : 0..MaxEvents],
         stage : {"sent", "stored", "checked", "loaded"} \cup Answers]

TypeOK ==
  /\ started \subseteq Task
  /\ seqVar \in [Task -> Nat]
  /\ \A t \in Task : stack[t] \in Seq(Context)
  /\ phase \in [Context -> {"new", "starting", "open", "ending", "updating", "closed"}]
  /\ \A c \in Context :
       \A i \in DOMAIN emitted[c] :
         emitted[c][i] \in [seq : Nat \ {0}, parent : 0..(i - 1), kind : {"start", "llm", "end"}]
  /\ \A s \in sends : s \in [msg : Message, attempt : 0..MaxRetries]
  /\ stats \in [Context -> [DOMAIN NoStats -> Nat]]
  /\ summary \in [Context -> [DOMAIN NoStats -> Nat]]
  /\ row \in [Context -> [status : {"none", "running", "done"}, calls : 0..MaxEvents]]
  /\ \A c \in Context : stored[c] \subseteq DOMAIN emitted[c]
  /\ \A p \in wire : p \in Copy
  /\ timeouts \in 0..MaxTimeouts
  /\ faults \in 0..MaxFaults

Init ==
  /\ started = {Main}
  /\ seqVar = [t \in Task |-> 0]
  /\ stack = [t \in Task |-> <<>>]
  /\ phase = [c \in Context |-> "new"]
  /\ emitted = [c \in Context |-> <<>>]
  /\ sends = {}
  /\ stats = [c \in Context |-> NoStats]
  /\ summary = [c \in Context |-> NoStats]
  /\ row = [c \in Context |-> NoRow]
  /\ stored = [c \in Context |-> {}]
  /\ published = [c \in Context |-> <<>>]
  /\ wire = {}
  /\ timeouts = 0
  /\ faults = 0

-----------------------------------------------------------------------------
(* The agent *)

Busy(t) == \E s \in sends : s.msg.by = t

\* A task that runs: it exists and awaits no request.
Runs(t) == t \in started /\ ~Busy(t)

\* It runs code of the program, not the rest of an __aenter__ or __aexit__.
InBody(t) == Runs(t) /\ \A c \in ToSet(stack[t]) : phase[c] = "open"

\* It runs the __aenter__ or __aexit__ of the context it entered last.
Leads(t, c) == Runs(t) /\ stack[t] # <<>> /\ Last(stack[t]) = c

FirstCopy(m) == [msg |-> m, attempt |-> 0, stage |-> "sent", seen |-> NoRow]

\* The task starts the requests and awaits them all.
Issue(messages) ==
  /\ sends' = sends \cup {[msg |-> m, attempt |-> 0] : m \in messages}
  /\ wire' = wire \cup {FirstCopy(m) : m \in messages}

\* Session.llm_calls, the stand-in for the totals an update carries.
LlmCalls(log) == Cardinality({i \in DOMAIN log : log[i].kind = "llm"})

StartMsg(t, c) ==
  [by |-> t, kind |-> "start", ctx |-> c, id |-> 0, status |-> "running", calls |-> 0]
EventMsg(t, c, i) ==
  [by |-> t, kind |-> "event", ctx |-> c, id |-> i, status |-> "running", calls |-> 0]
UpdateMsg(t, c, status, log) ==
  [by |-> t, kind |-> "update", ctx |-> c, id |-> Len(log), status |-> status,
   calls |-> LlmCalls(log)]

\* The sequence number emit() stamps, from the ContextVar of the calling task.
NextSeq(t) == seqVar[t] + 1

\* EventEmitter.emit, from the lock to the gather.
Emit(t, c, kind, parent, status) ==
  LET log == Append(emitted[c], [seq |-> NextSeq(t), kind |-> kind, parent |-> parent])
  IN  /\ seqVar' = [seqVar EXCEPT ![t] = NextSeq(t)]
      /\ emitted' = [emitted EXCEPT ![c] = log]
      /\ Issue({EventMsg(t, c, Len(log)), UpdateMsg(t, c, status, log)})

\* Mutant: the sequence starts at 1.
Enter_StartsAtOne(t, c) ==
  /\ InBody(t)
  /\ phase[c] = "new"
  /\ phase' = [phase EXCEPT ![c] = "starting"]
  /\ stack' = [stack EXCEPT ![t] = Append(@, c)]
  /\ seqVar' = [seqVar EXCEPT ![t] = 1]
  /\ Issue({StartMsg(t, c)})
  /\ UNCHANGED <<started, emitted, stats, summary, serverVars, timeouts, faults>>

\* __aenter__ up to the await of session_manager.start().
Enter(t, c) ==
  /\ InBody(t)
  /\ phase[c] = "new"
  /\ phase' = [phase EXCEPT ![c] = "starting"]
  /\ stack' = [stack EXCEPT ![t] = Append(@, c)]
  /\ seqVar' = [seqVar EXCEPT ![t] = 0]
  /\ Issue({StartMsg(t, c)})
  /\ UNCHANGED <<started, emitted, stats, summary, serverVars, timeouts, faults>>

\* The rest of __aenter__: the session_start event.
EmitStart(t, c) ==
  /\ Leads(t, c)
  /\ phase[c] = "starting"
  /\ phase' = [phase EXCEPT ![c] = "open"]
  /\ Emit(t, c, "start", 0, "running")
  /\ UNCHANGED <<started, stack, stats, summary, serverVars, timeouts, faults>>

SessionStatus(c) == IF phase[c] = "updating" THEN "done" ELSE "running"

\* A record_* call, or a decorator, on a context the task holds: its own while
\* the body of the "async with" runs, another's as long as it is entered.  The
\* event is an LLM response, the kind that changes the session's totals.
Record(t, c) ==
  /\ InBody(t)
  /\ phase[c] \in {"open", "ending", "updating"}
  /\ Len(emitted[c]) < MaxEvents - 1
  /\ Emit(t, c, "llm", 0, SessionStatus(c))
  /\ UNCHANGED <<started, stack, phase, stats, summary, serverVars, timeouts, faults>>

\* __aexit__: the session_end event, a child of session_start.
EmitEnd(t, c) ==
  /\ Leads(t, c)
  /\ phase[c] = "open"
  /\ Len(emitted[c]) < MaxEvents
  /\ phase' = [phase EXCEPT ![c] = "ending"]
  /\ Emit(t, c, "end", 1, "running")
  /\ UNCHANGED <<started, stack, stats, summary, serverVars, timeouts, faults>>

\* __aexit__: session_manager.update() with the final status.
FinalUpdate(t, c) ==
  /\ Leads(t, c)
  /\ phase[c] = "ending"
  /\ phase' = [phase EXCEPT ![c] = "updating"]
  /\ Issue({UpdateMsg(t, c, "done", emitted[c])})
  /\ UNCHANGED <<started, seqVar, stack, emitted, stats, summary, serverVars, timeouts, faults>>

\* __aexit__: the ContextVars go back to their defaults, the counters are
\* kept, and the client is closed under whoever still uses it.
Close(t, c) ==
  /\ Leads(t, c)
  /\ phase[c] = "updating"
  /\ phase' = [phase EXCEPT ![c] = "closed"]
  /\ stack' = [stack EXCEPT ![t] = Front(@)]
  /\ seqVar' = [seqVar EXCEPT ![t] = 0]
  /\ summary' = [summary EXCEPT ![c] = stats[c]]
  /\ UNCHANGED <<started, emitted, sends, stats, serverVars, wire, timeouts, faults>>

\* A running task creates another, which gets a copy of its ContextVars.
Spawn(t, u) ==
  /\ InBody(t)
  /\ u \notin started
  /\ started' = started \cup {u}
  /\ seqVar' = [seqVar EXCEPT ![u] = seqVar[t]]
  /\ UNCHANGED <<stack, phase, emitted, sends, stats, summary, serverVars, wire, timeouts, faults>>

-----------------------------------------------------------------------------
(* HttpTransport._send_with_retry *)

\* The counter _record_delivery adds to.
Counter(m, delivered) ==
  CASE m.kind = "event" /\ delivered  -> "eventsAccepted"
    [] m.kind = "event" /\ ~delivered -> "eventsFailed"
    [] m.kind # "event" /\ delivered  -> "sessionsAccepted"
    [] m.kind # "event" /\ ~delivered -> "sessionsFailed"

\* The request is over.
Settle(s, delivered) ==
  /\ sends' = sends \ {s}
  /\ stats' = [stats EXCEPT ![s.msg.ctx][Counter(s.msg, delivered)] = @ + 1]

\* Mutant: one attempt too many.
CanRetry_OffByOne(s) == s.attempt <= MaxRetries /\ phase[s.msg.ctx] # "closed"

\* Mutant: the attempts are not counted.
CanRetry_Forever(s) == phase[s.msg.ctx] # "closed"

CanRetry(s) == s.attempt < MaxRetries /\ phase[s.msg.ctx] # "closed"

\* The next attempt; "rest" are the copies already on the wire.
Resend(s, rest) ==
  /\ CanRetry(s)
  /\ sends' = (sends \ {s}) \cup {[s EXCEPT !.attempt = @ + 1]}
  /\ wire' = rest \cup {[FirstCopy(s.msg) EXCEPT !.attempt = s.attempt + 1]}
  /\ UNCHANGED stats

CopyOf(s, p) == p.msg = s.msg /\ p.attempt = s.attempt

Answered(s, p, answer) ==
  /\ CopyOf(s, p) /\ p.stage = answer
  /\ phase[s.msg.ctx] # "closed"

\* 2xx.
Accepted(s, p) ==
  /\ Answered(s, p, "ok")
  /\ Settle(s, TRUE)
  /\ wire' = wire \ {p}
  /\ UNCHANGED <<agentVars, serverVars, timeouts, faults>>

\* Mutant: a permanent error is not returned to the counters as an error.
Rejected_Silently(s, p) ==
  /\ Answered(s, p, "permanent")
  /\ Settle(s, TRUE)
  /\ wire' = wire \ {p}
  /\ UNCHANGED <<agentVars, serverVars, timeouts, faults>>

\* A 4xx other than 408 and 429 ends the delivery.
Rejected(s, p) ==
  /\ Answered(s, p, "permanent")
  /\ Settle(s, FALSE)
  /\ wire' = wire \ {p}
  /\ UNCHANGED <<agentVars, serverVars, timeouts, faults>>

\* Mutant: once the attempts are spent no error is returned.
TransientAnswer_Swallowed(s, p) ==
  /\ Answered(s, p, "transient")
  /\ \/ Resend(s, wire \ {p})
     \/ Settle(s, TRUE) /\ wire' = wire \ {p}
  /\ UNCHANGED <<agentVars, serverVars, timeouts, faults>>

\* A 5xx, 408 or 429 is tried again, unless the attempts are spent or the
\* answer's Retry-After is longer than max_backoff_seconds.
TransientAnswer(s, p) ==
  /\ Answered(s, p, "transient")
  /\ \/ Resend(s, wire \ {p})
     \/ Settle(s, FALSE) /\ wire' = wire \ {p}
  /\ UNCHANGED <<agentVars, serverVars, timeouts, faults>>

\* The error of a request that got no answer.
NoAnswer(s) ==
  \/ Resend(s, wire)
  \/ ~CanRetry(s) /\ Settle(s, FALSE) /\ UNCHANGED wire

\* httpx.TimeoutException: the copy may still be handled later.
TimedOut(s) ==
  /\ timeouts < MaxTimeouts
  /\ timeouts' = timeouts + 1
  /\ NoAnswer(s)
  /\ UNCHANGED <<agentVars, serverVars, faults>>

\* The connection is gone: its copy was lost, or the client was closed.
Disconnected(s) ==
  /\ \/ \A p \in wire : ~CopyOf(s, p)
     \/ phase[s.msg.ctx] = "closed"
  /\ NoAnswer(s)
  /\ UNCHANGED <<agentVars, serverVars, timeouts, faults>>

ClientStep(s) ==
  \/ \E p \in wire : Accepted(s, p) \/ Rejected(s, p) \/ TransientAnswer(s, p)
  \/ TimedOut(s)
  \/ Disconnected(s)

-----------------------------------------------------------------------------
(* The collector *)

Advance(p, stage) == wire' = (wire \ {p}) \cup {[p EXCEPT !.stage = stage]}

\* An answer nobody waits for any more is dropped.
Answer(p, answer) ==
  IF \E s \in sends : CopyOf(s, p)
    THEN Advance(p, answer)
    ELSE wire' = wire \ {p}

\* POST /api/sessions: 409 for a session that exists.
CreateSession(p) ==
  /\ p.msg.kind = "start" /\ p.stage = "sent"
  /\ IF row[p.msg.ctx] = NoRow
       THEN /\ row' = [row EXCEPT ![p.msg.ctx] = [status |-> "running", calls |-> 0]]
            /\ Answer(p, "ok")
       ELSE Answer(p, "permanent") /\ UNCHANGED row
  /\ UNCHANGED <<agentVars, sends, stats, stored, published, timeouts, faults>>

\* Mutant: an event that is already stored is taken as new.
StoreEvent_Republishes(p) ==
  LET c == p.msg.ctx
  IN  /\ p.msg.kind = "event" /\ p.stage = "sent"
      /\ \/ row[c] = NoRow /\ Answer(p, "permanent") /\ UNCHANGED stored
         \/ /\ row[c] # NoRow
            /\ stored' = [stored EXCEPT ![c] = @ \cup {p.msg.id}]
            /\ Advance(p, "stored")
      /\ UNCHANGED <<agentVars, sends, stats, row, published, timeouts, faults>>

\* POST /api/traces up to the commit: 404 without a session, and 500 when the
\* event's id is taken, the insert having broken the primary key.
StoreEvent(p) ==
  LET c == p.msg.ctx
  IN  /\ p.msg.kind = "event" /\ p.stage = "sent"
      /\ \/ row[c] = NoRow /\ Answer(p, "permanent") /\ UNCHANGED stored
         \/ /\ row[c] # NoRow /\ p.msg.id \in stored[c]
            /\ Answer(p, "transient") /\ UNCHANGED stored
         \/ /\ row[c] # NoRow /\ p.msg.id \notin stored[c]
            /\ stored' = [stored EXCEPT ![c] = @ \cup {p.msg.id}]
            /\ Advance(p, "stored")
      /\ UNCHANGED <<agentVars, sends, stats, row, published, timeouts, faults>>

\* POST /api/traces after the commit: the live buffer, then 202.
PublishEvent(p) ==
  /\ p.msg.kind = "event" /\ p.stage = "stored"
  /\ published' = [published EXCEPT ![p.msg.ctx] = Append(@, p.msg.id)]
  /\ Answer(p, "ok")
  /\ UNCHANGED <<agentVars, sends, stats, row, stored, timeouts, faults>>

\* PUT /api/sessions/{id}: require_session and the validation.
CheckUpdate(p) ==
  /\ p.msg.kind = "update" /\ p.stage = "sent"
  /\ IF row[p.msg.ctx] = NoRow \/ (row[p.msg.ctx].status = "done" /\ p.msg.status = "running")
       THEN Answer(p, "permanent")
       ELSE Advance(p, "checked")
  /\ UNCHANGED <<agentVars, sends, stats, serverVars, timeouts, faults>>

\* SessionRepository.update_session selects the row again.
LoadRow(p) ==
  /\ p.msg.kind = "update" /\ p.stage = "checked"
  /\ wire' = (wire \ {p}) \cup {[p EXCEPT !.stage = "loaded", !.seen = row[p.msg.ctx]]}
  /\ UNCHANGED <<agentVars, sends, stats, serverVars, timeouts, faults>>

\* The commit writes the columns that differ from the row as it was loaded.
CommitUpdate(p) ==
  LET now == row[p.msg.ctx]
  IN  /\ p.msg.kind = "update" /\ p.stage = "loaded"
      /\ row' = [row EXCEPT ![p.msg.ctx] =
                   [status |-> IF p.msg.status # p.seen.status THEN p.msg.status ELSE now.status,
                    calls  |-> IF p.msg.calls # p.seen.calls THEN p.msg.calls ELSE now.calls]]
      /\ Answer(p, "ok")
      /\ UNCHANGED <<agentVars, sends, stats, stored, published, timeouts, faults>>

\* A handler that fails before it has done anything (a locked database, an
\* unresolved tenant): 5xx, 408 or 429.
ServerError(p) ==
  /\ faults < MaxFaults
  /\ faults' = faults + 1
  /\ p.stage = "sent"
  /\ Answer(p, "transient")
  /\ UNCHANGED <<agentVars, sends, stats, serverVars, timeouts>>

\* A lost request, a collector that stops in the middle of a handler, or a
\* lost answer.
Lose(p) ==
  /\ faults < MaxFaults
  /\ faults' = faults + 1
  /\ wire' = wire \ {p}
  /\ UNCHANGED <<agentVars, sends, stats, serverVars, timeouts>>

Handler(p) ==
  \/ CreateSession(p) \/ StoreEvent(p) \/ PublishEvent(p)
  \/ CheckUpdate(p) \/ LoadRow(p) \/ CommitUpdate(p)

Next ==
  \/ \E t \in Task, c \in Context :
       \/ Enter(t, c) \/ EmitStart(t, c) \/ Record(t, c)
       \/ EmitEnd(t, c) \/ FinalUpdate(t, c) \/ Close(t, c)
  \/ \E t, u \in Task : Spawn(t, u)
  \/ \E s \in sends : ClientStep(s)
  \/ \E p \in wire : Handler(p) \/ ServerError(p) \/ Lose(p)

Spec == Init /\ [][Next]_vars

\* The event loop runs every task that is ready, and httpx times out every
\* request; nothing is assumed of the network or of the collector.
Fairness == \A t \in Task : WF_vars(\E s \in sends : s.msg.by = t /\ ClientStep(s))

FairSpec == Spec /\ Fairness

-----------------------------------------------------------------------------
(* The completeness verdict (collector/completeness.py) *)

\* Sequence markers of the stored events, with the count of stored events.
Sequences(c) == {emitted[c][i].seq : i \in stored[c]}

Expected(c) == Max(Sequences(c))

\* missing_sequence_values
Gaps(c) == IF stored[c] = {} THEN {} ELSE (1..Expected(c)) \ Sequences(c)

Orphans(c) == {i \in stored[c] : emitted[c][i].parent \notin stored[c] \cup {0}}

\* A timestamp that regresses when the events are sorted by sequence marker.
Regresses(c) ==
  \E i, j \in stored[c] : i < j /\ emitted[c][j].seq < emitted[c][i].seq

\* Mutant: parents and timestamps only.
Complete_IgnoresSequence(c) == Orphans(c) = {} /\ ~Regresses(c)

\* SessionCompletenessReport.complete, of payloads that were not truncated.
Complete(c) ==
  /\ Orphans(c) = {}
  /\ Gaps(c) = {}
  /\ stored[c] # {} => Expected(c) = Cardinality(stored[c])
  /\ ~Regresses(c)

-----------------------------------------------------------------------------
(* Properties *)

InFlight(c) == {s \in sends : s.msg.ctx = c} \cup {p \in wire : p.msg.ctx = c}

DistinctMarkers(c) ==
  \A i, j \in DOMAIN emitted[c] : emitted[c][i].seq = emitted[c][j].seq => i = j

\* An event the client counts as accepted is in the database, through retries,
\* timeouts and answers that come too late: the counters of delivery_summary()
\* never claim more than was stored (transport.py, _record_delivery).
AcceptedIsStored ==
  \A c \in Context : stats[c].eventsAccepted <= Cardinality(stored[c])

\* The live buffer gets an event once, and only after it was committed, however
\* often the client resends it (server.py, _ingest_trace).
StreamedOnceAfterStored ==
  \A c \in Context :
    IsInjective(published[c]) /\ ToSet(published[c]) \subseteq stored[c]

\* A run whose kept summary counts every request it made and reports no failure
\* left every event in the database (trace_context.py, delivery_summary).
CleanSummaryMeansStored ==
  \A c \in Context :
    /\ phase[c] = "closed"
    /\ summary[c].eventsFailed + summary[c].sessionsFailed = 0
    /\ summary[c].eventsAccepted + summary[c].sessionsAccepted = 2 * Len(emitted[c]) + 2
    => stored[c] = DOMAIN emitted[c]

\* "gaps in the 1..expected range are events that never landed": a marker the
\* report misses is the marker of an event that was emitted and is not stored.
\* It holds of a process with one context.
GapMeansLoss ==
  \A c \in Context : \A n \in Gaps(c) :
    \E i \in DOMAIN emitted[c] : emitted[c][i].seq = n /\ i \notin stored[c]

\* As long as no two events carry the same marker, a session reported complete
\* holds every event up to the last it holds: only a lost tail goes unseen.
VerdictSeesInnerLoss ==
  \A c \in Context :
    Complete(c) /\ DistinctMarkers(c) =>
      \A i \in stored[c], j \in DOMAIN emitted[c] : j < i => j \in stored[c]

\* "the server-side delivery-loss signal": when a session is over and its
\* session_end event was stored, a complete verdict means no event was lost.
CompleteMeansNothingLost ==
  \A c \in Context :
    /\ phase[c] = "closed" /\ InFlight(c) = {}
    /\ \E i \in stored[c] : emitted[c][i].kind = "end"
    /\ Complete(c)
    => stored[c] = DOMAIN emitted[c]

\* "terminal sessions cannot transition back to running": the row of a session
\* that has ended never reads "running" again.
TerminalIsFinal ==
  [][\A c \in Context : row[c].status = "done" => row'[c].status = "done"]_vars

\* Delivery never blocks the agent for good: whatever the collector does, or
\* if it does nothing, a task that awaits its requests runs again.
AgentNeverBlocked == \A t \in Task : Busy(t) ~> ~Busy(t)
=============================================================================
