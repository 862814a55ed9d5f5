# Verification of the agent debugger

TLA+ models of `agent_debugger`: how a traced event travels from an agent's
task through the SDK, over HTTP, into the collector's database, its in-memory
buffer, the trace files and the live streams; what the system reports about
events that did not make it; and the services around a recorded session: hooks in
frameworks, checkpoints and their restore, alerts, totals, stepper, exported files,
the browser's store, replay and audit. TLC checks small instances; the theorems in the
modules named `...Proofs` are checked by TLAPS for every value of the constants.

Paths below are relative to the repository's root. A name in `code font` that
starts with an upper-case letter and has no dot is a TLA+ definition or module.

## 1. The system

```
 agent process                              collector process
 ─────────────                              ─────────────────
 tasks ── TraceContext ── EventEmitter      POST /api/sessions, /api/traces,
             (ContextVars: session,           /api/checkpoints   collector/server.py
              parent, sequence)             PUT /api/sessions/{id}  api/session_routes.py
                   │ gather                        │ commit            │ read, check, read, write
                   ▼                               ▼                   ▼
             HttpTransport ── retries ──►   database (events, sessions, checkpoints)
                                                   │ then publish          ▲ replay query
                                                   ▼                       │
                                            EventBuffer ── queues ──► event_generator ──► EventSource
                                                   │ drain
                                                   ▼
                                            PersistenceManager ──► {session}.json
```

| component | state | operations | who it meets |
|---|---|---|---|
| `agent_debugger_sdk/core/context`, `core/emitter.py`, `core/recorders.py` | ContextVars (session, parent, `_event_sequence`), the session's totals, the event list | enter, exit, `record_*`, `create_checkpoint`, restore | every task of the agent; the transport through hooks |
| `agent_debugger_sdk/transport.py` | delivery counters, the httpx client | send event / start / update / checkpoint, retry, close | the emitter awaits it; the collector answers it |
| `collector/server.py` | none of its own | create a session, ingest an event, ingest a checkpoint | database, buffer |
| `api/session_routes.py`, `storage/repositories/session_repo.py` | row of `sessions` | update, delete, list, export | the transport's updates, users |
| `collector/completeness.py` | none (reads the stored events) | the completeness report | markers stamped by the emitter |
| `collector/buffer.py` | events per session, activity times, subscriber queues | publish, subscribe, unsubscribe, flush | ingestion, SSE, persistence |
| `collector/buffer_redis.py` | Redis stream and channel, local queues, a listener | the same interface over Redis | ingestion, SSE |
| `collector/persistence.py` | pending batches, one write task, a lock, the files | start, stop, flush loop, flush, append with rollback | buffer, file system, cancellation |
| `api/services/ingestion.py` | per stream: queue, ids delivered, time | persist hooks (in-process mode), `event_generator` | buffer, database, browsers |
| `api/replay_routes.py`, `session_manager.py`, `trace_context.py` | new session rows and copied events, the restored context | checkpoint, semantic restore, legacy restore, paged replay | database, SDK |
| `agent_debugger_sdk/auto_patch` | per adapter: hook, transport, session id; one shared session; a queue and a thread per transport | activate, deactivate, hooked calls | threads of the host program, frameworks, collector |
| `storage/repositories/alert_repo.py`, `storage/cache.py` | rows of alerts, a cache of summaries per process | create, change, change many, summarise | routes, users |
| `agent_debugger_sdk/core/stepper.py`, `api/stepper_routes.py` | a snapshot of the events, position, breakpoints, branches | step kinds, branch, reset, export, import | one stepper per session, any number of requests |
| `agent_debugger_sdk/core/exporters/file.py` | a session file and two index files | export | other exporters on the same directory |
| `collector/replay.py` | none | start and scope of a replay | routes; references as the agents sent them |
| `collector/audit`, `collector/causal_analysis.py` | none | claims, evidence graph, slices, re-execution set, suspects | routes; whatever has landed |
| `frontend/src` | one store, requests under way | clicks, effects, live events | all routes |
| analyses, scoring, `intelligence`, `regression`, `redaction`, `auth`, `adws` | mostly none | pure functions of event lists, glue | - |

The full list, with the reason for each part that is not modelled, is under
"components" in `PROJECT.json`.

One remark on the wiring. `api/main.py` (lines 84-98) makes a buffer, a Redis one if
`REDIS_URL` is set, and gives it to the in-process SDK alone. The collector's routes
(`server.py:152`) and the stream (`ingestion.py:204`) take the singleton of
`get_event_buffer`, which is in memory and which nothing but tests replaces. As shipped,
therefore, HTTP ingestion and the stream meet in the in-memory buffer, in-process events
do not reach the stream of the same server, and `PersistenceManager` is started by tests
only. The modules model each class for what it promises, and `SseStream` takes one
buffer for both sides.

### What is hard here

* **Concurrency in one event loop.** Steps run from await to await. Tasks share
  a session, an `EventEmitter`, a buffer and a flush lock, but each has its own
  copy of the ContextVars.
* **Cancellation.** A flush can be cancelled in the middle of a write; the write
  is shielded and outlives it.
* **Partial failure.** An append may be cut short, and so may its undoing; of a
  session update, the check and the write are two reads apart.
* **An unreliable network.** A request may be lost, handled and its answer lost,
  or handled after the client gave up and sent it again.
* **Tasks that replace each other.** A cancelled listener cleans up while its successor
  already listens to the same channel.
* **Two sources for one stream.** Replay from the database and live events from
  the buffer overlap, and neither is ordered by timestamp.

* **Threads and no locks.** Hooks run in the host's threads while `deactivate()` clears
  the fields they read twice.
* **Caches cleared before the commit**, computed over several queries, each after an await.
* **Answers to old questions.** The browser asks for three things that depend on each
  other, and clicks go on meanwhile.
* **References that need not make sense.** Parents, upstream events and evidence are ids
  that agents send: cycles, events of other sessions, events that land later or never.

What makes each part correct: a trace file holds each event once and in order, whatever fails; no
counter claims more than the database holds; nothing is streamed before it is stored, or twice; a
completeness verdict can be relied on; a session that has ended stays ended; a stream that
reconnects skips nothing; nobody waits for ever; tracing never breaks the call it traces; a restored
session has the history of its checkpoint; a summary, a total, a replay or a page says what the
database says; views of one session do not contradict each other. Where the code's own documentation
claims more than the code does, a run shows the counterexample.

## 2. The modules

### EventBuffer, Persistence, DurableLog

`EventBuffer` is the store half of `collector/buffer.py`. An event is its rank in
its session. The buffer's lock guards sections without awaits, so a section is
one step: `Publish` is `publish` with `_enforce_bounds` inside, `PopEvents` is
`flush(session)`. `Excess` and `Evicted` are the two halves of
`_enforce_bounds`. Activity times come from `clock`, which moves with every
publish: two publishes at the same microsecond are not modelled. `published` and
`dropped` are history variables.

`Persistence` extends it with `collector/persistence.py`.

| code | model |
|---|---|
| `_flush_lock`, the tasks in `flush()` | `holder`, `pc` |
| `_pending_events`, `_write_task` | `pending`, `write`/`target`/`batch` |
| the local `session_ids` of `flush()` | `snapshot`, `listed` |
| `flush()` between two awaits | `Acquire`, `Acknowledge`, `PropagateFailure` (each with `Drain` and `AwaitWrite` where the code goes on) |
| `asyncio.shield`, a cancelled caller | `Cancel` leaves `write` alone |
| `start()` around its await of the storage path | `Start`, then `CreateLoop` or `StartFails` |
| `stop()` around its await of the loop | `Stop`, then `StopFlushes`, which leads into the final flush |
| `_flush_loop`, `_task` | a member of `Loop`, `EnterLoop` and `BeginFlush`; `task` |
| `_write_sync` in a thread | `WriteOk`, `WriteRefused`, or `WritePartly` and then `Rollback` or `RollbackFails` |
| the process dies | `Crash` |

`start()` sets `_running` before its await and creates the loop after it, and `stop()` awaits the
loop it cancels. Either may be called while another call is at its await, so the model
reaches what the code reaches: a manager that runs without a loop, because the storage path
could not be made (a later `start()` then returns at once), two loops at once, and a loop that
`stop()` forgets without having cancelled it. The write task is never cancelled by the code: its
own cancellation (lines 166-168) comes with the end of the event loop, which is `Crash`.

`skipped` in `Drain` lets the snapshot lose sessions found empty on the way: the
order of the dictionary's keys is not modelled, so any session may be next. A
trace file is its sequence of lines; a line cut short is `Garbage`, and an
append after it runs into it (`Appended`).

`DurableLog` is the specification of ONE session's file: events wait in a queue
and move, oldest first, to a log that only grows. `SessionLog(s)` instantiates
it with the mapping of `LogOf` and `QueueOf`: an append counts when its last byte
is written. `ImplementsDurableLog` is `SessionLog(s)!LogSpec` for every session,
written as one initial condition and one box, because TLC does not take a
quantified temporal formula apart.

Properties: `WriteTaskMatchesBatch`, `ExactlyOnceInOrder`, `NothingLost`,
`DurableGrows`, `SessionsBounded`, `ImplementsDurableLog`, `EventuallyStored` (as `FilesGrowOn`).
Three of them say nothing of a file once it is `scarred`: the docstring of
`flush` (lines 138-140) itself excludes a rollback that fails. A crash with a
line half written scars a file too: after the restart the next append runs into
the torn line.

### Delivery

The SDK's context and transport, the collector's routes and the report on the
stored events, in one module, since every property relates both ends.

A `Task` is an asyncio task, with its own `seqVar` (ContextVar) and its `stack`
of entered contexts. `phase[c]` follows `__aenter__` and `__aexit__` from await to
await. `Emit` is `EventEmitter.emit`: it stamps the sequence number of the CALLING
task and awaits two requests, the event and a session update (`gather`). `sends`
are the requests some task awaits, `wire` the copies of them in flight or inside a
handler; a copy outlives the client's interest in it after `TimedOut`, which is
how late answers and duplicate handling arise. `StoreEvent` and `PublishEvent` are
the two halves of `_ingest_trace`; `CheckUpdate`, `LoadRow` and `CommitUpdate` are
the three database accesses of `PUT /api/sessions/{id}`. SQLAlchemy writes the
columns that differ from the row it loaded, hence `seen`.

Two simplifications shape it. The event recorded is always an LLM response, the
kind that changes a total of the session. And tasks other than the one that
entered a context get hold of it when `__aenter__` has returned, as in
`async with TraceContext() as ctx`.

The operators `Gaps`, `Orphans`, `Regresses` and `Complete` are the report of
`collector/completeness.py` over `stored`; the number of an event stands for its id
and its timestamp, so ids never repeat and `duplicate_ids` is empty.

### SseStream

One session's stream: `Publish` is the fan-out half of `EventBuffer.publish`, the
actions from `Connect` to `Disconnect` are `event_generator`, one step per yield.
`Commit` and `Publish` of an event are separate; in `Mode = "http"` the publish
follows the commit, as in `_ingest_trace`; in `Mode = "local"` they come in any
order, as in the `gather` of `emit`. Event `n` is the event with the n-th
timestamp; commits need not follow that order, and `ordered` records whether they
did. A client in `Resuming` is an EventSource that reconnects by itself with the id of its last
event, as the standard has it. The page of this repository is not such a client: on an error
`App.tsx` (lines 217-235) closes its EventSource and makes a new one, which has no id to send, so
`Disconnect` takes the cursor of any other client, and with it what it is due.

### RedisBuffer

`collector/buffer_redis.py` for one session. `XAdd` and `PublishLive` are the two commands of
`publish`; the call may fail at either, so neither has to happen. An event is its rank in the
stream, `live` the order of the PUBLISHes, which may differ. `registered` and `task` are the
session's entries in `_local_queues` and `_pubsub_tasks`. `pc[i]` is the await where listener task
`i` is; `cancelled` holds the tasks with a CancelledError under way, which reaches them as
`Interrupted`: past the `finally` clause from the awaits of the loop, at once from a task that has
not run or is in the `finally` clause already. `Handle` is one message: decoded, then put into every
registered queue. `close()` iterates over the dictionary of the tasks and awaits each of them. For
one session that is `Close`, which cancels the task it finds, and then what CPython's iterator does
with a dictionary that others have changed during the await. With the entry in its place,
`CloseResumes` goes on to the end. With the entry gone, or another one put where the iterator has
not been yet, it raises (`CloseRaises`, `closer = "failed"`): the size changed, or the keys did.
With another entry put where the iterator has been, because the table was rebuilt for it (`behind`),
the iteration ends, both dictionaries are cleared, and the listener of that entry, `passed`, goes
on. `Subscribe` leaves open which of the two places it is. Redis itself is external: it hands a
message to the connections that listen, and a connection that fails loses what it carried. `Decodes`
is false for `Typed` events, those of the subclasses of `TraceEvent`.

### AutoPatch

`agent_debugger_sdk/auto_patch`. A step is what one thread does between two looks at what another
may change: the hooks take no lock. `pc[c]` walks a call through its hook (`check1`, `look`, `lock`,
`create`, `return`, `send1`, `host`, `check2`, `send2`), the way of `BaseAdapter._call_sync` for LLM
adapters and of `AgentAdapterMixin._wrap_sync_call` for agent adapters; `pc[Admin]` walks
`activate()` and `deactivate()` through `unapply` and `apply`, adapter by adapter. Look and Lock are
the double check of `_SessionState.get_or_create`, and `ReturnId` is its last line, which reads the
id once more without the lock. `patch()` comes in two orders. Most adapters make a transport, ask
for the session and then put the hook in (`Open`, `Replace`); that of AutoGen puts its hook in ahead
of both (`HookFirst`: `OpenHook`, `Connect`, `Replace`), so that calls may begin with no transport
or no session there (`early`). An adapter may be passed over (`PassOver`: not available, or
`patch()` raises at once), or raise when the framework lacks the method (`PatchRaises`): its
transport then stays, outside the list that `unapply` goes over (`leftRunning`). A transport is a
queue and a thread (`outbox`, `worker`); `Join` may give up after five seconds. History variables
say which calls had their hook removed under them (`overlapped`) and which events were put behind a
sentinel (`late`).

### AlertCache

`alert_repo.py`, `storage/cache.py` and the routes that commit. `Plan` lists the queries
behind each summary; a reader misses, runs them one by one and fills the cache; a writer
clears the summaries (`Stage`) and commits later. `DeleteSession` takes the alerts of a session
(`session_repo.py:198-203`) and leaves the summaries as they are. `outrun` is history, of a
computation and of the entry it leaves: a writer was between its two steps while the summary was
computed, or alerts were deleted since its first query. The cache holds for all summaries of one tenant.

### Restore

Checkpoint and restore of one source session. `IngestCheckpoint` refuses one whose anchor
has not been committed. `ReadSource` and `CommitRestore` are the two halves of
`restore_checkpoint`; the second is one transaction, which a session id that exists rolls
back. `Adopt`, `Answered404`, `Answered500` and `NoAnswer` are the outcomes the SDK tells
apart; `Fallback` is its legacy path. `FetchPage` is one request of the replay, with limit
and offset; `shifted` (history) holds the clients whose pages moved because an event was
committed behind them. A late handler may run after `NoAnswer`, at any time.

### SessionTotals

The column `errors`. A request is a record with the total it carries and what its handler
has read; `StoreError` increments in SQL, `LoadTotals` and `WriteTotals` are the read and
the flush of `update_session`, which writes only a column that differs from what was read.
`Resend` and `GiveUp` are the retries, `underWay` and `landed` history.

### Stepper

One `AgentStepper` behind the routes. Indices are the code's, from 0 to `Len(events)`;
`Load` is the first request that finds events; `Restart` is the loss of the module's
dictionary. `visited` and `jumped` are history: which events have been the current one, and
whether the position changed other than by STEP_INTO and CONTINUE. Breakpoints are those on an event
id and on an event type. The other kinds (tool name, confidence, safety outcome, custom predicate,
and the ValueError of a predicate outside its grammar, line 448) look at an event's data, which the
properties do not tell apart.

### FileExporter

Names lead to files (`named`, `temp`), an open handle keeps its file through renames: what `open`,
`json.dump` and `replace` do on a POSIX file system. A file is the set of exports counted in it,
whole or torn; the cuts to the 100 patterns and 5 entities with the highest counts (`file.py:339`,
`373`) are left out, since a file does not say which counts it has lost. `shared` is history: names
two exports worked on at once.

### SessionView

`App.tsx` and `sessionStore.ts`. `Key` is what an effect depends on; `Render` runs an effect
again when its key has changed, which makes the answer it had asked for one to be ignored.
Setters called one after the other in a handler are one step, as React batches them.

### ReplayScope

`build_replay` and its two traversals, one step per id taken from the stack, over every
event list, reference and checkpoint list within the bounds. `Least` is the reference
definition: the least set of events of the window that is closed under the references.

### Audit

Operators over one variable, the events that have landed. `Verdict`, `PathLength`,
`ForwardSlice`, `BackwardSlice`, `RerunSet` and `Candidates` are what five separate traversals
of the code compute, each with the index and the depth it uses there. A slice is cut to its first
`SliceCap` entries by timestamp (64 in the code, `slices.py:50`) and says so (`ForwardCut`,
`BackwardCut`: the field `truncated`). Of the candidates a failure shows the best `MaxSuspects` (3 in
the code, `causal_analysis.py:381`). Which are best is a matter of scores, so `SuspectLists` has
every list of that length. `Land` lets events
land in any order, so that an audit sees every incomplete trace too.

### The composed modules

`MCLiveness`, `MCServices` and `MCReading` put together components that share no state: a
behaviour is one of a single component, the others stay where they begin. A sum asks
the questions of several components in one run; it says nothing of their interaction,
because there is none in the code.

### The modules of proofs

`PersistenceProofs` (types, the write task, the bound on sessions, the order and the account of
a file), `DurableLogProofs` (the refinement; extends it), `DeliveryProofs`,
`RedisBufferProofs`, `SseStreamProofs`, `ReadingProofs` (the stepper, the totals, the
exporter, the replay, the page and the audit, the parts of `MCReading`) and `ServicesProofs` (alerts,
restores and hooks, the parts of `MCServices`). Each extends the component's module and leaves
it as TLC checks it; see section 5.

`Ordering` has the sort by timestamp and what a sequence of events holds, for `EventBuffer`,
`Persistence`, `SseStream` and `Restore`; `OrderingProofs` the lemmas about them: a finite set
of numbers has one increasing sequence, its members by rank, and what has been read of it from
its start, with nothing coming before the end meanwhile, is a prefix.

## 3. The runs

| run | instance | shows |
|---|---|---|
| `persistence` | 2 sessions, buffer of 2 events and 1 session, 2 callers, 2 loops at a time, 3 publishes, a failed rollback or a crash; symmetric sessions, callers and loops | all safety properties of the file and the refinement of `DurableLog` |
| `delivery` | tasks main and child, 1 context, 1 retry, 3 events; 2 timeouts and 1 fault as long as there is one task, one of them with two | counters, stream and verdict agree with the database |
| `liveness` | files: 2 sessions, 1 caller, 1 loop, 2 publishes, 1 failed rollback, no crash, no symmetry; sending: 1 task, 1 retry, 1 event, 6 timeouts | `FilesGrowOn`, `AgentRunsOn` |
| `delivery_masked_loss` | 2 tasks, 4 events, 1 fault | a complete verdict over a lost event (divergence) |
| `delivery_nested` | 1 task, 2 contexts, no faults | gaps where nothing was lost (divergence) |
| `delivery_reopened` | 2 tasks, 3 events, 1 fault | an ended session reads "running" again (bug) |
| `sse` | 2 clients, one of which resumes, queue of 1, 3 events, 2 cuts, http mode | no gap in timestamp order, no repeats, delivery in the end to the client that resumes |
| `sse_gap` | 1 client, which resumes, queue of 2, 2 events, 1 cut | an event skipped by a reconnect (divergence) |
| `redis` | 2 subscribers, one of which takes nothing, 2 listener tasks at a time, queues of 1, 3 events, the second of a subclass, 1 failure | order, one listener per session but for the one that `close()` may pass over, drop-oldest, a session listened to again |
| `services` | AutoPatch: 1 LLM adapter and 1 agent adapter that puts its hook in first (AutoGen), 2 calls, 3 calls and activations together; AlertCache: 2 alerts, 2 writers, 2 readers, 2 summaries, 1 tick; Restore: 2 clients, 1 replaying, pages of 1, 3 timestamps | the host is unharmed, one session, order of a call's events; no stale summary but by a race or a deletion; a restored history, adopted once, replayed once |
| `reading` | SessionTotals: 2 tasks, 2 errors, 6 requests, 1 fault; Stepper: 3 events, 1 breakpoint at a time; FileExporter: 2 exports; SessionView: 2 sessions of up to 2 events, 3 clicks; ReplayScope: 3 events, 2 references, 2 checkpoints; Audit: 3 events, 2 references or sources, slices of 1 entry, 2 suspects | totals settle, the stepper's position and breakpoints, atomic files, what is shown is what is selected, the branch of a replay, one story of an audit |
| `redis_typed` | 1 subscriber, queue of 2, 2 events, the second of a subclass | an event of a subclass that nobody gets (bug) |

**Why the bounds are enough.** In `persistence` two sessions over a dictionary of
one force evictions, and a third event in a session of two forces a trim, in the
middle of every kind of flush; batches of two make a partial append differ from
an empty and from a whole one. One caller starts or stops while the other flushes, is cancelled, or
is itself at the await of `start()` or `stop()`; two loops are one that is known and one that is
forgotten. A behaviour has a failed rollback or a crash and not both (`OneDisaster`): either one
scars a file or takes the memory, and the theorems hold with both. `WithoutLeftovers` leaves out of a
state what nobody reads again. In `delivery` one retry with one
timeout is the smallest system in which two copies of one request are in flight; with
one task a second timeout leaves a third copy behind or spends the attempts, and a lost
answer comes on top; three events are `session_start`, one recorded by the other task, and
`session_end`. In `sse` a queue of one is full after one event, and two cuts let a
replay itself be interrupted; three events are the one that gives a cursor, one in the queue and
one for which there is no room. In `redis` two listener tasks are a cancelled one that is
still cleaning up and the one that follows it; one queue slot makes the second event
overflow, and two untyped events are what order and drop-oldest need; one subscriber takes
what it gets and the other is slow. In `liveness` two publishes put an event in memory while
another is being written, or both in one append; six timeouts are all that the attempts of
a context's first three requests can meet.

In `services` the agent adapter has AutoGen's order of hook and session; the other order, that of
CrewAI and LlamaIndex, allows less, and the theorems have any mix of the two. Two calls are what a
race for the shared session needs, and three calls and activations together let one call run across
a deactivation and a new activation. Two readers and a writer meet in the cache while one of its
entries is computed by six queries and the other by one. Three timestamps are an event before the
checkpoint, the checkpoint and one after it; pages of one event make every event a page boundary. In
`reading` six requests are an error's event and update, the two updates at the end and two copies;
two errors are one that two writers count. Three events are a step, a step over and an end; a parent
of another session is allowed. Three clicks select, seek and select again while two answers are
under way. Three events and two references make the smallest cycle with a branch, before and after
the start of the window. In the audit one level of search for a contradiction (200 in the code)
makes its limit visible, and two links are the longest path that three events have; slices of one
entry are cut as soon as two events are reached, and slices that nothing cuts, like any other size,
are the theorem's.

`delivery`, `sse`, `redis` and the three sums set `CHECK_DEADLOCK FALSE`: when every context is closed and
every request answered (or every event published and no cut left), the agent has
ended and the model rightly stops. The run `persistence` checks deadlock.

**Fairness.** `Persistence!Fairness`: asyncio runs every ready task (weak fairness of the loops, of the
callers that await a write, and of the writing thread), and the flush lock is first come first
served, so a loop that repeatedly finds it free gets it (strong fairness of `Acquire`). Nothing
is assumed of `start()`, `stop()`, publishers, callers' flushes, or the disk. `EventuallyStored` says
instead what it depends on: the loop goes on, and not every write from some time on fails. One
session whose write always fails holds up all others, since owned batches are retried first.
`Delivery!Fairness`: the agent's event loop and httpx's own timeouts; nothing of the network or the
collector. `SseStream!FairSpec`: the generator runs and a connection ends at
`max_connection_time`; that clients come back is assumed nowhere, `DueIsReceived` speaks of one that
does. `RedisBuffer!Fairness`: the event loop runs listeners, `unsubscribe` and `close` (which goes
on or raises); publishers and subscribers owe nothing, and the failures of Redis are bounded by
`MaxDrops`.

## 4. What the checks found

1. **Masked loss** (`delivery_masked_loss`). `emit` takes a lock around an increment
   of a ContextVar. Every task has its own copy of the variable, so two tasks of one
   session stamp the same number, lock or no lock. `completeness.py` takes the markers
   for a gapless numbering of the session; an event whose number another event also
   has can be lost without a gap. The reverse happens too: a complete session
   with duplicates fails `count_match`. `VerdictSeesInnerLoss` is what remains true.
2. **Gaps without loss** (`delivery_nested`). Entering a context resets the variable
   of the task, and so does leaving it: the outer context goes on from the wrong number.
3. **A session reopened** (`delivery_reopened`). The route validates a status transition
   on one read; the repository writes after another.
4. **A skipped event** (`sse_gap`). The replay compares timestamps, the stream follows
   commits. An event stamped earlier and committed while the client was away
   is behind its cursor. In mode `"local"` even `NoGapWhenOrdered` fails: an event is
   streamed to nobody before it is committed, and the reconnect's query does not see it.

5. **Typed events lost over Redis** (`redis_typed`). `to_dict` of a subclass puts its
   fields beside those of `TraceEvent`; `_decode_message` hands them all to
   `TraceEvent(**data)`, catches the TypeError and skips the message. Only plain
   `TraceEvent`s, the ones the tests publish, arrive. `NewestKept` is what remains true.

Outcomes that the models show and that no run states as a property; a maintainer should
know of them.

* `Persistence`: when `start()` cannot make its directory it leaves the manager "running" without a
  loop, and every later `start()` returns at once (`persistence.py:88-96`); with `stop()` and
  `start()` interleaved two loops may run, of which the last `stop()` knows one. None of this harms a
  file; without a loop, events just wait in memory for somebody else's flush.
* `SseStream`: the page of the repository loses its place in the stream with every error, and gets
  nothing of what was published meanwhile (`App.tsx:217-235`), though the server would replay it.
* `RedisBuffer`: `close()` "cancels all pub/sub listener tasks" (`buffer_redis.py:334`), but not
  one that begins while it awaits another: then it fails and leaves the client open, or ends and
  leaves that listener running; after a channel that ended cleanly the queues
  stay registered with nobody to feed them (`ListensAgain` excepts `ended`).
* `AutoPatch`: `deactivate()` during a call raises an AttributeError or a TypeError into
  the host's call, although `registry.py:45-46` says that "any exception during event
  emission is logged but does not propagate"; `HostUnharmed` is what remains true. A thread
  that is between its look and its creation when the session is reset leaves a session
  behind; events put behind the sentinel never leave. AutoGen's hook goes in ahead of its transport
  and session (`autogen_adapter.py:71-77`): a call that begins in between is reported in part, or to
  session None. A `patch()` that raises leaves the thread of its transport running.
* `AlertCache`: a summary computed while a writer is between its invalidation and its
  commit is cached as it was before, for the whole time to live. Deleting a session deletes its
  alerts and clears no summary, so that the cached ones count them until they expire.
* `Restore`: a session restored by the server carries no checkpoint timestamp
  (`session_manager.py:273-277`), so `replay_events=True` hands over all events of the
  source, although `trace_context.py:202-203` says "events recorded after the checkpoint".
  `ReplayedOnce` states what is handed over in each of the two modes.
  Entering a restored context gets a 409, which counts as a failed delivery. A request that
  timed out after it was handled leaves a session nobody adopts.
* `SessionTotals`: an error event counted by the collector and not yet in an update is
  counted twice for a while, and for good if the last update overtakes it.
* `Stepper`: CONTINUE from an event that a breakpoint stops at stops there again, each
  time ("Continue to next breakpoint", line 757); RUN_TO at the end is an IndexError;
  STEP_OUT to an unknown parent succeeds and does nothing; a session stepped before it has
  an event is completed for good; the events of a stepper are never refreshed.
* `FileExporter`: two exports at once tear an index or lose counts (`shared`). Besides,
  `_FailurePattern` is no dataclass, so `asdict` raises on an insight that has one.
* `SessionView`: when the bundle is loaded again after a jump, the replay starts over and
  the position is lost; every selection of an event fetches the replay again and resets the
  position; after a bundle that failed, events of two sessions are shown together; a
  switch from the portfolio keeps the event selected in the session before.
* `ReplayScope`: a checkpoint whose event is not in the list counts as the nearest one and
  starts the replay at 0; "nearest" is the last in the order of the checkpoints'
  timestamps, not of their events.
* `Audit`: the damage radius of a contradicted decision can be empty, because tool calls
  and errors are no nodes of the graph; a failure deeper than the search of
  `_descendants_include_failure` is no contradiction, though the path to it is reported;
  with cyclic references a failure can be among its own suspects. A slice that is cut may lack the
  fact that verified the claim, or what its mirror has; it then says that it is truncated.

## 5. What is proved

Assumptions: the named ASSUMEs of the modules, and nothing else. Bounds and sizes are positive, or
naturals (`EventBuffer`, `Delivery`, `RedisBuffer`, `SseStream`, `AlertCache`, `AutoPatch`); the
actors the code tells apart are different (the loops and the callers in `Persistence`, the
administrator and the calls in `AutoPatch`, `Closer` and the tasks in `SessionTotals`, the states of
`close()` and the listeners in `RedisBuffer`), and values that stand for "none" are not among the
others (`NoOne`, `NoTask`, `Nobody`, `NoFile`, `Nil`, `Sentinel`); there is a first task, a session,
and old alerts are alerts; breakpoint conditions are those of the code; the stream is fed in one of
two modes, and the clients that resume are clients; the adapters that put their hook in first are
agent adapters; `ReplayScope`'s and `Restore`'s say what their constants are, `Audit`'s that there
is an event, a level to search, and room in a slice and in a list of suspects. Sets of sessions,
tasks, contexts, callers, subscribers, listeners, clients, calls and exports are arbitrary, and may
be infinite unless an ASSUME says otherwise; bounds are arbitrary naturals. Two theorems, of
`Delivery`, have a hypothesis besides, a process with one context: that is what the code must be
given for them to hold, as `delivery_nested` shows.

* `TypeCorrect`: `Spec => []TypeOK`, including the bound on the events one session
  buffers. The invariant is inductive because it also bounds the recorded size of a file
  by its length while an append is partial, which is what makes a rollback well typed.
  `PublishType` carries the arithmetic of `_enforce_bounds`; `DrainType` serves both
  actions that drain.
* `WriteTaskAlwaysMatches`: `Spec => []WriteTaskMatchesBatch`. Inductive relative to
  `TypeOK`. The argument: a session is drained only with nothing owned and no task
  (`DrainMatches`), an owned batch is awaited before anything else, and only the holder
  that awaits a task forgets it.
* `EachEventOnceInOrder`: `Spec => []ExactlyOnceInOrder`, and `NoEventLost`:
  `Spec => []NothingLost`. Neither is inductive: what an append under way may leave behind
  has to be said too. The invariant is `TypeOK /\ WriteTaskMatchesBatch /\ BaseInFile /\
  FilesOK`. `FileState(s)`, required of every session whose file is not `scarred`, has the
  account of the session (file, owned batch and buffer are increasing and precede one
  another, and together with what was given up they are all that was published), and says
  that an append under way has added a prefix of the owned batch, and a finished one the
  whole of it. The argument: every action moves a piece of one sequence to the next or gives
  it up. A publish extends the buffer and trims its head (`AccountPublish`), an eviction and
  a drain move or drop all of it, a finished write moves the batch to the file, a crash
  drops the memory and keeps a prefix; these are lemmas about four sequences of numbers,
  and the proofs of the actions only say which one applies. For a write they need
  `WriteTaskMatchesBatch`: what is being written is what is owned.
* `AcknowledgedStays`: `Spec => DurableGrows`, an action property: from the same invariant,
  since `Durable(s)` changes only where a finished write is acknowledged or an unfinished
  one is undone to its base.
* `FilesAreLogs`: `Spec => ImplementsDurableLog`. For each session the refinement mapping takes the
  durable lines to `log`, and the owned batch with the buffer to `queue`. A publish is `Accept`,
  with the head that a trim drops; a finished write is `Commit`; an eviction and a crash are
  `GiveUp`, of the whole queue or of the rest of what a partial write has stored; an append neither
  finished nor undone is `Corrupt`; a drain, an awaited task, a cancellation and all that `start()`
  and `stop()` do are stutters. It rests on `EachEventOnceInOrder`: the abstract step wants an
  increasing queue.
* `SessionsAlwaysBounded`: `Spec => []SessionsBounded`, strengthened by the finiteness of the
  dictionary's keys, without which a cardinality says nothing. `LeastActive` supplies the
  session that `_enforce_bounds` evicts, from well-foundedness of the naturals.

* `ListenerNeverStray`: `Spec => []NoStrayListener`, which allows for the one listener that
  `close()` passes over. Inductive together with `Registry` (the two dictionaries hold the
  session's key together), `Once` (nothing is passed over before `close()` is) and the type of
  `pc`. The argument: a listener starts only where no other is active; whoever takes it out of
  `_pubsub_tasks` has cancelled it, found it done, or is `close()` passing it over (`CancelStops`,
  `CloseResumesInv`); and no step of a listener makes it active again (`ListenerInv`).
* `RedisTypeCorrect`: `Spec => []TypeOK`, and `EachEventInOrder`: `Spec => []InOrderOnce`. The order
  is inductive together with `ListenerNeverStray`'s invariant and `Lines`: every inbox, every queue
  and everything a subscriber took follows the order in which the channel carried the events, and
  what a subscriber took or has queued is ahead of all that the one active listener still has to
  handle. With a second active listener the last part would be false: `NoStrayListener` is what
  keeps an event from being put twice, and why the order is claimed as long as nothing was passed
  over, which stays so backwards (`PassedStays`).
* `DropsTheOldest`: `Spec => []NewestKept`. Inductive with the types and `HeardKept`: an event
  heard that can be decoded, and after which fewer than `QueueSize` such were heard, is taken, or has
  as many of them after it as the queue holds behind it (`Kept`). When a full queue drops its head,
  `QueueSize` newer ones were heard, counting the one that pushes it out, so `NewestKept` asks for
  it no more. Nothing is asked of the order, so a listener passed over does no harm here.
* `StreamTypeCorrect`, `SentOnce` and `ReconnectClosesGap`: `Spec =>` always `TypeOK`,
  `OncePerConnection` and `NoGapWhenOrdered`, for any clients, queue size and events; the
  last of them in mode "http", since it is false in the other (section 4).
  - Once: what a connection has sent it has noted, and what its replay still has to send it has
    not (`Once`); the replay is a sorted list made when it begins, and a live event is sent only if
    it is not noted.
  - No gap: while events are committed and published by timestamp and in this order, the
    committed and the published ones have no gaps (`Gapless`), so that what a client is due
    lies ahead of its cursor (`Ahead`); what it has not got of that is in its replay, in its
    queue, or was published after the queue was given up, behind all that the queue holds
    (`UnderWay`). The last case is why a full queue skips nothing: the cursor stays behind it
    and the next replay starts there.
* `DeliveryTypeCorrect`, `CounterNeverOverstates`, `LiveOnceAfterCommit` and
  `CleanSummaryProvesDelivery`: `Spec =>` always `TypeOK`, `AcceptedIsStored`,
  `StreamedOnceAfterStored` and `CleanSummaryMeansStored`, for any number of tasks,
  contexts, retries, timeouts and faults. One invariant, `IInv`, serves all four.
  - A copy that a handler has committed or answered is of a stored event
    (`HandledIsStored`), and no two awaited requests are for one event (`Unique`). So an
    acceptance takes an event out of those awaited that is already stored, and
    `CountedIsStored` is kept: the counter never exceeds the stored events that nobody
    awaits. `AcceptedIsStored` alone is not inductive: an event answered twice would break it.
  - A handler between its commit and its publish is the only one for its event, and the
    event is not published yet (`Unpublished`): a second commit would need an id that is
    not in the table.
  - Requests about a session that were accepted or are awaited are at most those made
    (`SessionsAsked`): one on entry, one for each event, one on exit. A clean summary has
    `2 * Len(emitted) + 2` acceptances, of which at most `Len(emitted) + 2` are about the
    session, so that the events stored are as many as those emitted, and therefore all
    of them (`CleanMeansAll`).
* `GapsAreLosses` and `OnlyTailsGoUnseen`: `Spec => []GapMeansLoss` and `Spec =>
  []VerdictSeesInnerLoss`, of a process with one context, for any number of tasks in it. The
  invariant is `IInv` with `MarkersFilled`: where an event carries a marker, every smaller one
  was emitted before it, and so was every number up to that of any task. A task stamps the
  number after its own, so the first event with a new greatest marker carries its successor.
  With a second context it fails, because entering one sets the task's number back to 0 and
  leaving it goes on in the first. If markers are distinct they then number the events as they
  were emitted (`InnerLossIsAGap`), and a stored event makes a gap of any lost one before it.
* `CacheStaleOnlyIfOutrun`: `AlertSpec => []StaleOnlyIfOutrun`. Inductive together with
  `QuietReader` (what a reader that no writer overlapped has been answered so far is what
  the database would answer now) and the shapes of the two records. The argument: the rows
  change at a commit, which follows a `Stage` that has emptied the cache and marked every reader, or
  at a deletion, which marks every reader and every entry (`DeletionKeeps`).
* `FocusedReplayIsBranch`: `ReplaySpec => []ReplayIsBranch`. The invariant of a walk is that
  the focus is found or on the stack, that what has been found leads to nothing in the
  window but what is found or on the stack, and that all of these belong to any closed set
  that holds the focus. With an empty stack this is `Least`. `GreatestExists` supplies the
  last failure and the last usable checkpoint from well-foundedness of the naturals.
* `PositionsAlwaysAgree`: `StepperSpec => []PositionAgrees`, for every session and every set
  of breakpoints. Inductive together with the types and `EmptyIsFresh` (a stepper that has
  no events has not moved, which is what a late `Load` relies on). Each step goes to an
  index within the list and takes its id from there (`MoveWithin`), goes to the next one or
  the end (`MoveOn`), or does nothing (`StayPut`).

* `BreakpointsStop`: `StepperSpec => []NoBreakpointPassed`. Inductive together with the rest
  of `BreakInv`: as long as nothing else than STEP_INTO and CONTINUE has moved the stepper, its
  current event has been visited; it is completed without events only by a jump; and its events
  are no more than the session's. CONTINUE stops at the first breakpoint at or after the
  position (`ForwardKeeps`), or runs to the end past none (`CompleteKeeps`).
* `TotalsSettled`: `TotalsSpec => []TotalsSettle`. After the last update has been sent with nothing
  else under way, either it is the one copy left, carries the total, and has read the row as it
  is, if it has read it (`LastUpdate`); or no copy is left and the row has the total, if an
  answer came (`Undisturbed`).
* `ExportsAreAtomic`: `ExporterSpec => []AloneIsAtomic`. Two invariants, one relative to the
  other. `FilesApart`, of all names: a temporary file is never the file that its name leads to,
  and who has either is past opening it. `OneAtATime`, of the names no two exports worked on at
  once: at most one export is at work, it has read all that was counted, and the file is whole
  and counts the exports that are past it (`Done`). An exporter that dies leaves its temporary
  file behind; the next one truncates that, not the file.
* `PageShowsSelected`: `ViewSpec => []ShownIsSelected`. What an effect waits for is what the store
  asks for now (`Current`); what it has got, unless the last request failed, is right for the
  store (`BundleRight`, `ReplayRight`). The argument is `RenderKeeps`: a change of the store
  either leaves the key of an effect, and with it what is right, or makes it ask anew.
* `SearchedEventIsShown`: `ViewSpec => []SearchLands`. Inductive relative to the former invariant
  (`SoughtInv`). From the jump until something else is done, the result is the selected event,
  in mode "full"; it is pending until a replay has come that no bundle is awaited behind, and
  then nothing is awaited (`Standing`). A bundle that comes differs from the one at hand, so
  the replay is asked for again; a jump that asks for no replay finds the bundle it was made
  for. `MergedInOrder` says where an event is: events of a bundle are numbered from 1 without a
  gap and live events repeat or follow them, so the merged list has event m at place m.
* `RestoredHistory`, `AdoptedByOwner` and `ReplayComesOnce`: `RestoreSpec =>` always
  `HistoryIsCopied`, `RestoredIsAdopted` and `ReplayedOnce`, from one invariant, `RestoreInv`.
  `RowRight`: a session that a client owns has the id of its request and holds, of the
  events committed when it was asked for, those up to the anchor. It needs `RequestOf`: what
  the handler has read includes what was committed then, and the anchor, because a checkpoint is
  refused before its anchor is committed; a request is done before its answer, and not
  made again. `FetchedRight`: the pages fetched so far are a prefix of the committed events by
  timestamp, unless the pages have shifted; the next page, taken at the offset of their number,
  extends it (`PrefixGrows`), and a short page ends it.
* `TracingHarmsNobody`, `SessionIsShared` and `EventsInOrder`: `PatchSpec =>` always
  `HostUnharmed`, `OneSharedSession` and `BeforeComesFirst`, for any adapters in either order of
  `patch()`, calls and activations. Four invariants, each inductive relative to those before it.
  `HookInv`: which adapters are hooked at each step of an activation, that those with a hook have
  a transport each but for one that is just getting it (`Wired`, `Bare`), and that the lock is held by
  who creates a session, with none there. `RunInv`: a call that nothing overlapped finds its hook,
  and its transport once it has looked. `SessionInv`: what such a call got from its look, its lock or
  its last line is the shared session (`SameSession`), an agent adapter in the list has that session
  as its own (`OwnSessions`), and so events of one period carry one, or None if the call is early
  (`EventSessions`). `QueueInv`: an event is queued once; what is behind a sentinel is late, and its call
  overlapped, unless a thread was left to run (`LateAreOverlapped`); a first event still queued is in
  the queue to which the second one goes, since a transport is replaced only under a call that is
  thereby overlapped.
* `ServicesTypeCorrect`: `ServicesTypeOK`, from the types of the three parts, of which a sum
  moves one at a time; `PatchTypeCorrect` is the part of the hooks.
* `AuditTellsOneStory`: `AuditSpec => []ViewsAgree`. The state needs a type and no more: the seven
  claims hold of any set of events and any references, cycles included. The proof is one about
  walks. `WalkIs` gives a walk as one sequence of levels, by induction on sets of numbers
  (`Counting`); a level has what was seen and what follows it (`WalkGoesOn`), what is new on it
  follows something that was new before (`WalkComesFrom`), and nothing leaves a closed set
  (`WalkWithin`). As long as a walk goes on, each level adds an event, so that one of more levels
  than there are events is closed (`WalkEnds`): `AllLevels` is enough. Hence a subtree and what a
  slice is cut from are least closed sets (`SubtreeIs`, `ReachedIs`), which gives the inclusion of
  the slice, its equality within the graph and, taking the set of the events from which one gets
  back, that what the slices are cut from mirror each other (`ReachedBack`). A slice that does not
  say it was cut is all of that (`SliceIsReached`), and one that was can only have less. A search
  deeper than the trace finds no more (`DeeperFinds`), whence the verdict and the path agree; three
  steps down from the decision are retraced up from the failure (`NearIsCandidate`), and a list that
  is not full has every candidate.

Only model-checked: liveness under fairness (`FilesGrowOn`, `AgentRunsOn`, `ListensAgain`,
`DueIsReceived`), which is out of the prover's reach. Every other property of a
passing run is stated by a theorem above. Of those that a run shows violated, the theorems
`OnlyTailsGoUnseen`, `GapsAreLosses`, `ReconnectClosesGap` and `DropsTheOldest` prove what is true
in the place of four; a reopened session has no such rest.

## 6. What is not modelled

Redaction, authentication, search, the statistical analyses and scores, the regression
runner and the workflow scripts; `PROJECT.json` gives the reason for each. Of the adapters,
the async and streaming hooks and the callback handlers; of the stepper, branches and
custom conditions; of the frontend, the panels that load by themselves. In what is
modelled: payloads, wall-clock durations (backoff, Retry-After, the flush interval),
tenants, and several collector processes. The largest files of the repository are
heuristics over event lists (signals, MAST labels, divergence, swimlanes, violations):
sums of weights and thresholds without state, about which there is nothing to say that
their text does not say.

## 7. What could follow

`swimlane._detect_deadlocks` and the LangChain handler's `_run_map` are the parts with
state of their own that remain, with `FrameCaptureContext`: `capture_function_call` enters a
frame before the call and adds it while it is still the innermost one, so that, read
as it stands, each frame becomes its own parent. Checkpoint delivery could join `Delivery`, so that an
anchor lost on the way and the 404 of its checkpoint are one behaviour.
