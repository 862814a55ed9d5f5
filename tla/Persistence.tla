----------------------------- MODULE Persistence -----------------------------
(***************************************************************************)
(* PersistenceManager (collector/persistence.py) over the EventBuffer: the *)
(* background flush loops, explicit flush() callers that may be cancelled, *)
(* start() and stop(), which may overlap, stop()'s final flush, and the    *)
(* write task that outlives the flush that created it.  One step runs from *)
(* one await to the next.                                                  *)
(*                                                                         *)
(* A trace file is the sequence of its lines.  A line is the event it      *)
(* holds, or Garbage for a line cut by an append that was not undone.      *)
(***************************************************************************)
EXTENDS EventBuffer

CONSTANTS
  Caller,            \* tasks that call start(), stop() and flush()
  Loop,              \* bound: background tasks of _flush_loop that exist at once
  NoOne,             \* no task holds _flush_lock
  MaxPublished,      \* bound: events published over all sessions
  MaxBadRollbacks,   \* bound: truncations that fail
  MaxCrashes         \* bound: process crashes

Flusher == Caller \cup Loop
Garbage == 0

ASSUME SessionAssumption == Session # {}
ASSUME FlusherAssumption == Loop \cap Caller = {} /\ NoOne \notin Flusher

VARIABLES
  running,   \* _running
  task,      \* _task: the loop that stop() would cancel, or NoOne
  pc,        \* what a caller or a loop is at; "none": there is no such loop
  holder,    \* the owner of _flush_lock
  snapshot,  \* sessions of get_session_ids() the holder has still to visit
  listed,    \* whether the holder has taken that snapshot
  pending,   \* _pending_events: drained batches not yet acknowledged
  write,     \* _write_task: its state ...
  target,    \* ... the session ...
  batch,     \* ... and the events it was created with
  current,   \* the session whose write the holder awaits
  base,      \* the file before the append under way: original_size
  disk,      \* session -> lines of its file
  torn,      \* session -> the last line has no newline
  scarred,   \* history: an append to this file was cut and not undone
  badRollbacks, crashes

managerVars == <<pending, write, target, batch, current>>
flushVars   == <<pc, holder, snapshot, listed>>
fileVars    == <<base, disk, torn, scarred, badRollbacks>>
lifeVars    == <<running, task>>
vars == <<bufferVars, managerVars, flushVars, fileVars, lifeVars, crashes>>

\* A loop that is "idle" sleeps, one that is "new" has not yet looked at _running;
\* "starting" and "stopping" are in the await of start() and of stop(), "waiting"
\* wait for _flush_lock, and "holding" has it.
Stages == {"none", "new", "idle", "starting", "stopping", "waiting", "holding"}

WriteStates == {"none", "running", "partial", "ok", "failed"}

TypeOK ==
  /\ BufferTypeOK
  /\ running \in BOOLEAN
  /\ task \in Loop \cup {NoOne}
  /\ pc \in [Flusher -> Stages]
  /\ holder \in Flusher \cup {NoOne}
  /\ snapshot \in SUBSET Session
  /\ listed \in BOOLEAN
  /\ pending \in [Session -> Seq(Nat)]
  /\ write \in WriteStates
  /\ target \in Session
  /\ batch \in Seq(Nat)
  /\ current \in Session
  /\ base \in [lines : Nat, torn : BOOLEAN]
  /\ disk \in [Session -> Seq(Nat)]
  /\ write = "partial" => base.lines <= Len(disk[target])
  /\ torn \in [Session -> BOOLEAN]
  /\ scarred \in [Session -> BOOLEAN]
  /\ badRollbacks \in Nat
  /\ crashes \in Nat

AtRest == [f \in Flusher |-> IF f \in Loop THEN "none" ELSE "idle"]

Init ==
  /\ BufferInit
  /\ running = FALSE /\ task = NoOne
  /\ pc = AtRest
  /\ holder = NoOne
  /\ snapshot = {}
  /\ listed = FALSE
  /\ pending = [s \in Session |-> <<>>]
  /\ write = "none"
  /\ target \in Session   \* neither is read before it is assigned
  /\ current = target
  /\ batch = <<>>
  /\ base = [lines |-> 0, torn |-> FALSE]
  /\ disk = [s \in Session |-> <<>>]
  /\ torn = [s \in Session |-> FALSE]
  /\ scarred = [s \in Session |-> FALSE]
  /\ badRollbacks = 0
  /\ crashes = 0

PublishEvent(s) ==
  /\ clock < MaxPublished
  /\ Publish(s)
  /\ UNCHANGED <<managerVars, flushVars, fileVars, lifeVars, crashes>>

-----------------------------------------------------------------------------
(* Lifecycle.  start() sets _running, awaits the storage path, and creates *)
(* the loop.  stop() cancels the loop and waits for it before it flushes;  *)
(* each may begin while another of them awaits.                            *)

\* Where a flush leaves the one that made it: a loop looks at _running.
Rest(f) == IF f \in Loop /\ ~running THEN "none" ELSE "idle"

ReleaseLock(f) ==
  /\ holder' = NoOne
  /\ snapshot' = {}
  /\ listed' = FALSE
  /\ pc' = [pc EXCEPT ![f] = Rest(f)]

Start(c) ==
  /\ pc[c] = "idle"
  /\ ~running
  /\ running' = TRUE
  /\ pc' = [pc EXCEPT ![c] = "starting"]
  /\ UNCHANGED <<task, holder, snapshot, listed>>

\* The storage path is there: create_task(_flush_loop).
CreateLoop(c, l) ==
  /\ pc[c] = "starting"
  /\ pc[l] = "none"
  /\ task' = l
  /\ pc' = [pc EXCEPT ![c] = "idle", ![l] = "new"]
  /\ UNCHANGED <<running, holder, snapshot, listed>>

\* mkdir fails: _running stays set without a loop.
StartFails(c) ==
  /\ pc[c] = "starting"
  /\ pc' = [pc EXCEPT ![c] = "idle"]
  /\ UNCHANGED <<lifeVars, holder, snapshot, listed>>

\* A new loop takes its first look at _running.
EnterLoop(l) ==
  /\ pc[l] = "new"
  /\ pc' = [pc EXCEPT ![l] = Rest(l)]
  /\ UNCHANGED <<lifeVars, holder, snapshot, listed>>

\* stop() cancels the loop that it knows of, if there is one.
Stop(c) ==
  /\ pc[c] = "idle"
  /\ running' = FALSE
  /\ IF task = NoOne \/ pc[task] = "none"
     THEN /\ task' = NoOne
          /\ pc' = [pc EXCEPT ![c] = "waiting"]
     ELSE /\ UNCHANGED task
          /\ pc' = [pc EXCEPT ![task] = "none", ![c] = "stopping"]
  /\ IF holder \in Loop /\ holder = task
     THEN holder' = NoOne /\ snapshot' = {} /\ listed' = FALSE
     ELSE UNCHANGED <<holder, snapshot, listed>>

\* The loop has ended: forget the task, whichever it is by now, and flush.
StopFlushes(c) ==
  /\ pc[c] = "stopping"
  /\ task' = NoOne
  /\ pc' = [pc EXCEPT ![c] = "waiting"]
  /\ UNCHANGED <<running, holder, snapshot, listed>>

\* A caller is cancelled.  The shielded write goes on without it; start() leaves
\* _running set; stop() suppresses the cancellation while it waits for the loop.
\* (Nothing cancels the write task itself but the end of the event loop: Crash.)
Cancel(c) ==
  /\ pc[c] \in {"starting", "waiting", "holding"}
  /\ IF holder = c THEN ReleaseLock(c)
     ELSE pc' = [pc EXCEPT ![c] = "idle"] /\ UNCHANGED <<holder, snapshot, listed>>
  /\ UNCHANGED lifeVars

\* flush() is called, by the loop's timer or by a task.
BeginFlush(f) ==
  /\ pc[f] = "idle"
  /\ pc' = [pc EXCEPT ![f] = "waiting"]
  /\ UNCHANGED <<lifeVars, holder, snapshot, listed>>

CallerStep(c) ==
  \/ Start(c) \/ StartFails(c) \/ Stop(c) \/ StopFlushes(c) \/ Cancel(c)
  \/ \E l \in Loop : CreateLoop(c, l)

\* What runs, waits and holds the lock changes, and nothing else does.
LifeStep(f) ==
  /\ (f \in Caller /\ CallerStep(f)) \/ (f \in Loop /\ EnterLoop(f)) \/ BeginFlush(f)
  /\ UNCHANGED <<bufferVars, managerVars, fileVars, crashes>>

-----------------------------------------------------------------------------
(* flush() under _flush_lock, up to its next await or its end.             *)

\* Mutant: the write a cancelled flush left behind is started again.
AwaitWrite_Restarts(f, s, lines, w) ==
  /\ write' = "running" /\ target' = s /\ batch' = lines
  /\ current' = s
  /\ holder' = f
  /\ pc' = [pc EXCEPT ![f] = "holding"]

\* The holder awaits the write of the batch of s: the task in w that a
\* cancelled flush left behind, or a new one.
AwaitWrite(f, s, lines, w) ==
  /\ IF w = "none"
     THEN write' = "running" /\ target' = s /\ batch' = lines
     ELSE write' = w /\ UNCHANGED <<target, batch>>
  /\ current' = s
  /\ holder' = f
  /\ pc' = [pc EXCEPT ![f] = "holding"]

\* Visit the sessions in ids: skip those evicted meanwhile, drain the next one
\* that has events and write it, or release the lock when none is left.
Drain(f, ids, owned, w) ==
  \/ /\ ids \cap SessionIds = {}
     /\ ReleaseLock(f)
     /\ pending' = owned
     /\ write' = w
     /\ UNCHANGED <<bufferVars, target, batch, current>>
  \/ \E s \in ids \cap SessionIds, skipped \in SUBSET (ids \ SessionIds) :
       /\ PopEvents(s)
       /\ pending' = [owned EXCEPT ![s] = events[s]]
       /\ AwaitWrite(f, s, events[s], w)
       /\ snapshot' = (ids \ skipped) \ {s}
       /\ listed' = TRUE

\* Mutant: a batch left by a failed or cancelled flush is not retried first.
Acquire_SkipsOwned(f) ==
  /\ pc[f] = "waiting"
  /\ holder = NoOne
  /\ Drain(f, SessionIds, pending, write)
  /\ UNCHANGED <<fileVars, lifeVars, crashes>>

\* Owned batches are retried before the snapshot is taken.
Acquire(f) ==
  /\ pc[f] = "waiting"
  /\ holder = NoOne
  /\ \/ \E s \in Session :
          /\ pending[s] # <<>>
          /\ AwaitWrite(f, s, pending[s], write)
          /\ UNCHANGED <<bufferVars, pending, snapshot, listed>>
     \/ /\ \A s \in Session : pending[s] = <<>>
        /\ Drain(f, SessionIds, pending, write)
  /\ UNCHANGED <<fileVars, lifeVars, crashes>>

\* The awaited task succeeded: forget it, delete the batch, go on.
Acknowledge(f) ==
  /\ holder = f
  /\ write = "ok"
  /\ Drain(f, IF listed THEN snapshot ELSE SessionIds,
           [pending EXCEPT ![current] = <<>>], "none")
  /\ UNCHANGED <<fileVars, lifeVars, crashes>>

\* Mutant: the batch is deleted whether or not its write succeeded.
PropagateFailure_Deletes(f) ==
  /\ holder = f
  /\ write = "failed"
  /\ write' = "none"
  /\ pending' = [pending EXCEPT ![current] = <<>>]
  /\ ReleaseLock(f)
  /\ UNCHANGED <<bufferVars, target, batch, current, fileVars, lifeVars, crashes>>

\* Mutant: an exception leaves _flush_lock locked.
PropagateFailure_KeepsLock(f) ==
  /\ holder = f
  /\ write = "failed"
  /\ write' = "none"
  /\ UNCHANGED <<bufferVars, pending, target, batch, current, flushVars,
                 fileVars, lifeVars, crashes>>

\* The awaited task failed: forget it, keep the batch, leave the flush.
PropagateFailure(f) ==
  /\ holder = f
  /\ write = "failed"
  /\ write' = "none"
  /\ ReleaseLock(f)
  /\ UNCHANGED <<bufferVars, pending, target, batch, current, fileVars,
                 lifeVars, crashes>>

-----------------------------------------------------------------------------
(* The write task: _write_session_events and _write_sync in a thread.      *)

\* Appending after a line without newline runs the first line into it.
Appended(s, lines) ==
  IF torn[s] /\ lines # <<>> THEN disk[s] \o Tail(lines) ELSE disk[s] \o lines

WriteOk ==
  /\ write = "running"
  /\ write' = "ok"
  /\ base' = [lines |-> Len(disk[target]), torn |-> torn[target]]
  /\ disk' = [disk EXCEPT ![target] = Appended(target, batch)]
  /\ torn' = [torn EXCEPT ![target] = FALSE]
  /\ UNCHANGED <<bufferVars, pending, target, batch, current, flushVars,
                 scarred, badRollbacks, lifeVars, crashes>>

\* mkdir, encoding or open() fails: nothing was appended.
WriteRefused ==
  /\ write = "running"
  /\ write' = "failed"
  /\ UNCHANGED <<bufferVars, pending, target, batch, current, flushVars,
                 fileVars, lifeVars, crashes>>

\* A proper prefix of the payload reached the file: k whole lines and,
\* if cut, a part of the next one.
WritePartly(k, cut) ==
  /\ write = "running"
  /\ write' = "partial"
  /\ base' = [lines |-> Len(disk[target]), torn |-> torn[target]]
  /\ LET whole == Appended(target, SubSeq(batch, 1, k))
     IN  /\ disk' = [disk EXCEPT ![target] =
                       IF cut /\ ~(torn[target] /\ k = 0)
                       THEN Append(whole, Garbage) ELSE whole]
         /\ torn' = [torn EXCEPT ![target] = IF k > 0 THEN cut ELSE @ \/ cut]
  /\ UNCHANGED <<bufferVars, pending, target, batch, current, flushVars,
                 scarred, badRollbacks, lifeVars, crashes>>

\* Mutant: the whole file is truncated.
Rollback_Empties ==
  /\ write = "partial"
  /\ write' = "failed"
  /\ disk' = [disk EXCEPT ![target] = <<>>]
  /\ torn' = [torn EXCEPT ![target] = FALSE]
  /\ UNCHANGED <<bufferVars, pending, target, batch, current, flushVars, base,
                 scarred, badRollbacks, lifeVars, crashes>>

\* Mutant: the failed append is not undone.
Rollback_Skipped ==
  /\ write = "partial"
  /\ write' = "failed"
  /\ UNCHANGED <<bufferVars, pending, target, batch, current, flushVars, base,
                 disk, torn, scarred, badRollbacks, lifeVars, crashes>>

\* The exception handler truncates the file to original_size.
Rollback ==
  /\ write = "partial"
  /\ write' = "failed"
  /\ disk' = [disk EXCEPT ![target] = SubSeq(@, 1, base.lines)]
  /\ torn' = [torn EXCEPT ![target] = base.torn]
  /\ UNCHANGED <<bufferVars, pending, target, batch, current, flushVars, base,
                 scarred, badRollbacks, lifeVars, crashes>>

\* The truncation fails too: the prefix stays in the file.
RollbackFails ==
  /\ write = "partial"
  /\ badRollbacks < MaxBadRollbacks
  /\ write' = "failed"
  /\ scarred' = [scarred EXCEPT ![target] = TRUE]
  /\ badRollbacks' = badRollbacks + 1
  /\ UNCHANGED <<bufferVars, pending, target, batch, current, flushVars, base,
                 disk, torn, lifeVars, crashes>>

\* The process dies: memory is gone, the files stay as they are.
Crash ==
  /\ crashes < MaxCrashes
  /\ crashes' = crashes + 1
  /\ events' = [s \in Session |-> <<>>]
  /\ activity' = [s \in Session |-> 0]
  /\ dropped' = [s \in Session |->
       dropped[s] \cup ((Elems(events[s]) \cup Elems(pending[s])) \ Elems(disk[s]))]
  /\ pending' = [s \in Session |-> <<>>]
  /\ write' = "none"
  /\ scarred' = [s \in Session |->
       scarred[s] \/ (write = "partial" /\ s = target /\ torn[s])]
  /\ running' = FALSE /\ task' = NoOne
  /\ pc' = AtRest
  /\ holder' = NoOne
  /\ snapshot' = {}
  /\ listed' = FALSE
  /\ UNCHANGED <<clock, published, target, batch, current, base, disk, torn,
                 badRollbacks>>

-----------------------------------------------------------------------------

FlushStep(f) == Acquire(f) \/ Acknowledge(f) \/ PropagateFailure(f)

WriteStep ==
  \/ WriteOk
  \/ WriteRefused
  \/ \E k \in 0..(Len(batch) - 1), cut \in BOOLEAN : WritePartly(k, cut)
  \/ Rollback
  \/ RollbackFails

Next ==
  \/ \E s \in Session : PublishEvent(s)
  \/ \E f \in Flusher : LifeStep(f) \/ FlushStep(f)
  \/ WriteStep
  \/ Crash

Spec == Init /\ [][Next]_vars

\* The event loop runs every ready task, a thread ends its write, and asyncio.Lock is
\* first come first served, so that waiting for it repeatedly gets it.  Nothing is
\* assumed of start(), stop() and the callers' flushes, nor that a write succeeds.
Fairness ==
  /\ \A l \in Loop : WF_vars(LifeStep(l) \/ FlushStep(l)) /\ SF_vars(Acquire(l))
  /\ WF_vars(WriteStep)
  /\ \A c \in Caller : WF_vars(Acknowledge(c) \/ PropagateFailure(c))

FairSpec == Spec /\ Fairness

-----------------------------------------------------------------------------
(* Correctness. *)

Precedes(q, r) == \A i \in DOMAIN q, j \in DOMAIN r : q[i] < r[j]

\* An append whose outcome the flush has not seen yet.
InFlight(s) == write \in {"partial", "ok"} /\ target = s

\* The lines of s that no retry may ever write again or take away.
Durable(s) == IF InFlight(s) THEN SubSeq(disk[s], 1, base.lines) ELSE disk[s]

\* At most one drained batch is owned, a write task exists only for that
\* batch, and the flush that awaits a task awaits the one of its own batch
\* (_write_pending_events reuses whatever task it finds).
WriteTaskMatchesBatch ==
  /\ \A s, t \in Session : pending[s] # <<>> /\ pending[t] # <<>> => s = t
  /\ write # "none" => batch = pending[target] /\ batch # <<>>
  /\ holder # NoOne => write # "none" /\ target = current

\* Every file whose appends were all undone or finished holds each event at
\* most once and in publication order, ahead of everything still in memory.
ExactlyOnceInOrder ==
  \A s \in Session : ~scarred[s] =>
    /\ Increasing(Durable(s) \o pending[s] \o events[s])
    /\ write = "ok" /\ target = s => disk[s] = Durable(s) \o pending[s]

\* No event is lost by a failed, cancelled, retried or repeated flush: what
\* was published is in the file, owned by the manager, buffered, or given up
\* by the bounds or by a crash.
NothingLost ==
  \A s \in Session : ~scarred[s] =>
    1..published[s] =
      Elems(Durable(s)) \cup Elems(pending[s]) \cup Elems(events[s]) \cup dropped[s]

\* A step takes nothing away from the acknowledged part of a file, whichever
\* append it finishes or undoes.
DurableGrows ==
  [][\A s \in Session :
       /\ Len(Durable(s)) <= Len(Durable(s)')
       /\ SubSeq(Durable(s)', 1, Len(Durable(s))) = Durable(s)]_vars

WritesKeepFailing == []<><<write # "failed" /\ write' = "failed">>_vars

\* As long as one loop goes on, every buffered event reaches the file, or is given up by
\* the bounds or a crash, unless writes, of whatever session, fail again and again.
\* (_running does not say that a loop exists: start() sets it before it creates one,
\* and leaves it set when the storage path cannot be made.)
EventuallyStored ==
  \A s \in Session, n \in 1..MaxPublished, l \in Loop :
    \/ (pc[l] # "none" /\ n \in Elems(events[s]))
         ~> (n \in Elems(Durable(s)) \/ n \in dropped[s] \/ scarred[s] \/ pc[l] = "none")
    \/ WritesKeepFailing

-----------------------------------------------------------------------------
(* Each session's file implements DurableLog.  An append under way counts  *)
(* as made when its last byte is written.                                  *)

LogOf(s) == IF write = "partial" /\ target = s THEN Durable(s) ELSE disk[s]

QueueOf(s) ==
  IF write = "ok" /\ target = s THEN events[s] ELSE pending[s] \o events[s]

SessionLog(s) ==
  INSTANCE DurableLog WITH
    accepted <- published[s], queue <- QueueOf(s), log <- LogOf(s),
    corrupt <- scarred[s]

\* Whatever flushes, failures, cancellations and crashes interleave, a file
\* is the append-only log its session's readers rely on: for every session
\* SessionLog(s)!LogSpec, its initial condition and its box put together.
ImplementsDurableLog ==
  /\ \A s \in Session : SessionLog(s)!LogInit
  /\ [][\A s \in Session : [SessionLog(s)!LogNext]_(SessionLog(s)!dvars)]_vars

=============================================================================
