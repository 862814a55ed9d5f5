---------------------------- MODULE RedisBuffer ----------------------------
(***************************************************************************)
(* collector/buffer_redis.py for one session: XADD and PUBLISH of its      *)
(* events, the queues of its subscribers in this process, the task that    *)
(* listens to its channel, and close().  Code between two awaits is one    *)
(* step.  A cancelled task does nothing but meet its CancelledError at the *)
(* await where it is.                                                      *)
(***************************************************************************)
EXTENDS Naturals, FiniteSets, SequencesExt

CONSTANTS
  Subscriber,  \* callers of subscribe(), each with one queue at a time
  Listener,    \* bound: listener tasks, used again once done
  NoTask,
  Typed,       \* events of the subclasses of TraceEvent
  QueueSize,   \* subscriber_maxsize
  MaxEvents,   \* bound: events of the session
  MaxDrops     \* bound: failures of the connection to Redis

ASSUME NoTaskAssumption == NoTask \notin Listener
ASSUME CloserAssumption == {"open", "closed", "failed"} \cap Listener = {}
ASSUME RedisQueueSizeAssumption == QueueSize \in Nat \ {0}
ASSUME DropsAssumption == MaxDrops \in Nat

VARIABLES
  added,       \* events in the Redis stream
  live,        \* history: the events in the order of their PUBLISH
  inbox,       \* listener -> messages on its connection, not yet handled
  pc,          \* listener -> the await of _listen where it is
  cancelled,   \* listeners with a CancelledError to meet
  ended,       \* history: listeners whose stream ended cleanly
  task,        \* the session's entry in _pubsub_tasks, or NoTask
  registered,  \* the session's list in _local_queues
  queue,       \* subscriber -> its asyncio.Queue
  got,         \* history: subscriber -> what it took from that queue
  heard,       \* history: subscriber -> messages handled in its time
  waits,       \* subscriber -> the listener whose end unsubscribe() awaits
  closer,      \* close(): "open", the listener it awaits, "closed", "failed"
  behind,      \* the session's key lies where the iterator of close() has been
  passed,      \* history: the listener that close() passed over, if any
  drops

redisVars == <<added, live>>
listenVars == <<inbox, pc, cancelled, ended>>
subVars == <<queue, got, heard>>
closeVars == <<closer, behind, passed>>
vars == <<redisVars, listenVars, task, registered, subVars, waits, closeVars, drops>>

\* An event is its rank in the stream.
Event == 1..MaxEvents

\* Where _listen awaits: "new" has not run yet, "sleeping" is the pause before
\* a reconnect, "retrying" and "closing" are _aclose_pubsub, of which only the
\* first goes on with the loop.
Await == {"new", "subscribing", "listening", "sleeping", "retrying", "closing", "done"}

TypeOK ==
  /\ added \subseteq Event /\ live \in Seq(added) /\ IsInjective(live)
  /\ inbox \in [Listener -> Seq(Event)]
  /\ pc \in [Listener -> Await]
  /\ cancelled \subseteq {i \in Listener : pc[i] # "done"}
  /\ ended \subseteq Listener
  /\ task \in Listener \cup {NoTask}
  /\ registered \subseteq Subscriber
  /\ registered = {} <=> task = NoTask
  /\ \A s \in Subscriber :
       /\ queue[s] \in Seq(Event) /\ Len(queue[s]) <= QueueSize
       /\ got[s] \in Seq(Event) /\ heard[s] \in Seq(Event)
       /\ waits[s] \in Listener \cup {NoTask}
       /\ waits[s] # NoTask => s \notin registered
  /\ closer \in Listener \cup {"open", "closed", "failed"}
  /\ behind \in BOOLEAN
  /\ passed \in Listener \cup {NoTask}
  /\ drops \in 0..MaxDrops

Init ==
  /\ added = {} /\ live = <<>>
  /\ inbox = [i \in Listener |-> <<>>]
  /\ pc = [i \in Listener |-> "done"]
  /\ cancelled = {} /\ ended = {}
  /\ task = NoTask /\ registered = {}
  /\ queue = [s \in Subscriber |-> <<>>]
  /\ got = [s \in Subscriber |-> <<>>]
  /\ heard = [s \in Subscriber |-> <<>>]
  /\ waits = [s \in Subscriber |-> NoTask]
  /\ closer = "open" /\ behind = FALSE /\ passed = NoTask
  /\ drops = 0

-----------------------------------------------------------------------------
(* publish: two commands, and the call may fail at either *)

XAdd(e) ==
  /\ e = Cardinality(added) + 1
  /\ added' = added \cup {e}
  /\ UNCHANGED <<live, listenVars, task, registered, subVars, waits, closeVars, drops>>

\* Redis hands the message to the connections that listen at this moment.
PublishLive(e) ==
  /\ e \in added \ Range(live)
  /\ live' = Append(live, e)
  /\ inbox' = [i \in Listener |->
                 IF pc[i] = "listening" THEN Append(inbox[i], e) ELSE inbox[i]]
  /\ UNCHANGED <<added, pc, cancelled, ended, task, registered, subVars, waits, closeVars, drops>>

-----------------------------------------------------------------------------
(* subscribe, unsubscribe, close *)

\* Listener tasks nobody refers to any more.
Free == {i \in Listener : pc[i] = "done" /\ i # task /\ i # closer /\ i # passed
                          /\ \A s \in Subscriber : waits[s] # i}

\* The history of a subscriber is that of its queue.
NewQueue(s) ==
  /\ queue' = [queue EXCEPT ![s] = <<>>]
  /\ got' = [got EXCEPT ![s] = <<>>]
  /\ heard' = [heard EXCEPT ![s] = <<>>]

\* subscribe: the first subscriber starts the listener.  Its key is put at the end of
\* the dictionary's table, unless the table is rebuilt for it.
Subscribe(s) ==
  /\ s \notin registered /\ waits[s] = NoTask
  /\ registered' = registered \cup {s}
  /\ NewQueue(s)
  /\ IF registered # {}
       THEN UNCHANGED <<pc, ended, task, behind>>
       ELSE LET i == CHOOSE i \in Free : TRUE
            IN  /\ Free # {}
                /\ task' = i
                /\ pc' = [pc EXCEPT ![i] = "new"]
                /\ ended' = ended \ {i}
                /\ behind' \in (IF closer \in Listener THEN BOOLEAN ELSE {FALSE})
  /\ UNCHANGED <<redisVars, inbox, cancelled, waits, closer, passed, drops>>

\* Task.cancel; without effect on a task that is done.
Cancel(i) == cancelled' = IF pc[i] = "done" THEN cancelled ELSE cancelled \cup {i}

\* Mutant: the task is forgotten and left to run.
Unsubscribe_Forgets(s) ==
  /\ s \in registered
  /\ registered' = registered \ {s}
  /\ NewQueue(s)
  /\ IF registered # {s}
       THEN UNCHANGED <<task, waits>>
       ELSE task' = NoTask /\ UNCHANGED waits
  /\ UNCHANGED <<redisVars, listenVars, closeVars, drops>>

\* Mutant: the task is cancelled and stays in _pubsub_tasks.
Unsubscribe_Keeps(s) ==
  /\ s \in registered
  /\ registered' = registered \ {s}
  /\ NewQueue(s)
  /\ IF registered # {s}
       THEN UNCHANGED <<waits, cancelled>>
       ELSE Cancel(task) /\ waits' = [waits EXCEPT ![s] = task]
  /\ UNCHANGED <<redisVars, inbox, pc, ended, task, closeVars, drops>>

\* unsubscribe: the last subscriber pops and cancels the listener, and awaits it.
Unsubscribe(s) ==
  /\ s \in registered
  /\ registered' = registered \ {s}
  /\ NewQueue(s)
  /\ IF registered # {s}
       THEN UNCHANGED <<task, waits, cancelled>>
       ELSE /\ task' = NoTask
            /\ Cancel(task)
            /\ waits' = [waits EXCEPT ![s] = task]
  /\ UNCHANGED <<redisVars, inbox, pc, ended, closeVars, drops>>

\* unsubscribe returns.
Unsubscribed(s) ==
  /\ waits[s] # NoTask /\ pc[waits[s]] = "done"
  /\ waits' = [waits EXCEPT ![s] = NoTask]
  /\ UNCHANGED <<redisVars, listenVars, task, registered, subVars, closeVars, drops>>

\* Mutant: close() clears the dictionaries and forgets to cancel.
Close_NoCancel ==
  /\ closer = "open"
  /\ task' = NoTask /\ registered' = {} /\ closer' = "closed"
  /\ UNCHANGED <<redisVars, listenVars, subVars, waits, behind, passed, drops>>

\* The iterator is at its end: clear both dictionaries.
CloseEnds == task' = NoTask /\ registered' = {} /\ closer' = "closed"

\* close() cancels the task it finds and awaits it, if it is not done yet.
Close ==
  /\ closer = "open"
  /\ IF task = NoTask \/ pc[task] = "done"
       THEN CloseEnds /\ UNCHANGED cancelled
       ELSE Cancel(task) /\ closer' = task /\ UNCHANGED <<task, registered>>
  /\ UNCHANGED <<redisVars, inbox, pc, ended, subVars, waits, behind, passed, drops>>

\* The awaited task is done, and its entry is where it was, or behind the iterator
\* with another task, which then goes on.
CloseResumes ==
  /\ closer \in Listener /\ pc[closer] = "done"
  /\ task = closer \/ (task # NoTask /\ behind)
  /\ passed' = IF task = closer THEN passed ELSE task
  /\ behind' = FALSE
  /\ CloseEnds
  /\ UNCHANGED <<redisVars, listenVars, subVars, waits, drops>>

\* RuntimeError: the dictionary has changed its size, or the iterator finds an entry
\* that it did not expect.
CloseRaises ==
  /\ closer \in Listener /\ pc[closer] = "done"
  /\ task # closer
  /\ task = NoTask \/ ~behind
  /\ closer' = "failed" /\ behind' = FALSE
  /\ UNCHANGED <<redisVars, listenVars, task, registered, subVars, waits, passed, drops>>

Take(s) ==
  /\ queue[s] # <<>>
  /\ got' = [got EXCEPT ![s] = Append(@, Head(queue[s]))]
  /\ queue' = [queue EXCEPT ![s] = Tail(@)]
  /\ UNCHANGED <<redisVars, listenVars, task, registered, heard, waits, closeVars, drops>>

-----------------------------------------------------------------------------
(* _listen *)

\* Listener i goes on to await p.
Resume(i, p) ==
  /\ i \notin cancelled
  /\ pc' = [pc EXCEPT ![i] = p]
  /\ UNCHANGED <<redisVars, cancelled, task, registered, subVars, waits, closeVars>>

\* The task runs for the first time.
Begin(i) ==
  /\ pc[i] = "new"
  /\ Resume(i, "subscribing")
  /\ UNCHANGED <<inbox, ended, drops>>

\* pubsub.subscribe returns.
Attach(i) ==
  /\ pc[i] = "subscribing"
  /\ Resume(i, "listening")
  /\ UNCHANGED <<inbox, ended, drops>>

\* The connection fails; what it still carried is lost.
Fail(i) ==
  /\ pc[i] \in {"subscribing", "listening"}
  /\ drops < MaxDrops /\ drops' = drops + 1
  /\ inbox' = [inbox EXCEPT ![i] = <<>>]
  /\ Resume(i, "sleeping")
  /\ UNCHANGED ended

\* listen() ends without an exception, all messages handled.
StreamEnds(i) ==
  /\ pc[i] = "listening" /\ inbox[i] = <<>>
  /\ ended' = ended \cup {i}
  /\ Resume(i, "closing")
  /\ UNCHANGED <<inbox, drops>>

\* Mutant: the listener gives up after a failure.
Wake_GivesUp(i) ==
  /\ pc[i] = "sleeping"
  /\ Resume(i, "closing")
  /\ UNCHANGED <<inbox, ended, drops>>

\* The pause is over: continue, after the finally clause.
Wake(i) ==
  /\ pc[i] = "sleeping"
  /\ Resume(i, "retrying")
  /\ UNCHANGED <<inbox, ended, drops>>

\* _aclose_pubsub returns.
Cleaned(i) ==
  /\ pc[i] \in {"retrying", "closing"}
  /\ Resume(i, IF pc[i] = "retrying" THEN "subscribing" ELSE "done")
  /\ UNCHANGED <<inbox, ended, drops>>

\* The CancelledError arrives.  It passes by the finally clause, unless the
\* task has not begun or is inside it already.
Interrupted(i) ==
  /\ i \in cancelled
  /\ cancelled' = cancelled \ {i}
  /\ pc' = [pc EXCEPT ![i] =
              IF @ \in {"subscribing", "listening", "sleeping"} THEN "closing" ELSE "done"]
  /\ inbox' = [inbox EXCEPT ![i] = <<>>]
  /\ UNCHANGED <<redisVars, ended, task, registered, subVars, waits, closeVars, drops>>

\* _decode_message: to_dict puts the fields of a subclass beside those of
\* TraceEvent, TraceEvent(**data) refuses them, and the message is malformed.
Decodes(e) == e \notin Typed

\* Mutant: a full queue refuses the event.
Offered_DropsNewest(q, e) == IF Len(q) < QueueSize THEN Append(q, e) ELSE q

\* _fanout to one queue: a full one loses its oldest event.
Offered(q, e) == Append(IF Len(q) < QueueSize THEN q ELSE Tail(q), e)

\* One message: decoded and put into the queues registered now.
Handle(i) ==
  LET e == Head(inbox[i])
  IN  /\ pc[i] = "listening" /\ i \notin cancelled /\ inbox[i] # <<>>
      /\ inbox' = [inbox EXCEPT ![i] = Tail(@)]
      /\ heard' = [s \in Subscriber |->
                     IF s \in registered THEN Append(heard[s], e) ELSE heard[s]]
      /\ queue' = [s \in Subscriber |->
                     IF s \in registered /\ Decodes(e) THEN Offered(queue[s], e) ELSE queue[s]]
      /\ UNCHANGED <<redisVars, pc, cancelled, ended, task, registered, got, waits, closeVars, drops>>

Listen(i) ==
  Begin(i) \/ Attach(i) \/ Wake(i) \/ Cleaned(i) \/ Interrupted(i) \/ Handle(i)

Next ==
  \/ \E e \in Event : XAdd(e) \/ PublishLive(e)
  \/ \E s \in Subscriber :
       Subscribe(s) \/ Unsubscribe(s) \/ Unsubscribed(s) \/ Take(s)
  \/ Close \/ CloseResumes \/ CloseRaises
  \/ \E i \in Listener : Listen(i) \/ Fail(i) \/ StreamEnds(i)

Spec == Init /\ [][Next]_vars

\* The event loop runs every task that is ready.
Fairness ==
  /\ \A i \in Listener : WF_vars(Listen(i))
  /\ \A s \in Subscriber : WF_vars(Unsubscribed(s))
  /\ WF_vars(CloseResumes \/ CloseRaises)

FairSpec == Spec /\ Fairness

-----------------------------------------------------------------------------
(* Properties *)

\* Through failures, reconnects and listeners that replace each other, a
\* subscriber gets events at most once and in the order of their PUBLISH, as long as
\* close() has not left a listener running beside the one of later subscribers.
InOrderOnce ==
  passed = NoTask =>
  LET Place(e) == SelectInSeq(live, LAMBDA x : x = e)
  IN  \A s \in Subscriber :
        LET all == got[s] \o queue[s]
        IN  \A j, k \in DOMAIN all : j < k => Place(all[j]) < Place(all[k])

\* A listener that is to go on: it is neither cancelled nor about to return.
Active(i) == i \notin cancelled /\ pc[i] \notin {"closing", "done"}

\* A session has at most one such listener, the one in _pubsub_tasks: none is left
\* behind by unsubscribe, nor by close, but for one that close() passes over, because a
\* subscriber left and another came while it awaited the listener of the first.
NoStrayListener ==
  \A i \in Listener : Active(i) => (i = task /\ registered # {}) \/ i = passed

\* Messages handled after the k-th one of a history, of events that are wanted.
Later(history, k, wanted) == {j \in DOMAIN history : j > k /\ history[j] \in wanted}

\* Of the wanted events handled in its time, subscriber s got the last QueueSize.
Recent(s, wanted) ==
  \A k \in DOMAIN heard[s] :
    /\ heard[s][k] \in wanted
    /\ Cardinality(Later(heard[s], k, wanted)) < QueueSize
    => heard[s][k] \in Range(got[s]) \cup Range(queue[s])

\* Drop-oldest: however slow the subscriber, the most recent events handled in
\* its time, of those that can be decoded, are in its queue or taken already.
NewestKept == \A s \in registered : Recent(s, {e \in Event : Decodes(e)})

\* "a live SSE stream keeps receiving the most recent events": the same of all
\* the events handled.
MostRecentReceived == \A s \in registered : Recent(s, Event)

\* After a failure the session is listened to again, unless the subscriber
\* leaves, close() takes its queue, or the channel ended cleanly.
ListensAgain ==
  \A s \in Subscriber :
    (s \in registered) ~>
      (s \notin registered \/ task \in ended \/ (task # NoTask /\ pc[task] = "listening"))
=============================================================================
