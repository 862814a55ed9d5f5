----------------------------- MODULE SseStream -----------------------------
(***************************************************************************)
(* The live stream of one session: the subscriber half of the EventBuffer  *)
(* (collector/buffer.py) and event_generator (api/services/ingestion.py),  *)
(* which replays the database after the client's Last-Event-ID and then    *)
(* follows the buffer.                                                     *)
(*                                                                         *)
(* A client of the Resuming kind reconnects as the EventSource standard    *)
(* has it, with the id of its last event.  The page of the repository      *)
(* (App.tsx) does not: on an error it closes its EventSource and makes a   *)
(* new one, which has no id to send.                                       *)
(*                                                                         *)
(* An event is the number of its timestamp.  It reaches the collector with *)
(* its timestamp on it, so handlers that run concurrently commit and       *)
(* publish in any order.  In mode "http" (server.py, _ingest_trace) an     *)
(* event is published once it is committed; in mode "local" (emitter.py,   *)
(* gather of persister and buffer) the two go on side by side.             *)
(***************************************************************************)
EXTENDS Naturals, Sequences, Functions, Ordering

CONSTANTS
  Client,     \* clients of the session's stream
  Resuming,   \* those that send the id of their last event when they reconnect
  Mode,       \* "http" or "local"
  QueueSize,  \* asyncio.Queue(maxsize=...) of a subscriber
  MaxEvents,  \* bound: events of the session
  MaxCuts     \* bound: connections cut by the network

ASSUME ClientAssumption == Resuming \subseteq Client
ASSUME ModeAssumption == Mode \in {"http", "local"}
ASSUME QueueSizeAssumption == QueueSize \in Nat \ {0}
ASSUME BoundsAssumption == MaxEvents \in Nat /\ MaxCuts \in Nat

VARIABLES
  created,    \* number of events recorded so far
  committed,  \* events in the database
  published,  \* events given to the buffer
  ordered,    \* history: commits and publishes went by timestamp
  conn,       \* client -> "away", "subscribed", "replaying" or "live"
  attached,   \* clients whose queue is in EventBuffer._queues
  queue,      \* client -> its asyncio.Queue
  replay,     \* client -> history still to be yielded
  delivered,  \* client -> the generator's set of ids already yielded
  sent,       \* client -> events of this connection, in order
  cursor,     \* client -> Last-Event-ID, 0 when it has none
  got,        \* history: client -> events received over all connections
  due,        \* history: client -> events published since it has a cursor
  cuts

ingestVars == <<created, committed, published, ordered>>
streamVars == <<conn, attached, queue, replay, delivered, sent, cursor, got>>
vars == <<ingestVars, streamVars, due, cuts>>

Event == 1..MaxEvents

TypeOK ==
  /\ created \in 0..MaxEvents
  /\ committed \subseteq 1..created /\ published \subseteq 1..created
  /\ Mode = "http" => published \subseteq committed
  /\ ordered \in BOOLEAN
  /\ conn \in [Client -> {"away", "subscribed", "replaying", "live"}]
  /\ attached \subseteq {c \in Client : conn[c] # "away"}
  /\ \A c \in Client :
       /\ queue[c] \in Seq(published) /\ Len(queue[c]) <= QueueSize
       /\ replay[c] \in Seq(committed)
       /\ delivered[c] \subseteq got[c] /\ sent[c] \in Seq(got[c])
       /\ cursor[c] \in got[c] \cup {0}
       /\ got[c] \subseteq committed \cup published
       /\ due[c] \subseteq published
  /\ cuts \in 0..MaxCuts

Init ==
  /\ created = 0
  /\ committed = {} /\ published = {}
  /\ ordered = TRUE
  /\ conn = [c \in Client |-> "away"]
  /\ attached = {}
  /\ queue = [c \in Client |-> <<>>]
  /\ replay = [c \in Client |-> <<>>]
  /\ delivered = [c \in Client |-> {}]
  /\ sent = [c \in Client |-> <<>>]
  /\ cursor = [c \in Client |-> 0]
  /\ got = [c \in Client |-> {}]
  /\ due = [c \in Client |-> {}]
  /\ cuts = 0

-----------------------------------------------------------------------------
(* Ingestion *)

Create ==
  /\ created < MaxEvents
  /\ created' = created + 1
  /\ UNCHANGED <<committed, published, ordered, streamVars, due, cuts>>

\* The next one by timestamp of the events not yet in S.
InOrder(e, S) == \A d \in 1..(e - 1) : d \in S

Commit(e) ==
  /\ e \notin committed
  /\ committed' = committed \cup {e}
  /\ ordered' = (ordered /\ InOrder(e, committed))
  /\ UNCHANGED <<created, published, streamVars, due, cuts>>

\* Whether the event may be published now.
Publishable(e) == e \notin published /\ (Mode = "http" => e \in committed)

\* Mutant: the queue may exceed its size by one.
Publish_Overfills(e) ==
  LET full == {c \in attached : Len(queue[c]) > QueueSize}
  IN  /\ Publishable(e)
      /\ published' = published \cup {e}
      /\ ordered' = (ordered /\ InOrder(e, published))
      /\ queue' = [c \in Client |->
                     IF c \in attached \ full THEN Append(queue[c], e) ELSE queue[c]]
      /\ attached' = attached \ full
      /\ due' = [c \in Client |-> IF cursor[c] # 0 THEN due[c] \cup {e} ELSE due[c]]
      /\ UNCHANGED <<created, committed, conn, replay, delivered, sent, cursor, got, cuts>>

\* Mutant: a full queue loses the event and keeps its place.
Publish_KeepsFull(e) ==
  LET full == {c \in attached : Len(queue[c]) >= QueueSize}
  IN  /\ Publishable(e)
      /\ published' = published \cup {e}
      /\ ordered' = (ordered /\ InOrder(e, published))
      /\ queue' = [c \in Client |->
                     IF c \in attached \ full THEN Append(queue[c], e) ELSE queue[c]]
      /\ due' = [c \in Client |-> IF cursor[c] # 0 THEN due[c] \cup {e} ELSE due[c]]
      /\ UNCHANGED <<created, committed, attached, conn, replay, delivered, sent, cursor, got, cuts>>

\* EventBuffer.publish: a subscriber whose queue is full is dropped.
Publish(e) ==
  LET full == {c \in attached : Len(queue[c]) >= QueueSize}
  IN  /\ Publishable(e)
      /\ published' = published \cup {e}
      /\ ordered' = (ordered /\ InOrder(e, published))
      /\ queue' = [c \in Client |->
                     IF c \in attached \ full THEN Append(queue[c], e) ELSE queue[c]]
      /\ attached' = attached \ full
      /\ due' = [c \in Client |-> IF cursor[c] # 0 THEN due[c] \cup {e} ELSE due[c]]
      /\ UNCHANGED <<created, committed, conn, replay, delivered, sent, cursor, got, cuts>>

-----------------------------------------------------------------------------
(* event_generator *)

\* A client opens the stream; the generator subscribes first.  Without a
\* Last-Event-ID there is nothing to replay.
Connect(c) ==
  /\ conn[c] = "away"
  /\ conn' = [conn EXCEPT ![c] = IF cursor[c] = 0 THEN "live" ELSE "subscribed"]
  /\ attached' = attached \cup {c}
  /\ UNCHANGED <<ingestVars, queue, replay, delivered, sent, cursor, got, due, cuts>>

\* The persisted events that follow the cursor by timestamp; all of them when
\* the cursor is not among them.
After(cur) == {e \in committed : cur \in committed => e > cur}

\* The replay query, with its history.sort.
LoadHistory(c) ==
  /\ conn[c] = "subscribed"
  /\ replay' = [replay EXCEPT ![c] = Sorted(After(cursor[c]))]
  /\ conn' = [conn EXCEPT ![c] = "replaying"]
  /\ UNCHANGED <<ingestVars, attached, queue, delivered, sent, cursor, got, due, cuts>>

\* One block of the stream; the client remembers its id.
Yield(c, e) ==
  /\ delivered' = [delivered EXCEPT ![c] = @ \cup {e}]
  /\ sent' = [sent EXCEPT ![c] = Append(@, e)]
  /\ cursor' = [cursor EXCEPT ![c] = e]
  /\ got' = [got EXCEPT ![c] = @ \cup {e}]

\* Mutant: the replay does not note what it yields.
YieldReplay_Forgets(c) ==
  /\ conn[c] = "replaying"
  /\ IF replay[c] = <<>>
       THEN /\ conn' = [conn EXCEPT ![c] = "live"]
            /\ UNCHANGED <<replay, delivered, sent, cursor, got>>
       ELSE /\ sent' = [sent EXCEPT ![c] = Append(@, Head(replay[c]))]
            /\ cursor' = [cursor EXCEPT ![c] = Head(replay[c])]
            /\ got' = [got EXCEPT ![c] = @ \cup {Head(replay[c])}]
            /\ replay' = [replay EXCEPT ![c] = Tail(@)]
            /\ UNCHANGED <<conn, delivered>>
  /\ UNCHANGED <<ingestVars, attached, queue, due, cuts>>

YieldReplay(c) ==
  /\ conn[c] = "replaying"
  /\ IF replay[c] = <<>>
       THEN /\ conn' = [conn EXCEPT ![c] = "live"]
            /\ UNCHANGED <<replay, delivered, sent, cursor, got>>
       ELSE /\ Yield(c, Head(replay[c]))
            /\ replay' = [replay EXCEPT ![c] = Tail(@)]
            /\ UNCHANGED conn
  /\ UNCHANGED <<ingestVars, attached, queue, due, cuts>>

YieldLive(c) ==
  /\ conn[c] = "live" /\ queue[c] # <<>>
  /\ queue' = [queue EXCEPT ![c] = Tail(@)]
  /\ IF Head(queue[c]) \in delivered[c]
       THEN UNCHANGED <<delivered, sent, cursor, got>>
       ELSE Yield(c, Head(queue[c]))
  /\ UNCHANGED <<ingestVars, conn, attached, replay, due, cuts>>

\* The generator ends and unsubscribes.  A new EventSource begins without an id.
Disconnect(c) ==
  /\ conn' = [conn EXCEPT ![c] = "away"]
  /\ attached' = attached \ {c}
  /\ queue' = [queue EXCEPT ![c] = <<>>]
  /\ replay' = [replay EXCEPT ![c] = <<>>]
  /\ delivered' = [delivered EXCEPT ![c] = {}]
  /\ sent' = [sent EXCEPT ![c] = <<>>]
  /\ IF c \in Resuming
       THEN UNCHANGED <<cursor, due>>
       ELSE cursor' = [cursor EXCEPT ![c] = 0] /\ due' = [due EXCEPT ![c] = {}]
  /\ UNCHANGED <<ingestVars, got>>

\* Mutant: the time is looked at when an event arrives.
TimeLimit_OnEvent(c) ==
  /\ conn[c] = "live" /\ queue[c] # <<>>
  /\ Disconnect(c)
  /\ UNCHANGED cuts

\* max_connection_time, looked at between two waits on the queue.
TimeLimit(c) ==
  /\ conn[c] = "live"
  /\ Disconnect(c)
  /\ UNCHANGED cuts

\* The network drops the connection, or the client closes it.
Cut(c) ==
  /\ conn[c] # "away"
  /\ cuts < MaxCuts
  /\ cuts' = cuts + 1
  /\ Disconnect(c)

Next ==
  \/ Create
  \/ \E e \in 1..created : Commit(e) \/ Publish(e)
  \/ \E c \in Client :
       \/ Connect(c) \/ LoadHistory(c) \/ YieldReplay(c) \/ YieldLive(c)
       \/ TimeLimit(c) \/ Cut(c)

Spec == Init /\ [][Next]_vars

\* The event loop runs the generator, and no connection outlives
\* max_connection_time.  Nothing is assumed of the clients.
FairSpec ==
  /\ Spec
  /\ \A c \in Client :
       WF_vars(LoadHistory(c)) /\ WF_vars(YieldReplay(c)) /\ WF_vars(TimeLimit(c))

-----------------------------------------------------------------------------
(* Properties *)

\* The client has nothing more to expect: its stream is live and drained, and
\* every event was committed and published.
CaughtUp(c) ==
  /\ conn[c] = "live" /\ c \in attached /\ queue[c] = <<>>
  /\ committed = 1..created /\ published = 1..created

\* "a reconnect therefore closes the gap": a client that has caught up has every
\* event published since its first one, connected or not at the time; without an
\* id to send, since the first one of this connection.
NoGap == \A c \in Client : CaughtUp(c) => due[c] \subseteq got[c]

\* The claim above, for the case where the timestamps order commits and
\* publishes: through cuts, full queues and time limits nothing is skipped.
NoGapWhenOrdered == ordered => NoGap

\* "deduplicated by id": one connection carries an event at most once, whether
\* the replay, the buffer or both hold it.
OncePerConnection == \A c \in Client : IsInjective(sent[c])

\* A subscriber dropped because its queue was full learns nothing of it; still
\* every event due to a client that resumes reaches it, if the client comes back
\* again and again: the connection times out, and the next one replays the event.
DueIsReceived ==
  \A c \in Resuming :
    []<>(conn[c] # "away") =>
      \A e \in Event : (e \in due[c]) ~> (e \in got[c] \/ ~ordered)
=============================================================================
