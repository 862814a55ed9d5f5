------------------------- MODULE RedisBufferProofs -------------------------
(***************************************************************************)
(* Of RedisBuffer, for any subscribers, listeners, events and number of    *)
(* failures: a session never has a listener that nobody can stop, the      *)
(* state keeps its types, no subscriber gets an event twice or out of      *)
(* order, and of what it is too slow for the newest events are kept.       *)
(***************************************************************************)
EXTENDS RedisBuffer, SequenceTheorems, FiniteSetTheorems, TLAPS

\* The two dictionaries have the session's key together.
Registry ==
  /\ task \in Listener \cup {NoTask}
  /\ registered = {} <=> task = NoTask

PcOK == pc \in [Listener -> Await]

\* close() runs once: until it is over it has passed nothing over.
Once == closer = "open" \/ closer \in Listener => passed = NoTask

Inv == PcOK /\ Registry /\ Once /\ NoStrayListener

\* Cancel makes its task inactive and starts no other one.
LEMMA CancelStops ==
  ASSUME NEW t, Cancel(t), UNCHANGED pc
  PROVE  /\ ~Active(t)'
         /\ \A i : Active(i)' => Active(i)
  BY DEF Cancel, Active

\* The last subscriber takes the listener with it.
LEMMA UnsubscribeInv ==
  ASSUME Inv, NEW s \in Subscriber, Unsubscribe(s)
  PROVE  Inv'
<1>1. CASE registered # {s}
  <2>1. registered' # {} /\ UNCHANGED <<task, pc, cancelled>>
    BY <1>1 DEF Unsubscribe, Inv, Registry
  <2> QED
    BY <2>1 DEF Unsubscribe, closeVars, Inv, PcOK, Registry, Once, NoStrayListener, Active
<1>2. CASE registered = {s}
  <2>1. PICK t : t = task
    OBVIOUS
  <2>2. Cancel(t) /\ task' = NoTask /\ registered' = {} /\ UNCHANGED pc
    BY <1>2, <2>1 DEF Unsubscribe
  <2>3. UNCHANGED <<closer, passed>>
    BY DEF Unsubscribe, closeVars
  <2>4. \A i \in Listener : Active(i)' => i = passed
    BY <2>1, <2>2, CancelStops DEF Inv, NoStrayListener
  <2> QED
    BY <2>2, <2>3, <2>4 DEF Inv, PcOK, Registry, Once, NoStrayListener
<1> QED
  BY <1>1, <1>2

\* A task is entered for the first subscriber only, when none is active.
LEMMA SubscribeInv ==
  ASSUME Inv, NEW s \in Subscriber, Subscribe(s)
  PROVE  Inv'
<1>1. registered' # {}
  BY DEF Subscribe
<1>2. CASE registered # {}
  BY <1>1, <1>2 DEF Subscribe, Inv, PcOK, Registry, Once, NoStrayListener, Active
<1>3. CASE registered = {}
  <2> DEFINE i == CHOOSE i \in Free : TRUE
  <2>1. i \in Listener /\ task' = i /\ pc' = [pc EXCEPT ![i] = "new"]
    BY <1>3 DEF Subscribe, Free
  <2>2. \A j \in Listener : j # i => (Active(j)' <=> Active(j))
    BY <2>1 DEF Active, Inv, PcOK, Subscribe
  <2>3. UNCHANGED <<closer, passed>> /\ \A j \in Listener : Active(j) => j = passed
    BY <1>3 DEF Subscribe, Inv, NoStrayListener
  <2>4. PcOK'
    BY <2>1 DEF Inv, PcOK, Await
  <2> HIDE DEF i
  <2> QED
    BY <1>1, <2>1, <2>2, <2>3, <2>4, NoTaskAssumption DEF Inv, PcOK, Registry, Once, NoStrayListener
<1> QED
  BY <1>2, <1>3

\* close() cancels the one listener, or clears when it is over.
LEMMA CloseInv ==
  ASSUME Inv, Close
  PROVE  Inv'
<1>1. UNCHANGED <<pc, passed>> /\ passed = NoTask
  BY DEF Close, Inv, Once
<1>2. CASE task = NoTask \/ pc[task] = "done"
  <2>1. task' = NoTask /\ registered' = {} /\ UNCHANGED cancelled
    BY <1>2 DEF Close, CloseEnds
  <2>2. \A i \in Listener : Active(i) => i = passed
    BY <1>2 DEF Active, Inv, Registry, NoStrayListener
  <2>3. Once'
    BY <1>1 DEF Once
  <2> QED
    BY <1>1, <2>1, <2>2, <2>3 DEF Inv, PcOK, Registry, NoStrayListener, Active
<1>3. CASE ~(task = NoTask \/ pc[task] = "done")
  <2>1. PICK t : t = task
    OBVIOUS
  <2>2. Cancel(t) /\ UNCHANGED <<task, registered>>
    BY <1>3, <2>1 DEF Close
  <2>3. Once'
    BY <1>1 DEF Once
  <2> QED
    BY <1>1, <2>2, <2>3, CancelStops DEF Inv, PcOK, Registry, NoStrayListener
<1> QED
  BY <1>2, <1>3

\* close() clears after a task that is over, or passes one over.
LEMMA CloseResumesInv ==
  ASSUME Inv, CloseResumes
  PROVE  Inv'
<1>1. task' = NoTask /\ registered' = {} /\ UNCHANGED <<pc, cancelled>>
  BY DEF CloseResumes, CloseEnds, listenVars
<1>0. Once'
  BY CloserAssumption DEF CloseResumes, CloseEnds, Once
<1>2. CASE task = closer
  <2>1. passed' = passed /\ ~Active(task)
    BY <1>2 DEF CloseResumes, Active
  <2> QED
    BY <1>0, <1>1, <2>1 DEF Inv, PcOK, Registry, NoStrayListener, Active
<1>3. CASE task # closer
  <2>1. passed' = task /\ behind
    BY <1>3 DEF CloseResumes
  <2>2. passed = NoTask
    BY DEF Inv, Once, CloseResumes
  <2>3. \A i \in Listener : Active(i)' => i = task
    BY <1>1, <2>2, NoTaskAssumption DEF Inv, NoStrayListener, Active
  <2> QED
    BY <1>0, <1>1, <2>1, <2>3 DEF Inv, PcOK, Registry, NoStrayListener
<1> QED
  BY <1>2, <1>3

\* A step of a listener makes nothing active that was not.
LEMMA ListenerInv ==
  ASSUME Inv, NEW i \in Listener, Listen(i) \/ Fail(i) \/ StreamEnds(i)
  PROVE  Inv'
<1>1. UNCHANGED <<task, registered, closer, passed>>
  BY DEF Listen, Begin, Attach, Wake, Cleaned, Interrupted, Handle, Fail, StreamEnds, Resume,
         closeVars
<1>2. PcOK'
  BY DEF Listen, Begin, Attach, Wake, Cleaned, Interrupted, Handle, Fail, StreamEnds,
         Resume, Inv, PcOK, Await
<1>3. \A j \in Listener : Active(j)' => Active(j)
  <2>1. CASE Handle(i)
    BY <2>1 DEF Handle, Active
  <2>2. CASE Interrupted(i)
    BY <2>2 DEF Interrupted, Active, Inv, PcOK
  <2>3. CASE Begin(i) \/ Attach(i) \/ Wake(i) \/ Cleaned(i)
    BY <2>3 DEF Begin, Attach, Wake, Cleaned, Resume, Active, Inv, PcOK
  <2>4. CASE Fail(i) \/ StreamEnds(i)
    BY <2>4 DEF Fail, StreamEnds, Resume, Active, Inv, PcOK
  <2> QED
    BY <2>1, <2>2, <2>3, <2>4 DEF Listen
<1> QED
  BY <1>1, <1>2, <1>3 DEF Inv, Registry, Once, NoStrayListener

LEMMA Initially == Init => Inv
  BY DEF Init, Inv, PcOK, Await, Registry, Once, NoStrayListener, Active

LEMMA Inductive == Inv /\ [Next]_vars => Inv'
<1> SUFFICES ASSUME Inv, [Next]_vars
             PROVE  Inv'
  OBVIOUS
<1>1. ASSUME NEW e \in Event, XAdd(e) \/ PublishLive(e)
      PROVE  Inv'
  BY <1>1 DEF XAdd, PublishLive, listenVars, closeVars, Inv, PcOK, Registry, Once, NoStrayListener, Active
<1>2. ASSUME NEW s \in Subscriber, Subscribe(s)
      PROVE  Inv'
  BY <1>2, SubscribeInv
<1>3. ASSUME NEW s \in Subscriber, Unsubscribe(s)
      PROVE  Inv'
  BY <1>3, UnsubscribeInv
<1>4. ASSUME NEW s \in Subscriber, Unsubscribed(s) \/ Take(s)
      PROVE  Inv'
  BY <1>4 DEF Unsubscribed, Take, listenVars, closeVars, Inv, PcOK, Registry, Once, NoStrayListener, Active
<1>5. CASE Close
  BY <1>5, CloseInv
<1>6. CASE CloseResumes \/ CloseRaises
  BY <1>6, CloseResumesInv, CloserAssumption
     DEF CloseRaises, listenVars, closeVars, Inv, PcOK, Registry, Once, NoStrayListener, Active
<1>7. ASSUME NEW i \in Listener, Listen(i) \/ Fail(i) \/ StreamEnds(i)
      PROVE  Inv'
  BY <1>7, ListenerInv
<1>8. CASE UNCHANGED vars
  BY <1>8 DEF vars, listenVars, closeVars, Inv, PcOK, Registry, Once, NoStrayListener, Active
<1> QED
  BY <1>1, <1>2, <1>3, <1>4, <1>5, <1>6, <1>7, <1>8 DEF Next

\* unsubscribe leaves no listener behind that would go on for ever, close none but the one
\* it passes over, and no session is listened to twice but then (buffer_redis.py:149-184,
\* 337-345).
THEOREM ListenerNeverStray == Spec => []NoStrayListener
<1>1. Inv => NoStrayListener
  BY DEF Inv
<1> QED
  BY <1>1, Initially, Inductive, PTL DEF Spec

-----------------------------------------------------------------------------
(* Types *)

\* TypeOK says nothing of the domains.
Domains ==
  /\ queue \in [Subscriber -> Seq(Event)]
  /\ got \in [Subscriber -> Seq(Event)]
  /\ heard \in [Subscriber -> Seq(Event)]
  /\ waits \in [Subscriber -> Listener \cup {NoTask}]

Typing == TypeOK /\ Domains

LEMMA AddType ==
  ASSUME Typing, NEW e \in Event, XAdd(e)
  PROVE  Typing'
<1>1. added' \subseteq Event /\ live' \in Seq(added')
  <2>1. live \in Seq(added) /\ added \subseteq added' /\ live' = live
    BY DEF XAdd, Typing, TypeOK
  <2>2. PICK big : big = added'
    OBVIOUS
  <2>3. live \in Seq(big)
    BY <2>1, <2>2, SeqMonotonic
  <2>4. QED
    BY <2>1, <2>2, <2>3 DEF XAdd, Typing, TypeOK
<1>2. QED
  BY <1>1 DEF XAdd, listenVars, subVars, closeVars, Typing, TypeOK, Domains

LEMMA PublishType ==
  ASSUME Typing, NEW e \in Event, PublishLive(e)
  PROVE  Typing'
<1>1. e \in added /\ live \in Seq(added) /\ e \notin Range(live)
  BY DEF PublishLive, Typing, TypeOK
<1>2. /\ Append(live, e) \in Seq(added)
      /\ Len(Append(live, e)) = Len(live) + 1
      /\ \A k \in 1..Len(live) : Append(live, e)[k] = live[k]
      /\ Append(live, e)[Len(live) + 1] = e
  BY <1>1, AppendProperties
<1>3. /\ Len(live) \in Nat /\ DOMAIN live = 1..Len(live)
      /\ DOMAIN Append(live, e) = 1..(Len(live) + 1)
  BY <1>1, <1>2, LenProperties
<1>4. IsInjective(Append(live, e))
  <2>1. SUFFICES ASSUME NEW a \in 1..(Len(live) + 1), NEW b \in 1..(Len(live) + 1),
                        Append(live, e)[a] = Append(live, e)[b]
                 PROVE  a = b
    BY <1>3 DEF IsInjective
  <2>2. \A k \in 1..Len(live) : live[k] # e
    BY <1>1, <1>3 DEF Range
  <2>3. \A k \in 1..(Len(live) + 1) : k \in 1..Len(live) \/ k = Len(live) + 1
    BY <1>3
  <2>4. \A k, m \in 1..Len(live) : live[k] = live[m] => k = m
    BY <1>3 DEF Typing, TypeOK, IsInjective
  <2>5. QED
    BY <1>2, <2>1, <2>2, <2>3, <2>4
<1>5. inbox' \in [Listener -> Seq(Event)]
  <2>1. \A i \in Listener : inbox[i] \in Seq(Event) /\ Append(inbox[i], e) \in Seq(Event)
    BY AppendProperties DEF Typing, TypeOK
  <2>2. QED
    BY <2>1 DEF PublishLive
<1>6. live' = Append(live, e) /\ added' = added
  BY DEF PublishLive
<1>7. QED
  BY <1>2, <1>4, <1>5, <1>6 DEF PublishLive, subVars, closeVars, Typing, TypeOK, Domains

\* A new queue is an empty one.
LEMMA NewQueueType ==
  ASSUME Typing, NEW s \in Subscriber, NewQueue(s)
  PROVE  /\ queue' \in [Subscriber -> Seq(Event)]
         /\ got' \in [Subscriber -> Seq(Event)]
         /\ heard' \in [Subscriber -> Seq(Event)]
         /\ \A t \in Subscriber : Len(queue'[t]) <= QueueSize
<1>1. <<>> \in Seq(Event) /\ Len(<<>>) <= QueueSize
  BY RedisQueueSizeAssumption, EmptySeq
<1>2. QED
  BY <1>1 DEF NewQueue, closeVars, Typing, TypeOK, Domains

LEMMA SubscribeType ==
  ASSUME Typing, NEW s \in Subscriber, Subscribe(s)
  PROVE  Typing'
<1>1. NewQueue(s)
  BY DEF Subscribe
<1>2. CASE registered # {}
  <2>1. /\ registered' \subseteq Subscriber /\ registered' # {} /\ registered' = registered \cup {s}
        /\ task' = task /\ task # NoTask /\ waits[s] = NoTask
    BY <1>2 DEF Subscribe, Typing, TypeOK
  <2>2. \A t \in Subscriber : waits[t] # NoTask => t \notin registered'
    BY <2>1 DEF Typing, TypeOK
  <2>3. QED
    BY <1>1, <1>2, <2>1, <2>2, NewQueueType DEF Subscribe, redisVars, closeVars, Typing, TypeOK, Domains
<1>3. CASE registered = {}
  <2> DEFINE i == CHOOSE i \in Free : TRUE
  <2>1. /\ i \in Listener /\ pc[i] = "done"
        /\ task' = i /\ pc' = [pc EXCEPT ![i] = "new"] /\ ended' = ended \ {i}
    BY <1>3 DEF Subscribe, Free
  <2> HIDE DEF i
  <2>2. pc' \in [Listener -> Await]
    BY <2>1 DEF Await, Typing, TypeOK
  <2>3. cancelled' \subseteq {j \in Listener : pc'[j] # "done"}
    BY <2>1 DEF Subscribe, Typing, TypeOK
  <2>4. task' \in Listener /\ task' # NoTask /\ registered' # {} /\ registered' \subseteq Subscriber
    BY <2>1, NoTaskAssumption DEF Subscribe, Typing, TypeOK
  <2>5. ended' \subseteq Listener
    BY <2>1 DEF Typing, TypeOK
  <2>6. QED
    BY <1>1, <2>2, <2>3, <2>4, <2>5, NewQueueType DEF Subscribe, redisVars, closeVars, Typing, TypeOK, Domains
<1>4. QED
  BY <1>2, <1>3

\* Only a task that is not done waits for its CancelledError.
LEMMA CancelType ==
  ASSUME Typing, NEW t \in Listener, Cancel(t), UNCHANGED pc
  PROVE  cancelled' \subseteq {j \in Listener : pc'[j] # "done"}
BY DEF Cancel, Typing, TypeOK

LEMMA UnsubscribeType ==
  ASSUME Typing, NEW s \in Subscriber, Unsubscribe(s)
  PROVE  Typing'
<1>1. NewQueue(s)
  BY DEF Unsubscribe
<1>2. CASE registered # {s}
  <2>1. registered' # {} /\ registered' \subseteq Subscriber /\ task' = task /\ registered # {}
        /\ \A t \in Subscriber : t \notin registered => t \notin registered'
    BY <1>2 DEF Unsubscribe, Typing, TypeOK
  <2>2. QED
    BY <1>1, <1>2, <2>1, NewQueueType DEF Unsubscribe, redisVars, closeVars, Typing, TypeOK, Domains
<1>3. CASE registered = {s}
  <2>1. task \in Listener /\ registered' = {} /\ task' = NoTask
    BY <1>3 DEF Unsubscribe, Typing, TypeOK
  <2>2. PICK t \in Listener : t = task
    BY <2>1
  <2>3. cancelled' \subseteq {j \in Listener : pc'[j] # "done"}
    BY <1>3, <2>2, CancelType DEF Unsubscribe
  <2>4. waits' \in [Subscriber -> Listener \cup {NoTask}]
    BY <1>3, <2>1 DEF Unsubscribe, Typing, Domains
  <2>5. QED
    BY <1>1, <2>1, <2>3, <2>4, NewQueueType DEF Unsubscribe, redisVars, closeVars, Typing, TypeOK, Domains
<1>4. QED
  BY <1>2, <1>3

\* Close, in both cases.
LEMMA CloseType ==
  ASSUME Typing, Close
  PROVE  Typing'
<1>1. CASE task = NoTask \/ pc[task] = "done"
  <2>1. /\ registered' = {} /\ task' = NoTask /\ closer' = "closed" /\ cancelled' = cancelled
    BY <1>1 DEF Close, CloseEnds
  <2>2. QED
    BY <2>1 DEF Close, redisVars, subVars, closeVars, Typing, TypeOK, Domains
<1>2. CASE ~(task = NoTask \/ pc[task] = "done")
  <2>1. PICK t \in Listener : t = task
    BY <1>2 DEF Typing, TypeOK
  <2>2. Cancel(t) /\ closer' = t /\ UNCHANGED <<task, registered, pc>>
    BY <1>2, <2>1 DEF Close
  <2>3. cancelled' \subseteq {j \in Listener : pc'[j] # "done"}
    BY <2>2, CancelType
  <2>4. QED
    BY <2>2, <2>3 DEF Close, redisVars, subVars, closeVars, Typing, TypeOK, Domains
<1>3. QED
  BY <1>1, <1>2

\* The end of close(), in all three forms.
LEMMA CloseOverType ==
  ASSUME Typing, CloseResumes \/ CloseRaises
  PROVE  Typing'
<1>1. CASE CloseResumes
  <2>1. /\ registered' = {} /\ task' = NoTask /\ closer' = "closed" /\ behind' = FALSE
        /\ passed' \in Listener \cup {NoTask}
    BY <1>1 DEF CloseResumes, CloseEnds, Typing, TypeOK
  <2>2. QED
    BY <1>1, <2>1 DEF CloseResumes, redisVars, listenVars, subVars, closeVars, Typing, TypeOK, Domains
<1>2. CASE CloseRaises
  BY <1>2 DEF CloseRaises, redisVars, listenVars, subVars, closeVars, Typing, TypeOK, Domains
<1>3. QED
  BY <1>1, <1>2

LEMMA TakeType ==
  ASSUME Typing, NEW s \in Subscriber, Take(s)
  PROVE  Typing'
<1>1. queue[s] \in Seq(Event) /\ queue[s] # <<>> /\ got[s] \in Seq(Event) /\ Len(queue[s]) <= QueueSize
  BY DEF Take, Typing, TypeOK
<1>2. /\ Head(queue[s]) \in Event /\ Tail(queue[s]) \in Seq(Event)
      /\ Len(Tail(queue[s])) = Len(queue[s]) - 1
  BY <1>1, HeadTailProperties
<1>3. Append(got[s], Head(queue[s])) \in Seq(Event)
  BY <1>1, <1>2, AppendProperties
<1>4. Len(Tail(queue[s])) <= QueueSize
  BY <1>1, <1>2, RedisQueueSizeAssumption, LenProperties
<1>5. queue' \in [Subscriber -> Seq(Event)] /\ got' \in [Subscriber -> Seq(Event)]
  BY <1>2, <1>3 DEF Take, Typing, Domains
<1>6. \A t \in Subscriber : Len(queue'[t]) <= QueueSize
  BY <1>4 DEF Take, closeVars, Typing, TypeOK, Domains
<1>7. QED
  BY <1>5, <1>6 DEF Take, redisVars, listenVars, closeVars, Typing, TypeOK, Domains

\* A queue that is offered an event stays within its size.
LEMMA OfferedType ==
  ASSUME NEW q \in Seq(Event), Len(q) <= QueueSize, NEW e \in Event
  PROVE  Offered(q, e) \in Seq(Event) /\ Len(Offered(q, e)) <= QueueSize
<1>1. Len(q) \in Nat /\ QueueSize \in Nat /\ QueueSize > 0
  BY RedisQueueSizeAssumption, LenProperties
<1>2. CASE Len(q) < QueueSize
  BY <1>1, <1>2, AppendProperties DEF Offered
<1>3. CASE ~(Len(q) < QueueSize)
  <2>1. q # <<>>
    BY <1>1, <1>3, EmptySeq
  <2>2. Tail(q) \in Seq(Event) /\ Len(Tail(q)) = Len(q) - 1
    BY <2>1, HeadTailProperties
  <2>3. Append(Tail(q), e) \in Seq(Event) /\ Len(Append(Tail(q), e)) = Len(Tail(q)) + 1
    BY <2>2, AppendProperties
  <2>4. QED
    BY <1>1, <1>3, <2>2, <2>3 DEF Offered
<1>4. QED
  BY <1>2, <1>3

LEMMA HandleType ==
  ASSUME Typing, NEW i \in Listener, Handle(i)
  PROVE  Typing'
<1>1. PICK e : e = Head(inbox[i])
  OBVIOUS
<1>2. inbox[i] \in Seq(Event) /\ inbox[i] # <<>>
  BY DEF Handle, Typing, TypeOK
<1>3. e \in Event /\ Tail(inbox[i]) \in Seq(Event)
  BY <1>1, <1>2, HeadTailProperties
<1>4. inbox' \in [Listener -> Seq(Event)]
  BY <1>3 DEF Handle, Typing, TypeOK
<1>5. \A s \in Subscriber : /\ Append(heard[s], e) \in Seq(Event)
                            /\ Offered(queue[s], e) \in Seq(Event)
                            /\ Len(Offered(queue[s], e)) <= QueueSize
  BY <1>3, AppendProperties, OfferedType DEF Typing, TypeOK
<1>6. heard' \in [Subscriber -> Seq(Event)]
  BY <1>1, <1>5 DEF Handle, Typing, TypeOK
<1>7. /\ queue' \in [Subscriber -> Seq(Event)]
      /\ \A s \in Subscriber : Len(queue'[s]) <= QueueSize
  BY <1>1, <1>5 DEF Handle, Typing, TypeOK
<1>8. QED
  BY <1>4, <1>6, <1>7 DEF Handle, redisVars, closeVars, Typing, TypeOK, Domains

LEMMA ListenerType ==
  ASSUME Typing, NEW i \in Listener, Listen(i) \/ Fail(i) \/ StreamEnds(i)
  PROVE  Typing'
<1>1. <<>> \in Seq(Event)
  BY EmptySeq
<1>2. ASSUME NEW p \in Await, Resume(i, p)
      PROVE  /\ pc' \in [Listener -> Await]
             /\ cancelled' \subseteq {j \in Listener : pc'[j] # "done"}
  BY <1>2 DEF Resume, Typing, TypeOK
<1>3. CASE Begin(i) \/ Attach(i) \/ Wake(i)
  <2>1. \E p \in Await : Resume(i, p)
    BY <1>3 DEF Begin, Attach, Wake, Await
  <2>2. QED
    BY <1>2, <1>3, <2>1 DEF Begin, Attach, Wake, Resume, redisVars, subVars, closeVars, Typing, TypeOK, Domains
<1>4. CASE Cleaned(i)
  <2>1. \E p \in Await : Resume(i, p)
    BY <1>4 DEF Cleaned, Await
  <2>2. QED
    BY <1>2, <1>4, <2>1 DEF Cleaned, Resume, redisVars, subVars, closeVars, Typing, TypeOK, Domains
<1>5. CASE Fail(i)
  <2>1. \E p \in Await : Resume(i, p)
    BY <1>5 DEF Fail, Await
  <2>2. inbox' \in [Listener -> Seq(Event)]
    BY <1>1, <1>5 DEF Fail, Typing, TypeOK
  <2>3. drops' \in 0..MaxDrops
    BY <1>5, DropsAssumption DEF Fail, Typing, TypeOK
  <2>4. QED
    BY <1>2, <1>5, <2>1, <2>2, <2>3 DEF Fail, Resume, redisVars, subVars, closeVars, Typing, TypeOK, Domains
<1>6. CASE StreamEnds(i)
  <2>1. \E p \in Await : Resume(i, p)
    BY <1>6 DEF StreamEnds, Await
  <2>2. QED
    BY <1>2, <1>6, <2>1 DEF StreamEnds, Resume, redisVars, subVars, closeVars, Typing, TypeOK, Domains
<1>7. CASE Interrupted(i)
  <2>1. pc' \in [Listener -> Await]
    BY <1>7 DEF Interrupted, Await, Typing, TypeOK
  <2>2. cancelled' \subseteq {j \in Listener : pc'[j] # "done"}
    BY <1>7 DEF Interrupted, Typing, TypeOK
  <2>3. inbox' \in [Listener -> Seq(Event)]
    BY <1>1, <1>7 DEF Interrupted, Typing, TypeOK
  <2>4. QED
    BY <1>7, <2>1, <2>2, <2>3 DEF Interrupted, redisVars, subVars, closeVars, Typing, TypeOK, Domains
<1>8. QED
  BY <1>3, <1>4, <1>5, <1>6, <1>7, HandleType DEF Listen

LEMMA TypingInitially == Init => Typing
<1>1. SUFFICES ASSUME Init
               PROVE  Typing
  OBVIOUS
<1>2. <<>> \in Seq(Event) /\ <<>> \in Seq({}) /\ Len(<<>>) = 0
  BY EmptySeq
<1>3. IsInjective(<<>>)
  BY DEF IsInjective
<1>4. 0 <= QueueSize /\ 0 \in 0..MaxDrops
  BY RedisQueueSizeAssumption, DropsAssumption
<1>5. QED
  BY <1>1, <1>2, <1>3, <1>4 DEF Init, Typing, TypeOK, Domains, Await

LEMMA TypingInductive == Typing /\ [Next]_vars => Typing'
<1> SUFFICES ASSUME Typing, [Next]_vars
             PROVE  Typing'
  OBVIOUS
<1>1. ASSUME NEW e \in Event, XAdd(e) \/ PublishLive(e)
      PROVE  Typing'
  BY <1>1, AddType, PublishType
<1>2. ASSUME NEW s \in Subscriber, Subscribe(s) \/ Unsubscribe(s) \/ Take(s)
      PROVE  Typing'
  BY <1>2, SubscribeType, UnsubscribeType, TakeType
<1>3. ASSUME NEW s \in Subscriber, Unsubscribed(s)
      PROVE  Typing'
  BY <1>3 DEF Unsubscribed, redisVars, listenVars, subVars, closeVars, Typing, TypeOK, Domains
<1>4. CASE Close
  BY <1>4, CloseType
<1>5. CASE CloseResumes \/ CloseRaises
  BY <1>5, CloseOverType
<1>6. ASSUME NEW i \in Listener, Listen(i) \/ Fail(i) \/ StreamEnds(i)
      PROVE  Typing'
  BY <1>6, ListenerType
<1>7. CASE UNCHANGED vars
  BY <1>7 DEF vars, redisVars, listenVars, subVars, closeVars, Typing, TypeOK, Domains
<1>8. QED
  BY <1>1, <1>2, <1>3, <1>4, <1>5, <1>6, <1>7 DEF Next

\* Every reachable state is well typed: the queues stay within their size
\* (buffer_redis.py: _fanout), the dictionaries have the same keys, and only a
\* task that is still running has a cancellation to meet.
THEOREM RedisTypeCorrect == Spec => []TypeOK
<1>1. Typing => TypeOK
  BY DEF Typing
<1>2. QED
  BY <1>1, TypingInitially, TypingInductive, PTL DEF Spec

-----------------------------------------------------------------------------
(* The order of events *)

\* In the history L, a comes before b; q follows its order, all of p comes
\* before all of q, and q has events of L only.
Ahead(L, a, b) == \E m, n \in DOMAIN L : m < n /\ L[m] = a /\ L[n] = b
Lined(L, q) == \A j, k \in DOMAIN q : j < k => Ahead(L, q[j], q[k])
AllAhead(L, p, q) == \A j \in DOMAIN p, k \in DOMAIN q : Ahead(L, p[j], q[k])
Within(L, q) == \A j \in DOMAIN q : \E m \in DOMAIN L : L[m] = q[j]

\* What is on a connection is in order, and what has been taken is ahead of what
\* is in the queue; both are ahead of what the listener of a registered
\* subscriber still has to handle.
Lines ==
  /\ \A i \in Listener : Lined(live, inbox[i]) /\ Within(live, inbox[i])
  /\ \A s \in Subscriber :
       /\ Lined(live, got[s]) /\ Within(live, got[s])
       /\ Lined(live, queue[s]) /\ Within(live, queue[s])
       /\ AllAhead(live, got[s], queue[s])
  /\ \A s \in registered, i \in Listener : Active(i) =>
       AllAhead(live, got[s], inbox[i]) /\ AllAhead(live, queue[s], inbox[i])

\* An empty sequence is in any order.
LEMMA EmptyLines ==
  ASSUME NEW L, NEW q
  PROVE  /\ Lined(L, <<>>) /\ Within(L, <<>>)
         /\ AllAhead(L, <<>>, q) /\ AllAhead(L, q, <<>>)
BY DEF Lined, Within, AllAhead

\* The indices of an extended sequence.
LEMMA AppendIndices ==
  ASSUME NEW S, NEW q \in Seq(S), NEW e \in S
  PROVE  /\ Len(q) \in Nat /\ DOMAIN q = 1..Len(q)
         /\ DOMAIN Append(q, e) = 1..(Len(q) + 1)
         /\ \A k \in DOMAIN q : k \in DOMAIN Append(q, e) /\ Append(q, e)[k] = q[k] /\ k < Len(q) + 1
         /\ Append(q, e)[Len(q) + 1] = e
         /\ \A k \in DOMAIN Append(q, e) : k \in DOMAIN q \/ k = Len(q) + 1
<1>1. /\ Append(q, e) \in Seq(S)
      /\ Len(Append(q, e)) = Len(q) + 1
      /\ \A k \in 1..Len(q) : Append(q, e)[k] = q[k]
      /\ Append(q, e)[Len(q) + 1] = e
  BY AppendProperties
<1>2. Len(q) \in Nat /\ DOMAIN q = 1..Len(q) /\ DOMAIN Append(q, e) = 1..(Len(q) + 1)
  BY <1>1, LenProperties
<1>3. \A n \in Nat : \A k \in 1..(n + 1) : k \in 1..n \/ k = n + 1
  OBVIOUS
<1>4. \A n \in Nat : \A k \in 1..n : k \in 1..(n + 1) /\ k < n + 1
  OBVIOUS
<1>5. QED
  BY <1>1, <1>2, <1>3, <1>4

\* An event behind all of a sequence extends it in order.
LEMMA AppendLines ==
  ASSUME NEW L, NEW q \in Seq(Event), NEW e \in Event, Lined(L, q), Within(L, q),
         \A j \in DOMAIN q : Ahead(L, q[j], e), \E m \in DOMAIN L : L[m] = e
  PROVE  Lined(L, Append(q, e)) /\ Within(L, Append(q, e))
<1>1. Within(L, Append(q, e))
  BY AppendIndices DEF Within
<1>2. ASSUME NEW j \in DOMAIN Append(q, e), NEW k \in DOMAIN Append(q, e), j < k
      PROVE  Ahead(L, Append(q, e)[j], Append(q, e)[k])
  <2>1. j \in DOMAIN q
    BY <1>2, AppendIndices
  <2>2. CASE k \in DOMAIN q
    BY <1>2, <2>1, <2>2, AppendIndices DEF Lined
  <2>3. CASE k = Len(q) + 1
    BY <2>1, <2>3, AppendIndices
  <2>4. QED
    BY <2>2, <2>3, AppendIndices
<1>3. QED
  BY <1>1, <1>2 DEF Lined

\* The same for what is ahead of it, and for what it is ahead of.
LEMMA AppendAhead ==
  ASSUME NEW L, NEW p \in Seq(Event), NEW q \in Seq(Event), NEW e \in Event, AllAhead(L, p, q)
  PROVE  /\ (\A j \in DOMAIN p : Ahead(L, p[j], e)) => AllAhead(L, p, Append(q, e))
         /\ (\A j \in DOMAIN q : Ahead(L, e, q[j])) => AllAhead(L, Append(p, e), q)
<1>1. ASSUME \A j \in DOMAIN p : Ahead(L, p[j], e)
      PROVE  AllAhead(L, p, Append(q, e))
  BY <1>1, AppendIndices DEF AllAhead
<1>2. ASSUME \A j \in DOMAIN q : Ahead(L, e, q[j])
      PROVE  AllAhead(L, Append(p, e), q)
  BY <1>2, AppendIndices DEF AllAhead
<1>3. QED
  BY <1>1, <1>2

\* The indices of a sequence without its first element.
LEMMA TailIndices ==
  ASSUME NEW S, NEW q \in Seq(S), q # <<>>
  PROVE  /\ 1 \in DOMAIN q /\ Head(q) = q[1] /\ Head(q) \in S /\ Tail(q) \in Seq(S)
         /\ \A k \in DOMAIN Tail(q) : k \in Nat /\ k + 1 \in DOMAIN q /\ Tail(q)[k] = q[k + 1] /\ 1 < k + 1
<1>1. /\ Head(q) \in S /\ Tail(q) \in Seq(S) /\ Len(Tail(q)) = Len(q) - 1
      /\ \A i \in 1..Len(Tail(q)) : Tail(q)[i] = q[i + 1]
  BY HeadTailProperties
<1>2. /\ Len(q) \in Nat /\ Len(q) # 0 /\ DOMAIN q = 1..Len(q)
      /\ DOMAIN Tail(q) = 1..Len(Tail(q))
  BY <1>1, LenProperties, EmptySeq
<1>3. \A n \in Nat : n # 0 =>
        /\ 1 \in 1..n
        /\ \A k \in 1..(n - 1) : k \in Nat /\ k + 1 \in 1..n /\ 1 < k + 1
  OBVIOUS
<1>4. Head(q) = q[1]
  BY DEF Head
<1>5. QED
  BY <1>1, <1>2, <1>3, <1>4

LEMMA TailLines ==
  ASSUME NEW L, NEW q \in Seq(Event), q # <<>>, Lined(L, q), Within(L, q)
  PROVE  /\ Lined(L, Tail(q)) /\ Within(L, Tail(q))
         /\ \A k \in DOMAIN Tail(q) : Ahead(L, Head(q), Tail(q)[k])
<1>1. Within(L, Tail(q))
  BY TailIndices DEF Within
<1>2. \A k \in DOMAIN Tail(q) : Ahead(L, Head(q), Tail(q)[k])
  BY TailIndices DEF Lined
<1>3. ASSUME NEW j \in DOMAIN Tail(q), NEW k \in DOMAIN Tail(q), j < k
      PROVE  Ahead(L, Tail(q)[j], Tail(q)[k])
  <2>1. j \in Nat /\ k \in Nat /\ j + 1 \in DOMAIN q /\ k + 1 \in DOMAIN q
        /\ Tail(q)[j] = q[j + 1] /\ Tail(q)[k] = q[k + 1]
    BY TailIndices
  <2>2. j + 1 < k + 1
    BY <1>3, <2>1
  <2>3. QED
    BY <2>1, <2>2 DEF Lined
<1>4. QED
  BY <1>1, <1>2, <1>3 DEF Lined

LEMMA TailAhead ==
  ASSUME NEW L, NEW p, NEW q \in Seq(Event), q # <<>>
  PROVE  /\ AllAhead(L, p, q) => AllAhead(L, p, Tail(q))
         /\ AllAhead(L, q, p) => AllAhead(L, Tail(q), p)
BY TailIndices DEF AllAhead

\* A history that grows keeps its order, and its next event is behind all others.
LEMMA GrowAhead ==
  ASSUME NEW L \in Seq(Event), NEW e \in Event
  PROVE  /\ \A a, b : Ahead(L, a, b) => Ahead(Append(L, e), a, b)
         /\ \A q : Within(L, q) => \A j \in DOMAIN q : Ahead(Append(L, e), q[j], e)
         /\ \A q : Within(L, q) => Within(Append(L, e), q)
         /\ \E m \in DOMAIN Append(L, e) : Append(L, e)[m] = e
<1>1. \A a, b : Ahead(L, a, b) => Ahead(Append(L, e), a, b)
  BY AppendIndices DEF Ahead
<1>2. Len(L) + 1 \in DOMAIN Append(L, e) /\ Append(L, e)[Len(L) + 1] = e
  BY AppendIndices
<1>3. ASSUME NEW q, Within(L, q), NEW j \in DOMAIN q
      PROVE  Ahead(Append(L, e), q[j], e)
  <2>1. PICK m \in DOMAIN L : L[m] = q[j]
    BY <1>3 DEF Within
  <2>2. m \in DOMAIN Append(L, e) /\ Append(L, e)[m] = q[j] /\ m < Len(L) + 1
    BY <2>1, AppendIndices
  <2>3. QED
    BY <1>2, <2>2 DEF Ahead
<1>4. \A q : Within(L, q) => Within(Append(L, e), q)
  BY AppendIndices DEF Within
<1>5. QED
  BY <1>1, <1>2, <1>3, <1>4

\* As long as close() has passed nothing over.
LInv == Typing /\ Inv /\ passed = NoTask /\ Lines

\* Steps that only empty queues and connections, and make nobody hear more.
LEMMA LinesShrink ==
  ASSUME Lines, live' = live,
         \A i \in Listener : inbox'[i] = inbox[i] \/ inbox'[i] = <<>>,
         \A s \in Subscriber : \/ queue'[s] = queue[s] /\ got'[s] = got[s]
                               \/ queue'[s] = <<>> /\ got'[s] = <<>>,
         registered' \subseteq Subscriber,
         \A s \in registered', i \in Listener : Active(i)' =>
           (s \in registered /\ Active(i)) \/ (queue'[s] = <<>> /\ got'[s] = <<>>)
  PROVE  Lines'
<1>1. \A i \in Listener : Lined(live, inbox'[i]) /\ Within(live, inbox'[i])
  BY EmptyLines DEF Lines
<1>2. \A s \in Subscriber :
        /\ Lined(live, got'[s]) /\ Within(live, got'[s])
        /\ Lined(live, queue'[s]) /\ Within(live, queue'[s])
        /\ AllAhead(live, got'[s], queue'[s])
  BY EmptyLines DEF Lines
<1>3. ASSUME NEW s \in registered', NEW i \in Listener, Active(i)'
      PROVE  AllAhead(live, got'[s], inbox'[i]) /\ AllAhead(live, queue'[s], inbox'[i])
  BY <1>3, EmptyLines DEF Lines
<1>4. QED
  BY <1>1, <1>2, <1>3 DEF Lines

\* No step but subscribe makes a listener active or registers anybody.
LEMMA SubscribersLines ==
  ASSUME LInv, NEW s \in Subscriber, Subscribe(s) \/ Unsubscribe(s)
  PROVE  Lines'
<1>1. /\ queue'[s] = <<>> /\ got'[s] = <<>>
      /\ \A t \in Subscriber : t # s => queue'[t] = queue[t] /\ got'[t] = got[t]
  BY DEF Subscribe, Unsubscribe, NewQueue, LInv, Typing, Domains
<1>2. live' = live /\ inbox' = inbox /\ registered' \subseteq registered \cup {s}
      /\ registered' \subseteq Subscriber
  BY DEF Subscribe, Unsubscribe, redisVars, LInv, Typing, TypeOK
<1>3. ASSUME registered # {} \/ Unsubscribe(s), NEW i \in Listener, Active(i)'
      PROVE  Active(i)
  <2>1. CASE Subscribe(s) /\ registered # {}
    BY <1>3, <2>1 DEF Subscribe, Active
  <2>2. CASE Unsubscribe(s) /\ registered # {s}
    BY <1>3, <2>2 DEF Unsubscribe, Active
  <2>3. CASE Unsubscribe(s) /\ registered = {s}
    <3>1. PICK t : t = task
      OBVIOUS
    <3>2. Cancel(t) /\ UNCHANGED pc
      BY <2>3, <3>1 DEF Unsubscribe
    <3>3. QED
      BY <1>3, <3>2, CancelStops
  <2>4. QED
    BY <1>3, <2>1, <2>2, <2>3
<1>4. registered = {} => registered' \subseteq {s}
  BY <1>2
<1>5. \A t \in registered', i \in Listener : Active(i)' =>
        (t \in registered /\ Active(i)) \/ (queue'[t] = <<>> /\ got'[t] = <<>>)
  BY <1>1, <1>2, <1>3, <1>4
<1>6. QED
  BY <1>1, <1>2, <1>5, LinesShrink DEF LInv

\* No step of close() makes a listener active.
LEMMA CloseQuiet ==
  ASSUME Close \/ CloseResumes \/ CloseRaises
  PROVE  /\ UNCHANGED <<live, inbox, heard, queue, got>>
         /\ registered' \subseteq registered /\ \A i \in Listener : Active(i)' => Active(i)
<1>1. UNCHANGED <<live, inbox, heard, queue, got, pc>>
  BY DEF Close, CloseResumes, CloseRaises, redisVars, listenVars, subVars
<1>2. \/ UNCHANGED cancelled /\ (UNCHANGED registered \/ registered' = {})
      \/ Cancel(task) /\ UNCHANGED registered
  BY DEF Close, CloseResumes, CloseRaises, CloseEnds, listenVars
<1>3. CASE UNCHANGED cancelled /\ (UNCHANGED registered \/ registered' = {})
  BY <1>1, <1>3 DEF Active
<1>4. CASE Cancel(task) /\ UNCHANGED registered
  <2>1. PICK t : t = task
    OBVIOUS
  <2>2. Cancel(t)
    BY <1>4, <2>1
  <2>3. QED
    BY <1>1, <1>4, <2>2, CancelStops
<1>5. QED
  BY <1>2, <1>3, <1>4

LEMMA CloseLines ==
  ASSUME LInv, Close \/ CloseResumes \/ CloseRaises
  PROVE  Lines'
<1>1. /\ UNCHANGED <<live, inbox, queue, got>>
      /\ registered' \subseteq registered /\ \A i \in Listener : Active(i)' => Active(i)
  BY CloseQuiet
<1>2. registered' \subseteq Subscriber
  BY <1>1 DEF LInv, Typing, TypeOK
<1>3. QED
  BY <1>1, <1>2, LinesShrink DEF LInv

\* The subscriber takes the head of its queue, which is behind all it has taken.
LEMMA TakeLines ==
  ASSUME LInv, NEW s \in Subscriber, Take(s)
  PROVE  Lines'
<1> DEFINE q == queue[s]
           g == got[s]
           h == Head(q)
<1>1. q \in Seq(Event) /\ g \in Seq(Event) /\ q # <<>>
  BY DEF Take, LInv, Typing, Domains
<1>2. /\ Lined(live, g) /\ Within(live, g) /\ Lined(live, q) /\ Within(live, q)
      /\ AllAhead(live, g, q)
  BY DEF LInv, Lines
<1>3. /\ queue'[s] = Tail(q) /\ got'[s] = Append(g, h)
      /\ \A t \in Subscriber : t # s => queue'[t] = queue[t] /\ got'[t] = got[t]
  BY DEF Take, LInv, Typing, Domains
<1>4. UNCHANGED <<live, inbox, registered, pc, cancelled>>
  BY DEF Take, redisVars, listenVars
<1> HIDE DEF q, g
<1>5. h \in Event /\ Tail(q) \in Seq(Event) /\ 1 \in DOMAIN q /\ h = q[1]
  BY <1>1, TailIndices
<1> HIDE DEF h
<1>6. \E m \in DOMAIN live : live[m] = h
  BY <1>2, <1>5 DEF Within
<1>7. \A j \in DOMAIN g : Ahead(live, g[j], h)
  BY <1>2, <1>5 DEF AllAhead
<1>8. Lined(live, Append(g, h)) /\ Within(live, Append(g, h))
  BY <1>1, <1>2, <1>5, <1>6, <1>7, AppendLines
<1>9. /\ Lined(live, Tail(q)) /\ Within(live, Tail(q))
      /\ \A k \in DOMAIN Tail(q) : Ahead(live, h, Tail(q)[k])
  BY <1>1, <1>2, TailLines DEF h
<1>10. AllAhead(live, Append(g, h), Tail(q))
  <2>1. AllAhead(live, g, Tail(q))
    BY <1>1, <1>2, TailAhead
  <2>2. QED
    BY <1>1, <1>5, <1>9, <2>1, AppendAhead
<1>11. ASSUME NEW i \in Listener, Active(i), s \in registered
       PROVE  AllAhead(live, Append(g, h), inbox[i]) /\ AllAhead(live, Tail(q), inbox[i])
  <2>1. AllAhead(live, g, inbox[i]) /\ AllAhead(live, q, inbox[i])
    BY <1>11 DEF LInv, Lines, q, g
  <2>2. AllAhead(live, Tail(q), inbox[i])
    BY <1>1, <2>1, TailAhead
  <2>3. \A j \in DOMAIN inbox[i] : Ahead(live, h, inbox[i][j])
    BY <1>5, <2>1 DEF AllAhead
  <2>4. PICK r : r = inbox[i]
    OBVIOUS
  <2>5. r \in Seq(Event)
    BY <2>4 DEF LInv, Typing, TypeOK
  <2>6. AllAhead(live, Append(g, h), r)
    BY <1>1, <1>5, <2>1, <2>3, <2>4, <2>5, AppendAhead
  <2>7. QED
    BY <2>2, <2>4, <2>6
<1>12. \A i \in Listener : Active(i)' <=> Active(i)
  BY <1>4 DEF Active
<1>13. \A i \in Listener : Lined(live', inbox'[i]) /\ Within(live', inbox'[i])
  BY <1>4 DEF LInv, Lines
<1>14. \A t \in Subscriber :
         /\ Lined(live', got'[t]) /\ Within(live', got'[t])
         /\ Lined(live', queue'[t]) /\ Within(live', queue'[t])
         /\ AllAhead(live', got'[t], queue'[t])
  BY <1>3, <1>4, <1>8, <1>9, <1>10 DEF LInv, Lines
<1>15. ASSUME NEW t \in registered', NEW i \in Listener, Active(i)'
       PROVE  AllAhead(live', got'[t], inbox'[i]) /\ AllAhead(live', queue'[t], inbox'[i])
  <2>1. t \in registered /\ t \in Subscriber /\ Active(i)
    BY <1>4, <1>12, <1>15 DEF LInv, Typing, TypeOK
  <2>2. CASE t = s
    BY <1>3, <1>4, <1>11, <2>1, <2>2
  <2>3. CASE t # s
    BY <1>3, <1>4, <2>1, <2>3 DEF LInv, Lines
  <2>4. QED
    BY <2>2, <2>3
<1>16. QED
  BY <1>13, <1>14, <1>15 DEF Lines

\* A published event is behind everything on every connection and in every queue.
LEMMA PublishLines ==
  ASSUME LInv, NEW e \in Event, PublishLive(e)
  PROVE  Lines'
<1>1. PICK L \in Seq(Event) : L = live
  <2>1. live \in Seq(added) /\ added \subseteq Event
    BY DEF LInv, Typing, TypeOK
  <2>2. PICK A : A = added
    OBVIOUS
  <2>3. live \in Seq(Event)
    BY <2>1, <2>2, SeqMonotonic
  <2>4. QED
    BY <2>3
<1>2. PICK M : M = Append(L, e)
  OBVIOUS
<1>3. live' = M
  BY <1>1, <1>2 DEF PublishLive
<1>4. /\ \A a, b : Ahead(L, a, b) => Ahead(M, a, b)
      /\ \A q : Within(L, q) => \A j \in DOMAIN q : Ahead(M, q[j], e)
      /\ \A q : Within(L, q) => Within(M, q)
      /\ \E m \in DOMAIN M : M[m] = e
  BY <1>2, GrowAhead
<1>5. /\ \A q : Lined(L, q) => Lined(M, q)
      /\ \A p, q : AllAhead(L, p, q) => AllAhead(M, p, q)
  BY <1>4 DEF Lined, AllAhead
<1>6. UNCHANGED <<queue, got, registered, pc, cancelled>>
  BY DEF PublishLive, subVars
<1>7. ASSUME NEW i \in Listener
      PROVE  inbox[i] \in Seq(Event) /\ inbox'[i] \in {inbox[i], Append(inbox[i], e)}
  BY DEF PublishLive, LInv, Typing, TypeOK
<1>8. ASSUME NEW i \in Listener
      PROVE  Lined(M, inbox'[i]) /\ Within(M, inbox'[i])
  <2>1. PICK r \in Seq(Event) : r = inbox[i]
    BY <1>7
  <2>2. Lined(M, r) /\ Within(M, r) /\ \A j \in DOMAIN r : Ahead(M, r[j], e)
    BY <1>1, <1>4, <1>5, <2>1 DEF LInv, Lines
  <2>3. Lined(M, Append(r, e)) /\ Within(M, Append(r, e))
    BY <1>4, <2>2, AppendLines
  <2>4. QED
    BY <1>7, <2>1, <2>2, <2>3
<1>9. \A s \in Subscriber :
        /\ Lined(M, got'[s]) /\ Within(M, got'[s])
        /\ Lined(M, queue'[s]) /\ Within(M, queue'[s])
        /\ AllAhead(M, got'[s], queue'[s])
  BY <1>1, <1>4, <1>5, <1>6 DEF LInv, Lines
<1>10. ASSUME NEW s \in registered', NEW i \in Listener, Active(i)'
       PROVE  AllAhead(M, got'[s], inbox'[i]) /\ AllAhead(M, queue'[s], inbox'[i])
  <2>1. s \in registered /\ s \in Subscriber /\ Active(i)
    BY <1>6, <1>10 DEF Active, LInv, Typing, TypeOK
  <2>2. PICK r \in Seq(Event), q \in Seq(Event), g \in Seq(Event) :
          r = inbox[i] /\ q = queue[s] /\ g = got[s]
    BY <1>7, <2>1 DEF LInv, Typing, Domains
  <2>3. AllAhead(M, g, r) /\ AllAhead(M, q, r)
    BY <1>1, <1>5, <2>1, <2>2 DEF LInv, Lines
  <2>4. (\A j \in DOMAIN g : Ahead(M, g[j], e)) /\ (\A j \in DOMAIN q : Ahead(M, q[j], e))
    BY <1>1, <1>4, <2>1, <2>2 DEF LInv, Lines
  <2>5. AllAhead(M, g, Append(r, e)) /\ AllAhead(M, q, Append(r, e))
    BY <2>3, <2>4, AppendAhead
  <2>6. QED
    BY <1>6, <1>7, <2>2, <2>3, <2>5
<1>11. QED
  BY <1>3, <1>8, <1>9, <1>10 DEF Lines

\* A queue that is offered an event behind all of it stays in order.
LEMMA OfferedLines ==
  ASSUME NEW L, NEW q \in Seq(Event), Len(q) <= QueueSize, NEW e \in Event,
         Lined(L, q), Within(L, q), \A j \in DOMAIN q : Ahead(L, q[j], e),
         \E m \in DOMAIN L : L[m] = e
  PROVE  /\ Lined(L, Offered(q, e)) /\ Within(L, Offered(q, e))
         /\ \A p \in Seq(Event) : AllAhead(L, p, q) /\ (\A j \in DOMAIN p : Ahead(L, p[j], e))
              => AllAhead(L, p, Offered(q, e))
         /\ \A r \in Seq(Event) : AllAhead(L, q, r) /\ (\A j \in DOMAIN r : Ahead(L, e, r[j]))
              => AllAhead(L, Offered(q, e), r)
<1>1. CASE Len(q) < QueueSize
  <2>1. Offered(q, e) = Append(q, e)
    BY <1>1 DEF Offered
  <2>2. QED
    BY <2>1, AppendLines, AppendAhead
<1>2. CASE ~(Len(q) < QueueSize)
  <2>1. q # <<>>
    BY <1>2, EmptySeq, RedisQueueSizeAssumption
  <2>2. PICK u \in Seq(Event) : u = Tail(q)
    BY <2>1, TailIndices
  <2>3. Offered(q, e) = Append(u, e)
    BY <1>2, <2>2 DEF Offered
  <2>4. Lined(L, u) /\ Within(L, u) /\ \A j \in DOMAIN u : Ahead(L, u[j], e)
    BY <2>1, <2>2, TailLines, TailIndices
  <2>5. /\ \A p : AllAhead(L, p, q) => AllAhead(L, p, u)
        /\ \A r : AllAhead(L, q, r) => AllAhead(L, u, r)
    BY <2>1, <2>2, TailAhead
  <2>6. QED
    BY <2>3, <2>4, <2>5, AppendLines, AppendAhead
<1>3. QED
  BY <1>1, <1>2

\* The one active listener hands on the first event of its connection.
LEMMA HandleLines ==
  ASSUME LInv, NEW i \in Listener, Handle(i)
  PROVE  Lines'
<1>1. PICK r \in Seq(Event) : r = inbox[i] /\ r # <<>>
  BY DEF Handle, LInv, Typing, TypeOK
<1>2. PICK e \in Event : e = Head(r)
  BY <1>1, TailIndices
<1>3. PICK u \in Seq(Event) : u = Tail(r)
  BY <1>1, TailIndices
<1>4. Active(i) /\ i = task
  BY NoTaskAssumption DEF Handle, Active, LInv, Inv, NoStrayListener
<1>5. \A j \in Listener : Active(j) => j = i
  BY <1>4, NoTaskAssumption DEF LInv, Inv, NoStrayListener
<1>6. /\ UNCHANGED <<live, got, registered, pc, cancelled>>
      /\ inbox'[i] = u /\ \A j \in Listener : j # i => inbox'[j] = inbox[j]
      /\ \A s \in Subscriber :
           (queue'[s] = queue[s]) \/ (s \in registered /\ queue'[s] = Offered(queue[s], e))
  BY <1>1, <1>2, <1>3 DEF Handle, redisVars, LInv, Typing, TypeOK
<1>7. /\ Lined(live, u) /\ Within(live, u)
      /\ \A k \in DOMAIN u : Ahead(live, e, u[k])
  BY <1>1, <1>2, <1>3, TailLines DEF LInv, Lines
<1>8. 1 \in DOMAIN r /\ e = r[1] /\ \E m \in DOMAIN live : live[m] = e
  <2>1. 1 \in DOMAIN r /\ e = r[1]
    BY <1>1, <1>2, TailIndices
  <2>2. Within(live, r)
    BY <1>1 DEF LInv, Lines
  <2>3. QED
    BY <2>1, <2>2 DEF Within
<1>9. ASSUME NEW s \in registered
      PROVE  /\ AllAhead(live, got[s], u) /\ AllAhead(live, queue[s], u)
             /\ \A j \in DOMAIN got[s] : Ahead(live, got[s][j], e)
             /\ \A j \in DOMAIN queue[s] : Ahead(live, queue[s][j], e)
  <2>1. AllAhead(live, got[s], r) /\ AllAhead(live, queue[s], r)
    BY <1>1, <1>4 DEF LInv, Lines
  <2>2. QED
    BY <1>1, <1>3, <1>8, <2>1, TailAhead DEF AllAhead
<1>10. ASSUME NEW s \in Subscriber
       PROVE  /\ queue[s] \in Seq(Event) /\ got[s] \in Seq(Event) /\ Len(queue[s]) <= QueueSize
              /\ Lined(live, got[s]) /\ Within(live, got[s])
              /\ Lined(live, queue[s]) /\ Within(live, queue[s])
              /\ AllAhead(live, got[s], queue[s])
  BY DEF LInv, Lines, Typing, TypeOK, Domains
<1>11. ASSUME NEW s \in registered
       PROVE  /\ Lined(live, Offered(queue[s], e)) /\ Within(live, Offered(queue[s], e))
              /\ AllAhead(live, got[s], Offered(queue[s], e))
              /\ AllAhead(live, Offered(queue[s], e), u)
  <2>1. s \in Subscriber
    BY DEF LInv, Typing, TypeOK
  <2>2. PICK q \in Seq(Event), g \in Seq(Event) : q = queue[s] /\ g = got[s]
    BY <1>10, <2>1
  <2>3. /\ Len(q) <= QueueSize /\ Lined(live, q) /\ Within(live, q) /\ AllAhead(live, g, q)
        /\ AllAhead(live, q, u)
        /\ (\A j \in DOMAIN g : Ahead(live, g[j], e)) /\ \A j \in DOMAIN q : Ahead(live, q[j], e)
    BY <1>9, <1>10, <2>1, <2>2
  <2>4. /\ Lined(live, Offered(q, e)) /\ Within(live, Offered(q, e))
        /\ AllAhead(live, g, Offered(q, e))
        /\ AllAhead(live, Offered(q, e), u)
    BY <1>7, <1>8, <2>3, OfferedLines
  <2>5. QED
    BY <2>2, <2>4
<1>12. \A j \in Listener : Lined(live', inbox'[j]) /\ Within(live', inbox'[j])
  BY <1>6, <1>7 DEF LInv, Lines
<1>13. \A s \in Subscriber :
         /\ Lined(live', got'[s]) /\ Within(live', got'[s])
         /\ Lined(live', queue'[s]) /\ Within(live', queue'[s])
         /\ AllAhead(live', got'[s], queue'[s])
  BY <1>6, <1>10, <1>11
<1>14. ASSUME NEW s \in registered', NEW j \in Listener, Active(j)'
       PROVE  AllAhead(live', got'[s], inbox'[j]) /\ AllAhead(live', queue'[s], inbox'[j])
  <2>1. s \in registered /\ s \in Subscriber /\ j = i
    BY <1>5, <1>6, <1>14 DEF Active, LInv, Typing, TypeOK
  <2>2. QED
    BY <1>6, <1>9, <1>11, <2>1
<1>15. QED
  BY <1>12, <1>13, <1>14 DEF Lines

\* The other steps of a listener: it stays as active as it was, and what it had
\* on its connection it has still or has lost.
LEMMA ListenerLines ==
  ASSUME LInv, NEW i \in Listener, Listen(i) \/ Fail(i) \/ StreamEnds(i), ~Handle(i)
  PROVE  Lines'
<1>1. UNCHANGED <<live, queue, got, registered>>
  BY DEF Listen, Begin, Attach, Wake, Cleaned, Interrupted, Fail, StreamEnds, Resume,
         redisVars, subVars
<1>2. \A j \in Listener : inbox'[j] = inbox[j] \/ inbox'[j] = <<>>
  BY DEF Listen, Begin, Attach, Wake, Cleaned, Interrupted, Fail, StreamEnds,
         LInv, Typing, TypeOK
<1>3. \A j \in Listener : Active(j)' => Active(j)
  <2>1. CASE Interrupted(i)
    BY <2>1 DEF Interrupted, Active, LInv, Inv, PcOK
  <2>2. CASE Begin(i) \/ Attach(i) \/ Wake(i) \/ Cleaned(i)
    BY <2>2 DEF Begin, Attach, Wake, Cleaned, Resume, Active, LInv, Inv, PcOK
  <2>3. CASE Fail(i) \/ StreamEnds(i)
    BY <2>3 DEF Fail, StreamEnds, Resume, Active, LInv, Inv, PcOK
  <2>4. QED
    BY <2>1, <2>2, <2>3 DEF Listen
<1>4. registered' \subseteq Subscriber
  BY <1>1 DEF LInv, Typing, TypeOK
<1>5. QED
  BY <1>1, <1>2, <1>3, <1>4, LinesShrink DEF LInv

LEMMA LInvInitially == Init => LInv
<1> SUFFICES ASSUME Init
             PROVE  LInv
  OBVIOUS
<1>1. Lines
  BY EmptyLines DEF Init, Lines
<1>2. passed = NoTask
  BY DEF Init
<1>3. QED
  BY <1>1, <1>2, TypingInitially, Initially DEF LInv

LEMMA LInvInductive == LInv /\ passed' = NoTask /\ [Next]_vars => LInv'
<1> SUFFICES ASSUME LInv, passed' = NoTask, [Next]_vars
             PROVE  LInv'
  OBVIOUS
<1>1. Typing' /\ Inv'
  BY TypingInductive, Inductive DEF LInv
<1>2. ASSUME UNCHANGED <<live, inbox, queue, got, registered, pc, cancelled>>
      PROVE  Lines'
  BY <1>2 DEF Lines, Active, LInv
<1>3. ASSUME NEW e \in Event, XAdd(e) \/ PublishLive(e)
      PROVE  Lines'
  BY <1>2, <1>3, PublishLines DEF XAdd, listenVars, subVars
<1>4. ASSUME NEW s \in Subscriber, Subscribe(s) \/ Unsubscribe(s) \/ Take(s)
      PROVE  Lines'
  BY <1>4, SubscribersLines, TakeLines
<1>5. ASSUME NEW s \in Subscriber, Unsubscribed(s)
      PROVE  Lines'
  BY <1>2, <1>5 DEF Unsubscribed, redisVars, listenVars, subVars
<1>6. ASSUME Close \/ CloseResumes \/ CloseRaises
      PROVE  Lines'
  BY <1>6, CloseLines
<1>7. ASSUME NEW i \in Listener, Listen(i) \/ Fail(i) \/ StreamEnds(i)
      PROVE  Lines'
  BY <1>7, HandleLines, ListenerLines
<1>8. ASSUME UNCHANGED vars
      PROVE  Lines'
  BY <1>2, <1>8 DEF vars, redisVars, listenVars, subVars
<1>9. Lines'
  BY <1>3, <1>4, <1>5, <1>6, <1>7, <1>8 DEF Next
<1>10. QED
  BY <1>1, <1>9 DEF LInv

\* What close() has passed over it has passed over for good.
LEMMA PassedStays == [Next]_vars /\ passed' = NoTask => passed = NoTask
<1> SUFFICES ASSUME [Next]_vars, passed' # passed
             PROVE  passed' # NoTask
  OBVIOUS
<1>1. CloseResumes
  BY DEF Next, vars, closeVars, XAdd, PublishLive, Subscribe, Unsubscribe, Unsubscribed, Take,
         Close, CloseRaises, Listen, Begin, Attach, Wake, Cleaned, Interrupted, Handle, Fail,
         StreamEnds, Resume
<1>2. QED
  BY <1>1 DEF CloseResumes

\* In order until then.
OrderInv == Typing /\ Inv /\ (passed = NoTask => Lines)

LEMMA OrderInductive == OrderInv /\ [Next]_vars => OrderInv'
<1> SUFFICES ASSUME OrderInv, [Next]_vars
             PROVE  OrderInv'
  OBVIOUS
<1>1. Typing' /\ Inv'
  BY TypingInductive, Inductive DEF OrderInv
<1>2. ASSUME passed' = NoTask
      PROVE  Lines'
  <2>1. LInv
    BY <1>2, PassedStays DEF OrderInv, LInv
  <2>2. QED
    BY <1>2, <2>1, LInvInductive DEF LInv
<1>3. QED
  BY <1>1, <1>2 DEF OrderInv

\* The place of an event in a history without repeats is where it stands.
PlaceIn(L, e) == LET I == {i \in 1..Len(L) : L[i] = e} IN IF I # {} THEN Min(I) ELSE 0

LEMMA PlaceIs ==
  ASSUME NEW L \in Seq(Event), IsInjective(L), NEW n \in DOMAIN L
  PROVE  PlaceIn(L, L[n]) = n
<1>1. DOMAIN L = 1..Len(L) /\ n \in Nat
  BY LenProperties
<1>2. {k \in 1..Len(L) : L[k] = L[n]} = {n}
  BY <1>1 DEF IsInjective
<1>3. Min({n}) = n
  BY <1>1 DEF Min
<1>4. QED
  BY <1>2, <1>3 DEF PlaceIn

\* Failures, reconnects, overflowing queues and listeners that replace each other
\* neither reorder nor repeat what a subscriber gets, until close() passes one over
\* (buffer_redis.py: _listen, _fanout and close).
THEOREM EachEventInOrder == Spec => []InOrderOnce
<1>1. ASSUME OrderInv, passed = NoTask
      PROVE  InOrderOnce
  <2>0. LInv
    BY <1>1 DEF OrderInv, LInv
  <2>1. live \in Seq(Event) /\ IsInjective(live)
    <3>1. live \in Seq(added) /\ added \subseteq Event
      BY <2>0 DEF LInv, Typing, TypeOK
    <3>2. QED
      BY <2>0, <3>1, SeqMonotonic DEF LInv, Typing, TypeOK
  <2>2. ASSUME NEW a, NEW b, Ahead(live, a, b)
        PROVE  PlaceIn(live, a) < PlaceIn(live, b)
    <3>1. PICK m \in DOMAIN live, n \in DOMAIN live : m < n /\ live[m] = a /\ live[n] = b
      BY <2>2 DEF Ahead
    <3>2. PlaceIn(live, live[m]) = m /\ PlaceIn(live, live[n]) = n
      BY <2>1, PlaceIs
    <3>3. QED
      BY <3>1, <3>2
  <2>3. ASSUME NEW s \in Subscriber, NEW j \in DOMAIN (got[s] \o queue[s]),
               NEW k \in DOMAIN (got[s] \o queue[s]), j < k
        PROVE  Ahead(live, (got[s] \o queue[s])[j], (got[s] \o queue[s])[k])
    <3>1. PICK g \in Seq(Event), q \in Seq(Event) : g = got[s] /\ q = queue[s]
      BY <2>0 DEF LInv, Typing, Domains
    <3>2. Lined(live, g) /\ Lined(live, q) /\ AllAhead(live, g, q)
      BY <2>0, <3>1 DEF LInv, Lines
    <3>3. /\ g \o q \in Seq(Event) /\ Len(g \o q) = Len(g) + Len(q)
          /\ \A n \in 1..(Len(g) + Len(q)) : (g \o q)[n] = IF n <= Len(g) THEN g[n] ELSE q[n - Len(g)]
      BY ConcatProperties
    <3>4. /\ Len(g) \in Nat /\ Len(q) \in Nat /\ DOMAIN g = 1..Len(g) /\ DOMAIN q = 1..Len(q)
          /\ DOMAIN (g \o q) = 1..(Len(g) + Len(q))
      BY <3>3, LenProperties
    <3>5. j \in 1..(Len(g) + Len(q)) /\ k \in 1..(Len(g) + Len(q))
      BY <3>1, <3>4
    <3>6. CASE k <= Len(g)
      <4>1. j \in DOMAIN g /\ k \in DOMAIN g /\ (g \o q)[j] = g[j] /\ (g \o q)[k] = g[k]
        BY <2>3, <3>3, <3>4, <3>5, <3>6
      <4>2. QED
        BY <2>3, <3>1, <3>2, <4>1 DEF Lined
    <3>7. CASE j <= Len(g) /\ ~(k <= Len(g))
      <4>1. /\ j \in DOMAIN g /\ k - Len(g) \in DOMAIN q
            /\ (g \o q)[j] = g[j] /\ (g \o q)[k] = q[k - Len(g)]
        BY <3>3, <3>4, <3>5, <3>7
      <4>2. QED
        BY <3>1, <3>2, <4>1 DEF AllAhead
    <3>8. CASE ~(j <= Len(g))
      <4>1. /\ j - Len(g) \in DOMAIN q /\ k - Len(g) \in DOMAIN q /\ j - Len(g) < k - Len(g)
            /\ (g \o q)[j] = q[j - Len(g)] /\ (g \o q)[k] = q[k - Len(g)]
        BY <2>3, <3>3, <3>4, <3>5, <3>8
      <4>2. QED
        BY <3>1, <3>2, <4>1 DEF Lined
    <3>9. QED
      BY <2>3, <3>4, <3>5, <3>6, <3>7, <3>8
  <2>4. QED
    BY <2>2, <2>3 DEF InOrderOnce, SelectInSeq, PlaceIn
<1>2. OrderInv => InOrderOnce
  BY <1>1 DEF InOrderOnce
<1>3. Init => OrderInv
  BY LInvInitially DEF LInv, OrderInv
<1>4. QED
  BY <1>2, <1>3, OrderInductive, PTL DEF Spec

-----------------------------------------------------------------------------
(* Drop-oldest *)

Decodable == {e \in Event : Decodes(e)}

\* Of a subscriber that heard h, took g and has q queued: an event of h that can be decoded
\* is taken, or has as many of its kind after it in h as there are behind it in the queue.
Kept(h, g, q) ==
  \A k \in DOMAIN h :
    h[k] \in Decodable /\ Cardinality(Later(h, k, Decodable)) < QueueSize
      => \/ h[k] \in Range(g)
         \/ \E j \in DOMAIN q : q[j] = h[k] /\ Len(q) - j = Cardinality(Later(h, k, Decodable))

HeardKept == \A s \in Subscriber : Kept(heard[s], got[s], queue[s])

KInv == Typing /\ HeardKept

\* How many wanted events follow the k-th one, when one more is handled.
LEMMA LaterGrows ==
  ASSUME NEW h \in Seq(Event), NEW e \in Event, NEW k \in DOMAIN h
  PROVE  /\ Cardinality(Later(h, k, Decodable)) \in Nat
         /\ Cardinality(Later(Append(h, e), k, Decodable))
              = Cardinality(Later(h, k, Decodable)) + (IF Decodes(e) THEN 1 ELSE 0)
<1>1. /\ Len(h) \in Nat /\ DOMAIN h = 1..Len(h) /\ DOMAIN Append(h, e) = 1..(Len(h) + 1)
      /\ \A j \in DOMAIN h : j \in DOMAIN Append(h, e) /\ Append(h, e)[j] = h[j] /\ j < Len(h) + 1
      /\ Append(h, e)[Len(h) + 1] = e
      /\ \A j \in DOMAIN Append(h, e) : j \in DOMAIN h \/ j = Len(h) + 1
  BY AppendIndices
<1>2. PICK S, T, n : S = Later(h, k, Decodable) /\ T = Later(Append(h, e), k, Decodable) /\ n = Len(h) + 1
  OBVIOUS
<1>3. IsFiniteSet(S) /\ Cardinality(S) \in Nat
  <2>1. IsFiniteSet(1..Len(h))
    BY <1>1, FS_Interval
  <2>2. S \in SUBSET (1..Len(h))
    BY <1>1, <1>2 DEF Later
  <2>3. QED
    BY <2>1, <2>2, FS_Subset, FS_CardinalityType
<1>4. n \in DOMAIN Append(h, e) /\ n > k /\ n \notin S
  BY <1>1, <1>2 DEF Later
<1>5. Decodes(e) <=> Append(h, e)[n] \in Decodable
  BY <1>1, <1>2 DEF Decodable
<1>6. T = IF Decodes(e) THEN S \cup {n} ELSE S
  BY <1>1, <1>2, <1>4, <1>5 DEF Later
<1>7. Cardinality(S \cup {n}) = Cardinality(S) + 1
  BY <1>3, <1>4, FS_AddElement
<1>8. QED
  BY <1>2, <1>3, <1>6, <1>7

\* Nothing follows the last one.
LEMMA NothingLater ==
  ASSUME NEW h \in Seq(Event), NEW e \in Event
  PROVE  Cardinality(Later(Append(h, e), Len(h) + 1, Decodable)) = 0
<1>1. Len(h) \in Nat /\ DOMAIN Append(h, e) = 1..(Len(h) + 1)
  BY AppendIndices
<1>2. Later(Append(h, e), Len(h) + 1, Decodable) = {}
  BY <1>1 DEF Later
<1>3. QED
  BY <1>2, FS_EmptySet

\* What a full queue loses has enough events behind it to be forgotten.
LEMMA OfferedKept ==
  ASSUME NEW h \in Seq(Event), NEW g \in Seq(Event), NEW q \in Seq(Event),
         Len(q) <= QueueSize, Kept(h, g, q), NEW e \in Event, Decodes(e)
  PROVE  Kept(Append(h, e), g, Offered(q, e))
<1>1. SUFFICES ASSUME NEW k \in DOMAIN Append(h, e), Append(h, e)[k] \in Decodable,
                      Cardinality(Later(Append(h, e), k, Decodable)) < QueueSize
               PROVE  \/ Append(h, e)[k] \in Range(g)
                      \/ \E j \in DOMAIN Offered(q, e) :
                           /\ Offered(q, e)[j] = Append(h, e)[k]
                           /\ Len(Offered(q, e)) - j = Cardinality(Later(Append(h, e), k, Decodable))
  BY DEF Kept
<1>2. /\ Len(q) \in Nat /\ DOMAIN q = 1..Len(q) /\ QueueSize \in Nat \ {0}
      /\ k \in DOMAIN h \/ k = Len(h) + 1
      /\ k \in DOMAIN h => Append(h, e)[k] = h[k]
      /\ Append(h, e)[Len(h) + 1] = e
  BY AppendIndices, LenProperties, RedisQueueSizeAssumption
<1>3. PICK u \in Seq(Event) :
        /\ Offered(q, e) = Append(u, e)
        /\ \/ u = q /\ Len(q) < QueueSize
           \/ /\ Len(q) = QueueSize /\ Len(u) = Len(q) - 1
              /\ \A i \in 1..Len(u) : u[i] = q[i + 1]
  <2>1. CASE Len(q) < QueueSize
    BY <2>1 DEF Offered
  <2>2. CASE ~(Len(q) < QueueSize)
    <3> DEFINE n == Len(q)
    <3>1. n \in Nat /\ QueueSize \in Nat /\ n <= QueueSize /\ ~(n < QueueSize)
      BY <1>2, <2>2
    <3>2. n = QueueSize
      <4> HIDE DEF n
      <4> QED
        BY <3>1
    <3>3. q # <<>>
      BY <1>2, <3>2, EmptySeq
    <3>4. Tail(q) \in Seq(Event) /\ Len(Tail(q)) = Len(q) - 1
          /\ \A i \in 1..Len(Tail(q)) : Tail(q)[i] = q[i + 1]
      BY <3>3, HeadTailProperties
    <3>5. QED
      BY <2>2, <3>2, <3>4 DEF Offered
  <2>3. QED
    BY <2>1, <2>2
<1>4. /\ Len(u) \in Nat /\ Len(Append(u, e)) = Len(u) + 1
      /\ DOMAIN u = 1..Len(u) /\ DOMAIN Append(u, e) = 1..(Len(u) + 1)
      /\ \A j \in 1..Len(u) : Append(u, e)[j] = u[j]
      /\ Append(u, e)[Len(u) + 1] = e
  BY AppendIndices, AppendProperties
<1>5. CASE k = Len(h) + 1
  <2>1. Cardinality(Later(Append(h, e), k, Decodable)) = 0
    BY <1>5, NothingLater
  <2>2. Len(u) + 1 \in DOMAIN Append(u, e) /\ (Len(u) + 1) - (Len(u) + 1) = 0
    BY <1>4
  <2>3. QED
    BY <1>2, <1>3, <1>4, <1>5, <2>1, <2>2
<1>6. CASE k \in DOMAIN h
  <2>1. PICK n \in Nat : n = Cardinality(Later(h, k, Decodable))
    BY <1>6, LaterGrows
  <2>2. Cardinality(Later(Append(h, e), k, Decodable)) = n + 1
    BY <1>6, <2>1, LaterGrows
  <2>3. n + 1 < QueueSize /\ n < QueueSize
    BY <1>1, <1>2, <2>2
  <2>4. \/ h[k] \in Range(g)
        \/ \E j \in DOMAIN q : q[j] = h[k] /\ Len(q) - j = n
    BY <1>1, <1>2, <1>6, <2>1, <2>3 DEF Kept
  <2>5. ASSUME NEW j \in DOMAIN q, q[j] = h[k], Len(q) - j = n
        PROVE  \E i \in DOMAIN Append(u, e) :
                 Append(u, e)[i] = h[k] /\ Len(Append(u, e)) - i = n + 1
    <3>1. j \in 1..Len(q) /\ j \in Nat
      BY <1>2
    <3>2. CASE u = q /\ Len(q) < QueueSize
      <4>1. j \in 1..(Len(u) + 1) /\ Append(u, e)[j] = q[j] /\ (Len(u) + 1) - j = n + 1
        BY <1>2, <1>4, <2>5, <3>1, <3>2
      <4>2. QED
        BY <1>4, <2>5, <4>1
    <3>3. CASE /\ Len(q) = QueueSize /\ Len(u) = Len(q) - 1
               /\ \A i \in 1..Len(u) : u[i] = q[i + 1]
      <4>1. j # 1 /\ j - 1 \in 1..Len(u) /\ (j - 1) + 1 = j
        BY <1>2, <2>3, <2>5, <3>1, <3>3
      <4>2. Append(u, e)[j - 1] = q[j]
        BY <1>4, <3>3, <4>1
      <4>3. j - 1 \in 1..(Len(u) + 1) /\ (Len(u) + 1) - (j - 1) = n + 1
        BY <1>2, <1>4, <2>5, <3>1, <3>3, <4>1
      <4>4. QED
        BY <1>4, <2>5, <4>2, <4>3
    <3>4. QED
      BY <1>3, <3>2, <3>3
  <2>6. QED
    BY <1>2, <1>3, <1>6, <2>2, <2>4, <2>5
<1>7. QED
  BY <1>2, <1>5, <1>6

\* An event handled and not put into a queue.
LEMMA SkippedKept ==
  ASSUME NEW h \in Seq(Event), NEW g, NEW q, NEW e \in Event, Kept(h, g, q), ~Decodes(e)
  PROVE  Kept(Append(h, e), g, q)
<1>1. SUFFICES ASSUME NEW k \in DOMAIN Append(h, e), Append(h, e)[k] \in Decodable,
                      Cardinality(Later(Append(h, e), k, Decodable)) < QueueSize
               PROVE  \/ Append(h, e)[k] \in Range(g)
                      \/ \E j \in DOMAIN q :
                           /\ q[j] = Append(h, e)[k]
                           /\ Len(q) - j = Cardinality(Later(Append(h, e), k, Decodable))
  BY DEF Kept
<1>2. /\ k \in DOMAIN h \/ k = Len(h) + 1
      /\ k \in DOMAIN h => Append(h, e)[k] = h[k]
      /\ Append(h, e)[Len(h) + 1] = e
  BY AppendIndices
<1>3. e \notin Decodable
  BY DEF Decodable
<1>4. k \in DOMAIN h
  BY <1>1, <1>2, <1>3
<1>5. Cardinality(Later(h, k, Decodable)) \in Nat
      /\ Cardinality(Later(Append(h, e), k, Decodable)) = Cardinality(Later(h, k, Decodable))
  BY <1>4, LaterGrows
<1>6. QED
  BY <1>1, <1>2, <1>4, <1>5 DEF Kept

\* An event that is taken is kept in what was taken.
LEMMA TakenKept ==
  ASSUME NEW h, NEW g \in Seq(Event), NEW q \in Seq(Event), q # <<>>, Kept(h, g, q)
  PROVE  Kept(h, Append(g, Head(q)), Tail(q))
<1>1. PICK e \in Event : e = Head(q) /\ e = q[1]
  BY TailIndices
<1>2. Range(Append(g, e)) = Range(g) \cup {e}
  <2>1. /\ \A k \in DOMAIN g : k \in DOMAIN Append(g, e) /\ Append(g, e)[k] = g[k]
        /\ Len(g) + 1 \in DOMAIN Append(g, e) /\ Append(g, e)[Len(g) + 1] = e
        /\ \A k \in DOMAIN Append(g, e) : k \in DOMAIN g \/ k = Len(g) + 1
    BY <1>1, AppendIndices
  <2>2. QED
    BY <2>1 DEF Range
<1>3. ASSUME NEW j \in DOMAIN q, j # 1
      PROVE  j - 1 \in DOMAIN Tail(q) /\ Tail(q)[j - 1] = q[j] /\ Len(Tail(q)) - (j - 1) = Len(q) - j
  <2>1. /\ Len(Tail(q)) = Len(q) - 1 /\ \A i \in 1..Len(Tail(q)) : Tail(q)[i] = q[i + 1]
        /\ Tail(q) \in Seq(Event)
    BY HeadTailProperties
  <2>2. Len(q) \in Nat /\ DOMAIN q = 1..Len(q) /\ DOMAIN Tail(q) = 1..Len(Tail(q))
    BY <2>1, LenProperties
  <2>3. j - 1 \in 1..(Len(q) - 1) /\ (j - 1) + 1 = j /\ (Len(q) - 1) - (j - 1) = Len(q) - j
    BY <1>3, <2>2
  <2>4. QED
    BY <2>1, <2>2, <2>3
<1>4. ASSUME NEW j \in DOMAIN q, NEW v, NEW n, q[j] = v, Len(q) - j = n
      PROVE  \/ v \in Range(g) \cup {e}
             \/ \E i \in DOMAIN Tail(q) : Tail(q)[i] = v /\ Len(Tail(q)) - i = n
  BY <1>1, <1>3, <1>4
<1>5. QED
  BY <1>1, <1>2, <1>4 DEF Kept

LEMMA EmptyHeard == \A g, q : Kept(<<>>, g, q)
BY DEF Kept

\* What is heard starts anew with the queue.
LEMMA SubscribersKept ==
  ASSUME KInv, NEW s \in Subscriber, Subscribe(s) \/ Unsubscribe(s)
  PROVE  HeardKept'
<1>1. /\ heard'[s] = <<>>
      /\ \A t \in Subscriber : t # s => heard'[t] = heard[t] /\ queue'[t] = queue[t] /\ got'[t] = got[t]
  BY DEF Subscribe, Unsubscribe, NewQueue, KInv, Typing, Domains
<1>2. QED
  BY <1>1, EmptyHeard DEF KInv, HeardKept

LEMMA TakeKept ==
  ASSUME KInv, NEW s \in Subscriber, Take(s)
  PROVE  HeardKept'
<1>1. heard' = heard
  BY DEF Take
<1>2. PICK q \in Seq(Event), g \in Seq(Event) : q = queue[s] /\ g = got[s] /\ q # <<>>
  BY DEF Take, KInv, Typing, Domains
<1>3. /\ queue'[s] = Tail(q) /\ got'[s] = Append(g, Head(q))
      /\ \A t \in Subscriber : t # s => queue'[t] = queue[t] /\ got'[t] = got[t]
  BY <1>2 DEF Take, KInv, Typing, Domains
<1>4. Kept(heard[s], Append(g, Head(q)), Tail(q))
  BY <1>2, TakenKept DEF KInv, HeardKept
<1>5. QED
  BY <1>1, <1>3, <1>4 DEF KInv, HeardKept

\* One listener or two: the message it handles is offered to each queue.
LEMMA HandleKept ==
  ASSUME KInv, NEW i \in Listener, Handle(i)
  PROVE  HeardKept'
<1>1. PICK r \in Seq(Event) : r = inbox[i] /\ r # <<>>
  BY DEF Handle, KInv, Typing, TypeOK
<1>2. PICK e \in Event : e = Head(r)
  BY <1>1, TailIndices
<1>3. /\ got' = got
      /\ \A s \in Subscriber :
           /\ s \notin registered => heard'[s] = heard[s] /\ queue'[s] = queue[s]
           /\ s \in registered =>
                /\ heard'[s] = Append(heard[s], e)
                /\ Decodes(e) => queue'[s] = Offered(queue[s], e)
                /\ ~Decodes(e) => queue'[s] = queue[s]
  BY <1>1, <1>2 DEF Handle, redisVars, KInv, Typing, TypeOK
<1>4. ASSUME NEW s \in Subscriber, s \in registered
      PROVE  Kept(heard'[s], got'[s], queue'[s])
  <2>1. PICK h \in Seq(Event), q \in Seq(Event), g \in Seq(Event) :
          h = heard[s] /\ q = queue[s] /\ g = got[s]
    BY DEF KInv, Typing, Domains
  <2>2. Kept(h, g, q) /\ Len(q) <= QueueSize
    BY <2>1 DEF KInv, HeardKept, Typing, TypeOK
  <2>3. Decodes(e) => Kept(Append(h, e), g, Offered(q, e))
    BY <2>2, OfferedKept
  <2>4. ~Decodes(e) => Kept(Append(h, e), g, q)
    BY <2>2, SkippedKept
  <2>5. QED
    BY <1>3, <1>4, <2>1, <2>3, <2>4
<1>5. QED
  BY <1>3, <1>4 DEF KInv, HeardKept

LEMMA KInvInductive == KInv /\ [Next]_vars => KInv'
<1> SUFFICES ASSUME KInv, [Next]_vars
             PROVE  KInv'
  OBVIOUS
<1>1. Typing'
  BY TypingInductive DEF KInv
<1>2. ASSUME UNCHANGED <<heard, queue, got>>
      PROVE  HeardKept'
  BY <1>2 DEF KInv, HeardKept
<1>3. ASSUME NEW e \in Event, XAdd(e) \/ PublishLive(e)
      PROVE  HeardKept'
  BY <1>2, <1>3 DEF XAdd, PublishLive, subVars
<1>4. ASSUME NEW s \in Subscriber, Subscribe(s) \/ Unsubscribe(s) \/ Take(s)
      PROVE  HeardKept'
  BY <1>4, SubscribersKept, TakeKept
<1>5. ASSUME NEW s \in Subscriber, Unsubscribed(s)
      PROVE  HeardKept'
  BY <1>2, <1>5 DEF Unsubscribed, subVars
<1>6. ASSUME Close \/ CloseResumes \/ CloseRaises
      PROVE  HeardKept'
  BY <1>2, <1>6, CloseQuiet
<1>7. ASSUME NEW i \in Listener, Listen(i) \/ Fail(i) \/ StreamEnds(i)
      PROVE  HeardKept'
  BY <1>2, <1>7, HandleKept
     DEF Listen, Begin, Attach, Wake, Cleaned, Interrupted, Fail, StreamEnds, Resume, subVars
<1>8. ASSUME UNCHANGED vars
      PROVE  HeardKept'
  BY <1>2, <1>8 DEF vars, subVars
<1>9. HeardKept'
  BY <1>3, <1>4, <1>5, <1>6, <1>7, <1>8 DEF Next
<1>10. QED
  BY <1>1, <1>9 DEF KInv

\* A full queue costs its subscriber the oldest events only: of those that can be
\* decoded and were handled in its time, it has or had the last QueueSize, whatever
\* listeners they came from (buffer_redis.py, _fanout).
THEOREM DropsTheOldest == Spec => []NewestKept
<1>1. ASSUME KInv
      PROVE  NewestKept
  <2>1. SUFFICES ASSUME NEW s \in registered
                 PROVE  Recent(s, Decodable)
    BY DEF NewestKept, Decodable
  <2>2. s \in Subscriber
    BY <1>1 DEF KInv, Typing, TypeOK
  <2>3. Kept(heard[s], got[s], queue[s])
    BY <1>1, <2>2 DEF KInv, HeardKept
  <2>4. QED
    BY <2>3 DEF Kept, Recent, Range
<1>2. Init => KInv
  BY TypingInitially, EmptyHeard DEF Init, KInv, HeardKept
<1>3. QED
  BY <1>1, <1>2, KInvInductive, PTL DEF Spec
=============================================================================
