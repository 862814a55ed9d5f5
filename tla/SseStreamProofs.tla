-------------------------- MODULE SseStreamProofs --------------------------
(***************************************************************************)
(* The live stream for every set of clients and every bound: what it holds *)
(* has its type, one connection carries an event at most once, and, where  *)
(* commits and publishes go by timestamp, a client that reconnects misses  *)
(* nothing.                                                                *)
(***************************************************************************)
EXTENDS SseStream, OrderingProofs

-----------------------------------------------------------------------------
(* The inductive invariant *)

\* The variables have their types; those of one client follow.
Globals ==
  /\ created \in 0..MaxEvents
  /\ committed \subseteq 1..created /\ published \subseteq 1..created
  /\ Mode = "http" => published \subseteq committed
  /\ ordered \in BOOLEAN
  /\ conn \in [Client -> {"away", "subscribed", "replaying", "live"}]
  /\ attached \subseteq {c \in Client : conn[c] # "away"}
  /\ cuts \in 0..MaxCuts

Shapes ==
  /\ queue \in [Client -> Seq(Nat)] /\ replay \in [Client -> Seq(Nat)]
  /\ sent \in [Client -> Seq(Nat)]
  /\ delivered \in [Client -> SUBSET Nat] /\ got \in [Client -> SUBSET Nat]
  /\ due \in [Client -> SUBSET Nat]
  /\ cursor \in [Client -> Nat]

Members(c) ==
  /\ Elems(queue[c]) \subseteq published /\ Len(queue[c]) <= QueueSize
  /\ Elems(replay[c]) \subseteq committed
  /\ delivered[c] \subseteq got[c] /\ Elems(sent[c]) \subseteq got[c]
  /\ cursor[c] \in got[c] \cup {0}
  /\ got[c] \subseteq committed \cup published
  /\ due[c] \subseteq published

\* What a connection starts from, and where its replay ends.
Phase(c) ==
  /\ conn[c] \in {"away", "subscribed"} => sent[c] = <<>> /\ delivered[c] = {}
  /\ conn[c] # "replaying" => replay[c] = <<>>
  /\ conn[c] = "subscribed" => cursor[c] # 0

\* What was sent is noted, and nothing of the replay was sent yet.
Once(c) ==
  /\ IsInjective(sent[c]) /\ Elems(sent[c]) \subseteq delivered[c]
  /\ Increasing(replay[c]) /\ Elems(replay[c]) \cap delivered[c] = {}

\* The events of S come before all others.
Gapless(S) == \A e \in S : \A d \in 1..(e - 1) : d \in S

\* The replay holds, after the cursor, all that come before one of its events.
Contiguous(c) ==
  \A x \in Elems(replay[c]) :
    /\ cursor[c] < x
    /\ \A e \in Nat : cursor[c] < e /\ e < x => e \in Elems(replay[c])

\* An event the client is due is in the replay or in the queue; or it was
\* published after the queue was dropped.
UnderWay(c, e) ==
  \/ e \in Elems(replay[c])
  \/ e \in Elems(queue[c])
  \/ c \notin attached /\ \A x \in Elems(queue[c]) : x < e

\* A client that has received an event: whatever it is due and has not got lies
\* ahead of its cursor, and whatever it passed unpublished it has got.
Ahead(c) ==
  /\ cursor[c] = 0 => due[c] = {}
  /\ \A e \in 1..cursor[c] : e \in published \cup got[c]
  /\ \A e \in due[c] \ got[c] : cursor[c] < e

NothingSkipped(c) ==
  /\ Ahead(c)
  /\ Increasing(queue[c])
  /\ Contiguous(c)
  /\ conn[c] \in {"replaying", "live"} =>
       \A e \in due[c] \ got[c] : UnderWay(c, e)

Each(c) == Members(c) /\ Phase(c) /\ Once(c)

IInv ==
  /\ Globals /\ Shapes
  /\ \A c \in Client : Each(c)
  /\ ordered /\ Mode = "http" =>
       /\ Gapless(committed) /\ Gapless(published)
       /\ \A c \in Client : NothingSkipped(c)

-----------------------------------------------------------------------------
(* The invariant says what is claimed *)

LEMMA Typed == IInv => TypeOK
<1> SUFFICES ASSUME IInv
             PROVE  TypeOK
  OBVIOUS
<1>1. ASSUME NEW c \in Client
      PROVE  /\ queue[c] \in Seq(published) /\ Len(queue[c]) <= QueueSize
             /\ replay[c] \in Seq(committed)
             /\ delivered[c] \subseteq got[c] /\ sent[c] \in Seq(got[c])
             /\ cursor[c] \in got[c] \cup {0}
             /\ got[c] \subseteq committed \cup published
             /\ due[c] \subseteq published
  <2>1. queue[c] \in Seq(Nat) /\ replay[c] \in Seq(Nat) /\ sent[c] \in Seq(Nat)
    BY DEF IInv, Shapes
  <2>2. Members(c)
    BY DEF IInv, Each
  <2>3. queue[c] \in Seq(published) /\ replay[c] \in Seq(committed) /\ sent[c] \in Seq(got[c])
    BY <2>1, <2>2, SeqOver DEF Members
  <2> QED
    BY <2>2, <2>3 DEF Members
<1>2. Globals
  BY DEF IInv
<1> QED
  BY <1>1, <1>2 DEF TypeOK, Globals

LEMMA OnlyOnce == IInv => OncePerConnection
  BY DEF IInv, Each, Once, OncePerConnection

LEMMA GapCloses == IInv /\ Mode = "http" => NoGapWhenOrdered
<1> SUFFICES ASSUME IInv, Mode = "http", ordered, NEW c \in Client, CaughtUp(c),
                    NEW e \in due[c], e \notin got[c]
             PROVE  FALSE
  BY DEF NoGapWhenOrdered, NoGap
<1>1. NothingSkipped(c) /\ Phase(c)
  BY DEF IInv, Each
<1>2. UnderWay(c, e)
  BY <1>1 DEF NothingSkipped, CaughtUp
<1>3. replay[c] = <<>> /\ queue[c] = <<>> /\ c \in attached
  BY <1>1 DEF Phase, CaughtUp
<1> QED
  BY <1>2, <1>3, ElemsEmpty DEF UnderWay

LEMMA Initially == Init => IInv
<1> SUFFICES ASSUME Init
             PROVE  IInv
  OBVIOUS
<1>1. Globals /\ Shapes
  BY BoundsAssumption, EmptySeq DEF Init, Globals, Shapes
<1>2. ASSUME NEW c \in Client
      PROVE  Each(c) /\ NothingSkipped(c)
  <2>1. /\ conn[c] = "away" /\ queue[c] = <<>> /\ replay[c] = <<>> /\ sent[c] = <<>>
        /\ delivered[c] = {} /\ got[c] = {} /\ due[c] = {} /\ cursor[c] = 0
    BY DEF Init
  <2>2. Len(queue[c]) <= QueueSize
    BY <2>1, QueueSizeAssumption, EmptySeq
  <2>3. Members(c) /\ Phase(c) /\ Once(c)
    BY <2>1, <2>2, ElemsEmpty DEF Members, Phase, Once
  <2>4. NothingSkipped(c)
    BY <2>1, ElemsEmpty DEF NothingSkipped, Ahead, Contiguous
  <2> QED
    BY <2>3, <2>4 DEF Each
<1>3. Gapless(committed) /\ Gapless(published)
  BY DEF Init, Gapless
<1> QED
  BY <1>1, <1>2, <1>3 DEF IInv

-----------------------------------------------------------------------------
(* Steps of one client *)

\* Nothing of the stream of d changes.
SameStream(d) ==
  /\ conn'[d] = conn[d] /\ (d \in attached' <=> d \in attached)
  /\ queue'[d] = queue[d] /\ replay'[d] = replay[d] /\ sent'[d] = sent[d]
  /\ delivered'[d] = delivered[d] /\ got'[d] = got[d]
  /\ cursor'[d] = cursor[d] /\ due'[d] = due[d]

LEMMA SameStreamKept ==
  ASSUME NEW d \in Client, SameStream(d), UNCHANGED ingestVars, Each(d)
  PROVE  Each(d)' /\ (NothingSkipped(d) => NothingSkipped(d)')
<1>1. Members(d)'
  BY DEF SameStream, ingestVars, Each, Members
<1>2. Phase(d)'
  BY DEF SameStream, Each, Phase
<1>3. Once(d)'
  BY DEF SameStream, Each, Once
<1>4. ASSUME NothingSkipped(d)
      PROVE  NothingSkipped(d)'
  BY <1>4 DEF SameStream, ingestVars, NothingSkipped, Ahead, Contiguous, UnderWay
<1> QED
  BY <1>1, <1>2, <1>3, <1>4 DEF Each

LEMMA ClientStep ==
  ASSUME IInv, NEW c \in Client, UNCHANGED ingestVars,
         Globals', Shapes', Each(c)',
         ordered /\ Mode = "http" => NothingSkipped(c)',
         \A d \in Client : d # c => SameStream(d)
  PROVE  IInv'
<1>1. ASSUME NEW d \in Client
      PROVE  Each(d)' /\ (ordered /\ Mode = "http" => NothingSkipped(d)')
  <2>1. CASE d = c
    BY <2>1
  <2>2. CASE d # c
    BY <2>2, SameStreamKept DEF IInv
  <2> QED
    BY <2>1, <2>2
<1>2. ordered' = ordered /\ committed' = committed /\ published' = published
  BY DEF ingestVars
<1> QED
  BY <1>1, <1>2 DEF IInv, Gapless

-----------------------------------------------------------------------------
(* Ingestion *)

LEMMA CreateInv ==
  ASSUME IInv, Create
  PROVE  IInv'
<1>1. /\ created < MaxEvents /\ created' = created + 1
      /\ UNCHANGED <<committed, published, ordered, streamVars, due, cuts>>
  BY DEF Create
<1>2. Globals'
  <2>1. PICK n \in Nat : n = created
    BY BoundsAssumption DEF IInv, Globals
  <2>2. n + 1 \in 0..MaxEvents /\ 1..n \subseteq 1..(n + 1)
    BY <1>1, <2>1, BoundsAssumption
  <2> QED
    BY <1>1, <2>1, <2>2 DEF IInv, Globals, streamVars
<1>3. Shapes'
  BY <1>1 DEF IInv, Shapes, streamVars
<1>4. ASSUME NEW c \in Client
      PROVE  Each(c)' /\ (NothingSkipped(c) => NothingSkipped(c)')
  <2>1. Each(c)
    BY DEF IInv
  <2>2. Members(c)' /\ Phase(c)' /\ Once(c)'
    BY <1>1, <2>1 DEF Each, Members, Phase, Once, streamVars
  <2>3. NothingSkipped(c) => NothingSkipped(c)'
    BY <1>1 DEF NothingSkipped, Ahead, Contiguous, UnderWay, streamVars
  <2> QED
    BY <2>2, <2>3 DEF Each
<1> QED
  BY <1>1, <1>2, <1>3, <1>4 DEF IInv, Gapless

\* The next event by timestamp leaves no gap behind it.
LEMMA GaplessAdd ==
  ASSUME NEW S \in SUBSET Nat, NEW e \in Nat, Gapless(S), InOrder(e, S)
  PROVE  Gapless(S \cup {e})
  BY DEF Gapless, InOrder

LEMMA CommitInv ==
  ASSUME IInv, NEW e \in 1..created, Commit(e)
  PROVE  IInv'
<1>1. /\ committed' = committed \cup {e} /\ ordered' = (ordered /\ InOrder(e, committed))
      /\ UNCHANGED <<created, published, streamVars, due, cuts>>
  BY DEF Commit
<1>2. Globals'
  BY <1>1 DEF IInv, Globals, streamVars
<1>3. Shapes'
  BY <1>1 DEF IInv, Shapes, streamVars
<1>4. ASSUME NEW c \in Client
      PROVE  Each(c)' /\ (NothingSkipped(c) => NothingSkipped(c)')
  <2>1. Each(c)
    BY DEF IInv
  <2>2. Members(c)' /\ Phase(c)' /\ Once(c)'
    BY <1>1, <2>1 DEF Each, Members, Phase, Once, streamVars
  <2>3. NothingSkipped(c) => NothingSkipped(c)'
    BY <1>1 DEF NothingSkipped, Ahead, Contiguous, UnderWay, streamVars
  <2> QED
    BY <2>2, <2>3 DEF Each
<1>5. ASSUME ordered', Mode = "http"
      PROVE  Gapless(committed)' /\ Gapless(published)'
  <2>1. committed \in SUBSET Nat /\ e \in Nat
    BY BoundsAssumption DEF IInv, Globals
  <2>2. Gapless(committed) /\ Gapless(published) /\ InOrder(e, committed)
    BY <1>1, <1>5 DEF IInv
  <2>3. Gapless(committed \cup {e})
    BY <2>1, <2>2, GaplessAdd
  <2> QED
    BY <1>1, <2>2, <2>3 DEF Gapless
<1> QED
  BY <1>1, <1>2, <1>3, <1>4, <1>5 DEF IInv

\* The subscribers that a publish finds with a full queue.
Full == {c \in attached : Len(queue[c]) >= QueueSize}

LEMMA PublishSteps ==
  ASSUME IInv, NEW e \in 1..created, Publish(e)
  PROVE  /\ e \in Nat /\ e # 0 /\ e \notin published /\ (Mode = "http" => e \in committed)
         /\ published' = published \cup {e} /\ ordered' = (ordered /\ InOrder(e, published))
         /\ attached' = attached \ Full
         /\ UNCHANGED <<created, committed, conn, replay, delivered, sent, cursor, got, cuts>>
         /\ \A c \in Client :
              /\ queue'[c] = IF c \in attached \ Full THEN Append(queue[c], e) ELSE queue[c]
              /\ due'[c] = IF cursor[c] # 0 THEN due[c] \cup {e} ELSE due[c]
         /\ Globals' /\ Shapes'
<1>1. e \in Nat /\ e # 0
  BY BoundsAssumption DEF IInv, Globals
<1>2. /\ Publishable(e)
      /\ published' = published \cup {e} /\ ordered' = (ordered /\ InOrder(e, published))
      /\ queue' = [c \in Client |->
                     IF c \in attached \ Full THEN Append(queue[c], e) ELSE queue[c]]
      /\ attached' = attached \ Full
      /\ due' = [c \in Client |-> IF cursor[c] # 0 THEN due[c] \cup {e} ELSE due[c]]
      /\ UNCHANGED <<created, committed, conn, replay, delivered, sent, cursor, got, cuts>>
  BY DEF Publish, Full
<1>3. Globals'
  BY <1>2 DEF IInv, Globals, Publishable
<1>4. \A c \in Client : Append(queue[c], e) \in Seq(Nat)
  BY <1>1, ElemsAppend DEF IInv, Shapes
<1>5. queue' \in [Client -> Seq(Nat)] /\ due' \in [Client -> SUBSET Nat]
  BY <1>1, <1>2, <1>4 DEF IInv, Shapes
<1>6. Shapes'
  BY <1>2, <1>5 DEF IInv, Shapes
<1> QED
  BY <1>1, <1>2, <1>3, <1>6 DEF Publishable

LEMMA PublishEach ==
  ASSUME IInv, NEW e \in 1..created, Publish(e), NEW c \in Client
  PROVE  Each(c)'
<1>1. Each(c) /\ queue[c] \in Seq(Nat)
  BY DEF IInv, Shapes
<1>2. /\ e \in Nat /\ published' = published \cup {e}
      /\ UNCHANGED <<committed, conn, replay, delivered, sent, cursor, got>>
      /\ queue'[c] = IF c \in attached \ Full THEN Append(queue[c], e) ELSE queue[c]
      /\ due'[c] \subseteq due[c] \cup {e}
  BY PublishSteps
<1>3. /\ Len(Append(queue[c], e)) = Len(queue[c]) + 1
      /\ Elems(Append(queue[c], e)) = Elems(queue[c]) \cup {e}
  BY <1>1, <1>2, ElemsAppend
<1>4. Elems(queue'[c]) \subseteq published' /\ Len(queue'[c]) <= QueueSize
  <2>1. CASE c \in attached \ Full
    <3>1. Len(queue[c]) \in Nat /\ ~(Len(queue[c]) >= QueueSize)
      BY <1>1, <2>1, LenProperties DEF Full
    <3>2. Len(queue[c]) + 1 <= QueueSize
      BY <3>1, QueueSizeAssumption
    <3> QED
      BY <1>1, <1>2, <1>3, <2>1, <3>2 DEF Each, Members
  <2>2. CASE c \notin attached \ Full
    BY <1>1, <1>2, <2>2 DEF Each, Members
  <2> QED
    BY <2>1, <2>2
<1>5. Members(c)'
  BY <1>1, <1>2, <1>4 DEF Each, Members
<1>6. Phase(c)' /\ Once(c)'
  BY <1>1, <1>2 DEF Each, Phase, Once
<1> QED
  BY <1>5, <1>6 DEF Each

LEMMA PublishSkips ==
  ASSUME IInv, NEW e \in 1..created, Publish(e), NEW c \in Client,
         ordered, Mode = "http", InOrder(e, published)
  PROVE  NothingSkipped(c)'
<1>1. /\ Members(c) /\ queue[c] \in Seq(Nat) /\ cursor[c] \in Nat
      /\ NothingSkipped(c) /\ Gapless(published)
  BY DEF IInv, Each, Shapes
<1>2. /\ e \in Nat /\ e # 0 /\ e \notin published /\ published' = published \cup {e}
      /\ UNCHANGED <<committed, conn, replay, delivered, sent, cursor, got>>
      /\ queue'[c] = IF c \in attached \ Full THEN Append(queue[c], e) ELSE queue[c]
      /\ due'[c] = IF cursor[c] # 0 THEN due[c] \cup {e} ELSE due[c]
      /\ attached' = attached \ Full
  BY PublishSteps
<1>3. Elems(Append(queue[c], e)) = Elems(queue[c]) \cup {e}
  BY <1>1, <1>2, ElemsAppend
<1>4. \A x \in Elems(queue[c]) : x \in Nat /\ x < e
  <2> TAKE x \in Elems(queue[c])
  <2>1. x \in published /\ x \in Nat
    <3>1. published \subseteq Nat
      BY BoundsAssumption DEF IInv, Globals
    <3> QED
      BY <1>1, <3>1 DEF Members
  <2>2. x # e
    BY <1>2, <2>1
  <2>3. ~(e < x)
    <3>1. ASSUME e < x
          PROVE  FALSE
      <4>1. e \in 1..(x - 1)
        BY <1>2, <2>1, <3>1
      <4> QED
        BY <1>1, <1>2, <2>1, <4>1 DEF Gapless
    <3> QED
      BY <3>1
  <2> QED
    BY <1>2, <2>1, <2>2, <2>3
<1>5. Increasing(queue'[c])
  BY <1>1, <1>2, <1>4, IncreasingAppend DEF NothingSkipped
<1>6. Ahead(c)'
  <2>1. e \notin got[c] => ~(e <= cursor[c])
    <3>1. e <= cursor[c] => e \in 1..cursor[c]
      BY <1>1, <1>2
    <3> QED
      BY <1>1, <1>2, <3>1 DEF NothingSkipped, Ahead
  <2>2. e \notin got[c] => cursor[c] < e
    BY <1>1, <1>2, <2>1
  <2>3. cursor'[c] = 0 => due'[c] = {}
    BY <1>1, <1>2 DEF NothingSkipped, Ahead
  <2>4. \A d \in 1..cursor'[c] : d \in published' \cup got'[c]
    BY <1>1, <1>2 DEF NothingSkipped, Ahead
  <2>5. \A d \in due'[c] \ got'[c] : cursor'[c] < d
    BY <1>1, <1>2, <2>2 DEF NothingSkipped, Ahead
  <2> QED
    BY <2>3, <2>4, <2>5 DEF Ahead
<1>7. Contiguous(c)'
  BY <1>1, <1>2 DEF NothingSkipped, Contiguous
<1>8. ASSUME conn'[c] \in {"replaying", "live"}, NEW d \in due'[c] \ got'[c]
      PROVE  UnderWay(c, d)'
  <2>1. CASE d # e
    <3>1. UnderWay(c, d)
      BY <1>1, <1>2, <1>8, <2>1 DEF NothingSkipped
    <3>2. CASE d \in Elems(replay[c])
      BY <1>2, <3>2 DEF UnderWay
    <3>3. CASE d \in Elems(queue[c])
      BY <1>2, <1>3, <3>3 DEF UnderWay
    <3>4. CASE c \notin attached /\ \A x \in Elems(queue[c]) : x < d
      BY <1>2, <3>4 DEF UnderWay
    <3> QED
      BY <3>1, <3>2, <3>3, <3>4 DEF UnderWay
  <2>2. CASE d = e
    <3>1. CASE c \in attached \ Full
      BY <1>2, <1>3, <2>2, <3>1 DEF UnderWay
    <3>2. CASE c \notin attached \ Full
      BY <1>2, <1>4, <2>2, <3>2 DEF UnderWay
    <3> QED
      BY <3>1, <3>2
  <2> QED
    BY <2>1, <2>2
<1> QED
  BY <1>5, <1>6, <1>7, <1>8 DEF NothingSkipped

LEMMA PublishInv ==
  ASSUME IInv, NEW e \in 1..created, Publish(e)
  PROVE  IInv'
<1>1. /\ e \in Nat /\ committed' = committed
      /\ published' = published \cup {e} /\ ordered' = (ordered /\ InOrder(e, published))
      /\ Globals' /\ Shapes'
  BY PublishSteps
<1>2. \A c \in Client : Each(c)'
  BY PublishEach
<1>3. ASSUME ordered', Mode = "http"
      PROVE  /\ Gapless(committed)' /\ Gapless(published)'
             /\ \A c \in Client : NothingSkipped(c)'
  <2>1. ordered /\ InOrder(e, published) /\ Gapless(committed) /\ Gapless(published)
    BY <1>1, <1>3 DEF IInv
  <2>2. published \in SUBSET Nat
    BY BoundsAssumption DEF IInv, Globals
  <2>3. Gapless(published \cup {e})
    BY <1>1, <2>1, <2>2, GaplessAdd
  <2>4. \A c \in Client : NothingSkipped(c)'
    BY <1>3, <2>1, PublishSkips
  <2> QED
    BY <1>1, <2>1, <2>3, <2>4 DEF Gapless
<1> QED
  BY <1>1, <1>2, <1>3 DEF IInv

-----------------------------------------------------------------------------
(* event_generator *)

LEMMA ConnectInv ==
  ASSUME IInv, NEW c \in Client, Connect(c)
  PROVE  IInv'
<1>1. /\ Each(c) /\ conn[c] = "away"
      /\ conn' = [conn EXCEPT ![c] = IF cursor[c] = 0 THEN "live" ELSE "subscribed"]
      /\ attached' = attached \cup {c}
      /\ UNCHANGED <<ingestVars, queue, replay, delivered, sent, cursor, got, due, cuts>>
  BY DEF Connect, IInv
<1>2. conn \in [Client -> {"away", "subscribed", "replaying", "live"}]
  BY DEF IInv, Globals
<1>3. Globals'
  BY <1>1, <1>2 DEF IInv, Globals, ingestVars
<1>4. Shapes'
  BY <1>1 DEF IInv, Shapes
<1>5. \A d \in Client : d # c => SameStream(d)
  BY <1>1, <1>2 DEF SameStream
<1>6. /\ conn'[c] = (IF cursor[c] = 0 THEN "live" ELSE "subscribed")
      /\ published' = published /\ committed' = committed
  BY <1>1, <1>2 DEF ingestVars
<1>7. Each(c)'
  <2>1. Members(c)'
    BY <1>1, <1>6 DEF Each, Members
  <2>2. Phase(c)' /\ Once(c)'
    BY <1>1, <1>6 DEF Each, Phase, Once
  <2> QED
    BY <2>1, <2>2 DEF Each
<1>8. ASSUME ordered, Mode = "http"
      PROVE  NothingSkipped(c)'
  <2>1. NothingSkipped(c)
    BY <1>8 DEF IInv
  <2>2. Ahead(c)' /\ Increasing(queue[c])' /\ Contiguous(c)'
    BY <1>1, <1>6, <2>1 DEF NothingSkipped, Ahead, Contiguous
  <2>3. conn'[c] \in {"replaying", "live"} => due'[c] = {}
    BY <1>1, <1>6, <2>1 DEF NothingSkipped, Ahead
  <2> QED
    BY <2>2, <2>3 DEF NothingSkipped
<1> QED
  BY <1>1, <1>3, <1>4, <1>5, <1>7, <1>8, ClientStep

\* What the query returns.
LEMMA History ==
  ASSUME IInv, NEW cur
  PROVE  /\ Sorted(After(cur)) \in Seq(Nat) /\ Increasing(Sorted(After(cur)))
         /\ Elems(Sorted(After(cur))) = After(cur)
<1>1. PICK n \in Nat : n = created
  BY BoundsAssumption DEF IInv, Globals
<1>2. After(cur) \in SUBSET (1..n)
  BY <1>1 DEF IInv, Globals, After
<1>3. IsFiniteSet(1..n)
  BY FS_Interval
<1>4. IsFiniteSet(After(cur)) /\ After(cur) \in SUBSET Nat
  BY <1>2, <1>3, FS_Subset
<1> QED
  BY <1>4, SortedProperties

LEMMA LoadHistoryInv ==
  ASSUME IInv, NEW c \in Client, LoadHistory(c)
  PROVE  IInv'
<1>1. /\ Each(c) /\ conn[c] = "subscribed"
      /\ replay' = [replay EXCEPT ![c] = Sorted(After(cursor[c]))]
      /\ conn' = [conn EXCEPT ![c] = "replaying"]
      /\ UNCHANGED <<ingestVars, attached, queue, delivered, sent, cursor, got, due, cuts>>
  BY DEF LoadHistory, IInv
<1>2. /\ conn \in [Client -> {"away", "subscribed", "replaying", "live"}]
      /\ replay \in [Client -> Seq(Nat)] /\ cursor[c] \in Nat
  BY DEF IInv, Globals, Shapes
<1>3. PICK r \in Seq(Nat) : r = Sorted(After(cursor[c]))
  BY History
<1>4. Increasing(r) /\ Elems(r) = After(cursor[c])
  BY <1>3, History
<1>5. /\ replay'[c] = r /\ conn'[c] = "replaying"
      /\ published' = published /\ committed' = committed
  BY <1>1, <1>2, <1>3 DEF ingestVars
<1>6. Globals'
  BY <1>1, <1>2 DEF IInv, Globals, ingestVars
<1>7. Shapes'
  BY <1>1, <1>2, <1>3 DEF IInv, Shapes
<1>8. \A d \in Client : d # c => SameStream(d)
  BY <1>1, <1>2 DEF SameStream
<1>9. Each(c)'
  <2>1. Members(c)'
    BY <1>1, <1>4, <1>5 DEF Each, Members, After
  <2>2. Phase(c)' /\ Once(c)'
    BY <1>1, <1>4, <1>5, ElemsEmpty DEF Each, Phase, Once
  <2> QED
    BY <2>1, <2>2 DEF Each
<1>10. ASSUME ordered, Mode = "http"
       PROVE  NothingSkipped(c)'
  <2>1. /\ NothingSkipped(c) /\ Gapless(committed)
        /\ published \subseteq committed /\ committed \subseteq Nat
    BY <1>10, BoundsAssumption DEF IInv, Globals
  <2>2. cursor[c] \in committed
    BY <1>1, <2>1 DEF Each, Phase, Members
  <2>3. Ahead(c)' /\ Increasing(queue[c])'
    BY <1>1, <1>5, <2>1 DEF NothingSkipped, Ahead
  <2>4. \A x \in After(cursor[c]) :
          /\ cursor[c] < x
          /\ \A e \in Nat : cursor[c] < e /\ e < x => e \in After(cursor[c])
    <3>1. SUFFICES ASSUME NEW x \in After(cursor[c]), NEW e \in Nat, cursor[c] < e, e < x
                   PROVE  e \in After(cursor[c])
      BY <2>1, <2>2 DEF After
    <3>2. x \in committed /\ x \in Nat /\ e \in 1..(x - 1)
      BY <1>2, <2>1, <3>1 DEF After
    <3>3. e \in committed
      BY <2>1, <3>2 DEF Gapless
    <3> QED
      BY <3>1, <3>3 DEF After
  <2>5. Contiguous(c)'
    BY <1>1, <1>4, <1>5, <2>4 DEF Contiguous
  <2>6. ASSUME NEW e \in due[c] \ got[c]
        PROVE  UnderWay(c, e)'
    <3>1. e \in committed /\ cursor[c] < e
      BY <1>1, <2>1 DEF NothingSkipped, Ahead, Each, Members
    <3>2. e \in Elems(r)
      BY <1>4, <3>1 DEF After
    <3> QED
      BY <1>5, <3>2 DEF UnderWay
  <2> QED
    BY <1>1, <2>3, <2>5, <2>6 DEF NothingSkipped
<1> QED
  BY <1>1, <1>6, <1>7, <1>8, <1>9, <1>10, ClientStep

\* One block of the stream keeps the types, and concerns one client.
LEMMA YieldShapes ==
  ASSUME Shapes, NEW c \in Client, NEW e \in Nat, Yield(c, e)
  PROVE  /\ delivered' \in [Client -> SUBSET Nat] /\ got' \in [Client -> SUBSET Nat]
         /\ sent' \in [Client -> Seq(Nat)] /\ cursor' \in [Client -> Nat]
         /\ delivered'[c] = delivered[c] \cup {e} /\ got'[c] = got[c] \cup {e}
         /\ sent'[c] = Append(sent[c], e) /\ cursor'[c] = e
         /\ \A d \in Client : d # c =>
              /\ delivered'[d] = delivered[d] /\ got'[d] = got[d]
              /\ sent'[d] = sent[d] /\ cursor'[d] = cursor[d]
<1>1. Append(sent[c], e) \in Seq(Nat)
  BY ElemsAppend DEF Shapes
<1> QED
  BY <1>1 DEF Shapes, Yield

\* An event that is sent for the first time on its connection.
LEMMA YieldOnce ==
  ASSUME Shapes, NEW c \in Client, NEW e \in Nat, Yield(c, e),
         Each(c), e \notin delivered[c]
  PROVE  /\ IsInjective(sent'[c])
         /\ Elems(sent'[c]) = Elems(sent[c]) \cup {e}
         /\ Elems(sent'[c]) \subseteq delivered'[c] /\ delivered'[c] \subseteq got'[c]
<1>1. /\ sent[c] \in Seq(Nat) /\ IsInjective(sent[c])
      /\ Elems(sent[c]) \subseteq delivered[c] /\ delivered[c] \subseteq got[c]
  BY DEF Shapes, Each, Once, Members
<1>2. /\ Elems(Append(sent[c], e)) = Elems(sent[c]) \cup {e}
      /\ IsInjective(Append(sent[c], e))
  BY <1>1, ElemsAppend, InjectiveAppend
<1> QED
  BY <1>1, <1>2, YieldShapes

LEMMA ReplayEnds ==
  ASSUME IInv, NEW c \in Client, YieldReplay(c), replay[c] = <<>>
  PROVE  IInv'
<1>1. /\ Each(c) /\ conn[c] = "replaying" /\ conn' = [conn EXCEPT ![c] = "live"]
      /\ UNCHANGED <<ingestVars, attached, queue, replay, delivered, sent, cursor, got, due, cuts>>
  BY DEF YieldReplay, IInv
<1>2. conn \in [Client -> {"away", "subscribed", "replaying", "live"}]
  BY DEF IInv, Globals
<1>3. Globals'
  BY <1>1, <1>2 DEF IInv, Globals, ingestVars
<1>4. Shapes'
  BY <1>1 DEF IInv, Shapes
<1>5. \A d \in Client : d # c => SameStream(d)
  BY <1>1, <1>2 DEF SameStream
<1>6. conn'[c] = "live" /\ published' = published /\ committed' = committed
  BY <1>1, <1>2 DEF ingestVars
<1>7. Each(c)'
  BY <1>1, <1>6 DEF Each, Members, Phase, Once
<1>8. ASSUME ordered, Mode = "http"
      PROVE  NothingSkipped(c)'
  <2>1. NothingSkipped(c)
    BY <1>8 DEF IInv
  <2>2. Ahead(c)' /\ Increasing(queue[c])' /\ Contiguous(c)'
    BY <1>1, <1>6, <2>1 DEF NothingSkipped, Ahead, Contiguous
  <2>3. \A e \in due[c] \ got[c] : UnderWay(c, e)
    BY <1>1, <2>1 DEF NothingSkipped
  <2>4. \A e \in due'[c] \ got'[c] : UnderWay(c, e)'
    BY <1>1, <2>3 DEF UnderWay
  <2> QED
    BY <2>2, <2>4 DEF NothingSkipped
<1> QED
  BY <1>1, <1>3, <1>4, <1>5, <1>7, <1>8, ClientStep

LEMMA ReplayYields ==
  ASSUME IInv, NEW c \in Client, YieldReplay(c), replay[c] # <<>>
  PROVE  IInv'
<1>1. /\ Each(c) /\ conn[c] = "replaying" /\ Yield(c, Head(replay[c]))
      /\ replay' = [replay EXCEPT ![c] = Tail(@)]
      /\ UNCHANGED <<ingestVars, conn, attached, queue, due, cuts>>
  BY DEF YieldReplay, IInv
<1>2. Shapes /\ Globals
  BY DEF IInv
<1>3. PICK r \in Seq(Nat) : r = replay[c] /\ r # <<>>
  BY <1>2 DEF Shapes
<1>4. PICK e \in Nat : e = Head(r)
  BY <1>3, ElemsTail
<1>5. PICK u \in Seq(Nat) : u = Tail(r)
  BY <1>3, ElemsTail
<1>6. /\ Elems(r) = {e} \cup Elems(u) /\ Increasing(u)
      /\ \A x \in Elems(u) : e < x
  BY <1>1, <1>3, <1>4, <1>5, ElemsTail, IncreasingTail DEF Each, Once
<1>7. Yield(c, e) /\ replay'[c] = u /\ published' = published /\ committed' = committed
  BY <1>1, <1>2, <1>3, <1>4, <1>5 DEF Shapes, ingestVars
<1>8. e \in committed /\ e \notin delivered[c]
  BY <1>1, <1>3, <1>6 DEF Each, Members, Once
<1>9. /\ IsInjective(sent'[c]) /\ Elems(sent'[c]) = Elems(sent[c]) \cup {e}
      /\ Elems(sent'[c]) \subseteq delivered'[c] /\ delivered'[c] \subseteq got'[c]
      /\ delivered'[c] = delivered[c] \cup {e} /\ got'[c] = got[c] \cup {e} /\ cursor'[c] = e
  BY <1>1, <1>2, <1>7, <1>8, YieldShapes, YieldOnce
<1>10. Globals'
  BY <1>1, <1>2 DEF Globals, ingestVars
<1>11. Shapes'
  <2>1. replay' \in [Client -> Seq(Nat)]
    BY <1>1, <1>2, <1>3, <1>5 DEF Shapes
  <2> QED
    BY <1>1, <1>2, <1>7, <2>1, YieldShapes DEF Shapes
<1>12. \A d \in Client : d # c => SameStream(d)
  <2> SUFFICES ASSUME NEW d \in Client, d # c
               PROVE  SameStream(d)
    OBVIOUS
  <2>1. /\ delivered'[d] = delivered[d] /\ got'[d] = got[d]
        /\ sent'[d] = sent[d] /\ cursor'[d] = cursor[d]
    BY <1>2, <1>7, YieldShapes
  <2>2. replay'[d] = replay[d]
    BY <1>1, <1>2 DEF Shapes
  <2> QED
    BY <1>1, <2>1, <2>2 DEF SameStream
<1>13. Each(c)'
  <2>1. Members(c)'
    BY <1>1, <1>3, <1>6, <1>7, <1>8, <1>9 DEF Each, Members
  <2>2. Phase(c)'
    BY <1>1 DEF Phase
  <2>3. e \notin Elems(u)
    <3>1. SUFFICES ASSUME e \in Elems(u)
                   PROVE  FALSE
      OBVIOUS
    <3>2. e < e
      BY <1>6, <3>1
    <3> QED
      BY <3>2
  <2>4. Once(c)'
    <3>1. Elems(r) \cap delivered[c] = {}
      BY <1>1, <1>3 DEF Each, Once
    <3>2. Elems(u) \cap (delivered[c] \cup {e}) = {}
      BY <1>6, <2>3, <3>1
    <3> QED
      BY <1>6, <1>7, <1>9, <3>2 DEF Once
  <2> QED
    BY <2>1, <2>2, <2>4 DEF Each
<1>14. ASSUME ordered, Mode = "http"
       PROVE  NothingSkipped(c)'
  <2>1. /\ NothingSkipped(c) /\ cursor[c] \in Nat /\ cursor[c] < e
        /\ \A d \in Nat : ~(cursor[c] < d /\ d < e)
    <3>1. NothingSkipped(c) /\ cursor[c] \in Nat
      BY <1>2, <1>14 DEF IInv, Shapes
    <3>2. /\ cursor[c] < e
          /\ \A d \in Nat : cursor[c] < d /\ d < e => d \in Elems(r)
      BY <1>3, <1>6, <3>1 DEF NothingSkipped, Contiguous
    <3>3. \A d \in Elems(r) : d \in Nat /\ ~(d < e)
      <4>1. Elems(r) \subseteq Nat
        BY <1>3, SeqOver
      <4>2. \A d \in Elems(r) : d = e \/ e < d
        BY <1>6
      <4> QED
        BY <4>1, <4>2
    <3> QED
      BY <3>1, <3>2, <3>3
  <2>2. \A d \in due[c] : d \in Nat
    BY <1>2 DEF Shapes
  <2>3. Ahead(c)'
    <3>1. cursor'[c] = 0 => due'[c] = {}
      BY <1>1, <1>9, <2>1 DEF NothingSkipped, Ahead
    <3>2. \A d \in 1..e : d \in 1..cursor[c] \/ d = e
      BY <2>1
    <3>3. \A d \in 1..cursor'[c] : d \in published' \cup got'[c]
      BY <1>7, <1>9, <2>1, <3>2 DEF NothingSkipped, Ahead
    <3>4. \A d \in due[c] \ got[c] : d = e \/ e < d
      BY <2>1, <2>2 DEF NothingSkipped, Ahead
    <3>5. \A d \in due'[c] \ got'[c] : cursor'[c] < d
      BY <1>1, <1>9, <3>4
    <3> QED
      BY <3>1, <3>3, <3>5 DEF Ahead
  <2>4. Contiguous(c)'
    <3>1. SUFFICES ASSUME NEW x \in Elems(u)
                   PROVE  e < x /\ \A d \in Nat : e < d /\ d < x => d \in Elems(u)
      BY <1>7, <1>9 DEF Contiguous
    <3>2. e < x
      BY <1>6
    <3>3. ASSUME NEW d \in Nat, e < d, d < x
          PROVE  d \in Elems(u)
      <4>1. cursor[c] < d /\ x \in Elems(r)
        BY <1>6, <2>1, <3>3
      <4>2. d \in Elems(r)
        BY <1>3, <2>1, <3>3, <4>1 DEF NothingSkipped, Contiguous
      <4> QED
        BY <1>6, <3>3, <4>2
    <3> QED
      BY <3>2, <3>3
  <2>5. ASSUME NEW d \in due'[c] \ got'[c]
        PROVE  UnderWay(c, d)'
    <3>1. d # e /\ UnderWay(c, d)
      BY <1>1, <1>9, <2>1, <2>5 DEF NothingSkipped
    <3> QED
      BY <1>1, <1>3, <1>6, <1>7, <3>1 DEF UnderWay
  <2>6. Increasing(queue[c])'
    BY <1>1, <2>1 DEF NothingSkipped
  <2> QED
    BY <2>3, <2>4, <2>5, <2>6 DEF NothingSkipped
<1> QED
  BY <1>1, <1>10, <1>11, <1>12, <1>13, <1>14, ClientStep

LEMMA YieldReplayInv ==
  ASSUME IInv, NEW c \in Client, YieldReplay(c)
  PROVE  IInv'
  BY ReplayEnds, ReplayYields

\* An event that was sent already: the queue moves on.
LEMMA LiveSkips ==
  ASSUME IInv, NEW c \in Client, YieldLive(c), Head(queue[c]) \in delivered[c]
  PROVE  IInv'
<1>1. /\ Each(c) /\ conn[c] = "live" /\ queue[c] # <<>>
      /\ queue' = [queue EXCEPT ![c] = Tail(@)]
      /\ UNCHANGED <<ingestVars, conn, attached, replay, delivered, sent, cursor, got, due, cuts>>
  BY DEF YieldLive, IInv
<1>2. Shapes /\ Globals
  BY DEF IInv
<1>3. PICK r \in Seq(Nat) : r = queue[c] /\ r # <<>>
  BY <1>1, <1>2 DEF Shapes
<1>4. PICK e \in Nat : e = Head(r)
  BY <1>3, ElemsTail
<1>5. PICK u \in Seq(Nat) : u = Tail(r)
  BY <1>3, ElemsTail
<1>6. Elems(r) = {e} \cup Elems(u) /\ Len(u) <= Len(r)
  <2>1. Len(r) \in Nat /\ Len(u) = Len(r) - 1 /\ Elems(r) = {e} \cup Elems(u)
    BY <1>3, <1>4, <1>5, ElemsTail, LenProperties
  <2> QED
    BY <2>1
<1>7. queue'[c] = u /\ published' = published /\ committed' = committed
  BY <1>1, <1>2, <1>3, <1>5 DEF Shapes, ingestVars
<1>8. Globals'
  BY <1>1, <1>2 DEF Globals, ingestVars
<1>9. Shapes'
  BY <1>1, <1>2, <1>3, <1>5 DEF Shapes
<1>10. \A d \in Client : d # c => SameStream(d)
  BY <1>1, <1>2 DEF SameStream, Shapes
<1>11. Each(c)'
  <2>1. Len(u) <= QueueSize
    <3>1. Len(r) <= QueueSize /\ Len(u) \in Nat /\ Len(r) \in Nat
      BY <1>1, <1>3, LenProperties DEF Each, Members
    <3> QED
      BY <1>6, <3>1, QueueSizeAssumption
  <2>2. Members(c)'
    BY <1>1, <1>3, <1>6, <1>7, <2>1 DEF Each, Members
  <2>3. Phase(c)' /\ Once(c)'
    BY <1>1 DEF Each, Phase, Once
  <2> QED
    BY <2>2, <2>3 DEF Each
<1>12. ASSUME ordered, Mode = "http"
       PROVE  NothingSkipped(c)'
  <2>1. NothingSkipped(c)
    BY <1>12 DEF IInv
  <2>2. Ahead(c)' /\ Contiguous(c)'
    BY <1>1, <1>7, <2>1 DEF NothingSkipped, Ahead, Contiguous
  <2>3. Increasing(queue[c])'
    BY <1>3, <1>5, <1>7, <2>1, IncreasingTail DEF NothingSkipped
  <2>4. ASSUME NEW d \in due'[c] \ got'[c]
        PROVE  UnderWay(c, d)'
    <3>1. e \in got[c] /\ d # e
      BY <1>1, <1>3, <1>4, <2>4 DEF Each, Members
    <3>2. UnderWay(c, d)
      BY <1>1, <2>1, <2>4 DEF NothingSkipped
    <3> QED
      BY <1>1, <1>3, <1>6, <1>7, <3>1, <3>2 DEF UnderWay
  <2> QED
    BY <2>2, <2>3, <2>4 DEF NothingSkipped
<1> QED
  BY <1>1, <1>8, <1>9, <1>10, <1>11, <1>12, ClientStep

\* An event of the queue that the replay did not hold.
LEMMA LiveYields ==
  ASSUME IInv, NEW c \in Client, YieldLive(c), Head(queue[c]) \notin delivered[c]
  PROVE  IInv'
<1>1. /\ Each(c) /\ conn[c] = "live" /\ queue[c] # <<>> /\ Yield(c, Head(queue[c]))
      /\ queue' = [queue EXCEPT ![c] = Tail(@)]
      /\ UNCHANGED <<ingestVars, conn, attached, replay, due, cuts>>
  BY DEF YieldLive, IInv
<1>2. Shapes /\ Globals
  BY DEF IInv
<1>3. PICK r \in Seq(Nat) : r = queue[c] /\ r # <<>>
  BY <1>1, <1>2 DEF Shapes
<1>4. PICK e \in Nat : e = Head(r)
  BY <1>3, ElemsTail
<1>5. PICK u \in Seq(Nat) : u = Tail(r)
  BY <1>3, ElemsTail
<1>6. Elems(r) = {e} \cup Elems(u) /\ Len(u) <= Len(r)
  <2>1. Len(r) \in Nat /\ Len(u) = Len(r) - 1 /\ Elems(r) = {e} \cup Elems(u)
    BY <1>3, <1>4, <1>5, ElemsTail, LenProperties
  <2> QED
    BY <2>1
<1>7. /\ Yield(c, e) /\ e \notin delivered[c] /\ e \in published
      /\ queue'[c] = u /\ published' = published /\ committed' = committed
  <2>1. Elems(r) \subseteq published
    BY <1>1, <1>3 DEF Each, Members
  <2> QED
    BY <1>1, <1>2, <1>3, <1>4, <1>5, <1>6, <2>1 DEF Shapes, ingestVars
<1>8. /\ IsInjective(sent'[c]) /\ Elems(sent'[c]) = Elems(sent[c]) \cup {e}
      /\ Elems(sent'[c]) \subseteq delivered'[c] /\ delivered'[c] \subseteq got'[c]
      /\ delivered'[c] = delivered[c] \cup {e} /\ got'[c] = got[c] \cup {e} /\ cursor'[c] = e
  BY <1>1, <1>2, <1>7, YieldShapes, YieldOnce
<1>9. Globals'
  BY <1>1, <1>2 DEF Globals, ingestVars
<1>10. Shapes'
  <2>1. queue' \in [Client -> Seq(Nat)]
    BY <1>1, <1>2, <1>3, <1>5 DEF Shapes
  <2> QED
    BY <1>1, <1>2, <1>7, <2>1, YieldShapes DEF Shapes
<1>11. \A d \in Client : d # c => SameStream(d)
  <2> SUFFICES ASSUME NEW d \in Client, d # c
               PROVE  SameStream(d)
    OBVIOUS
  <2>1. /\ delivered'[d] = delivered[d] /\ got'[d] = got[d]
        /\ sent'[d] = sent[d] /\ cursor'[d] = cursor[d]
    BY <1>2, <1>7, YieldShapes
  <2>2. queue'[d] = queue[d]
    BY <1>1, <1>2 DEF Shapes
  <2> QED
    BY <1>1, <2>1, <2>2 DEF SameStream
<1>12. replay[c] = <<>> /\ replay'[c] = <<>>
  BY <1>1 DEF Each, Phase
<1>13. Each(c)'
  <2>1. Len(u) <= QueueSize
    <3>1. Len(r) <= QueueSize /\ Len(u) \in Nat /\ Len(r) \in Nat
      BY <1>1, <1>3, LenProperties DEF Each, Members
    <3> QED
      BY <1>6, <3>1, QueueSizeAssumption
  <2>2. Members(c)'
    BY <1>1, <1>3, <1>6, <1>7, <1>8, <2>1 DEF Each, Members
  <2>3. Phase(c)'
    BY <1>1, <1>12 DEF Phase
  <2>4. Once(c)'
    BY <1>8, <1>12, ElemsEmpty DEF Once
  <2> QED
    BY <2>2, <2>3, <2>4 DEF Each
<1>14. ASSUME ordered, Mode = "http"
       PROVE  NothingSkipped(c)'
  <2>1. NothingSkipped(c) /\ Gapless(published)
    BY <1>14 DEF IInv
  <2>2. \A x \in Elems(u) : e < x
    BY <1>3, <1>4, <1>5, <2>1, IncreasingTail DEF NothingSkipped
  <2>3. ASSUME NEW d \in due[c] \ got[c], d # e
        PROVE  e < d
    <3>1. UnderWay(c, d)
      BY <1>1, <2>1, <2>3 DEF NothingSkipped
    <3>2. d \in Elems(r) \/ \A x \in Elems(r) : x < d
      BY <1>3, <1>12, <3>1, ElemsEmpty DEF UnderWay
    <3> QED
      BY <1>6, <2>2, <2>3, <3>2
  <2>4. Ahead(c)'
    <3>1. e # 0
      BY <1>2, <1>7 DEF Globals
    <3>2. \A d \in 1..e : d \in published \/ d = e
      <4>1. \A d \in 1..e : d \in 1..(e - 1) \/ d = e
        OBVIOUS
      <4> QED
        BY <1>7, <2>1, <4>1 DEF Gapless
    <3>3. \A d \in 1..cursor'[c] : d \in published' \cup got'[c]
      BY <1>7, <1>8, <3>2
    <3>4. \A d \in due'[c] \ got'[c] : cursor'[c] < d
      BY <1>1, <1>8, <2>3
    <3> QED
      BY <1>8, <3>1, <3>3, <3>4 DEF Ahead
  <2>5. Contiguous(c)'
    BY <1>12, ElemsEmpty DEF Contiguous
  <2>6. Increasing(queue[c])'
    BY <1>3, <1>5, <1>7, <2>1, IncreasingTail DEF NothingSkipped
  <2>7. ASSUME NEW d \in due'[c] \ got'[c]
        PROVE  UnderWay(c, d)'
    <3>1. d # e /\ UnderWay(c, d)
      BY <1>1, <1>8, <2>1, <2>7 DEF NothingSkipped
    <3> QED
      BY <1>1, <1>3, <1>6, <1>7, <3>1 DEF UnderWay
  <2> QED
    BY <2>4, <2>5, <2>6, <2>7 DEF NothingSkipped
<1> QED
  BY <1>1, <1>9, <1>10, <1>11, <1>13, <1>14, ClientStep

LEMMA YieldLiveInv ==
  ASSUME IInv, NEW c \in Client, YieldLive(c)
  PROVE  IInv'
  BY LiveSkips, LiveYields

LEMMA DisconnectInv ==
  ASSUME IInv, NEW c \in Client, Disconnect(c), cuts' \in 0..MaxCuts
  PROVE  IInv'
<1>1. /\ Each(c)
      /\ conn' = [conn EXCEPT ![c] = "away"] /\ attached' = attached \ {c}
      /\ queue' = [queue EXCEPT ![c] = <<>>] /\ replay' = [replay EXCEPT ![c] = <<>>]
      /\ delivered' = [delivered EXCEPT ![c] = {}] /\ sent' = [sent EXCEPT ![c] = <<>>]
      /\ UNCHANGED <<ingestVars, got>>
      /\ \/ UNCHANGED <<cursor, due>>
         \/ cursor' = [cursor EXCEPT ![c] = 0] /\ due' = [due EXCEPT ![c] = {}]
  BY DEF Disconnect, IInv
<1>2. Shapes /\ Globals
  BY DEF IInv
<1>3. /\ conn'[c] = "away" /\ queue'[c] = <<>> /\ replay'[c] = <<>>
      /\ delivered'[c] = {} /\ sent'[c] = <<>>
      /\ published' = published /\ committed' = committed
  BY <1>1, <1>2 DEF Globals, Shapes, ingestVars
<1>4. Globals'
  BY <1>1, <1>2 DEF Globals, ingestVars
<1>5. /\ cursor' \in [Client -> Nat] /\ due' \in [Client -> SUBSET Nat] /\ got'[c] = got[c]
      /\ \/ cursor'[c] = cursor[c] /\ due'[c] = due[c]
         \/ cursor'[c] = 0 /\ due'[c] = {}
      /\ \A d \in Client : d # c => cursor'[d] = cursor[d] /\ due'[d] = due[d]
  <2>1. CASE UNCHANGED <<cursor, due>>
    BY <1>1, <1>2, <2>1 DEF Shapes
  <2>2. CASE cursor' = [cursor EXCEPT ![c] = 0] /\ due' = [due EXCEPT ![c] = {}]
    BY <1>1, <1>2, <2>2 DEF Shapes
  <2> QED
    BY <1>1, <2>1, <2>2
<1>6. Shapes'
  BY <1>1, <1>2, <1>5, EmptySeq DEF Shapes
<1>7. \A d \in Client : d # c => SameStream(d)
  BY <1>1, <1>2, <1>5 DEF SameStream, Shapes, Globals
<1>8. Each(c)'
  <2>1. Len(queue'[c]) <= QueueSize
    BY <1>3, QueueSizeAssumption, EmptySeq
  <2>2. Members(c)'
    BY <1>1, <1>3, <1>5, <2>1, ElemsEmpty DEF Each, Members
  <2>3. Phase(c)' /\ Once(c)'
    BY <1>3, ElemsEmpty DEF Phase, Once
  <2> QED
    BY <2>2, <2>3 DEF Each
<1>9. ASSUME ordered, Mode = "http"
      PROVE  NothingSkipped(c)'
  <2>1. NothingSkipped(c)
    BY <1>9 DEF IInv
  <2>2. Ahead(c)'
    BY <1>1, <1>3, <1>5, <2>1 DEF NothingSkipped, Ahead
  <2> QED
    BY <1>3, <2>2, ElemsEmpty DEF NothingSkipped, Contiguous
<1> QED
  BY <1>1, <1>4, <1>6, <1>7, <1>8, <1>9, ClientStep

-----------------------------------------------------------------------------
LEMMA Inductive == IInv /\ [Next]_vars => IInv'
<1> SUFFICES ASSUME IInv, [Next]_vars
             PROVE  IInv'
  OBVIOUS
<1>1. CASE Create
  BY <1>1, CreateInv
<1>2. ASSUME NEW e \in 1..created, Commit(e)
      PROVE  IInv'
  BY <1>2, CommitInv
<1>3. ASSUME NEW e \in 1..created, Publish(e)
      PROVE  IInv'
  BY <1>3, PublishInv
<1>4. ASSUME NEW c \in Client, Connect(c)
      PROVE  IInv'
  BY <1>4, ConnectInv
<1>5. ASSUME NEW c \in Client, LoadHistory(c)
      PROVE  IInv'
  BY <1>5, LoadHistoryInv
<1>6. ASSUME NEW c \in Client, YieldReplay(c)
      PROVE  IInv'
  BY <1>6, YieldReplayInv
<1>7. ASSUME NEW c \in Client, YieldLive(c)
      PROVE  IInv'
  BY <1>7, YieldLiveInv
<1>8. ASSUME NEW c \in Client, TimeLimit(c)
      PROVE  IInv'
  <2>1. Disconnect(c) /\ cuts' \in 0..MaxCuts
    BY <1>8 DEF TimeLimit, IInv, Globals
  <2> QED
    BY <2>1, DisconnectInv
<1>9. ASSUME NEW c \in Client, Cut(c)
      PROVE  IInv'
  <2>1. Disconnect(c) /\ cuts < MaxCuts /\ cuts' = cuts + 1 /\ cuts \in 0..MaxCuts
    BY <1>9 DEF Cut, IInv, Globals
  <2>2. cuts' \in 0..MaxCuts
    BY <2>1, BoundsAssumption
  <2> QED
    BY <2>1, <2>2, DisconnectInv
<1>10. CASE UNCHANGED vars
  <2>1. UNCHANGED <<ingestVars, streamVars, due, cuts>>
    BY <1>10 DEF vars
  <2>2. Globals' /\ Shapes'
    BY <2>1 DEF IInv, Globals, Shapes, ingestVars, streamVars
  <2>3. \A c \in Client : SameStream(c)
    BY <2>1 DEF SameStream, streamVars
  <2>4. \A c \in Client : Each(c)' /\ (NothingSkipped(c) => NothingSkipped(c)')
    BY <2>1, <2>3, SameStreamKept DEF IInv
  <2> QED
    BY <2>1, <2>2, <2>4 DEF IInv, Gapless, ingestVars
<1> QED
  BY <1>1, <1>2, <1>3, <1>4, <1>5, <1>6, <1>7, <1>8, <1>9, <1>10 DEF Next

\* The stream's state has its type: what is replayed was committed, what waits
\* in a queue was published and fits into it, only open connections are
\* subscribed, and no generator notes what its client has not got
\* (event_generator in api/services/ingestion.py, EventBuffer in collector/buffer.py).
THEOREM StreamTypeCorrect == Spec => []TypeOK
  BY Initially, Inductive, Typed, PTL DEF Spec

\* One connection carries an event at most once, whether the replay, the buffer
\* or both hold it: the set "delivered" of event_generator dedups them, in either
\* mode and in any order of commits and publishes.
THEOREM SentOnce == Spec => []OncePerConnection
  BY Initially, Inductive, OnlyOnce, PTL DEF Spec

\* event_generator's "a reconnect therefore closes the gap", for an ingestion that
\* publishes what it has committed and where both go by timestamp: a client that has
\* caught up has every event published since its first one, through any number of
\* cuts, time limits, full queues and other clients.
THEOREM ReconnectClosesGap == Mode = "http" => (Spec => []NoGapWhenOrdered)
<1> SUFFICES ASSUME Mode = "http"
             PROVE  Spec => []NoGapWhenOrdered
  OBVIOUS
<1>1. IInv => NoGapWhenOrdered
  BY GapCloses
<1> QED
  BY <1>1, Initially, Inductive, PTL DEF Spec
=============================================================================
