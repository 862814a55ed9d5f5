--------------------------- MODULE ServicesProofs ---------------------------
(***************************************************************************)
(* The services beside the event path, for any adapters, calls, requests,  *)
(* sessions and events: a cached alert summary is stale only if it was     *)
(* outrun; a restored session has its history, its owner and its replay; a *)
(* hooked call is harmed only if its hook is taken away under it, calls    *)
(* share one session, and their events reach the server in order.          *)
(***************************************************************************)
EXTENDS MCServices, OrderingProofs

-----------------------------------------------------------------------------
(* Alert summaries: what a computation that nothing outrun has found *)

NoneOpen == \A w \in Writer : write[w] # "open"

\* A reader that no writer has overlapped holds the right answers so far, and no
\* writer is open then; the same of the entries it leaves behind.
QuietReader(r) ==
  asks[r] # Nothing /\ ~outrun[r] =>
    NoneOpen /\ \A i \in 1..Len(partial[r]) : partial[r][i] = Answers(asks[r])[i]

QuietEntry(k) ==
  cache[k] # NoEntry /\ ~cache[k].outrun => NoneOpen /\ cache[k].answers = Answers(k)

IsEntry(c) ==
  c.left \in Nat /\ c = [left |-> c.left, answers |-> c.answers, outrun |-> c.outrun]

AlertShapes ==
  /\ DOMAIN write = Writer
  /\ asks \in [Reader -> Summary \cup {Nothing}]
  /\ outrun \in [Reader -> BOOLEAN]
  /\ DOMAIN partial = Reader
  /\ \A r \in Reader : \E S : partial[r] \in Seq(S)
  /\ \A r \in Reader : asks[r] = Nothing => partial[r] = <<>>
  /\ DOMAIN cache = Summary
  /\ \A k \in Summary : IsEntry(cache[k])

QuietInv == AlertShapes /\ (\A r \in Reader : QuietReader(r)) /\ (\A k \in Summary : QuietEntry(k))

-----------------------------------------------------------------------------
LEMMA PlanIsSeq ==
  ASSUME NEW k \in Summary
  PROVE  DOMAIN Plan[k] = 1..Len(Plan[k]) /\ k # Nothing
<1>1. k \in {"alert_summary", "trending_alerts", "lifecycle_summary", "trending"}
  BY SummaryAssumption DEF Plan
<1>2. CASE k = "alert_summary"
  <2>1. DOMAIN <<"severity", "type", "session">> = 1..Len(<<"severity", "type", "session">>)
    OBVIOUS
  <2>2. Plan[k] = <<"severity", "type", "session">>
    BY <1>2 DEF Plan
  <2> QED
    BY <1>2, <2>1, <2>2 DEF Nothing
<1>3. CASE k = "trending_alerts"
  <2>1. DOMAIN <<"type">> = 1..Len(<<"type">>)
    OBVIOUS
  <2>2. Plan[k] = <<"type">>
    BY <1>3 DEF Plan
  <2> QED
    BY <1>3, <2>1, <2>2 DEF Nothing
<1>4. CASE k = "lifecycle_summary"
  <2>1. DOMAIN <<"status", "type", "critical", "high", "medium", "low">> = 1..Len(<<"status", "type", "critical", "high", "medium", "low">>)
    OBVIOUS
  <2>2. Plan[k] = <<"status", "type", "critical", "high", "medium", "low">>
    BY <1>4 DEF Plan
  <2> QED
    BY <1>4, <2>1, <2>2 DEF Nothing
<1>5. CASE k = "trending"
  <2>1. DOMAIN <<"day">> = 1..Len(<<"day">>)
    OBVIOUS
  <2>2. Plan[k] = <<"day">>
    BY <1>5 DEF Plan
  <2> QED
    BY <1>5, <2>1, <2>2 DEF Nothing
<1> QED
  BY <1>1, <1>2, <1>3, <1>4, <1>5

\* What the queries answer depends on the committed rows only.
LEMMA AnswersStay ==
  ASSUME UNCHANGED status
  PROVE  \A k : Answers(k)' = Answers(k)
BY DEF Answers, Answer, Existing

LEMMA StageKeeps ==
  ASSUME QuietInv, NEW w \in Writer, NEW new, Stage(w, new)
  PROVE  QuietInv'
<1>1. /\ write' = [write EXCEPT ![w] = "open"] /\ cache' = [k \in Summary |-> NoEntry]
      /\ outrun' = [r \in Reader |-> asks[r] # Nothing] /\ UNCHANGED <<asks, partial>>
  BY DEF Stage
<1>2. AlertShapes'
  BY <1>1 DEF QuietInv, AlertShapes, NoEntry, IsEntry
<1>3. \A r \in Reader : QuietReader(r)'
  BY <1>1 DEF QuietReader
<1>4. \A k \in Summary : QuietEntry(k)'
  BY <1>1 DEF QuietEntry
<1> QED
  BY <1>2, <1>3, <1>4 DEF QuietInv

\* When a transaction ends it was open, so that nothing is quiet.
LEMMA EndKeeps ==
  ASSUME QuietInv, NEW w \in Writer, CommitAlerts(w) \/ RollbackAlerts(w)
  PROVE  QuietInv'
<1>1. /\ write[w] = "open" /\ write' = [write EXCEPT ![w] = "over"]
      /\ UNCHANGED <<asks, partial, outrun, cache>>
  BY DEF CommitAlerts, RollbackAlerts
<1>2. ~NoneOpen
  BY <1>1 DEF NoneOpen
<1>3. AlertShapes'
  BY <1>1 DEF QuietInv, AlertShapes
<1>4. \A r \in Reader : QuietReader(r)'
  BY <1>1, <1>2 DEF QuietInv, QuietReader
<1>5. \A k \in Summary : QuietEntry(k)'
  BY <1>1, <1>2 DEF QuietInv, QuietEntry
<1> QED
  BY <1>3, <1>4, <1>5 DEF QuietInv

\* A session's alerts are deleted under every summary, computed or cached.
LEMMA DeletionKeeps ==
  ASSUME QuietInv, NEW w \in Writer, NEW ids, DeleteSession(w, ids)
  PROVE  QuietInv'
<1>1. /\ write' = [write EXCEPT ![w] = "over"] /\ UNCHANGED <<asks, partial>>
      /\ outrun' = [r \in Reader |-> asks[r] # Nothing]
      /\ cache' = [k \in Summary |-> IF cache[k] = NoEntry THEN NoEntry
                                      ELSE [cache[k] EXCEPT !.outrun = TRUE]]
  BY DEF DeleteSession
<1>2. ASSUME NEW k \in Summary
      PROVE  IsEntry(cache'[k]) /\ (cache'[k] # NoEntry => cache'[k].outrun)
  <2>1. PICK c : c = cache[k]
    OBVIOUS
  <2>2. IsEntry(c) /\ IsEntry(NoEntry)
    BY <2>1 DEF QuietInv, AlertShapes, IsEntry, NoEntry
  <2>3. CASE c = NoEntry
    BY <1>1, <2>1, <2>2, <2>3
  <2>4. CASE c # NoEntry
    <3>1. cache'[k] = [left |-> c.left, answers |-> c.answers, outrun |-> TRUE]
      BY <1>1, <2>1, <2>2, <2>4 DEF IsEntry
    <3> QED
      BY <2>2, <3>1 DEF IsEntry
  <2> QED
    BY <2>3, <2>4
<1>3. AlertShapes'
  BY <1>1, <1>2 DEF QuietInv, AlertShapes
<1>4. \A r \in Reader : QuietReader(r)'
  BY <1>1 DEF QuietReader
<1>5. \A k \in Summary : QuietEntry(k)'
  BY <1>2 DEF QuietEntry
<1> QED
  BY <1>3, <1>4, <1>5 DEF QuietInv

LEMMA MissKeeps ==
  ASSUME QuietInv, NEW r \in Reader, NEW k \in Summary, Miss(r, k)
  PROVE  QuietInv'
<1>1. /\ asks[r] = Nothing /\ asks' = [asks EXCEPT ![r] = k]
      /\ outrun' = [outrun EXCEPT ![r] = \E w \in Writer : write[w] = "open"]
      /\ UNCHANGED <<status, write, partial, cache>>
  BY DEF Miss
<1>2. AlertShapes'
  BY <1>1, PlanIsSeq DEF QuietInv, AlertShapes
<1>3. partial[r] = <<>> /\ Len(partial[r]) = 0
  BY <1>1 DEF QuietInv, AlertShapes
<1>4. QuietReader(r)'
  BY <1>1, <1>3 DEF QuietInv, AlertShapes, QuietReader, NoneOpen
<1>5. \A o \in Reader \ {r} : QuietReader(o)'
  BY <1>1, AnswersStay DEF QuietInv, AlertShapes, QuietReader, NoneOpen
<1>6. \A c \in Summary : QuietEntry(c)'
  BY <1>1, AnswersStay DEF QuietInv, QuietEntry, NoneOpen
<1> QED
  BY <1>2, <1>4, <1>5, <1>6 DEF QuietInv

LEMMA QueryKeeps ==
  ASSUME QuietInv, NEW r \in Reader, Query(r)
  PROVE  QuietInv'
<1>1. PICK k, s, i : k = asks[r] /\ s = partial[r] /\ i = Len(s) + 1
  OBVIOUS
<1>2. PICK x : x = Answer(Plan[k][i])
  OBVIOUS
<1>3. /\ k # Nothing /\ i \in DOMAIN Plan[k]
      /\ partial' = [partial EXCEPT ![r] = Append(s, x)]
      /\ UNCHANGED <<status, write, asks, outrun, cache>>
  BY <1>1, <1>2 DEF Query
<1>4. k \in Summary /\ x = Answers(k)[i]
  BY <1>1, <1>2, <1>3 DEF QuietInv, AlertShapes, Answers
<1>5. PICK S : s \in Seq(S)
  BY <1>1 DEF QuietInv, AlertShapes
<1>6. s \in Seq(S \cup {x})
  BY <1>5
<1>7. /\ Append(s, x) \in Seq(S \cup {x}) /\ Len(Append(s, x)) = i
      /\ \A j \in 1..Len(s) : Append(s, x)[j] = s[j]
      /\ Append(s, x)[i] = x
  BY <1>1, <1>6
<1>8. partial'[r] = Append(s, x) /\ \A o \in Reader \ {r} : partial'[o] = partial[o]
  BY <1>3 DEF QuietInv, AlertShapes
<1>9. AlertShapes'
  <2>1. \A o \in Reader : \E T : partial'[o] \in Seq(T)
    <3> TAKE o \in Reader
    <3>1. CASE o = r
      BY <1>7, <1>8, <3>1
    <3>2. CASE o # r
      BY <1>8, <3>2 DEF QuietInv, AlertShapes
    <3> QED
      BY <3>1, <3>2
  <2>2. \A o \in Reader : asks'[o] = Nothing => partial'[o] = <<>>
    BY <1>1, <1>3, <1>8 DEF QuietInv, AlertShapes
  <2>3. DOMAIN partial' = Reader
    BY <1>3 DEF QuietInv, AlertShapes
  <2> QED
    BY <1>3, <2>1, <2>2, <2>3 DEF QuietInv, AlertShapes
<1>10. QuietReader(r)'
  <2> SUFFICES ASSUME ~outrun[r]
               PROVE  NoneOpen /\ \A j \in 1..i : Append(s, x)[j] = Answers(k)[j]
    BY <1>1, <1>3, <1>7, <1>8, AnswersStay DEF QuietReader, NoneOpen
  <2>1. NoneOpen /\ \A j \in 1..Len(s) : s[j] = Answers(k)[j]
    BY <1>1, <1>3 DEF QuietInv, QuietReader
  <2>2. Len(s) \in Nat
    BY <1>5
  <2> QED
    BY <1>1, <1>4, <1>7, <2>1, <2>2
<1>11. \A o \in Reader \ {r} : QuietReader(o)'
  BY <1>3, <1>8, AnswersStay DEF QuietInv, QuietReader, NoneOpen
<1>12. \A c \in Summary : QuietEntry(c)'
  BY <1>3, AnswersStay DEF QuietInv, QuietEntry, NoneOpen
<1> QED
  BY <1>9, <1>10, <1>11, <1>12 DEF QuietInv

LEMMA FillKeeps ==
  ASSUME QuietInv, NEW r \in Reader, Fill(r)
  PROVE  QuietInv'
<1>1. PICK k, s : k = asks[r] /\ s = partial[r]
  OBVIOUS
<1>2. /\ k # Nothing /\ Len(s) = Len(Plan[k])
      /\ cache' = [cache EXCEPT ![k] = [left |-> Ttl, answers |-> s, outrun |-> outrun[r]]]
      /\ asks' = [asks EXCEPT ![r] = Nothing] /\ partial' = [partial EXCEPT ![r] = <<>>]
      /\ outrun' = [outrun EXCEPT ![r] = FALSE] /\ UNCHANGED <<status, write>>
  BY <1>1 DEF Fill
<1>3. k \in Summary
  BY <1>1, <1>2 DEF QuietInv, AlertShapes
<1>4. /\ cache'[k] = [left |-> Ttl, answers |-> s, outrun |-> outrun[r]]
      /\ \A c \in Summary \ {k} : cache'[c] = cache[c]
  BY <1>2, <1>3 DEF QuietInv, AlertShapes
<1>5. AlertShapes'
  <2>1. \A c \in Summary : IsEntry(cache'[c])
    <3> TAKE c \in Summary
    <3>1. CASE c = k
      <4>1. Ttl \in Nat
        BY SummaryAssumption
      <4> QED
        BY <1>4, <3>1, <4>1 DEF IsEntry
    <3>2. CASE c # k
      BY <1>4, <3>2 DEF QuietInv, AlertShapes
    <3> QED
      BY <3>1, <3>2
  <2>2. <<>> \in Seq({})
    OBVIOUS
  <2>3. \A o \in Reader : \E T : partial'[o] \in Seq(T)
    BY <1>2, <2>2 DEF QuietInv, AlertShapes
  <2>4. /\ DOMAIN write' = Writer /\ asks' \in [Reader -> Summary \cup {Nothing}]
        /\ outrun' \in [Reader -> BOOLEAN] /\ DOMAIN partial' = Reader
        /\ DOMAIN cache' = Summary
        /\ \A o \in Reader : asks'[o] = Nothing => partial'[o] = <<>>
    BY <1>2 DEF QuietInv, AlertShapes
  <2> QED
    BY <2>1, <2>3, <2>4 DEF AlertShapes
<1>6. \A o \in Reader : QuietReader(o)'
  BY <1>2, AnswersStay DEF QuietInv, AlertShapes, QuietReader, NoneOpen
<1>7. QuietEntry(k)'
  <2> SUFFICES ASSUME ~outrun[r]
               PROVE  NoneOpen /\ s = Answers(k)
    BY <1>2, <1>4, AnswersStay DEF QuietEntry, NoneOpen
  <2>1. NoneOpen /\ \A j \in 1..Len(s) : s[j] = Answers(k)[j]
    BY <1>1, <1>2 DEF QuietInv, QuietReader
  <2>2. PICK S : s \in Seq(S)
    BY <1>1 DEF QuietInv, AlertShapes
  <2>3. s = [j \in 1..Len(s) |-> s[j]]
    BY <2>2
  <2>4. DOMAIN Plan[k] = 1..Len(s)
    BY <1>2, <1>3, PlanIsSeq
  <2>5. Answers(k) = [j \in 1..Len(s) |-> Answer(Plan[k][j])]
    BY <2>4 DEF Answers
  <2> QED
    BY <2>1, <2>3, <2>5
<1>8. \A c \in Summary \ {k} : QuietEntry(c)'
  BY <1>2, <1>4, AnswersStay DEF QuietInv, QuietEntry, NoneOpen
<1> QED
  BY <1>5, <1>6, <1>7, <1>8 DEF QuietInv

LEMMA TickKeeps ==
  ASSUME QuietInv, Tick
  PROVE  QuietInv'
<1>1. /\ cache' = [k \in Summary |-> IF cache[k].left <= 1 THEN NoEntry
                                      ELSE [cache[k] EXCEPT !.left = @ - 1]]
      /\ UNCHANGED <<status, write, asks, partial, outrun>>
  BY DEF Tick
<1>2. ASSUME NEW k \in Summary
      PROVE  /\ IsEntry(cache'[k])
             /\ cache'[k] # NoEntry =>
                  /\ cache[k] # NoEntry
                  /\ cache'[k].answers = cache[k].answers /\ cache'[k].outrun = cache[k].outrun
  <2>1. PICK c : c = cache[k]
    OBVIOUS
  <2>2. IsEntry(c) /\ IsEntry(NoEntry)
    BY <2>1 DEF QuietInv, AlertShapes, IsEntry, NoEntry
  <2>3. CASE c.left <= 1
    BY <1>1, <2>1, <2>2, <2>3
  <2>4. CASE ~(c.left <= 1)
    <3>1. cache'[k] = [left |-> c.left - 1, answers |-> c.answers, outrun |-> c.outrun]
      BY <1>1, <2>1, <2>2, <2>4 DEF IsEntry
    <3>2. cache[k] # NoEntry
      BY <2>1, <2>4 DEF NoEntry
    <3> QED
      BY <2>1, <2>2, <2>4, <3>1, <3>2 DEF IsEntry
  <2> QED
    BY <2>3, <2>4
<1>3. AlertShapes'
  BY <1>1, <1>2 DEF QuietInv, AlertShapes
<1>4. \A r \in Reader : QuietReader(r)'
  BY <1>1, AnswersStay DEF QuietInv, QuietReader, NoneOpen
<1>5. \A k \in Summary : QuietEntry(k)'
  BY <1>1, <1>2, AnswersStay DEF QuietInv, QuietEntry, NoneOpen
<1> QED
  BY <1>3, <1>4, <1>5 DEF QuietInv

-----------------------------------------------------------------------------
LEMMA QuietStart == AlertInit => QuietInv
<1> SUFFICES ASSUME AlertInit PROVE QuietInv
  OBVIOUS
<1>1. <<>> \in Seq({})
  OBVIOUS
<1>2. AlertShapes
  BY <1>1 DEF AlertInit, AlertShapes, NoEntry, IsEntry
<1> QED
  BY <1>2 DEF AlertInit, QuietInv, QuietReader, QuietEntry

LEMMA QuietStep == QuietInv /\ [AlertNext]_alertVars => QuietInv'
<1> SUFFICES ASSUME QuietInv, [AlertNext]_alertVars
             PROVE  QuietInv'
  OBVIOUS
<1>1. CASE UNCHANGED alertVars
  BY <1>1, AnswersStay DEF alertVars, QuietInv, AlertShapes, QuietReader, QuietEntry, NoneOpen
<1>2. ASSUME NEW w \in Writer,
             \/ \E a \in Alert : CreateAlert(w, a)
             \/ \E a \in Alert, s \in Status : UpdateStatus(w, a, s)
             \/ \E ids \in SUBSET Alert, s \in Status : BulkUpdate(w, ids, s)
      PROVE  QuietInv'
  BY <1>2, StageKeeps DEF CreateAlert, UpdateStatus, BulkUpdate
<1>3. ASSUME NEW w \in Writer, CommitAlerts(w) \/ RollbackAlerts(w)
      PROVE  QuietInv'
  BY <1>3, EndKeeps
<1>4. ASSUME NEW w \in Writer, \E ids \in SUBSET Alert : DeleteSession(w, ids)
      PROVE  QuietInv'
  BY <1>4, DeletionKeeps
<1>5. ASSUME NEW r \in Reader, Query(r) \/ Fill(r) \/ \E k \in Summary : Miss(r, k)
      PROVE  QuietInv'
  BY <1>5, QueryKeeps, FillKeeps, MissKeeps
<1> QED
  BY <1>1, <1>2, <1>3, <1>4, <1>5, TickKeeps DEF AlertNext

\* However requests interleave and whenever their transactions commit, a cached
\* summary that differs from the database was overlapped by a writer between its
\* invalidation and its commit, or alerts have been deleted under it.
THEOREM CacheStaleOnlyIfOutrun == AlertSpec => []StaleOnlyIfOutrun
<1>1. AlertSpec => []QuietInv
  BY QuietStart, QuietStep, PTL DEF AlertSpec
<1>2. QuietInv => StaleOnlyIfOutrun
  BY DEF QuietInv, QuietEntry, StaleOnlyIfOutrun
<1> QED
  BY <1>1, <1>2, PTL

\* The rows a transaction stages, and the lengths of what readers and the cache hold.
StagedTypes ==
  /\ status \in [Alert -> Status \cup {Absent}]
  /\ DOMAIN staged = Writer
  /\ \A w \in Writer :
       /\ DOMAIN staged[w] \subseteq Alert /\ \A a \in DOMAIN staged[w] : staged[w][a] \in Status
       /\ write[w] \in {"idle", "open", "over"}
       /\ write[w] # "open" => DOMAIN staged[w] = {}

AnswerTypes ==
  /\ \A r \in Reader : asks[r] # Nothing => Len(partial[r]) <= Len(Plan[asks[r]])
  /\ \A k \in Summary : cache[k] # NoEntry =>
       cache[k].left \in 1..Ttl /\ Len(cache[k].answers) = Len(Plan[k])

LEMMA StageTyped ==
  ASSUME QuietInv, StagedTypes, AnswerTypes, NEW w \in Writer, NEW new,
         DOMAIN new \subseteq Alert, \A a \in DOMAIN new : new[a] \in Status, Stage(w, new)
  PROVE  StagedTypes' /\ AnswerTypes'
<1>1. /\ staged' = [staged EXCEPT ![w] = new] /\ write' = [write EXCEPT ![w] = "open"]
      /\ cache' = [k \in Summary |-> NoEntry] /\ UNCHANGED <<status, asks, partial>>
  BY DEF Stage
<1>2. StagedTypes'
  BY <1>1 DEF StagedTypes, QuietInv, AlertShapes
<1>3. AnswerTypes'
  BY <1>1 DEF AnswerTypes
<1> QED
  BY <1>2, <1>3

LEMMA WritersTyped ==
  ASSUME QuietInv, StagedTypes, AnswerTypes, NEW w \in Writer,
         \/ \E a \in Alert : CreateAlert(w, a)
         \/ \E a \in Alert, s \in Status : UpdateStatus(w, a, s)
         \/ \E ids \in SUBSET Alert, s \in Status : BulkUpdate(w, ids, s)
         \/ CommitAlerts(w) \/ RollbackAlerts(w)
  PROVE  StagedTypes' /\ AnswerTypes'
<1>1. CASE \E a \in Alert : CreateAlert(w, a)
  <2>1. PICK a \in Alert : CreateAlert(w, a)
    BY <1>1
  <2>2. PICK new : new = [b \in {a} |-> "active"]
    OBVIOUS
  <2>3. DOMAIN new \subseteq Alert /\ (\A b \in DOMAIN new : new[b] \in Status) /\ Stage(w, new)
    BY <2>1, <2>2 DEF CreateAlert, Status
  <2> QED
    BY <2>3, StageTyped
<1>2. CASE \E a \in Alert, s \in Status : UpdateStatus(w, a, s)
  <2>1. PICK a \in Alert, s \in Status : UpdateStatus(w, a, s)
    BY <1>2
  <2>2. PICK new : new = [b \in {a} |-> s]
    OBVIOUS
  <2>3. DOMAIN new \subseteq Alert /\ (\A b \in DOMAIN new : new[b] \in Status) /\ Stage(w, new)
    BY <2>1, <2>2 DEF UpdateStatus
  <2> QED
    BY <2>3, StageTyped
<1>3. CASE \E ids \in SUBSET Alert, s \in Status : BulkUpdate(w, ids, s)
  <2>1. PICK ids \in SUBSET Alert, s \in Status : BulkUpdate(w, ids, s)
    BY <1>3
  <2>2. PICK new : new = [b \in ids \cap Existing |-> s]
    OBVIOUS
  <2>3. DOMAIN new \subseteq Alert /\ (\A b \in DOMAIN new : new[b] \in Status) /\ Stage(w, new)
    BY <2>1, <2>2 DEF BulkUpdate
  <2> QED
    BY <2>3, StageTyped
<1>4. CASE CommitAlerts(w) \/ RollbackAlerts(w)
  <2>1. /\ write' = [write EXCEPT ![w] = "over"] /\ staged' = [staged EXCEPT ![w] = NoRows]
        /\ UNCHANGED <<asks, partial, cache>>
    BY <1>4 DEF CommitAlerts, RollbackAlerts
  <2>2. status' \in [Alert -> Status \cup {Absent}]
    BY <1>4 DEF CommitAlerts, RollbackAlerts, StagedTypes
  <2>3. DOMAIN NoRows = {}
    BY DEF NoRows
  <2>4. StagedTypes'
    BY <2>1, <2>2, <2>3 DEF StagedTypes, QuietInv, AlertShapes
  <2>5. AnswerTypes'
    BY <2>1 DEF AnswerTypes
  <2> QED
    BY <2>4, <2>5
<1> QED
  BY <1>1, <1>2, <1>3, <1>4

LEMMA DeletionTyped ==
  ASSUME QuietInv, StagedTypes, AnswerTypes, NEW w \in Writer, NEW ids, DeleteSession(w, ids)
  PROVE  StagedTypes' /\ AnswerTypes'
<1>1. /\ write[w] = "idle" /\ write' = [write EXCEPT ![w] = "over"] /\ UNCHANGED <<asks, partial>>
      /\ staged' = [v \in Writer |-> [a \in DOMAIN staged[v] \ ids |-> staged[v][a]]]
      /\ cache' = [k \in Summary |-> IF cache[k] = NoEntry THEN NoEntry
                                      ELSE [cache[k] EXCEPT !.outrun = TRUE]]
  BY DEF DeleteSession
<1>2. status' \in [Alert -> Status \cup {Absent}]
  BY DEF DeleteSession, StagedTypes
<1>3. ASSUME NEW v \in Writer
      PROVE  /\ DOMAIN staged'[v] \subseteq DOMAIN staged[v]
             /\ \A a \in DOMAIN staged'[v] : staged'[v][a] = staged[v][a]
  BY <1>1
<1>4. ASSUME NEW v \in Writer
      PROVE  /\ write'[v] \in {"idle", "open", "over"}
             /\ write'[v] # "open" => write[v] # "open"
  BY <1>1 DEF StagedTypes, QuietInv, AlertShapes
<1>5. StagedTypes'
  <2>1. DOMAIN staged' = Writer
    BY <1>1
  <2> QED
    BY <1>2, <1>3, <1>4, <2>1 DEF StagedTypes
<1>6. ASSUME NEW k \in Summary, cache'[k] # NoEntry
      PROVE  cache'[k].left \in 1..Ttl /\ Len(cache'[k].answers) = Len(Plan[k])
  <2>1. PICK c : c = cache[k]
    OBVIOUS
  <2>2. c # NoEntry /\ cache'[k] = [c EXCEPT !.outrun = TRUE] /\ IsEntry(c)
    BY <1>1, <1>6, <2>1 DEF QuietInv, AlertShapes
  <2>3. c.left \in 1..Ttl /\ Len(c.answers) = Len(Plan[k])
    BY <2>1, <2>2 DEF AnswerTypes
  <2>4. cache'[k] = [left |-> c.left, answers |-> c.answers, outrun |-> TRUE]
    BY <2>2 DEF IsEntry
  <2> QED
    BY <2>3, <2>4
<1> QED
  BY <1>1, <1>5, <1>6 DEF AnswerTypes

LEMMA ReadersTyped ==
  ASSUME QuietInv, AnswerTypes, NEW r \in Reader,
         Query(r) \/ Fill(r) \/ \E k \in Summary : Miss(r, k)
  PROVE  AnswerTypes'
<1>1. AlertShapes
  BY DEF QuietInv
<1>2. CASE \E k \in Summary : Miss(r, k)
  <2>1. PICK k \in Summary : Miss(r, k)
    BY <1>2
  <2>2. asks' = [asks EXCEPT ![r] = k] /\ UNCHANGED <<partial, cache>> /\ partial[r] = <<>>
    BY <1>1, <2>1 DEF Miss, AlertShapes
  <2>3. Len(partial[r]) <= Len(Plan[k])
    <3>1. Len(Plan[k]) \in Nat
      BY SummaryAssumption DEF Plan
    <3> QED
      BY <2>2, <3>1
  <2> QED
    BY <1>1, <2>2, <2>3 DEF AnswerTypes, AlertShapes
<1>3. CASE Query(r)
  <2>1. PICK k, s, x : k = asks[r] /\ s = partial[r] /\ x = Answer(Plan[k][Len(s) + 1])
    OBVIOUS
  <2>2. /\ k # Nothing /\ Len(s) + 1 \in DOMAIN Plan[k] /\ partial' = [partial EXCEPT ![r] = Append(s, x)]
        /\ UNCHANGED <<asks, cache>>
    BY <1>3, <2>1 DEF Query
  <2>3. PICK S : s \in Seq(S)
    BY <1>1, <2>1 DEF AlertShapes
  <2>4. Len(Append(s, x)) = Len(s) + 1
    BY <2>3
  <2>5. k \in Summary
    BY <1>1, <2>1, <2>2 DEF AlertShapes
  <2>6. Len(Append(s, x)) <= Len(Plan[k])
    BY <2>2, <2>4, <2>5, PlanIsSeq
  <2> QED
    BY <1>1, <2>1, <2>2, <2>6 DEF AnswerTypes, AlertShapes
<1>4. CASE Fill(r)
  <2>1. PICK k, e : k = asks[r] /\ e = [left |-> Ttl, answers |-> partial[r], outrun |-> outrun[r]]
    OBVIOUS
  <2>2. /\ k # Nothing /\ Len(partial[r]) = Len(Plan[k]) /\ cache' = [cache EXCEPT ![k] = e]
        /\ asks' = [asks EXCEPT ![r] = Nothing] /\ partial' = [partial EXCEPT ![r] = <<>>]
    BY <1>4, <2>1 DEF Fill
  <2>3. e.left \in 1..Ttl /\ Len(e.answers) = Len(Plan[k])
    BY <2>1, <2>2, SummaryAssumption
  <2> QED
    BY <1>1, <2>2, <2>3 DEF AnswerTypes, AlertShapes
<1> QED
  BY <1>2, <1>3, <1>4

LEMMA TickTyped ==
  ASSUME QuietInv, AnswerTypes, Tick
  PROVE  AnswerTypes'
<1>1. /\ cache' = [k \in Summary |-> IF cache[k].left <= 1 THEN NoEntry
                                      ELSE [cache[k] EXCEPT !.left = @ - 1]]
      /\ UNCHANGED <<asks, partial>>
  BY DEF Tick
<1>2. ASSUME NEW k \in Summary, cache'[k] # NoEntry
      PROVE  cache'[k].left \in 1..Ttl /\ Len(cache'[k].answers) = Len(Plan[k])
  <2>1. PICK e : e = cache[k]
    OBVIOUS
  <2>2. ~(e.left <= 1) /\ cache'[k] = [e EXCEPT !.left = @ - 1]
    BY <1>1, <1>2, <2>1
  <2>3. IsEntry(e) /\ e # NoEntry
    BY <2>1, <2>2 DEF QuietInv, AlertShapes, NoEntry
  <2>4. e.left \in 1..Ttl /\ Len(e.answers) = Len(Plan[k])
    BY <2>1, <2>3 DEF AnswerTypes
  <2>5. cache'[k] = [left |-> e.left - 1, answers |-> e.answers, outrun |-> e.outrun]
    BY <2>2, <2>3 DEF IsEntry
  <2>6. e.left - 1 \in 1..Ttl
    BY <2>2, <2>4, SummaryAssumption
  <2> QED
    BY <2>4, <2>5, <2>6
<1> QED
  BY <1>1, <1>2 DEF AnswerTypes

LEMMA AlertTyped ==
  ASSUME QuietInv, StagedTypes, AnswerTypes, [AlertNext]_alertVars
  PROVE  StagedTypes' /\ AnswerTypes'
<1>1. ASSUME NEW r \in Reader, Query(r) \/ Fill(r) \/ \E k \in Summary : Miss(r, k)
      PROVE  StagedTypes' /\ AnswerTypes'
  <2>1. UNCHANGED <<status, staged, write>>
    BY <1>1 DEF Query, Fill, Miss
  <2> QED
    BY <1>1, <2>1, ReadersTyped DEF StagedTypes
<1>2. CASE Tick
  <2>1. UNCHANGED <<status, staged, write>>
    BY <1>2 DEF Tick
  <2> QED
    BY <1>2, <2>1, TickTyped DEF StagedTypes
<1>3. CASE UNCHANGED alertVars
  BY <1>3 DEF alertVars, StagedTypes, AnswerTypes
<1>4. ASSUME NEW w \in Writer, \E ids \in SUBSET Alert : DeleteSession(w, ids)
      PROVE  StagedTypes' /\ AnswerTypes'
  BY <1>4, DeletionTyped
<1> QED
  BY <1>1, <1>2, <1>3, <1>4, WritersTyped DEF AlertNext

LEMMA AlertTypeCorrect == AlertSpec => []AlertTypeOK
<1>1. AlertInit => QuietInv /\ StagedTypes /\ AnswerTypes
  BY QuietStart DEF AlertInit, StagedTypes, AnswerTypes, NoRows, Status
<1>2. QuietInv /\ StagedTypes /\ AnswerTypes /\ [AlertNext]_alertVars =>
        QuietInv' /\ StagedTypes' /\ AnswerTypes'
  BY QuietStep, AlertTyped
<1>3. QuietInv /\ StagedTypes /\ AnswerTypes => AlertTypeOK
  BY DEF QuietInv, AlertShapes, StagedTypes, AnswerTypes, AlertTypeOK
<1> QED
  BY <1>1, <1>2, <1>3, PTL DEF AlertSpec

-----------------------------------------------------------------------------
(* Restores: the inductive invariant *)

CallOf ==
  [step : {"idle", "posting", "getting", "fetching", "restored", "entered", "error"},
   wanted : {Named, Minted}, mode : {"none", "semantic", "legacy"}, session : SessionId \cup {Minted}]
RowOf == [owner : Client \cup {Sdk}, copies : SUBSET Nat, since : SUBSET Nat]

SourceTypes ==
  /\ now \in 0..MaxTime
  /\ created \subseteq 1..now /\ committed \subseteq created
  /\ cp \in [state : {"none", "sent", "stored", "refused"}, time : 0..now, anchor : created \cup {NoAnchor}]
  /\ cp.anchor < cp.time \/ cp.anchor = NoAnchor
  /\ cp.state = "stored" => cp.anchor \in committed \cup {NoAnchor}

ClientTypes ==
  /\ call \in [Client -> CallOf]
  /\ post \in [Client -> {"none", "received", "read", "done", "failed", "notfound"}]
  /\ snap \in [Client -> SUBSET Nat] /\ asked \in [Client -> SUBSET Nat]
  /\ raw \in [Client -> Seq(Nat)] /\ due \in [Client -> SUBSET Nat]
  /\ shifted \subseteq Client /\ timedOut \subseteq Client

RowTypes == DOMAIN rows \subseteq SessionId /\ rows \in [DOMAIN rows -> RowOf]

\* The request of a client at the server, and what the client knows of it.
RequestOf(c) ==
  /\ call[c].step = "idle" => post[c] = "none"
  /\ call[c].step = "posting" => post[c] # "none"
  /\ call[c].step \in {"idle", "posting", "getting", "error"} => call[c].mode = "none"
  /\ call[c].step \in {"fetching", "restored"} => call[c].session \in SessionId
  /\ post[c] \in {"received", "read", "done"} =>
       call[c].step = "posting" \/ c \in timedOut \/ (post[c] = "done" /\ call[c].mode = "semantic")
  /\ snap[c] \cup asked[c] \subseteq committed
  /\ post[c] = "read" =>
       /\ cp.state = "stored" /\ asked[c] \subseteq snap[c]
       /\ cp.anchor # NoAnchor => cp.anchor \in snap[c]
  /\ post[c] = "done" => IdFor(c) \in DOMAIN rows /\ rows[IdFor(c)].owner = c
  /\ call[c].mode = "semantic" => post[c] = "done" /\ call[c].session = IdFor(c)

\* A session that a client owns is the one its request made, with the history.
RowRight(sid) ==
  LET owner == rows[sid].owner
  IN  /\ rows[sid].copies \cup rows[sid].since \subseteq committed
      /\ owner # Sdk =>
           /\ sid = IdFor(owner) /\ post[owner] = "done" /\ cp.state = "stored"
           /\ cp.anchor # NoAnchor =>
                /\ cp.anchor \in rows[sid].copies
                /\ {e \in rows[sid].since : e <= cp.anchor} \subseteq rows[sid].copies
                /\ \A e \in rows[sid].copies : e <= cp.anchor

\* The pages fetched so far are the beginning of what there is.
FetchedRight(c) ==
  /\ Elems(raw[c]) \cup due[c] \subseteq committed
  /\ call[c].step \notin {"fetching", "restored"} => raw[c] = <<>> /\ c \notin shifted
  /\ c \notin shifted =>
       /\ Increasing(raw[c])
       /\ call[c].step = "fetching" =>
            \A x \in Elems(raw[c]), d \in committed : d < x => d \in Elems(raw[c])
       /\ call[c].step = "restored" => due[c] \subseteq Elems(raw[c])

RestoreInv ==
  /\ SourceTypes /\ ClientTypes /\ RowTypes
  /\ \A c \in Client : RequestOf(c) /\ FetchedRight(c)
  /\ \A sid \in DOMAIN rows : RowRight(sid)


\* What an action of a client leaves alone: the source session, the other clients,
\* the sessions that exist, and its own request once that is done.
ClientFrame(c) ==
  /\ UNCHANGED sourceVars
  /\ \A d \in Client \ {c} :
       /\ call'[d] = call[d] /\ post'[d] = post[d] /\ snap'[d] = snap[d] /\ asked'[d] = asked[d]
       /\ raw'[d] = raw[d] /\ due'[d] = due[d]
       /\ d \in shifted' <=> d \in shifted
       /\ d \in timedOut' <=> d \in timedOut
  /\ \A sid \in DOMAIN rows : sid \in DOMAIN rows' /\ rows'[sid] = rows[sid]
  /\ post[c] = "done" => post'[c] = "done" /\ call'[c].wanted = call[c].wanted

-----------------------------------------------------------------------------
LEMMA CommittedNat ==
  ASSUME SourceTypes
  PROVE  /\ committed \subseteq Nat /\ created \subseteq Nat /\ IsFiniteSet(committed)
         /\ now \in Nat /\ cp.time \in Nat /\ cp.anchor \in Nat
<1>1. MaxTime \in Nat
  BY RestoreAssumption
<1>2. now \in Nat /\ committed \subseteq 1..now /\ committed \subseteq Nat /\ created \subseteq Nat
  BY <1>1 DEF SourceTypes
<1>3. IsFiniteSet(1..now)
  BY <1>2, FS_Interval
<1>4. IsFiniteSet(committed)
  BY <1>2, <1>3, FS_Subset
<1>5. cp.time \in 0..now /\ cp.anchor \in created \cup {0}
  BY DEF SourceTypes, NoAnchor
<1>6. cp.time \in Nat /\ cp.anchor \in Nat
  <2>1. PICK t, a : t = cp.time /\ a = cp.anchor
    OBVIOUS
  <2>2. t \in Nat
    <3>1. t \in 0..now /\ now \in Nat
      BY <1>2, <1>5, <2>1
    <3> QED
      BY <3>1
  <2>3. a \in Nat
    <3>1. a \in created \cup {0} /\ created \subseteq Nat
      BY <1>2, <1>5, <2>1
    <3> QED
      BY <3>1
  <2> QED
    BY <2>1, <2>2, <2>3
<1> QED
  BY <1>2, <1>4, <1>6

LEMMA ClientKeeps ==
  ASSUME RestoreInv, NEW c \in Client, ClientFrame(c),
         ClientTypes', RowTypes', RequestOf(c)', FetchedRight(c)',
         \A sid \in DOMAIN rows' \ DOMAIN rows : RowRight(sid)'
  PROVE  RestoreInv'
<1>1. SourceTypes'
  BY DEF RestoreInv, ClientFrame, sourceVars, SourceTypes
<1>2. ASSUME NEW d \in Client \ {c}
      PROVE  RequestOf(d)' /\ FetchedRight(d)'
  <2>1. RequestOf(d) /\ FetchedRight(d)
    BY DEF RestoreInv
  <2>2. /\ call'[d] = call[d] /\ post'[d] = post[d] /\ snap'[d] = snap[d] /\ asked'[d] = asked[d]
        /\ raw'[d] = raw[d] /\ due'[d] = due[d]
        /\ d \in shifted' <=> d \in shifted
        /\ d \in timedOut' <=> d \in timedOut
        /\ committed' = committed /\ cp' = cp
    BY DEF ClientFrame, sourceVars
  <2>3. IdFor(d)' = IdFor(d)
    BY <2>2 DEF IdFor
  <2>4. post[d] = "done" => IdFor(d) \in DOMAIN rows' /\ rows'[IdFor(d)].owner = d
    BY <2>1 DEF RequestOf, ClientFrame
  <2>5. RequestOf(d)'
    BY <2>1, <2>2, <2>3, <2>4 DEF RequestOf
  <2>6. FetchedRight(d)'
    BY <2>1, <2>2 DEF FetchedRight
  <2> QED
    BY <2>5, <2>6
<1>3. ASSUME NEW sid \in DOMAIN rows
      PROVE  RowRight(sid)'
  <2>1. RowRight(sid) /\ rows'[sid] = rows[sid] /\ committed' = committed /\ cp' = cp
    BY DEF RestoreInv, ClientFrame, sourceVars
  <2>2. PICK owner : owner = rows[sid].owner
    OBVIOUS
  <2>3. owner # Sdk => owner \in Client
    BY <2>2 DEF RestoreInv, RowTypes, RowOf
  <2>4. owner # Sdk => call'[owner].wanted = call[owner].wanted /\ post'[owner] = "done"
    <3> SUFFICES ASSUME owner # Sdk
                 PROVE  call'[owner].wanted = call[owner].wanted /\ post'[owner] = "done"
      OBVIOUS
    <3>1. post[owner] = "done" /\ owner \in Client
      BY <2>1, <2>2, <2>3 DEF RowRight
    <3>2. CASE owner = c
      BY <3>1, <3>2 DEF ClientFrame
    <3>3. CASE owner # c
      BY <3>1, <3>3 DEF ClientFrame
    <3> QED
      BY <3>2, <3>3
  <2> QED
    BY <2>1, <2>2, <2>4 DEF RowRight, IdFor
<1>4. \A d \in Client : RequestOf(d)' /\ FetchedRight(d)'
  BY <1>2
<1>5. \A sid \in DOMAIN rows' : RowRight(sid)'
  BY <1>3
<1> QED
  BY <1>1, <1>4, <1>5 DEF RestoreInv

\* A client's call after a step of it.
LEMMA StepCall ==
  ASSUME ClientTypes, NEW c \in Client,
         NEW s \in {"idle", "posting", "getting", "fetching", "restored", "entered", "error"},
         Step(c, s)
  PROVE  /\ call' \in [Client -> CallOf]
         /\ call'[c].step = s /\ call'[c].wanted = call[c].wanted
         /\ call'[c].mode = call[c].mode /\ call'[c].session = call[c].session
         /\ \A d \in Client \ {c} : call'[d] = call[d]
<1>1. call \in [Client -> CallOf] /\ call[c] \in CallOf
  BY DEF ClientTypes
<1>2. PICK r : r = [call[c] EXCEPT !.step = s]
  OBVIOUS
<1>3. /\ r \in CallOf /\ r.step = s /\ r.wanted = call[c].wanted
      /\ r.mode = call[c].mode /\ r.session = call[c].session
  BY <1>1, <1>2 DEF CallOf
<1>4. call' = [call EXCEPT ![c] = r]
  BY <1>2 DEF Step
<1> QED
  BY <1>1, <1>3, <1>4

-----------------------------------------------------------------------------
(* The restore request at the server *)

LEMMA ReadSourceKeeps ==
  ASSUME RestoreInv, NEW c \in Client, ReadSource(c)
  PROVE  RestoreInv'
<1>1. ClientTypes /\ RowTypes /\ SourceTypes /\ RequestOf(c) /\ FetchedRight(c) /\ post[c] = "received"
  BY DEF RestoreInv, ReadSource
<1>2. /\ UNCHANGED <<call, rows, timedOut, raw, due, shifted>> /\ UNCHANGED sourceVars
      /\ committed' = committed /\ cp' = cp
  BY DEF ReadSource, fetchVars, sourceVars
<1>3. committed \in SUBSET Nat /\ {} \in SUBSET Nat
  BY <1>1, CommittedNat
<1>4. ClientTypes' /\ RowTypes'
  BY <1>1, <1>2, <1>3 DEF ReadSource, ClientTypes, RowTypes
<1>5. ClientFrame(c)
  BY <1>1, <1>2 DEF ReadSource, ClientFrame, ClientTypes
<1>6. FetchedRight(c)'
  BY <1>1, <1>2 DEF FetchedRight
<1>7. RequestOf(c)'
  <2>1. CASE cp.state = "stored"
    <3>1. post'[c] = "read" /\ snap'[c] = committed /\ asked'[c] = asked[c]
      BY <1>1, <2>1 DEF ReadSource, ClientTypes
    <3>2. cp.anchor # NoAnchor => cp.anchor \in committed
      BY <1>1, <2>1 DEF SourceTypes
    <3> QED
      BY <1>1, <1>2, <2>1, <3>1, <3>2 DEF RequestOf
  <2>2. CASE cp.state # "stored"
    <3>1. post'[c] = "notfound" /\ snap'[c] = snap[c] /\ asked'[c] = {}
      BY <1>1, <2>2 DEF ReadSource, ClientTypes
    <3> QED
      BY <1>1, <1>2, <3>1 DEF RequestOf
  <2> QED
    BY <2>1, <2>2
<1>8. DOMAIN rows' \ DOMAIN rows = {}
  BY <1>2
<1> QED
  BY <1>4, <1>5, <1>6, <1>7, <1>8, ClientKeeps

\* A session added for an sid that has none.
LEMMA AddRow ==
  ASSUME RowTypes, NEW sid \in SessionId, sid \notin DOMAIN rows,
         NEW owner \in Client \cup {Sdk}, NEW copies \in SUBSET Nat, NEW since \in SUBSET Nat,
         rows' = WithRow(sid, owner, copies, since)
  PROVE  /\ RowTypes' /\ DOMAIN rows' = DOMAIN rows \cup {sid}
         /\ rows'[sid] = [owner |-> owner, copies |-> copies, since |-> since]
         /\ \A i \in DOMAIN rows : i \in DOMAIN rows' /\ rows'[i] = rows[i]
<1>1. DOMAIN rows' = DOMAIN rows \cup {sid}
  BY DEF WithRow
<1>2. rows'[sid] = [owner |-> owner, copies |-> copies, since |-> since]
  BY DEF WithRow
<1>3. \A i \in DOMAIN rows : rows'[i] = rows[i]
  BY DEF WithRow
<1>4. rows'[sid] \in RowOf
  BY <1>2 DEF RowOf
<1>5. \A i \in DOMAIN rows' : rows'[i] \in RowOf
  BY <1>1, <1>3, <1>4 DEF RowTypes
<1>6. rows' = [i \in DOMAIN rows' |-> rows'[i]]
  BY DEF WithRow
<1>7. RowTypes'
  BY <1>1, <1>5, <1>6 DEF RowTypes
<1> QED
  BY <1>1, <1>2, <1>3, <1>7

LEMMA CommitRestoreKeeps ==
  ASSUME RestoreInv, NEW c \in Client, CommitRestore(c)
  PROVE  RestoreInv'
<1>1. ClientTypes /\ RowTypes /\ SourceTypes /\ RequestOf(c) /\ FetchedRight(c) /\ post[c] = "read"
  BY DEF RestoreInv, CommitRestore
<1>2. /\ UNCHANGED <<call, timedOut, raw, due, shifted>> /\ UNCHANGED sourceVars
      /\ committed' = committed /\ cp' = cp
      /\ snap' = [snap EXCEPT ![c] = {}] /\ asked' = [asked EXCEPT ![c] = {}]
  BY DEF CommitRestore, fetchVars, sourceVars
<1>3. committed \in SUBSET Nat /\ cp.anchor \in Nat
  BY <1>1, CommittedNat
<1>4. FetchedRight(c)'
  BY <1>1, <1>2 DEF FetchedRight
<1>5. IdFor(c)' = IdFor(c) /\ IdFor(c) \in SessionId
  BY <1>2 DEF IdFor, SessionId
<1>6. snap'[c] = {} /\ asked'[c] = {}
  BY <1>1, <1>2 DEF ClientTypes
<1>7. CASE IdFor(c) \in DOMAIN rows
  <2>1. post' = [post EXCEPT ![c] = "failed"] /\ UNCHANGED rows
    BY <1>7 DEF CommitRestore
  <2>2. ClientTypes' /\ RowTypes'
    BY <1>1, <1>2, <2>1 DEF ClientTypes, RowTypes
  <2>3. ClientFrame(c)
    BY <1>1, <1>2, <2>1 DEF ClientFrame, ClientTypes
  <2>4. post'[c] = "failed"
    BY <1>1, <2>1 DEF ClientTypes
  <2>5. RequestOf(c)'
    BY <1>1, <1>2, <1>6, <2>4 DEF RequestOf
  <2>6. DOMAIN rows' \ DOMAIN rows = {}
    BY <2>1
  <2> QED
    BY <1>4, <2>2, <2>3, <2>5, <2>6, ClientKeeps
<1>8. CASE IdFor(c) \notin DOMAIN rows
  <2>1. PICK sid, copies, since : sid = IdFor(c) /\ copies = Prefix(snap[c]) /\ since = asked[c]
    OBVIOUS
  <2>2. post' = [post EXCEPT ![c] = "done"] /\ rows' = WithRow(sid, c, copies, since)
    BY <1>8, <2>1 DEF CommitRestore
  <2>3. /\ copies \subseteq snap[c] /\ snap[c] \subseteq committed /\ since \subseteq committed
        /\ since \subseteq snap[c] /\ cp.state = "stored"
    BY <1>1, <2>1 DEF RequestOf, Prefix
  <2>4. copies \in SUBSET Nat /\ since \in SUBSET Nat /\ sid \in SessionId /\ sid \notin DOMAIN rows
    BY <1>3, <1>5, <1>8, <2>1, <2>3
  <2>5. /\ RowTypes' /\ DOMAIN rows' = DOMAIN rows \cup {sid}
        /\ rows'[sid] = [owner |-> c, copies |-> copies, since |-> since]
        /\ \A i \in DOMAIN rows : i \in DOMAIN rows' /\ rows'[i] = rows[i]
    BY <1>1, <2>2, <2>4, AddRow
  <2>6. ClientTypes'
    BY <1>1, <1>2, <2>2 DEF ClientTypes
  <2>7. ClientFrame(c)
    BY <1>1, <1>2, <2>2, <2>5 DEF ClientFrame, ClientTypes
  <2>8. post'[c] = "done"
    BY <1>1, <2>2 DEF ClientTypes
  <2>9. RequestOf(c)'
    BY <1>1, <1>2, <1>5, <1>6, <2>1, <2>5, <2>8 DEF RequestOf
  <2>10. cp.anchor # NoAnchor =>
           copies = {e \in snap[c] : e <= cp.anchor} /\ cp.anchor \in copies
    BY <1>1, <1>3, <2>1 DEF RequestOf, Prefix
  <2>11. RowRight(sid)'
    <3>1. c # Sdk
      BY RestoreAssumption
    <3>2. cp.anchor # NoAnchor =>
            /\ cp.anchor \in copies
            /\ {e \in since : e <= cp.anchor} \subseteq copies
            /\ \A e \in copies : e <= cp.anchor
      BY <2>3, <2>10
    <3>3. /\ rows'[sid].owner = c /\ rows'[sid].copies = copies /\ rows'[sid].since = since
      BY <2>5
    <3>4. copies \cup since \subseteq committed
      BY <2>3
    <3>5. sid = IF call'[c].wanted = Named THEN Named ELSE c
      BY <1>2, <2>1 DEF IdFor
    <3> QED
      BY <1>2, <2>3, <2>8, <3>2, <3>3, <3>4, <3>5 DEF RowRight, IdFor
  <2>12. \A i \in DOMAIN rows' \ DOMAIN rows : RowRight(i)'
    BY <2>5, <2>11
  <2> QED
    BY <1>4, <2>5, <2>6, <2>7, <2>9, <2>12, ClientKeeps
<1> QED
  BY <1>7, <1>8

-----------------------------------------------------------------------------
(* The SDK *)

LEMMA AskKeeps ==
  ASSUME RestoreInv, NEW c \in Client, NEW w \in {Named, Minted}, Ask(c, w)
  PROVE  RestoreInv'
<1>1. /\ ClientTypes /\ RowTypes /\ SourceTypes /\ RequestOf(c) /\ FetchedRight(c)
      /\ call[c].step = "idle"
  BY DEF RestoreInv, Ask
<1>2. /\ UNCHANGED <<rows, snap, timedOut, raw, due, shifted>> /\ UNCHANGED sourceVars
      /\ committed' = committed /\ cp' = cp
      /\ post' = [post EXCEPT ![c] = "received"] /\ asked' = [asked EXCEPT ![c] = committed]
  BY DEF Ask, fetchVars, sourceVars
<1>3. PICK r : r = [call[c] EXCEPT !.step = "posting", !.wanted = w]
  OBVIOUS
<1>4. call[c] \in CallOf /\ call \in [Client -> CallOf]
  BY <1>1 DEF ClientTypes
<1>5. /\ r \in CallOf /\ r.step = "posting" /\ r.wanted = w
      /\ r.mode = call[c].mode /\ r.session = call[c].session
  BY <1>3, <1>4 DEF CallOf
<1>6. call' = [call EXCEPT ![c] = r]
  BY <1>3, <1>4 DEF Ask
<1>7. /\ call' \in [Client -> CallOf] /\ call'[c] = r
      /\ \A d \in Client \ {c} : call'[d] = call[d]
  BY <1>4, <1>5, <1>6
<1>8. committed \in SUBSET Nat
  BY <1>1, CommittedNat
<1>9. ClientTypes' /\ RowTypes'
  BY <1>1, <1>2, <1>7, <1>8 DEF ClientTypes, RowTypes
<1>10. post'[c] = "received" /\ asked'[c] = committed /\ post[c] = "none"
  BY <1>1, <1>2 DEF ClientTypes, RequestOf
<1>11. ClientFrame(c)
  BY <1>1, <1>2, <1>7, <1>10 DEF ClientFrame, ClientTypes
<1>12. RequestOf(c)'
  BY <1>1, <1>2, <1>5, <1>7, <1>10 DEF RequestOf
<1>13. FetchedRight(c)'
  BY <1>1, <1>2, <1>5, <1>7 DEF FetchedRight
<1>14. DOMAIN rows' \ DOMAIN rows = {}
  BY <1>2
<1> QED
  BY <1>9, <1>11, <1>12, <1>13, <1>14, ClientKeeps

\* The replay, if there is to be one, begins with nothing fetched.
LEMMA RestoredKeeps ==
  ASSUME RestoreInv, NEW c \in Client, NEW mode \in {"semantic", "legacy"},
         call[c].step \in {"posting", "getting"},
         mode = "semantic" => post[c] = "done",
         call[c].step = "posting" => mode = "semantic",
         Restored(c, mode, IdFor(c))
  PROVE  RestoreInv'
<1>1. ClientTypes /\ RowTypes /\ SourceTypes /\ RequestOf(c) /\ FetchedRight(c)
  BY DEF RestoreInv
<1>2. /\ UNCHANGED <<rows, post, snap, asked, timedOut, raw, shifted>> /\ UNCHANGED sourceVars
      /\ committed' = committed /\ cp' = cp
      /\ due' = [due EXCEPT ![c] = IF c \in Replaying THEN committed ELSE {}]
  BY DEF Restored, sourceVars
<1>3. PICK s, sid : s = (IF c \in Replaying THEN "fetching" ELSE "restored") /\ sid = IdFor(c)
  OBVIOUS
<1>4. PICK r : r = [call[c] EXCEPT !.step = s, !.mode = mode, !.session = sid]
  OBVIOUS
<1>5. call[c] \in CallOf /\ call \in [Client -> CallOf]
  BY <1>1 DEF ClientTypes
<1>6. s \in {"fetching", "restored"} /\ sid \in SessionId
  BY <1>3 DEF IdFor, SessionId
<1>7. r \in CallOf
  BY <1>4, <1>5, <1>6 DEF CallOf
<1>8. r.step = s /\ r.wanted = call[c].wanted /\ r.mode = mode /\ r.session = sid
  BY <1>4, <1>5 DEF CallOf
<1>9. call' = [call EXCEPT ![c] = r]
  BY <1>3, <1>4, <1>5 DEF Restored
<1>10. /\ call' \in [Client -> CallOf] /\ call'[c] = r
       /\ \A d \in Client \ {c} : call'[d] = call[d]
  BY <1>5, <1>7, <1>9
<1>11. committed \in SUBSET Nat /\ {} \in SUBSET Nat
  BY <1>1, CommittedNat
<1>12. ClientTypes' /\ RowTypes'
  BY <1>1, <1>2, <1>10, <1>11 DEF ClientTypes, RowTypes
<1>13. IdFor(c)' = IdFor(c)
  BY <1>8, <1>10 DEF IdFor
<1>14. ClientFrame(c)
  BY <1>1, <1>2, <1>8, <1>10 DEF ClientFrame, ClientTypes
<1>15. RequestOf(c)'
  <2>1. post[c] \in {"received", "read", "done"} =>
          c \in timedOut \/ (post[c] = "done" /\ mode = "semantic")
    BY <1>1 DEF RequestOf
  <2>2. call'[c].step = s /\ call'[c].mode = mode /\ call'[c].session = IdFor(c)
    BY <1>3, <1>8, <1>10
  <2> QED
    BY <1>1, <1>2, <1>3, <1>6, <1>13, <2>1, <2>2 DEF RequestOf
<1>16. FetchedRight(c)'
  <2>1. raw[c] = <<>> /\ c \notin shifted
    BY <1>1 DEF FetchedRight
  <2>2. due'[c] = IF c \in Replaying THEN committed ELSE {}
    BY <1>1, <1>2 DEF ClientTypes
  <2>3. call'[c].step = s /\ raw'[c] = <<>> /\ c \notin shifted'
    BY <1>2, <1>8, <1>10, <2>1
  <2>4. Elems(<<>>) = {} /\ Increasing(<<>>)
    BY ElemsEmpty
  <2>5. s = "restored" => c \notin Replaying
    BY <1>3
  <2> QED
    BY <1>2, <1>6, <2>2, <2>3, <2>4, <2>5 DEF FetchedRight
<1>17. DOMAIN rows' \ DOMAIN rows = {}
  BY <1>2
<1> QED
  BY <1>12, <1>14, <1>15, <1>16, <1>17, ClientKeeps

\* A step of the call that changes nothing else but who waits for an answer.
LEMMA AnswerKeeps ==
  ASSUME RestoreInv, NEW c \in Client, NEW s \in {"getting", "error"}, Step(c, s),
         call[c].step \in {"posting", "getting"},
         UNCHANGED <<sourceVars, rows, post, snap, asked, raw, due, shifted>>,
         \/ timedOut' = timedOut \cup {c}
         \/ timedOut' = timedOut /\ post[c] \in {"notfound", "failed"}
         \/ timedOut' = timedOut /\ call[c].step = "getting"
  PROVE  RestoreInv'
<1>1. ClientTypes /\ RowTypes /\ SourceTypes /\ RequestOf(c) /\ FetchedRight(c)
  BY DEF RestoreInv
<1>2. committed' = committed /\ cp' = cp
  BY DEF sourceVars
<1>3. /\ call' \in [Client -> CallOf]
      /\ call'[c].step = s /\ call'[c].wanted = call[c].wanted
      /\ call'[c].mode = call[c].mode /\ call'[c].session = call[c].session
      /\ \A d \in Client \ {c} : call'[d] = call[d]
  BY <1>1, StepCall
<1>4. ClientTypes' /\ RowTypes'
  BY <1>1, <1>3 DEF ClientTypes, RowTypes
<1>5. ClientFrame(c)
  BY <1>1, <1>3 DEF ClientFrame, ClientTypes
<1>6. IdFor(c)' = IdFor(c)
  BY <1>3 DEF IdFor
<1>7. call[c].mode = "none"
  BY <1>1 DEF RequestOf
<1>8. post[c] \in {"received", "read", "done"} => c \in timedOut'
  BY <1>1, <1>7 DEF RequestOf
<1>9. RequestOf(c)'
  BY <1>1, <1>2, <1>3, <1>6, <1>7, <1>8 DEF RequestOf
<1>10. FetchedRight(c)'
  BY <1>1, <1>2, <1>3 DEF FetchedRight
<1>11. DOMAIN rows' \ DOMAIN rows = {}
  OBVIOUS
<1> QED
  BY <1>4, <1>5, <1>9, <1>10, <1>11, ClientKeeps

LEMMA CallKeeps ==
  ASSUME RestoreInv, NEW c \in Client,
         Adopt(c) \/ Answered404(c) \/ Answered500(c) \/ NoAnswer(c) \/ Fallback(c)
  PROVE  RestoreInv'
<1>1. CASE Adopt(c)
  BY <1>1, RestoredKeeps DEF Adopt
<1>2. CASE Answered404(c)
  BY <1>2, AnswerKeeps DEF Answered404, fetchVars
<1>3. CASE Answered500(c)
  BY <1>3, AnswerKeeps DEF Answered500, fetchVars
<1>4. CASE NoAnswer(c)
  BY <1>4, AnswerKeeps DEF NoAnswer, fetchVars
<1>5. CASE Fallback(c)
  BY <1>5, AnswerKeeps, RestoredKeeps DEF Fallback, fetchVars
<1> QED
  BY <1>1, <1>2, <1>3, <1>4, <1>5

-----------------------------------------------------------------------------
(* The replay *)

\* A page, and what has been fetched with it.
LEMMA PageRight ==
  ASSUME RestoreInv, NEW c \in Client, call[c].step = "fetching",
         NEW q, q = raw[c] \o Page(c)
  PROVE  /\ q \in Seq(Nat) /\ Elems(q) \subseteq committed /\ Len(Page(c)) \in Nat
         /\ c \notin shifted =>
              /\ Increasing(q)
              /\ \A x \in Elems(q), d \in committed : d < x => d \in Elems(q)
              /\ Len(Page(c)) < PageSize => committed \subseteq Elems(q)
<1>1. PICK all, r, from, n, m :
        /\ all = Sorted(committed) /\ r = raw[c] /\ from = Len(r) /\ n = Len(all)
        /\ m = IF from + PageSize < n THEN from + PageSize ELSE n
  OBVIOUS
<1>2. committed \in SUBSET Nat /\ IsFiniteSet(committed)
  BY CommittedNat DEF RestoreInv
<1>3. all \in Seq(Nat) /\ Increasing(all) /\ Elems(all) = committed
  BY <1>1, <1>2, SortedProperties
<1>4. r \in Seq(Nat) /\ FetchedRight(c)
  BY <1>1 DEF RestoreInv, ClientTypes
<1>5. Len(all) \in Nat /\ from \in Nat /\ PageSize \in Nat \ {0} /\ DOMAIN all = 1..Len(all)
  BY <1>1, <1>3, <1>4, LenProperties, RestoreAssumption
<1>6. PICK page : page = SubSeq(all, from + 1, m)
  OBVIOUS
<1>7. Page(c) = page /\ q = r \o page
  BY <1>1, <1>6 DEF Page
<1>8. Elems(r) \subseteq committed
  BY <1>1, <1>4 DEF FetchedRight
<1>9. all \in Seq(committed) /\ r \in Seq(committed)
  BY <1>2, <1>3, <1>4, <1>8, SeqOver
<1>10. /\ m \in Nat /\ m <= n
       /\ from <= n => from <= m
       /\ m - from < PageSize => m = n
  <2>1. m = IF from + PageSize < n THEN from + PageSize ELSE n
    BY <1>1
  <2>2. n \in Nat /\ PageSize \in Nat /\ from \in Nat
    BY <1>1, <1>5
  <2>3. CASE from + PageSize < n
    BY <2>1, <2>2, <2>3
  <2>4. CASE ~(from + PageSize < n)
    BY <2>1, <2>2, <2>4
  <2> QED
    BY <2>3, <2>4
<1>11. page \in Seq(committed) /\ Len(page) \in Nat
  <2>1. \A i \in (from + 1)..m : all[i] \in committed
    <3> TAKE i \in (from + 1)..m
    <3>1. i \in 1..Len(all)
      BY <1>1, <1>5, <1>10
    <3> QED
      BY <1>9, <3>1, ElementOfSeq
  <2>2. from + 1 \in Int /\ m \in Int
    BY <1>5, <1>10
  <2>3. page \in Seq(committed)
    BY <1>6, <2>1, <2>2, SubSeqProperties
  <2> QED
    BY <2>3, LenProperties
<1>12. q \in Seq(committed)
  <2>1. r \o page \in Seq(committed)
    BY <1>9, <1>11, ConcatProperties
  <2> QED
    BY <1>7, <2>1
<1>13. q \in Seq(Nat)
  BY <1>2, <1>12, SeqMonotonic
<1>14. Elems(q) \subseteq committed
  BY <1>12, <1>13, SeqOver
<1>15. ASSUME c \notin shifted
       PROVE  /\ Increasing(q)
              /\ \A x \in Elems(q), d \in committed : d < x => d \in Elems(q)
              /\ Len(page) < PageSize => committed \subseteq Elems(q)
  <2>1. /\ Increasing(r)
        /\ \A x \in Elems(r), d \in Elems(all) : d < x => d \in Elems(r)
    BY <1>1, <1>3, <1>4, <1>15 DEF FetchedRight
  <2>2. Len(r) <= Len(all) /\ \A i \in 1..Len(r) : r[i] = all[i]
    BY <1>3, <1>4, <1>8, <2>1, PartIsPrefix
  <2>3. Len(r) <= m /\ m <= Len(all) /\ m \in Nat
    BY <1>1, <1>10, <2>2
  <2>4. /\ Len(page) = m - Len(r) /\ Len(r \o page) = m
        /\ \A i \in 1..m : (r \o page)[i] = all[i]
    <3>1. page = SubSeq(all, Len(r) + 1, m)
      BY <1>1, <1>6
    <3>2. all \in Seq(Nat) /\ r \in Seq(Nat)
      BY <1>3, <1>4
    <3>3. Len(r) <= m /\ m <= Len(all) /\ m \in Nat /\ Len(r) <= Len(all)
      BY <2>2, <2>3
    <3>4. \A i \in 1..Len(r) : r[i] = all[i]
      BY <2>2
    <3>5. \A u, v \in Seq(Nat), k \in Nat : \A w :
            /\ Len(v) <= Len(u) /\ \A i \in 1..Len(v) : v[i] = u[i]
            /\ Len(v) <= k /\ k <= Len(u) /\ w = SubSeq(u, Len(v) + 1, k)
            => /\ Len(w) = k - Len(v) /\ Len(v \o w) = k
               /\ \A i \in 1..k : (v \o w)[i] = u[i]
      BY PrefixGrows
    <3>6. \A k \in Nat : \A w :
            /\ Len(r) <= Len(all) /\ \A i \in 1..Len(r) : r[i] = all[i]
            /\ Len(r) <= k /\ k <= Len(all) /\ w = SubSeq(all, Len(r) + 1, k)
            => /\ Len(w) = k - Len(r) /\ Len(r \o w) = k
               /\ \A i \in 1..k : (r \o w)[i] = all[i]
      BY <3>2, <3>5, Zenon
    <3> QED
      BY <3>1, <3>3, <3>4, <3>6, Zenon
  <2>5. Len(q) = m /\ \A i \in 1..m : q[i] = all[i]
    BY <1>7, <2>4
  <2>6. /\ Increasing(q)
        /\ \A x \in Elems(q), d \in Elems(all) : d < x => d \in Elems(q)
        /\ Len(q) = Len(all) => Elems(q) = Elems(all)
    BY <1>3, <1>13, <2>3, <2>5, PrefixIsPart
  <2>7. Len(page) < PageSize => m = Len(all)
    <3>1. Len(page) = m - from /\ from <= m
      BY <1>1, <2>3, <2>4
    <3> QED
      BY <1>1, <1>10, <3>1
  <2> QED
    BY <1>3, <2>5, <2>6, <2>7
<1> QED
  BY <1>7, <1>11, <1>13, <1>14, <1>15

LEMMA FetchPageKeeps ==
  ASSUME RestoreInv, NEW c \in Client, FetchPage(c)
  PROVE  RestoreInv'
<1>1. /\ ClientTypes /\ RowTypes /\ SourceTypes /\ RequestOf(c) /\ FetchedRight(c)
      /\ call[c].step = "fetching"
  BY DEF RestoreInv, FetchPage
<1>2. PICK q : q = raw[c] \o Page(c)
  OBVIOUS
<1>3. /\ raw' = [raw EXCEPT ![c] = q]
      /\ UNCHANGED <<rows, post, snap, asked, timedOut, due, shifted>> /\ UNCHANGED sourceVars
      /\ committed' = committed /\ cp' = cp
  BY <1>2 DEF FetchPage, sourceVars
<1>4. /\ q \in Seq(Nat) /\ Elems(q) \subseteq committed /\ Len(Page(c)) \in Nat
      /\ c \notin shifted =>
           /\ Increasing(q)
           /\ \A x \in Elems(q), d \in committed : d < x => d \in Elems(q)
           /\ Len(Page(c)) < PageSize => committed \subseteq Elems(q)
  BY <1>1, <1>2, PageRight
<1>5. /\ call' \in [Client -> CallOf]
      /\ call'[c].step = (IF Len(Page(c)) < PageSize THEN "restored" ELSE "fetching")
      /\ call'[c].wanted = call[c].wanted
      /\ call'[c].mode = call[c].mode /\ call'[c].session = call[c].session
      /\ \A d \in Client \ {c} : call'[d] = call[d]
  <2>1. CASE Len(Page(c)) < PageSize
    <3>1. Step(c, "restored")
      BY <2>1 DEF FetchPage
    <3> QED
      BY <1>1, <2>1, <3>1, StepCall
  <2>2. CASE ~(Len(Page(c)) < PageSize)
    <3>1. call' = call
      BY <2>2 DEF FetchPage
    <3> QED
      BY <1>1, <2>2, <3>1 DEF ClientTypes
  <2> QED
    BY <2>1, <2>2
<1>6. /\ raw'[c] = q /\ \A d \in Client \ {c} : raw'[d] = raw[d]
      /\ raw' \in [Client -> Seq(Nat)]
  BY <1>1, <1>3, <1>4 DEF ClientTypes
<1>7. ClientTypes' /\ RowTypes'
  BY <1>1, <1>3, <1>5, <1>6 DEF ClientTypes, RowTypes
<1>8. ClientFrame(c)
  BY <1>1, <1>3, <1>5, <1>6 DEF ClientFrame
<1>9. IdFor(c)' = IdFor(c)
  BY <1>5 DEF IdFor
<1>10. RequestOf(c)'
  BY <1>1, <1>3, <1>5, <1>9 DEF RequestOf
<1>11. FetchedRight(c)'
  <2>1. due[c] \subseteq committed
    BY <1>1 DEF FetchedRight
  <2>2. call'[c].step = "restored" => Len(Page(c)) < PageSize
    BY <1>5
  <2>3. call'[c].step \in {"fetching", "restored"}
    BY <1>5
  <2> QED
    BY <1>3, <1>4, <1>6, <2>1, <2>2, <2>3 DEF FetchedRight
<1>12. DOMAIN rows' \ DOMAIN rows = {}
  BY <1>3
<1> QED
  BY <1>7, <1>8, <1>10, <1>11, <1>12, ClientKeeps

LEMMA FetchFailsKeeps ==
  ASSUME RestoreInv, NEW c \in Client, FetchFails(c)
  PROVE  RestoreInv'
<1>1. /\ ClientTypes /\ RowTypes /\ SourceTypes /\ RequestOf(c) /\ FetchedRight(c)
      /\ call[c].step = "fetching"
  BY DEF RestoreInv, FetchFails
<1>2. /\ UNCHANGED <<rows, post, snap, asked, timedOut, raw, due>> /\ UNCHANGED sourceVars
      /\ committed' = committed /\ cp' = cp /\ shifted' = shifted \cup {c}
  BY DEF FetchFails, sourceVars
<1>3. /\ call' \in [Client -> CallOf]
      /\ call'[c].step = "restored" /\ call'[c].wanted = call[c].wanted
      /\ call'[c].mode = call[c].mode /\ call'[c].session = call[c].session
      /\ \A d \in Client \ {c} : call'[d] = call[d]
  BY <1>1, StepCall DEF FetchFails
<1>4. ClientTypes' /\ RowTypes'
  BY <1>1, <1>2, <1>3 DEF ClientTypes, RowTypes
<1>5. ClientFrame(c)
  BY <1>1, <1>2, <1>3 DEF ClientFrame
<1>6. IdFor(c)' = IdFor(c)
  BY <1>3 DEF IdFor
<1>7. RequestOf(c)'
  BY <1>1, <1>2, <1>3, <1>6 DEF RequestOf
<1>8. FetchedRight(c)'
  BY <1>1, <1>2, <1>3 DEF FetchedRight
<1>9. DOMAIN rows' \ DOMAIN rows = {}
  BY <1>2
<1> QED
  BY <1>4, <1>5, <1>7, <1>8, <1>9, ClientKeeps

LEMMA EnterRestoredKeeps ==
  ASSUME RestoreInv, NEW c \in Client, EnterRestored(c)
  PROVE  RestoreInv'
<1>1. /\ ClientTypes /\ RowTypes /\ SourceTypes /\ RequestOf(c) /\ FetchedRight(c)
      /\ call[c].step = "restored"
  BY DEF RestoreInv, EnterRestored
<1>2. /\ UNCHANGED <<post, snap, asked, timedOut>> /\ UNCHANGED sourceVars
      /\ committed' = committed /\ cp' = cp /\ shifted' = shifted \ {c}
      /\ raw' = [raw EXCEPT ![c] = <<>>] /\ due' = [due EXCEPT ![c] = {}]
  BY DEF EnterRestored, sourceVars
<1>3. /\ call' \in [Client -> CallOf]
      /\ call'[c].step = "entered" /\ call'[c].wanted = call[c].wanted
      /\ call'[c].mode = call[c].mode /\ call'[c].session = call[c].session
      /\ \A d \in Client \ {c} : call'[d] = call[d]
  BY <1>1, StepCall DEF EnterRestored
<1>4. PICK sid : sid = call[c].session
  OBVIOUS
<1>5. sid \in SessionId
  BY <1>1, <1>4 DEF RequestOf
<1>6. /\ RowTypes' /\ \A i \in DOMAIN rows : i \in DOMAIN rows' /\ rows'[i] = rows[i]
      /\ \A i \in DOMAIN rows' \ DOMAIN rows :
           rows'[i].owner = Sdk /\ rows'[i].copies = {} /\ rows'[i].since = {}
  <2>1. CASE sid \in DOMAIN rows
    <3>1. rows' = rows
      BY <1>4, <2>1 DEF EnterRestored
    <3> QED
      BY <1>1, <3>1 DEF RowTypes
  <2>2. CASE sid \notin DOMAIN rows
    <3>1. rows' = WithRow(sid, Sdk, {}, {}) /\ {} \in SUBSET Nat
      BY <1>4, <2>2 DEF EnterRestored
    <3>2. /\ RowTypes' /\ DOMAIN rows' = DOMAIN rows \cup {sid}
          /\ rows'[sid] = [owner |-> Sdk, copies |-> {}, since |-> {}]
          /\ \A i \in DOMAIN rows : i \in DOMAIN rows' /\ rows'[i] = rows[i]
      BY <1>1, <1>5, <2>2, <3>1, AddRow
    <3> QED
      BY <3>2
  <2> QED
    BY <2>1, <2>2
<1>7. <<>> \in Seq(Nat)
  OBVIOUS
<1>8. ClientTypes'
  BY <1>1, <1>2, <1>3, <1>7 DEF ClientTypes
<1>9. ClientFrame(c)
  BY <1>1, <1>2, <1>3, <1>6 DEF ClientFrame, ClientTypes
<1>10. IdFor(c)' = IdFor(c)
  BY <1>3 DEF IdFor
<1>11. RequestOf(c)'
  BY <1>1, <1>2, <1>3, <1>6, <1>10 DEF RequestOf
<1>12. FetchedRight(c)'
  <2>1. raw'[c] = <<>> /\ due'[c] = {} /\ c \notin shifted'
    BY <1>1, <1>2 DEF ClientTypes
  <2> QED
    BY <1>3, <2>1, ElemsEmpty DEF FetchedRight
<1>13. \A i \in DOMAIN rows' \ DOMAIN rows : RowRight(i)'
  BY <1>6 DEF RowRight
<1> QED
  BY <1>6, <1>8, <1>9, <1>11, <1>12, <1>13, ClientKeeps

-----------------------------------------------------------------------------
(* The source session *)

\* Time, events and the checkpoint may change; what is committed stays so, and a
\* stored checkpoint is final.
LEMMA SourceKeeps ==
  ASSUME RestoreInv, SourceTypes', UNCHANGED <<rows, call, post, snap, asked, timedOut, raw, due>>,
         committed \subseteq committed', cp.state = "stored" => cp' = cp,
         shifted \subseteq shifted', shifted' \subseteq shifted \cup Fetching,
         committed' = committed \/ \A c \in Fetching \ shifted' : \A x \in Elems(raw[c]),
                                     d \in committed' \ committed : ~(d < x)
  PROVE  RestoreInv'
<1>1. ClientTypes' /\ RowTypes'
  BY DEF RestoreInv, ClientTypes, RowTypes, Fetching
<1>2. \A c : IdFor(c)' = IdFor(c)
  BY DEF IdFor
<1>3. ASSUME NEW c \in Client
      PROVE  RequestOf(c)'
  <2>1. RequestOf(c)
    BY DEF RestoreInv
  <2> QED
    BY <1>2, <2>1 DEF RequestOf
<1>4. ASSUME NEW c \in Client
      PROVE  FetchedRight(c)'
  <2>1. FetchedRight(c)
    BY DEF RestoreInv
  <2>2. c \in Fetching <=> call[c].step = "fetching"
    BY DEF Fetching
  <2>3. /\ Elems(raw[c]) \cup due[c] \subseteq committed'
        /\ call[c].step \notin {"fetching", "restored"} => raw[c] = <<>> /\ c \notin shifted'
    BY <2>1, <2>2 DEF FetchedRight
  <2>4. ASSUME c \notin shifted'
        PROVE  /\ Increasing(raw[c])
               /\ call[c].step = "restored" => due[c] \subseteq Elems(raw[c])
               /\ call[c].step = "fetching" =>
                    \A x \in Elems(raw[c]), d \in committed : d < x => d \in Elems(raw[c])
    BY <2>1, <2>4 DEF FetchedRight
  <2>5. ASSUME c \notin shifted', call[c].step = "fetching",
               NEW x \in Elems(raw[c]), NEW d \in committed', d < x
        PROVE  d \in Elems(raw[c])
    BY <2>2, <2>4, <2>5
  <2> QED
    BY <2>3, <2>4, <2>5 DEF FetchedRight
<1>5. ASSUME NEW sid \in DOMAIN rows
      PROVE  RowRight(sid)'
  <2>1. RowRight(sid)
    BY DEF RestoreInv
  <2>2. IdFor(rows[sid].owner)' = IdFor(rows[sid].owner)
    BY <1>2
  <2> QED
    BY <2>1, <2>2 DEF RowRight
<1> QED
  BY <1>1, <1>3, <1>4, <1>5 DEF RestoreInv

LEMMA SourceStepKeeps ==
  ASSUME RestoreInv,
         \/ RecordEvent \/ IngestCheckpoint
         \/ \E e \in created : CommitEvent(e)
         \/ \E a \in created \cup {NoAnchor} : CreateCheckpoint(a)
  PROVE  RestoreInv'
<1>1. SourceTypes /\ now \in Nat /\ created \subseteq Nat /\ committed \subseteq Nat /\ MaxTime \in Nat
  BY CommittedNat, RestoreAssumption DEF RestoreInv
<1>2. CASE RecordEvent
  <2>1. now < MaxTime /\ now' = now + 1 /\ created' = created \cup {now + 1}
        /\ UNCHANGED <<committed, cp, rows, call, post, snap, asked, timedOut, raw, due, shifted>>
    BY <1>2 DEF RecordEvent, fetchVars
  <2>2. now' \in 0..MaxTime /\ created' \subseteq 1..now'
    BY <1>1, <2>1 DEF SourceTypes
  <2>3. cp' \in [state : {"none", "sent", "stored", "refused"}, time : 0..now', anchor : created' \cup {NoAnchor}]
    BY <1>1, <2>1 DEF SourceTypes
  <2>4. SourceTypes'
    BY <1>1, <2>1, <2>2, <2>3 DEF SourceTypes
  <2> QED
    BY <2>1, <2>4, SourceKeeps
<1>3. CASE IngestCheckpoint
  <2>1. PICK s : s = IF cp.anchor # NoAnchor /\ cp.anchor \notin committed THEN "refused" ELSE "stored"
    OBVIOUS
  <2>2. /\ cp.state = "sent" /\ cp' = [cp EXCEPT !.state = s]
        /\ UNCHANGED <<now, created, committed, rows, call, post, snap, asked, timedOut, raw, due, shifted>>
    BY <1>3, <2>1 DEF IngestCheckpoint, fetchVars
  <2>3. s \in {"refused", "stored"} /\ (s = "stored" => cp.anchor \in committed \cup {NoAnchor})
    BY <2>1
  <2>4. /\ cp' \in [state : {"none", "sent", "stored", "refused"}, time : 0..now, anchor : created \cup {NoAnchor}]
        /\ cp'.state = s /\ cp'.time = cp.time /\ cp'.anchor = cp.anchor
    BY <1>1, <2>2, <2>3 DEF SourceTypes
  <2>5. SourceTypes'
    BY <1>1, <2>2, <2>3, <2>4 DEF SourceTypes
  <2> QED
    BY <2>2, <2>5, SourceKeeps
<1>4. ASSUME NEW e \in created, CommitEvent(e)
      PROVE  RestoreInv'
  <2>1. /\ committed' = committed \cup {e}
        /\ shifted' = (IF \E d \in committed : d > e THEN shifted \cup Fetching ELSE shifted)
        /\ UNCHANGED <<now, created, cp, rows, call, post, snap, asked, timedOut, raw, due>>
    BY <1>4 DEF CommitEvent
  <2>2. SourceTypes'
    BY <1>1, <2>1 DEF SourceTypes
  <2>3. ASSUME NEW c \in Fetching \ shifted', NEW x \in Elems(raw[c]), NEW d \in committed' \ committed
        PROVE  ~(d < x)
    <3>1. FetchedRight(c)
      BY DEF RestoreInv, Fetching
    <3>2. x \in committed /\ d = e /\ x \in Nat /\ e \in Nat
      BY <1>1, <2>1, <3>1 DEF FetchedRight
    <3>3. ~(x > e)
      BY <2>1, <3>2
    <3> QED
      BY <3>2, <3>3
  <2>4. shifted \subseteq shifted' /\ shifted' \subseteq shifted \cup Fetching
    BY <2>1
  <2> QED
    BY <2>1, <2>2, <2>3, <2>4, SourceKeeps
<1>5. ASSUME NEW a \in created \cup {NoAnchor}, CreateCheckpoint(a)
      PROVE  RestoreInv'
  <2>1. /\ cp.state = "none" /\ now < MaxTime /\ now' = now + 1
        /\ cp' = [state |-> "sent", time |-> now + 1, anchor |-> a]
        /\ UNCHANGED <<created, committed, rows, call, post, snap, asked, timedOut, raw, due, shifted>>
    BY <1>5 DEF CreateCheckpoint, fetchVars
  <2>2. now' \in 0..MaxTime /\ created' \subseteq 1..now' /\ now + 1 \in 0..now'
    BY <1>1, <2>1 DEF SourceTypes
  <2>3. cp' \in [state : {"none", "sent", "stored", "refused"}, time : 0..now', anchor : created' \cup {NoAnchor}]
    BY <2>1, <2>2
  <2>4. a < now + 1 \/ a = NoAnchor
    BY <1>1 DEF SourceTypes
  <2>5. SourceTypes'
    BY <1>1, <2>1, <2>2, <2>3, <2>4 DEF SourceTypes
  <2> QED
    BY <2>1, <2>5, SourceKeeps
<1> QED
  BY <1>2, <1>3, <1>4, <1>5

-----------------------------------------------------------------------------
LEMMA RestoreInitHolds == RestoreInit => RestoreInv
<1> SUFFICES ASSUME RestoreInit PROVE RestoreInv
  OBVIOUS
<1>1. SourceTypes
  BY RestoreAssumption DEF RestoreInit, SourceTypes, NoAnchor
<1>2. NoCall \in CallOf
  BY DEF NoCall, CallOf
<1>3. <<>> \in Seq(Nat)
  OBVIOUS
<1>4. ClientTypes
  BY <1>2, <1>3 DEF RestoreInit, ClientTypes
<1>5. RowTypes /\ DOMAIN rows = {}
  BY DEF RestoreInit, RowTypes
<1>6. ASSUME NEW c \in Client
      PROVE  RequestOf(c) /\ FetchedRight(c)
  <2>1. /\ call[c] = NoCall /\ post[c] = "none" /\ snap[c] = {} /\ asked[c] = {} /\ raw[c] = <<>>
        /\ due[c] = {} /\ shifted = {}
    BY DEF RestoreInit
  <2>2. RequestOf(c)
    BY <2>1 DEF RequestOf, NoCall
  <2>3. FetchedRight(c)
    BY <2>1, ElemsEmpty DEF FetchedRight, NoCall
  <2> QED
    BY <2>2, <2>3
<1> QED
  BY <1>1, <1>4, <1>5, <1>6 DEF RestoreInv

LEMMA RestoreNextKeeps == RestoreInv /\ [RestoreNext]_restoreVars => RestoreInv'
<1> SUFFICES ASSUME RestoreInv, [RestoreNext]_restoreVars
             PROVE  RestoreInv'
  OBVIOUS
<1>1. CASE UNCHANGED restoreVars
  <2>1. SourceTypes'
    BY <1>1 DEF RestoreInv, restoreVars, sourceVars, SourceTypes
  <2>2. /\ UNCHANGED <<rows, call, post, snap, asked, timedOut, raw, due, shifted>>
        /\ committed' = committed /\ cp' = cp
    BY <1>1 DEF restoreVars, sourceVars, fetchVars
  <2> QED
    BY <2>1, <2>2, SourceKeeps
<1>2. CASE \/ RecordEvent \/ IngestCheckpoint
           \/ \E e \in created : CommitEvent(e)
           \/ \E a \in created \cup {NoAnchor} : CreateCheckpoint(a)
  BY <1>2, SourceStepKeeps
<1>3. ASSUME NEW c \in Client,
             ReadSource(c) \/ CommitRestore(c) \/ \E w \in {Named, Minted} : Ask(c, w)
      PROVE  RestoreInv'
  BY <1>3, ReadSourceKeeps, CommitRestoreKeeps, AskKeeps
<1>4. ASSUME NEW c \in Client,
             Adopt(c) \/ Answered404(c) \/ Answered500(c) \/ NoAnswer(c) \/ Fallback(c)
      PROVE  RestoreInv'
  BY <1>4, CallKeeps
<1>5. ASSUME NEW c \in Client, FetchPage(c) \/ FetchFails(c) \/ EnterRestored(c)
      PROVE  RestoreInv'
  BY <1>5, FetchPageKeeps, FetchFailsKeeps, EnterRestoredKeeps
<1> QED
  BY <1>1, <1>2, <1>3, <1>4, <1>5 DEF RestoreNext

LEMMA RestoreInvariant == RestoreSpec => []RestoreInv
  BY RestoreInitHolds, RestoreNextKeeps, PTL DEF RestoreSpec

\* A restored session carries the source's history up to the anchor, and nothing
\* later, whatever commits while it is made: the anchor was in the database when
\* the checkpoint was stored, and what is committed is never taken back.
THEOREM RestoredHistory == RestoreSpec => []HistoryIsCopied
<1>1. RestoreInv => HistoryIsCopied
  BY DEF RestoreInv, RowRight, HistoryIsCopied
<1> QED
  BY <1>1, RestoreInvariant, PTL

\* A context that adopted the server's session is its only owner, and a session that
\* nobody adopts is one whose request had no answer.
THEOREM AdoptedByOwner == RestoreSpec => []RestoredIsAdopted
<1>1. RestoreInv => RestoredIsAdopted
  <2> SUFFICES ASSUME RestoreInv PROVE RestoredIsAdopted
    OBVIOUS
  <2>1. ASSUME NEW c \in Client, call[c].mode = "semantic"
        PROVE  rows[call[c].session].owner = c
    BY <2>1 DEF RestoreInv, RequestOf
  <2>2. ASSUME NEW sid \in DOMAIN rows, rows[sid].owner # Sdk
        PROVE  \/ call[rows[sid].owner].mode = "semantic" /\ call[rows[sid].owner].session = sid
               \/ call[rows[sid].owner].step = "posting"
               \/ rows[sid].owner \in timedOut
    <3>1. PICK c : c = rows[sid].owner
      OBVIOUS
    <3>2. c \in Client
      BY <2>2, <3>1 DEF RestoreInv, RowTypes, RowOf
    <3>3. sid = IdFor(c) /\ post[c] = "done"
      BY <2>2, <3>1 DEF RestoreInv, RowRight
    <3>4. RequestOf(c)
      BY <3>2 DEF RestoreInv
    <3> QED
      BY <3>1, <3>3, <3>4 DEF RequestOf
  <2> QED
    BY <2>1, <2>2 DEF RestoredIsAdopted
<1> QED
  BY <1>1, RestoreInvariant, PTL

\* The events of a replay come once each, and all that were stored when it began (in
\* the legacy mode, all later than the checkpoint and none other), unless an earlier one
\* was committed meanwhile: the pages are the beginning of the sorted events, and one
\* that is not full is their end.
THEOREM ReplayComesOnce == RestoreSpec => []ReplayedOnce
<1>1. RestoreInv => ReplayedOnce
  <2> SUFFICES ASSUME RestoreInv, NEW c \in Replaying, call[c].step = "restored", c \notin shifted
               PROVE  /\ \A i, j \in Replayed(c) : raw[c][i] = raw[c][j] => i = j
                      /\ {raw[c][i] : i \in Replayed(c)} \cap due[c] =
                           {e \in due[c] : call[c].mode = "legacy" => e > cp.time}
    BY DEF ReplayedOnce
  <2>1. c \in Client
    BY RestoreAssumption
  <2>2. Increasing(raw[c]) /\ due[c] \subseteq Elems(raw[c])
    BY <2>1 DEF RestoreInv, FetchedRight
  <2>3. raw[c] \in Seq(Nat)
    BY <2>1 DEF RestoreInv, ClientTypes
  <2>4. /\ DOMAIN raw[c] = 1..Len(raw[c]) /\ Len(raw[c]) \in Nat
        /\ \A i \in DOMAIN raw[c] : raw[c][i] \in Nat
    BY <2>3, LenProperties, ElementOfSeq
  <2>5. ASSUME NEW i \in Replayed(c), NEW j \in Replayed(c), raw[c][i] = raw[c][j]
        PROVE  i = j
    <3>1. i \in 1..Len(raw[c]) /\ j \in 1..Len(raw[c])
      BY <2>4 DEF Replayed
    <3>2. (i < j => raw[c][i] < raw[c][j]) /\ (j < i => raw[c][j] < raw[c][i])
      BY <2>2, <2>4, <3>1 DEF Increasing
    <3>3. raw[c][i] \in Nat
      BY <2>4, <3>1
    <3> QED
      BY <2>5, <3>1, <3>2, <3>3
  <2>6. ASSUME NEW e \in due[c], call[c].mode = "legacy" => e > cp.time
        PROVE  e \in {raw[c][i] : i \in Replayed(c)}
    <3>1. PICK i \in DOMAIN raw[c] : raw[c][i] = e
      BY <2>2 DEF Elems
    <3>2. i \in Replayed(c)
      BY <2>6, <3>1 DEF Replayed
    <3> QED
      BY <3>1, <3>2
  <2>7. ASSUME NEW i \in Replayed(c), call[c].mode = "legacy"
        PROVE  raw[c][i] > cp.time
    BY <2>7 DEF Replayed
  <2> QED
    BY <2>5, <2>6, <2>7
<1> QED
  BY <1>1, RestoreInvariant, PTL

\* The variables of restores keep their types.
THEOREM RestoreTypeCorrect == RestoreSpec => []RestoreTypeOK
<1>1. RestoreInv => RestoreTypeOK
  <2> SUFFICES ASSUME RestoreInv PROVE RestoreTypeOK
    OBVIOUS
  <2>1. SourceTypes /\ ClientTypes /\ RowTypes /\ committed \subseteq Nat
    BY CommittedNat DEF RestoreInv
  <2>2. /\ cp.state \in {"none", "sent", "stored", "refused"}
        /\ cp.time \in 0..now /\ cp.anchor \in created \cup {NoAnchor}
    BY <2>1 DEF SourceTypes
  <2>3. ASSUME NEW sid \in DOMAIN rows
        PROVE  rows[sid].owner \in Client \cup {Sdk} /\ rows[sid].copies \subseteq committed
    <3>1. rows[sid] \in RowOf
      BY <2>1 DEF RowTypes
    <3>2. RowRight(sid)
      BY DEF RestoreInv
    <3> QED
      BY <3>1, <3>2 DEF RowOf, RowRight
  <2>4. ASSUME NEW c \in Client
        PROVE  /\ call[c].step \in {"idle", "posting", "getting", "fetching", "restored", "entered", "error"}
               /\ call[c].mode \in {"none", "semantic", "legacy"}
               /\ post[c] \in {"none", "received", "read", "done", "failed", "notfound"}
               /\ snap[c] \subseteq committed /\ raw[c] \in Seq(committed)
               /\ call[c].mode = "semantic" => post[c] = "done" /\ call[c].session \in DOMAIN rows
               /\ c \notin timedOut /\ call[c].step = "posting" => post[c] # "none"
    <3>1. call[c] \in CallOf /\ raw[c] \in Seq(Nat)
          /\ post[c] \in {"none", "received", "read", "done", "failed", "notfound"}
      BY <2>1 DEF ClientTypes
    <3>2. RequestOf(c) /\ FetchedRight(c)
      BY DEF RestoreInv
    <3>3. raw[c] \in Seq(committed)
      BY <3>1, <3>2, SeqOver DEF FetchedRight
    <3>4. snap[c] \subseteq committed
      BY <3>2 DEF RequestOf
    <3>5. call[c].mode = "semantic" => post[c] = "done" /\ call[c].session \in DOMAIN rows
      BY <3>2 DEF RequestOf
    <3>6. call[c].step = "posting" => post[c] # "none"
      BY <3>2 DEF RequestOf
    <3> QED
      BY <3>1, <3>3, <3>4, <3>5, <3>6 DEF CallOf
  <2> QED
    BY <2>1, <2>2, <2>3, <2>4 DEF RestoreTypeOK, SourceTypes, RowTypes
<1> QED
  BY <1>1, RestoreInvariant, PTL

-----------------------------------------------------------------------------
(* Auto-patching: the hooks, the transports and the session they share *)

CallSteps == {"idle", "check1", "look", "lock", "create", "return",
              "send1", "host", "check2", "send2", "done"}
Asking == {"look", "lock", "create", "return", "replace"}
Patching == {"connect"} \cup Asking
AdminSteps == {"idle", "restore", "shutdown", "join", "reset", "open"} \cup Patching
Unplugging == {"shutdown", "join"}
Sending == {"look", "lock", "create", "return", "send1", "send2"}
Busy == {c \in Call : pc[c] # "idle"}

\* The adapter that the admin is about to take the transport from, or has given one.
InHand(a) == pc[Admin] \in Unplugging \cup Asking /\ a = Head(todo)

\* A hook that went in first has no transport yet.
Bare(a) == pc[Admin] = "connect" /\ a = Head(todo)

Wired(a) == (a \in hooked \/ InHand(a)) /\ ~Bare(a)

HookTypes ==
  /\ hooked \subseteq Adapter
  /\ transport \in [Adapter -> 0..Len(outbox)] /\ ownSession \in [Adapter -> 0..made]
  /\ patchedList \in Seq(Adapter) /\ todo \in Seq(Adapter)
  /\ outbox \in Seq(Seq(put \cup {Sentinel}))
  /\ worker \in Seq({"running", "done"}) /\ Len(worker) = Len(outbox)
  /\ made \in Nat /\ sharedId \in 0..made /\ idLock \in Actor \cup {Nobody}
  /\ pc \in [Actor -> CallSteps \cup AdminSteps]
  /\ pc[Admin] \in AdminSteps /\ \A c \in Call : pc[c] \in CallSteps
  /\ activations \in Nat /\ period \in Nat
  /\ on \in [Call -> Adapter] /\ arg \in [Actor -> 0..Len(outbox)] /\ id \in [Actor -> 0..made]
  /\ put \subseteq PatchEvent /\ gone \subseteq put /\ late \subseteq put
  /\ early \subseteq {c \in Call : pc[c] # "idle" /\ on[c] \in HookFirst}

\* A session more than there were resets, and fewer resets than activations; the
\* transports that an activation has still to make fit as well.
HookBounds ==
  /\ IsFiniteSet(Busy)
  /\ activations <= MaxOps /\ period <= activations
  /\ pc[Admin] = "reset" \/ (pc[Admin] \in {"restore"} \cup Unplugging /\ op # "activate") =>
       period < activations
  /\ made <= period + 1 /\ (sharedId = None => made <= period)
  /\ Len(outbox) <= activations * Len(Adapters)
  /\ pc[Admin] \in {"restore"} \cup Unplugging /\ op = "activate" =>
       Len(outbox) + Len(Adapters) <= activations * Len(Adapters)
  /\ pc[Admin] \in {"open", "connect"} =>
       Len(outbox) + Len(todo) <= activations * Len(Adapters)
  /\ pc[Admin] \in Asking => Len(outbox) + Len(todo) <= activations * Len(Adapters) + 1

\* Who creates a session holds the lock, and there is none as long as it does.
LockRight ==
  /\ \A x \in Actor : pc[x] = "create" => idLock = x
  /\ idLock # Nobody => pc[idLock] = "create" /\ sharedId = None
  /\ pc[Admin] \in {"lock", "create"} => arg[Admin] # None

\* Which adapters have a hook, and that these have a transport each.
Plugged ==
  /\ IsInjective(patchedList) /\ IsInjective(todo)
  /\ pc[Admin] \in {"idle", "open", "reset"} => hooked = ToSet(patchedList)
  /\ pc[Admin] \in Patching => hooked = ToSet(patchedList) \cup ({Head(todo)} \cap HookFirst)
  /\ pc[Admin] = "connect" => Head(todo) \in HookFirst
  /\ pc[Admin] = "reset" => patchedList = <<>>
  /\ pc[Admin] \in {"restore"} \cup Unplugging => hooked \subseteq ToSet(patchedList)
  /\ pc[Admin] = "restore" => hooked = ToSet(todo)
  /\ pc[Admin] \in Unplugging => hooked = ToSet(Tail(todo))
  /\ pc[Admin] \in {"open"} \cup Patching => ToSet(patchedList) \cap ToSet(todo) = {}
  /\ pc[Admin] \in Unplugging \cup Patching => todo # <<>>
  /\ pc[Admin] \in Unplugging => Head(todo) \notin hooked
  /\ \A a \in Adapter : Wired(a) => transport[a] # None
  /\ \A a \in Adapter : transport[a] # None => Wired(a) \/ leftRunning
  /\ \A a, b \in Adapter : a # b /\ transport[a] = transport[b] => transport[a] = None

HookInv == HookTypes /\ HookBounds /\ LockRight /\ Plugged

\* A call that nothing has overlapped finds its hook in place, and the transport when
\* it is about to send.
Untouched(c) ==
  c \notin overlapped /\ pc[c] \notin {"idle", "done"} =>
    /\ on[c] \in hooked
    /\ pc[c] \in Sending => transport[on[c]] # None
    /\ pc[c] \in {"lock", "create"} => arg[c] # None

RunInv == overlapped \subseteq Call /\ HostUnharmed /\ \A c \in Call : Untouched(c)

\* The session of such a call is the shared one, or none if it began too early.
SameSession(c) ==
  c \notin overlapped =>
    /\ pc[c] = "return" => sharedId # None
    /\ pc[c] \in {"send1", "host", "check2", "send2"}
         \/ (pc[c] = "check1" /\ on[c] \in AgentAdapter) =>
       \/ id[c] = sharedId /\ sharedId # None
       \/ id[c] = None /\ c \in early

\* An adapter has a session of its own from the end of patch() to that of unpatch().
OwnSessions ==
  /\ \A a \in hooked \cap ToSet(patchedList) \cap AgentAdapter :
       ownSession[a] = sharedId /\ sharedId # None
  /\ \A a \in HookFirst : ownSession[a] # None =>
       \/ a \in hooked \cap ToSet(patchedList)
       \/ pc[Admin] \in Unplugging /\ a = Head(todo)

\* The session of the events of such calls, in this period and in every other.
EventSessions ==
  /\ \A m \in put : m.period <= period
  /\ \A m \in put : m.call \notin overlapped /\ m.period = period =>
       \/ m.session = sharedId /\ sharedId # None
       \/ m.session = None /\ m.call \in early
  /\ \A m, n \in put :
       m.period = n.period /\ m.call \notin overlapped /\ n.call \notin overlapped =>
         /\ m.session = None => m.call \in early
         /\ m.session # None /\ n.session # None => m.session = n.session

SessionInv ==
  /\ OwnSessions /\ EventSessions
  /\ pc[Admin] = "return" => sharedId # None
  /\ pc[Admin] = "replace" /\ Head(todo) \in AgentAdapter => id[Admin] = sharedId /\ sharedId # None
  /\ \A c \in Call : SameSession(c)

\* What is queued: each event once, and until it is taken; what comes after a
\* sentinel is late.
Distinct ==
  \A t, u \in DOMAIN outbox : \A i \in DOMAIN outbox[t], j \in DOMAIN outbox[u] :
    outbox[t][i] = outbox[u][j] /\ outbox[t][i] # Sentinel => t = u /\ i = j

Pending ==
  \A t \in DOMAIN outbox : \A i \in DOMAIN outbox[t] :
    outbox[t][i] # Sentinel => outbox[t][i] \in put \ gone

BehindIsLate ==
  \A t \in DOMAIN outbox : \A i \in DOMAIN outbox[t] :
    /\ outbox[t][i] # Sentinel
    /\ worker[t] = "done" \/ \E j \in DOMAIN outbox[t] : j < i /\ outbox[t][j] = Sentinel
    => outbox[t][i] \in late

\* The transport of a hooked adapter, or of one in hand that is not shut down yet.
Running(a) == Wired(a) /\ ~(pc[Admin] = "join" /\ a = Head(todo))

Clean ==
  \A a \in Adapter : Running(a) =>
    worker[transport[a]] = "running" /\ Sentinel \notin ToSet(outbox[transport[a]])

\* The events of a call, by where it is.
PutSoFar(c) ==
  \A m \in put : m.call = c =>
    /\ m.kind = "before" => pc[c] \in {"host", "check2", "send2", "done"}
    /\ m.kind = "after" => pc[c] = "done"

\* A first event that is still queued is where the call's second one will go.
Waiting(m) == m.kind = "before" /\ m \notin gone \cup late /\ ~leftRunning

Follows(c) ==
  \A m \in put : m.call = c /\ Waiting(m) =>
    /\ pc[c] # "done" => transport[on[c]] # None /\ m \in ToSet(outbox[transport[on[c]]])
    /\ \A n \in put : n.call = c /\ n.kind = "after" =>
         /\ n \notin gone
         /\ \E t \in DOMAIN outbox : \E i, j \in DOMAIN outbox[t] :
              i < j /\ outbox[t][i] = m /\ outbox[t][j] = n

\* A call that nothing overlaps puts nothing behind a sentinel.
LateAreOverlapped == leftRunning \/ \A m \in late : m.call \in overlapped

QueueInv ==
  /\ Distinct /\ Pending /\ BehindIsLate /\ Clean /\ LateAreOverlapped
  /\ \A c \in Call : PutSoFar(c) /\ Follows(c)

\* A sequence over any set with one element more, and with its head taken off.
LEMMA Appended ==
  ASSUME NEW S, NEW q \in Seq(S), NEW e \in S
  PROVE  /\ Append(q, e) \in Seq(S) /\ Len(Append(q, e)) = Len(q) + 1
         /\ Len(q) \in Nat /\ DOMAIN q = 1..Len(q) /\ DOMAIN Append(q, e) = 1..(Len(q) + 1)
         /\ \A i \in 1..Len(q) : Append(q, e)[i] = q[i]
         /\ Append(q, e)[Len(q) + 1] = e
         /\ ToSet(Append(q, e)) = ToSet(q) \cup {e}
         /\ IsInjective(q) /\ e \notin ToSet(q) => IsInjective(Append(q, e))
<1>1. /\ Append(q, e) \in Seq(S) /\ Len(Append(q, e)) = Len(q) + 1
      /\ \A i \in 1..Len(q) : Append(q, e)[i] = q[i]
      /\ Append(q, e)[Len(q) + 1] = e
  BY AppendProperties
<1>2. /\ Len(q) \in Nat /\ DOMAIN q = 1..Len(q)
      /\ DOMAIN Append(q, e) = 1..(Len(q) + 1)
  BY <1>1, LenProperties
<1>3. \A i \in 1..(Len(q) + 1) : i \in 1..Len(q) \/ i = Len(q) + 1
  BY <1>2
<1>4. 1..Len(q) \subseteq 1..(Len(q) + 1) /\ Len(q) + 1 \in 1..(Len(q) + 1)
  BY <1>2
<1>5. ToSet(Append(q, e)) = ToSet(q) \cup {e}
  BY <1>1, <1>2, <1>3, <1>4 DEF ToSet
<1>6. IsInjective(q) /\ e \notin ToSet(q) => IsInjective(Append(q, e))
  BY <1>1, <1>2, <1>3 DEF IsInjective, ToSet
<1> QED
  BY <1>1, <1>2, <1>5, <1>6

LEMMA HeadOff ==
  ASSUME NEW S, NEW q \in Seq(S), q # <<>>
  PROVE  /\ Head(q) \in S /\ Tail(q) \in Seq(S) /\ Len(Tail(q)) = Len(q) - 1
         /\ Len(q) \in Nat \ {0} /\ DOMAIN q = 1..Len(q) /\ DOMAIN Tail(q) = 1..(Len(q) - 1)
         /\ Head(q) = q[1]
         /\ \A i \in 1..(Len(q) - 1) : Tail(q)[i] = q[i + 1]
         /\ ToSet(q) = {Head(q)} \cup ToSet(Tail(q))
         /\ IsInjective(q) => IsInjective(Tail(q)) /\ Head(q) \notin ToSet(Tail(q))
<1>1. /\ Head(q) \in S /\ Tail(q) \in Seq(S) /\ Len(Tail(q)) = Len(q) - 1
      /\ \A i \in 1..Len(Tail(q)) : Tail(q)[i] = q[i + 1]
  BY HeadTailProperties
<1>2. /\ Len(q) \in Nat \ {0} /\ DOMAIN q = 1..Len(q) /\ DOMAIN Tail(q) = 1..(Len(q) - 1)
  BY <1>1, LenProperties, EmptySeq
<1>3. Head(q) = q[1]
  OBVIOUS
<1>4. \A i \in 1..(Len(q) - 1) : Tail(q)[i] = q[i + 1] /\ i + 1 \in 1..Len(q) /\ i + 1 # 1
  BY <1>1, <1>2
<1>5. \A i \in 1..Len(q) : i = 1 \/ (i - 1 \in 1..(Len(q) - 1) /\ (i - 1) + 1 = i)
  BY <1>2
<1>6. 1 \in 1..Len(q)
  BY <1>2
<1>7. ToSet(Tail(q)) \subseteq ToSet(q) /\ Head(q) \in ToSet(q)
  BY <1>2, <1>3, <1>4, <1>6 DEF ToSet
<1>8. ASSUME NEW x \in ToSet(q)
      PROVE  x = Head(q) \/ x \in ToSet(Tail(q))
  <2>1. PICK i \in 1..Len(q) : x = q[i]
    BY <1>2 DEF ToSet
  <2>2. CASE i = 1
    BY <1>3, <2>1, <2>2
  <2>3. CASE i # 1
    <3>1. i - 1 \in 1..(Len(q) - 1) /\ (i - 1) + 1 = i
      BY <1>5, <2>3
    <3>2. Tail(q)[i - 1] = q[i]
      BY <1>4, <3>1
    <3> QED
      BY <1>2, <2>1, <3>1, <3>2 DEF ToSet
  <2> QED
    BY <2>2, <2>3
<1>9. ASSUME IsInjective(q)
      PROVE  IsInjective(Tail(q)) /\ Head(q) \notin ToSet(Tail(q))
  <2>1. ASSUME NEW i \in 1..(Len(q) - 1), NEW j \in 1..(Len(q) - 1), Tail(q)[i] = Tail(q)[j]
        PROVE  i = j
    <3>1. q[i + 1] = q[j + 1] /\ i + 1 \in 1..Len(q) /\ j + 1 \in 1..Len(q)
      BY <1>4, <2>1
    <3>2. i + 1 = j + 1
      BY <1>2, <1>9, <3>1 DEF IsInjective
    <3> QED
      BY <3>2
  <2>2. Head(q) \notin ToSet(Tail(q))
    BY <1>2, <1>3, <1>4, <1>6, <1>9 DEF IsInjective, ToSet
  <2> QED
    BY <1>2, <2>1, <2>2 DEF IsInjective
<1> QED
  BY <1>1, <1>2, <1>3, <1>4, <1>7, <1>8, <1>9

LEMMA Actors == Admin \notin Call /\ Nobody \notin Actor /\ MaxOps \in Nat /\ Sentinel \notin PatchEvent
  BY ActorsAssumption, SentinelAssumption

-----------------------------------------------------------------------------
(* Which hooks there are *)

\* A call's step keeps the hooks: it changes its own place, and what it sends.
LEMMA CallKeepsHooks ==
  ASSUME HookInv, NEW c \in Call, NEW l \in CallSteps \ {"create"}, Go(c, l),
         pc[c] # "create", UNCHANGED <<hookVars, idVars, adminVars>>,
         arg'[Admin] = arg[Admin], Len(outbox') = Len(outbox), HookTypes'
  PROVE  HookInv'
<1>1. HookTypes /\ HookBounds /\ LockRight /\ Plugged
  BY DEF HookInv
<1>2. /\ UNCHANGED <<hooked, transport, ownSession, patchedList>> /\ UNCHANGED <<sharedId, idLock, made>>
      /\ UNCHANGED <<op, todo, activations, period, leftRunning>>
  BY DEF hookVars, idVars, adminVars
<1>3. /\ c # Admin /\ c \in Actor /\ pc \in [Actor -> CallSteps \cup AdminSteps]
      /\ Admin \in Actor /\ Nobody \notin Actor
  BY <1>1, Actors DEF HookTypes, Actor
<1>4. /\ pc'[c] = l /\ pc'[Admin] = pc[Admin]
      /\ \A x \in Actor \ {c} : pc'[x] = pc[x]
  BY <1>3 DEF Go
<1>5. HookBounds'
  <2>1. Busy' \subseteq Busy \cup {c}
    BY <1>4 DEF Busy, Actor
  <2>2. IsFiniteSet(Busy \cup {c})
    BY <1>1, FS_AddElement DEF HookBounds
  <2>3. IsFiniteSet(Busy)'
    BY <2>1, <2>2, FS_Subset
  <2> QED
    BY <1>1, <1>2, <1>4, <2>3 DEF HookBounds
<1>6. LockRight'
  BY <1>1, <1>2, <1>3, <1>4 DEF LockRight, HookTypes
<1>7. Plugged'
  BY <1>1, <1>2, <1>4 DEF Plugged, InHand, Bare, Wired
<1> QED
  BY <1>5, <1>6, <1>7 DEF HookInv

\* What a call puts is an event, and it goes into a queue that exists.
LEMMA SendTypes ==
  ASSUME HookInv, NEW c \in Call, NEW kind \in {"before", "after"},
         NEW l \in CallSteps \ {"idle"}, Send(c, kind, l)
  PROVE  HookTypes' /\ Len(outbox') = Len(outbox)
<1>1. HookTypes /\ HookBounds
  BY DEF HookInv
<1>2. PICK t, e : /\ t = transport[on[c]]
                  /\ e = [call |-> c, kind |-> kind, session |-> id[c], period |-> period]
  OBVIOUS
<1>3. /\ UNCHANGED <<hooked, transport, ownSession, patchedList>> /\ UNCHANGED <<sharedId, idLock, made>>
      /\ UNCHANGED <<op, todo, activations, period, leftRunning>> /\ UNCHANGED <<on, arg, id>>
  BY DEF Send, hookVars, idVars, adminVars
<1>4. c \in Actor /\ c # Admin
  BY Actors DEF Actor
<1>early. early' \subseteq {d \in Call : pc'[d] # "idle" /\ on'[d] \in HookFirst}
  <2>1. PICK m : Go(c, m) /\ m # "idle"
    BY DEF Send, CallSteps
  <2> QED
    BY <1>1, <1>3, <1>4, <2>1 DEF HookTypes, Go, Send
<1>5. CASE t = None
  <2>1. UNCHANGED <<outbox, worker, put, gone, late>> /\ Go(c, "done")
    BY <1>2, <1>5 DEF Send, wireVars
  <2>2. /\ pc' \in [Actor -> CallSteps \cup AdminSteps] /\ pc'[Admin] = pc[Admin]
        /\ \A d \in Call : pc'[d] \in CallSteps
    BY <1>1, <1>4, <2>1 DEF HookTypes, Go, CallSteps, Actor
  <2> QED
    BY <1>1, <1>3, <1>early, <2>1, <2>2 DEF HookTypes
<1>6. CASE t # None
  <2>1. /\ outbox' = [outbox EXCEPT ![t] = Append(@, e)]
        /\ put' = put \cup {e}
        /\ late' = late \/ late' = late \cup {e}
        /\ Go(c, l) /\ UNCHANGED <<worker, gone>>
    BY <1>2, <1>6 DEF Send
  <2>2. e \in PatchEvent
    <3>1. id[c] \in 0..made /\ made \in Nat /\ made <= period + 1 /\ period \in Nat /\ period <= MaxOps
      <4>1. period <= activations /\ activations <= MaxOps /\ period \in Nat /\ activations \in Nat
        BY <1>1 DEF HookTypes, HookBounds
      <4> QED
        BY <1>1, <1>4, <4>1, Actors DEF HookTypes, HookBounds
    <3>2. id[c] \in 1..(MaxOps + 1) \cup {0} /\ period \in 0..MaxOps
      BY <3>1, Actors
    <3> QED
      BY <1>2, <3>2 DEF PatchEvent, Session, None
  <2>3. outbox \in Seq(Seq(put' \cup {Sentinel}))
    <3>1. \A s \in Seq(put \cup {Sentinel}) : s \in Seq(put' \cup {Sentinel})
      BY <2>1, SeqMonotonic
    <3>2. Seq(put \cup {Sentinel}) \subseteq Seq(put' \cup {Sentinel})
      BY <3>1
    <3> QED
      BY <1>1, <3>2, SeqMonotonic DEF HookTypes
  <2>4. t \in 1..Len(outbox)
    <3>1. t \in 0..Len(outbox) /\ Len(outbox) \in Nat
      BY <1>1, <1>2, LenProperties DEF HookTypes
    <3> QED
      BY <1>6, <3>1 DEF None
  <2>5. PICK q : q = Append(outbox[t], e)
    OBVIOUS
  <2>6. q \in Seq(put' \cup {Sentinel}) /\ outbox' = [outbox EXCEPT ![t] = q]
    <3>1. outbox[t] \in Seq(put' \cup {Sentinel}) /\ e \in put' \cup {Sentinel}
      BY <2>1, <2>3, <2>4, ElementOfSeq
    <3> QED
      BY <2>1, <2>5, <3>1, Appended
  <2>7. outbox' \in Seq(Seq(put' \cup {Sentinel})) /\ Len(outbox') = Len(outbox)
    BY <2>3, <2>4, <2>6, ExceptSeq
  <2>8. /\ pc' \in [Actor -> CallSteps \cup AdminSteps] /\ pc'[Admin] = pc[Admin]
        /\ \A d \in Call : pc'[d] \in CallSteps
    BY <1>1, <1>4, <2>1 DEF HookTypes, Go, Actor
  <2>9. put' \subseteq PatchEvent /\ gone' \subseteq put' /\ late' \subseteq put'
    BY <1>1, <2>1, <2>2 DEF HookTypes
  <2> QED
    BY <1>1, <1>3, <1>early, <2>1, <2>7, <2>8, <2>9 DEF HookTypes
<1> QED
  BY <1>5, <1>6

\* So do the steps that send nothing.
LEMMA QuietCallTypes ==
  ASSUME HookInv, NEW c \in Call, NEW l \in CallSteps, Go(c, l),
         UNCHANGED <<hookVars, wireVars, idVars, adminVars, arg>>,
         on' \in [Call -> Adapter], id' \in [Actor -> 0..made],
         early' \subseteq {d \in Call : pc'[d] # "idle" /\ on'[d] \in HookFirst}
  PROVE  HookTypes' /\ Len(outbox') = Len(outbox)
<1>1. HookTypes
  BY DEF HookInv
<1>2. /\ UNCHANGED <<hooked, transport, ownSession, patchedList>> /\ UNCHANGED <<sharedId, idLock, made>>
      /\ UNCHANGED <<op, todo, activations, period, leftRunning>> /\ arg' = arg
      /\ UNCHANGED <<outbox, worker, put, gone, late>>
  BY DEF hookVars, wireVars, idVars, adminVars
<1>3. c \in Actor /\ c # Admin
  BY Actors DEF Actor
<1>4. /\ pc' \in [Actor -> CallSteps \cup AdminSteps] /\ pc'[Admin] = pc[Admin]
      /\ \A d \in Call : pc'[d] \in CallSteps
  BY <1>1, <1>3 DEF HookTypes, Go, Actor
<1> QED
  BY <1>1, <1>2, <1>4 DEF HookTypes

LEMMA CallsKeepHooks ==
  ASSUME HookInv, NEW c \in Call,
         \/ \E a \in Adapter : Begin(c, a)
         \/ CheckBefore(c) \/ SendBefore(c) \/ HostReturns(c) \/ HostRaises(c)
         \/ OriginalGone(c) \/ CheckAfter(c) \/ SendAfter(c)
  PROVE  HookInv'
<1>1. HookTypes /\ c \in Actor
  BY DEF HookInv, Actor
<1>2. ASSUME NEW a \in Adapter, Begin(c, a)
      PROVE  HookInv'
  <2>1. /\ pc[c] = "idle" /\ Go(c, "check1")
        /\ on' = [on EXCEPT ![c] = a]
        /\ id' = [id EXCEPT ![c] = IF a \in AgentAdapter THEN ownSession[a] ELSE None]
        /\ UNCHANGED <<hookVars, wireVars, idVars, adminVars, arg>>
    BY <1>2 DEF Begin
  <2>2. "check1" \in CallSteps \ {"create"}
    BY DEF CallSteps
  <2>3. ownSession[a] \in 0..made /\ None \in 0..made
    BY <1>1 DEF HookTypes, None
  <2>4. on' \in [Call -> Adapter] /\ id' \in [Actor -> 0..made]
    BY <1>1, <2>1, <2>3 DEF HookTypes
  <2>5. early' \subseteq {d \in Call : pc'[d] # "idle" /\ on'[d] \in HookFirst}
    <3>1. /\ pc'[c] = "check1" /\ on'[c] = a
          /\ \A d \in Call \ {c} : pc'[d] = pc[d] /\ on'[d] = on[d]
      BY <1>1, <2>1 DEF HookTypes, Go, Actor
    <3>2. a \in hooked /\ (early' = early \/ (early' = early \cup {c} /\ a \notin ToSet(patchedList)))
      BY <1>2 DEF Begin
    <3>3. c \notin early /\ \A d \in early : d \in Call /\ pc[d] # "idle" /\ on[d] \in HookFirst
      BY <1>1, <2>1 DEF HookTypes
    <3>4. a \in ToSet(patchedList) \/ a \in HookFirst
      BY <1>1, <3>2 DEF HookInv, Plugged, HookTypes, AdminSteps, Unplugging
    <3>5. \A d \in early : pc'[d] # "idle" /\ on'[d] \in HookFirst
      BY <3>1, <3>3
    <3> QED
      BY <3>1, <3>2, <3>3, <3>4, <3>5
  <2>6. HookTypes' /\ Len(outbox') = Len(outbox)
    BY <2>1, <2>2, <2>4, <2>5, QuietCallTypes
  <2> QED
    BY <2>1, <2>2, <2>6, CallKeepsHooks
<1>3. ASSUME \/ CheckBefore(c) \/ HostReturns(c) \/ HostRaises(c) \/ OriginalGone(c) \/ CheckAfter(c)
      PROVE  HookInv'
  <2>1. PICK l \in CallSteps \ {"create"} : Go(c, l)
    <3>1. CASE CheckBefore(c)
      BY <3>1 DEF CheckBefore, CallSteps
    <3>2. CASE HostReturns(c)
      BY <3>2 DEF HostReturns, AfterHost, CallSteps
    <3>3. CASE HostRaises(c) \/ OriginalGone(c)
      BY <3>3 DEF HostRaises, OriginalGone, CallSteps
    <3>4. CASE CheckAfter(c)
      BY <3>4 DEF CheckAfter, CallSteps
    <3> QED
      BY <1>3, <3>1, <3>2, <3>3, <3>4
  <2>2. /\ pc[c] # "create" /\ UNCHANGED <<hookVars, wireVars, idVars, adminVars, on, arg, id>>
    BY <1>3 DEF CheckBefore, HostReturns, HostRaises, OriginalGone, CheckAfter, callVars
  <2>3. on' \in [Call -> Adapter] /\ id' \in [Actor -> 0..made]
    BY <1>1, <2>2 DEF HookTypes
  <2>4. early' \subseteq {d \in Call : pc'[d] # "idle" /\ on'[d] \in HookFirst}
    <3>1. early' = early /\ on' = on
      BY <1>3 DEF CheckBefore, HostReturns, HostRaises, OriginalGone, CheckAfter, callVars
    <3>2. \A d \in Call : pc'[d] = "idle" => pc[d] = "idle"
      BY <1>1, <1>3 DEF CheckBefore, HostReturns, HostRaises, OriginalGone, CheckAfter, AfterHost,
                        Go, HookTypes, Actor
    <3> QED
      BY <1>1, <3>1, <3>2 DEF HookTypes
  <2>5. HookTypes' /\ Len(outbox') = Len(outbox)
    BY <2>1, <2>2, <2>3, <2>4, QuietCallTypes
  <2> QED
    BY <2>1, <2>2, <2>5, CallKeepsHooks
<1>4. ASSUME SendBefore(c) \/ SendAfter(c)
      PROVE  HookInv'
  <2>1. PICK kind \in {"before", "after"}, l \in {"host", "done"} :
          Send(c, kind, l) /\ pc[c] \in {"send1", "send2"}
    BY <1>4 DEF SendBefore, SendAfter
  <2>2. l \in CallSteps \ {"idle", "create"} /\ "done" \in CallSteps \ {"create"}
    BY DEF CallSteps
  <2>3. HookTypes' /\ Len(outbox') = Len(outbox)
    BY <2>1, <2>2, SendTypes
  <2>4. (Go(c, l) \/ Go(c, "done")) /\ UNCHANGED <<hookVars, idVars, adminVars, on, arg, id>>
    BY <2>1 DEF Send
  <2> QED
    BY <2>1, <2>2, <2>3, <2>4, CallKeepsHooks
<1> QED
  BY <1>2, <1>3, <1>4

\* The steps on the way to a session id.
LEMMA IdKeepsHooks ==
  ASSUME HookInv, NEW x \in Actor, NEW l, Go(x, l),
         pc[x] \in {"look", "lock", "create", "return"},
         x = Admin => l \in Asking \ {"look"},
         x # Admin => l \in CallSteps \ {"idle"},
         UNCHANGED <<hookVars, wireVars, adminVars, on, early>>,
         made' \in Nat, made <= made', sharedId' \in 0..made', idLock' \in Actor \cup {Nobody},
         arg' \in [Actor -> 0..Len(outbox)], id' \in [Actor -> 0..made'],
         made' <= period + 1, sharedId' = None => made' <= period, LockRight'
  PROVE  HookInv'
<1>1. HookTypes /\ HookBounds /\ Plugged
  BY DEF HookInv
<1>2. /\ UNCHANGED <<hooked, transport, ownSession, patchedList>> /\ on' = on /\ early' = early
      /\ UNCHANGED <<op, todo, activations, period, leftRunning>>
      /\ UNCHANGED <<outbox, worker, put, gone, late>>
  BY DEF hookVars, wireVars, adminVars
<1>3. pc' \in [Actor -> CallSteps \cup AdminSteps] /\ pc'[x] = l /\ \A y \in Actor \ {x} : pc'[y] = pc[y]
  BY <1>1 DEF HookTypes, Go, AdminSteps, Patching, Asking
<1>4. Admin \in Actor /\ (x # Admin => x \in Call) /\ Call \subseteq Actor /\ Admin \notin Call
  BY Actors DEF Actor
<1>5. pc'[Admin] = pc[Admin] \/ (pc[Admin] \in Asking /\ pc'[Admin] \in Asking)
  BY <1>3, <1>4 DEF Asking
<1>6. pc'[Admin] \in AdminSteps /\ \A c \in Call : pc'[c] \in CallSteps
  BY <1>1, <1>3, <1>4, <1>5 DEF HookTypes, AdminSteps, Patching
<1>7. HookTypes'
  <2>1. 0..made \subseteq 0..made'
    BY <1>1 DEF HookTypes
  <2>2. ownSession \in [Adapter -> 0..made']
    BY <1>1, <2>1 DEF HookTypes
  <2>3. early' \subseteq {c \in Call : pc'[c] # "idle" /\ on'[c] \in HookFirst}
    BY <1>1, <1>2, <1>3, <1>4 DEF HookTypes
  <2> QED
    BY <1>1, <1>2, <1>3, <1>6, <2>2, <2>3 DEF HookTypes
<1>8. HookBounds'
  <2>1. Busy' \subseteq Busy \cup {x}
    BY <1>3 DEF Busy, Actor
  <2>2. IsFiniteSet(Busy \cup {x})
    BY <1>1, FS_AddElement DEF HookBounds
  <2>3. IsFiniteSet(Busy)'
    BY <2>1, <2>2, FS_Subset
  <2> QED
    BY <1>1, <1>2, <1>5, <2>3 DEF HookBounds, Asking, Unplugging
<1>9. \A a : Wired(a)' <=> Wired(a)
  BY <1>2, <1>5 DEF Wired, Bare, InHand, Asking, Unplugging
<1>10. Plugged'
  BY <1>1, <1>2, <1>5, <1>9 DEF Plugged, Patching, Asking, Unplugging
<1> QED
  BY <1>7, <1>8, <1>10 DEF HookInv

LEMMA LookKeepsHooks ==
  ASSUME HookInv, NEW x \in Actor, Look(x)
  PROVE  HookInv'
<1>1. HookTypes /\ HookBounds /\ LockRight /\ Plugged /\ Admin \in Actor
  BY DEF HookInv, Actor
<1>2. PICK l, t : /\ l = (IF sharedId # None THEN "return" ELSE "lock")
                  /\ t = transport[IF x = Admin THEN Head(todo) ELSE on[x]]
  OBVIOUS
<1>3. /\ pc[x] = "look" /\ Go(x, l) /\ arg' = [arg EXCEPT ![x] = t]
      /\ UNCHANGED <<hookVars, wireVars, idVars, adminVars, on, id, early>>
  BY <1>2 DEF Look
<1>4. l \in Asking \ {"look"} /\ l \in CallSteps \ {"idle"} /\ l # "create" /\ "look" \in Asking
  BY <1>2 DEF Asking, CallSteps
<1>5. t \in 0..Len(outbox) /\ (x = Admin => t # None)
  <2>1. CASE x = Admin
    <3>1. todo # <<>> /\ Head(todo) \in Adapter
      BY <1>1, <1>3, <1>4, <2>1, HeadOff DEF Plugged, Patching, HookTypes
    <3>2. Wired(Head(todo))
      BY <1>3, <1>4, <2>1 DEF Wired, Bare, InHand
    <3> QED
      BY <1>1, <1>2, <2>1, <3>1, <3>2 DEF Plugged, HookTypes
  <2>2. CASE x # Admin
    <3>1. x \in Call
      BY <2>2 DEF Actor
    <3> QED
      BY <1>1, <1>2, <2>2, <3>1 DEF HookTypes
  <2> QED
    BY <2>1, <2>2
<1>6. arg' \in [Actor -> 0..Len(outbox)] /\ (x = Admin => arg'[Admin] # None)
      /\ (x # Admin => arg'[Admin] = arg[Admin])
  BY <1>1, <1>3, <1>5 DEF HookTypes
<1>7. UNCHANGED <<sharedId, idLock, made, id>>
  BY <1>3 DEF idVars
<1>8. pc'[x] = l /\ \A y \in Actor \ {x} : pc'[y] = pc[y]
  BY <1>1, <1>3 DEF Go, HookTypes
<1>9. LockRight'
  BY <1>1, <1>3, <1>4, <1>6, <1>7, <1>8 DEF LockRight, HookTypes
<1>10. /\ made \in Nat /\ sharedId \in 0..made /\ idLock \in Actor \cup {Nobody} /\ id \in [Actor -> 0..made]
       /\ made <= period + 1 /\ (sharedId = None => made <= period) /\ made <= made
  BY <1>1 DEF HookTypes, HookBounds
<1> QED
  BY <1>3, <1>4, <1>6, <1>7, <1>9, <1>10, IdKeepsHooks

LEMMA AfterIdStep ==
  ASSUME NEW x \in Actor
  PROVE  /\ x = Admin => AfterId(x) \in Asking \ {"look"}
         /\ x # Admin => AfterId(x) \in CallSteps \ {"idle"}
         /\ AfterId(x) \notin {"lock", "create"}
BY DEF AfterId, Asking, CallSteps

LEMMA LockKeepsHooks ==
  ASSUME HookInv, NEW x \in Actor, Lock(x)
  PROVE  HookInv'
<1>1. HookTypes /\ HookBounds /\ LockRight /\ Admin \in Actor /\ Nobody \notin Actor
  BY Actors DEF HookInv, Actor
<1>2. /\ pc[x] = "lock" /\ idLock = Nobody
      /\ UNCHANGED <<hookVars, wireVars, sharedId, made, adminVars, on, arg, early>>
  BY DEF Lock
<1>3. /\ made \in Nat /\ sharedId \in 0..made /\ id \in [Actor -> 0..made] /\ arg \in [Actor -> 0..Len(outbox)]
      /\ made <= period + 1 /\ (sharedId = None => made <= period) /\ made <= made
  BY <1>1 DEF HookTypes, HookBounds
<1>4. CASE sharedId # None
  <2>1. id' = [id EXCEPT ![x] = sharedId] /\ Go(x, AfterId(x)) /\ idLock' = idLock
    BY <1>4 DEF Lock
  <2>2. id' \in [Actor -> 0..made]
    BY <1>3, <2>1
  <2>3. pc'[x] = AfterId(x) /\ \A y \in Actor \ {x} : pc'[y] = pc[y]
    BY <1>1, <2>1 DEF Go, HookTypes
  <2>4. LockRight'
    BY <1>1, <1>2, <2>1, <2>3, AfterIdStep DEF LockRight
  <2> QED
    BY <1>1, <1>2, <1>3, <2>1, <2>2, <2>4, AfterIdStep, IdKeepsHooks
<1>5. CASE sharedId = None
  <2>1. idLock' = x /\ Go(x, "create") /\ id' = id
    BY <1>5 DEF Lock
  <2>2. pc'[x] = "create" /\ \A y \in Actor \ {x} : pc'[y] = pc[y]
    BY <1>1, <2>1 DEF Go, HookTypes
  <2>3. \A y \in Actor \ {x} : pc[y] # "create"
    BY <1>1, <1>2 DEF LockRight
  <2>4. LockRight'
    BY <1>1, <1>2, <1>5, <2>1, <2>2, <2>3 DEF LockRight
  <2>5. "create" \in Asking \ {"look"} /\ "create" \in CallSteps \ {"idle"}
    BY DEF Asking, CallSteps
  <2> QED
    BY <1>1, <1>2, <1>3, <2>1, <2>4, <2>5, IdKeepsHooks
<1> QED
  BY <1>4, <1>5

LEMMA CreateKeepsHooks ==
  ASSUME HookInv, NEW x \in Actor, CreateSession(x)
  PROVE  HookInv'
<1>1. HookTypes /\ HookBounds /\ LockRight /\ Admin \in Actor /\ Nobody \notin Actor
  BY Actors DEF HookInv, Actor
<1>2. /\ pc[x] = "create" /\ idLock' = Nobody
      /\ UNCHANGED <<hookVars, wireVars, adminVars, on, arg, id, early>>
  BY DEF CreateSession
<1>3. idLock = x /\ sharedId = None /\ \A y \in Actor \ {x} : pc[y] # "create"
  BY <1>1, <1>2 DEF LockRight
<1>4. /\ made \in Nat /\ id \in [Actor -> 0..made] /\ arg \in [Actor -> 0..Len(outbox)]
      /\ made <= period /\ period \in Nat /\ sharedId \in 0..made
  BY <1>1, <1>3 DEF HookTypes, HookBounds
<1>5. CASE arg[x] = None
  <2>1. Go(x, "done") /\ UNCHANGED <<sharedId, made>> /\ x # Admin
    BY <1>1, <1>2, <1>5 DEF CreateSession, LockRight
  <2>2. pc'[x] = "done" /\ \A y \in Actor \ {x} : pc'[y] = pc[y]
    BY <1>1, <2>1 DEF Go, HookTypes
  <2>3. LockRight'
    BY <1>1, <1>2, <1>3, <2>1, <2>2 DEF LockRight
  <2>4. "done" \in CallSteps \ {"idle"} /\ made <= made /\ made <= period + 1
    BY <1>4 DEF CallSteps
  <2> QED
    BY <1>2, <1>4, <2>1, <2>3, <2>4, IdKeepsHooks
<1>6. CASE arg[x] # None
  <2>1. Go(x, "return") /\ made' = made + 1 /\ sharedId' = made + 1
    BY <1>6 DEF CreateSession
  <2>2. pc'[x] = "return" /\ \A y \in Actor \ {x} : pc'[y] = pc[y]
    BY <1>1, <2>1 DEF Go, HookTypes
  <2>3. LockRight'
    BY <1>1, <1>2, <1>3, <2>1, <2>2 DEF LockRight
  <2>4. "return" \in Asking \ {"look"} /\ "return" \in CallSteps \ {"idle"}
    BY DEF Asking, CallSteps
  <2>5. /\ made' \in Nat /\ made <= made' /\ sharedId' \in 0..made' /\ made' <= period + 1
        /\ sharedId' # None /\ 0..made \subseteq 0..made'
    BY <1>4, <2>1 DEF None
  <2>6. id' \in [Actor -> 0..made'] /\ arg' \in [Actor -> 0..Len(outbox)]
    BY <1>2, <1>4, <2>5
  <2> QED
    BY <1>2, <2>1, <2>3, <2>4, <2>5, <2>6, IdKeepsHooks
<1> QED
  BY <1>5, <1>6

LEMMA ReturnKeepsHooks ==
  ASSUME HookInv, NEW x \in Actor, ReturnId(x)
  PROVE  HookInv'
<1>1. HookTypes /\ HookBounds /\ LockRight /\ Admin \in Actor
  BY DEF HookInv, Actor
<1>2. /\ pc[x] = "return" /\ id' = [id EXCEPT ![x] = sharedId] /\ Go(x, AfterId(x))
      /\ UNCHANGED <<hookVars, wireVars, idVars, adminVars, on, arg, early>> /\ UNCHANGED <<sharedId, idLock, made>>
  BY DEF ReturnId, idVars
<1>3. /\ made \in Nat /\ sharedId \in 0..made /\ id \in [Actor -> 0..made] /\ arg \in [Actor -> 0..Len(outbox)]
      /\ made <= period + 1 /\ (sharedId = None => made <= period) /\ made <= made
      /\ idLock \in Actor \cup {Nobody}
  BY <1>1 DEF HookTypes, HookBounds
<1>4. id' \in [Actor -> 0..made]
  BY <1>2, <1>3
<1>5. pc'[x] = AfterId(x) /\ \A y \in Actor \ {x} : pc'[y] = pc[y]
  BY <1>1, <1>2 DEF Go, HookTypes
<1>6. LockRight'
  BY <1>1, <1>2, <1>3, <1>5, AfterIdStep DEF LockRight
<1> QED
  BY <1>2, <1>3, <1>4, <1>6, AfterIdStep, IdKeepsHooks

\* A thread takes the head of its queue.
LEMMA WorkKeepsHooks ==
  ASSUME HookInv, NEW t \in DOMAIN outbox, Work(t)
  PROVE  HookInv'
<1>1. HookTypes /\ HookBounds /\ LockRight /\ Plugged
  BY DEF HookInv
<1>2. /\ UNCHANGED <<hooked, transport, ownSession, patchedList>> /\ UNCHANGED <<sharedId, idLock, made>>
      /\ UNCHANGED <<op, todo, activations, period, leftRunning>> /\ UNCHANGED <<on, arg, id, early, pc, put, late>>
      /\ outbox[t] # <<>>
  BY DEF Work, hookVars, idVars, adminVars, callVars
<1>3. PICK q : q = Tail(outbox[t])
  OBVIOUS
<1>4. outbox' = [outbox EXCEPT ![t] = q]
  BY <1>3 DEF Work
<1>5. outbox[t] \in Seq(put \cup {Sentinel}) /\ t \in 1..Len(outbox)
  BY <1>1, LenProperties, ElementOfSeq DEF HookTypes
<1>6. q \in Seq(put \cup {Sentinel}) /\ Head(outbox[t]) \in put \cup {Sentinel}
  BY <1>2, <1>3, <1>5, HeadOff
<1>7. outbox' \in Seq(Seq(put \cup {Sentinel})) /\ Len(outbox') = Len(outbox)
  BY <1>1, <1>4, <1>5, <1>6, ExceptSeq DEF HookTypes
<1>8. worker' \in Seq({"running", "done"}) /\ Len(worker') = Len(worker)
  <2>1. worker \in Seq({"running", "done"}) /\ t \in 1..Len(worker) /\ "done" \in {"running", "done"}
    BY <1>1, <1>5 DEF HookTypes
  <2>2. worker' = worker \/ worker' = [worker EXCEPT ![t] = "done"]
    BY DEF Work
  <2> QED
    BY <2>1, <2>2, ExceptSeq
<1>9. gone' \subseteq put /\ put' = put
  BY <1>1, <1>6 DEF HookTypes, Work
<1>10. HookTypes'
  BY <1>1, <1>2, <1>7, <1>8, <1>9 DEF HookTypes
<1>11. HookBounds' /\ LockRight' /\ Plugged'
  BY <1>1, <1>2, <1>7 DEF HookBounds, LockRight, Plugged, Busy, InHand, Bare, Wired
<1> QED
  BY <1>10, <1>11 DEF HookInv

\* The admin goes on: who asks for a session does so undisturbed.
LEMMA AdminGoes ==
  ASSUME HookInv, NEW l \in AdminSteps \ {"lock", "create"}, Go(Admin, l), pc[Admin] # "create",
         UNCHANGED <<sharedId, idLock>>
  PROVE  /\ pc' \in [Actor -> CallSteps \cup AdminSteps]
         /\ pc'[Admin] = l /\ \A c \in Call : pc'[c] = pc[c] /\ pc[c] \in CallSteps
         /\ Busy' = Busy /\ LockRight'
<1>1. HookTypes /\ LockRight
  BY DEF HookInv
<1>2. Admin \in Actor /\ Call \subseteq Actor /\ Admin \notin Call /\ Nobody \notin Actor
  BY Actors DEF Actor
<1>3. /\ pc' \in [Actor -> CallSteps \cup AdminSteps]
      /\ pc'[Admin] = l /\ \A x \in Actor \ {Admin} : pc'[x] = pc[x]
  BY <1>1, <1>2 DEF HookTypes, Go
<1>4. \A c \in Call : pc'[c] = pc[c] /\ pc[c] \in CallSteps
  BY <1>1, <1>2, <1>3 DEF HookTypes
<1>5. Busy' = Busy
  BY <1>4 DEF Busy
<1>6. LockRight'
  BY <1>1, <1>2, <1>3 DEF LockRight, HookTypes
<1> QED
  BY <1>3, <1>4, <1>5, <1>6

\* (activations + 1) more rounds of transports are a round more.
LEMMA OneRoundMore ==
  ASSUME NEW k \in Nat, NEW n \in Nat
  PROVE  (k + 1) * n = k * n + n /\ k * n \in Nat
OBVIOUS

LEMMA StartKeepsHooks ==
  ASSUME HookInv, Activate \/ Deactivate
  PROVE  HookInv'
<1>1. HookTypes /\ HookBounds /\ LockRight /\ Plugged
  BY DEF HookInv
<1>2. /\ UNCHANGED <<hooked, transport, ownSession, patchedList>> /\ UNCHANGED <<sharedId, idLock, made>>
      /\ UNCHANGED <<period, leftRunning>> /\ UNCHANGED <<outbox, worker, put, gone, late>>
      /\ UNCHANGED <<on, arg, id, early>>
      /\ pc[Admin] = "idle" /\ todo' = patchedList /\ Go(Admin, "restore")
  BY DEF Activate, Deactivate, hookVars, wireVars, idVars, callVars
<1>3. "restore" \in AdminSteps \ {"lock", "create"}
  BY DEF AdminSteps
<1>4. /\ pc' \in [Actor -> CallSteps \cup AdminSteps]
      /\ pc'[Admin] = "restore" /\ \A c \in Call : pc'[c] = pc[c] /\ pc[c] \in CallSteps
      /\ Busy' = Busy /\ LockRight'
  BY <1>2, <1>3, AdminGoes
<1>5. Len(Adapters) \in Nat /\ activations \in Nat /\ period \in Nat /\ Len(outbox) \in Nat /\ MaxOps \in Nat
  BY <1>1, LenProperties, AdaptersAssumption, Actors DEF HookTypes
<1>6. \/ op' = "activate" /\ activations' = activations + 1 /\ activations < MaxOps
      \/ op' = "deactivate" /\ activations' = activations /\ period < activations
  <2>1. CASE Activate
    <3>1. Cardinality({d \in Call : pc[d] # "idle"}) \in Nat
      BY <1>1, FS_CardinalityType DEF HookBounds, Busy
    <3>2. activations < MaxOps
      BY <1>5, <2>1, <3>1 DEF Activate, WithinBound
    <3> QED
      BY <2>1, <3>2 DEF Activate
  <2>2. CASE Deactivate
    BY <2>2 DEF Deactivate
  <2> QED
    BY <2>1, <2>2
<1>7. HookTypes'
  BY <1>1, <1>2, <1>4, <1>5, <1>6 DEF HookTypes, AdminSteps
<1>8. HookBounds'
  <2>1. CASE op' = "activate" /\ activations' = activations + 1 /\ activations < MaxOps
    <3>1. activations' * Len(Adapters) = activations * Len(Adapters) + Len(Adapters)
          /\ activations * Len(Adapters) \in Nat
      BY <1>5, <2>1, OneRoundMore
    <3>2. /\ Len(outbox') <= activations' * Len(Adapters)
          /\ Len(outbox') + Len(Adapters) <= activations' * Len(Adapters)
      BY <1>1, <1>2, <1>5, <3>1 DEF HookBounds
    <3>3. activations' <= MaxOps /\ period <= activations'
      BY <1>1, <1>5, <2>1 DEF HookBounds
    <3> QED
      BY <1>1, <1>2, <1>4, <2>1, <3>2, <3>3 DEF HookBounds, Asking, Unplugging
  <2>2. CASE op' = "deactivate" /\ activations' = activations /\ period < activations
    BY <1>1, <1>2, <1>4, <2>2 DEF HookBounds, Asking, Unplugging
  <2> QED
    BY <1>6, <2>1, <2>2
<1>9. Plugged'
  BY <1>1, <1>2, <1>4 DEF Plugged, Wired, Bare, InHand, Patching, Asking, Unplugging
<1> QED
  BY <1>4, <1>7, <1>8, <1>9 DEF HookInv

\* A hook is taken out.
LEMMA RestoreKeepsHooks ==
  ASSUME HookInv, Restore
  PROVE  HookInv'
<1>1. HookTypes /\ HookBounds /\ LockRight /\ Plugged
  BY DEF HookInv
<1>2. /\ UNCHANGED <<transport, ownSession, patchedList>> /\ UNCHANGED <<sharedId, idLock, made>>
      /\ UNCHANGED <<op, todo, activations, period, leftRunning>>
      /\ UNCHANGED <<outbox, worker, put, gone, late>> /\ UNCHANGED <<on, arg, id, early>>
      /\ pc[Admin] = "restore" /\ todo # <<>> /\ Go(Admin, "shutdown")
      /\ hooked' = hooked \ {Head(todo)}
  BY DEF Restore, wireVars, idVars, adminVars
<1>3. "shutdown" \in AdminSteps \ {"lock", "create"}
  BY DEF AdminSteps
<1>4. /\ pc' \in [Actor -> CallSteps \cup AdminSteps]
      /\ pc'[Admin] = "shutdown" /\ \A c \in Call : pc'[c] = pc[c] /\ pc[c] \in CallSteps
      /\ Busy' = Busy /\ LockRight'
  BY <1>2, <1>3, AdminGoes
<1>5. HookTypes'
  BY <1>1, <1>2, <1>3, <1>4 DEF HookTypes
<1>6. HookBounds'
  BY <1>1, <1>2, <1>4 DEF HookBounds, Asking, Unplugging
<1>7. Plugged'
  <2>1. /\ hooked = ToSet(todo) /\ hooked \subseteq ToSet(patchedList)
        /\ ToSet(todo) = {Head(todo)} \cup ToSet(Tail(todo)) /\ Head(todo) \notin ToSet(Tail(todo))
    BY <1>1, <1>2, HeadOff DEF Plugged, HookTypes
  <2>2. \A a : Wired(a)' <=> Wired(a)
    BY <1>2, <1>4, <2>1 DEF Wired, Bare, InHand, Unplugging, Asking
  <2>3. hooked' = ToSet(Tail(todo))
    BY <1>2, <2>1
  <2> QED
    BY <1>1, <1>2, <1>4, <2>1, <2>2, <2>3 DEF Plugged, Patching, Unplugging, Asking
<1> QED
  BY <1>4, <1>5, <1>6, <1>7 DEF HookInv

\* The transport of the adapter in hand is shut down: its queue gets a sentinel.
LEMMA ShutdownKeepsHooks ==
  ASSUME HookInv, Shutdown
  PROVE  HookInv'
<1>1. HookTypes /\ HookBounds /\ LockRight /\ Plugged
  BY DEF HookInv
<1>2. /\ UNCHANGED <<hooked, transport, ownSession, patchedList>> /\ UNCHANGED <<sharedId, idLock, made>>
      /\ UNCHANGED <<op, todo, activations, period, leftRunning>>
      /\ UNCHANGED <<worker, put, gone, late>> /\ UNCHANGED <<on, arg, id, early>>
      /\ pc[Admin] = "shutdown" /\ Go(Admin, "join")
  BY DEF Shutdown, hookVars, idVars, adminVars, callVars
<1>3. "join" \in AdminSteps \ {"lock", "create"}
  BY DEF AdminSteps
<1>4. /\ pc' \in [Actor -> CallSteps \cup AdminSteps]
      /\ pc'[Admin] = "join" /\ \A c \in Call : pc'[c] = pc[c] /\ pc[c] \in CallSteps
      /\ Busy' = Busy /\ LockRight'
  BY <1>2, <1>3, AdminGoes
<1>5. outbox' \in Seq(Seq(put \cup {Sentinel})) /\ Len(outbox') = Len(outbox)
  <2>1. PICK t : t = transport[Head(todo)]
    OBVIOUS
  <2>2. t \in 1..Len(outbox)
    <3>1. todo # <<>> /\ Head(todo) \in Adapter /\ Wired(Head(todo))
      BY <1>1, <1>2, HeadOff DEF Plugged, HookTypes, Wired, Bare, InHand, Unplugging
    <3>2. t # None /\ t \in 0..Len(outbox) /\ Len(outbox) \in Nat
      BY <1>1, <2>1, <3>1, LenProperties DEF Plugged, HookTypes
    <3> QED
      BY <3>2 DEF None
  <2>3. PICK q : q = Append(outbox[t], Sentinel)
    OBVIOUS
  <2>4. q \in Seq(put \cup {Sentinel})
    <3>1. outbox[t] \in Seq(put \cup {Sentinel}) /\ Sentinel \in put \cup {Sentinel}
      BY <1>1, <2>2, ElementOfSeq DEF HookTypes
    <3> QED
      BY <2>3, <3>1, Appended
  <2>5. outbox' = [outbox EXCEPT ![t] = q]
    BY <2>1, <2>3 DEF Shutdown
  <2> QED
    BY <1>1, <2>2, <2>4, <2>5, ExceptSeq DEF HookTypes
<1>6. HookTypes'
  BY <1>1, <1>2, <1>3, <1>4, <1>5 DEF HookTypes
<1>7. HookBounds'
  BY <1>1, <1>2, <1>4, <1>5 DEF HookBounds, Asking, Unplugging
<1>8. Plugged'
  <2>1. \A a : Wired(a)' <=> Wired(a)
    BY <1>2, <1>4 DEF Wired, Bare, InHand, Unplugging
  <2> QED
    BY <1>1, <1>2, <1>4, <2>1 DEF Plugged, Patching, Unplugging, Asking
<1> QED
  BY <1>4, <1>6, <1>7, <1>8 DEF HookInv

\* The adapter in hand loses its transport and its session.
LEMMA JoinKeepsHooks ==
  ASSUME HookInv, Join
  PROVE  HookInv'
<1>1. HookTypes /\ HookBounds /\ LockRight /\ Plugged
  BY DEF HookInv
<1>2. /\ UNCHANGED <<hooked, patchedList>> /\ UNCHANGED <<sharedId, idLock, made>>
      /\ UNCHANGED <<op, activations, period>> /\ todo' = Tail(todo)
      /\ UNCHANGED <<outbox, worker, put, gone, late>> /\ UNCHANGED <<on, arg, id, early>>
      /\ pc[Admin] = "join" /\ Go(Admin, "restore")
  BY DEF Join, wireVars, idVars, callVars
<1>3. "restore" \in AdminSteps \ {"lock", "create"}
  BY DEF AdminSteps
<1>4. /\ pc' \in [Actor -> CallSteps \cup AdminSteps]
      /\ pc'[Admin] = "restore" /\ \A c \in Call : pc'[c] = pc[c] /\ pc[c] \in CallSteps
      /\ Busy' = Busy /\ LockRight'
  BY <1>2, <1>3, AdminGoes
<1>5. PICK h : h = Head(todo)
  OBVIOUS
<1>6. /\ todo # <<>> /\ h \in Adapter /\ todo' \in Seq(Adapter) /\ h \notin hooked
      /\ IsInjective(todo') /\ hooked = ToSet(todo')
  BY <1>1, <1>2, <1>5, HeadOff DEF Plugged, HookTypes, Unplugging
<1>7. /\ transport' = [transport EXCEPT ![h] = None] /\ ownSession' = [ownSession EXCEPT ![h] = None]
  BY <1>5 DEF Join
<1>8. /\ transport' \in [Adapter -> 0..Len(outbox)] /\ ownSession' \in [Adapter -> 0..made]
      /\ \A a \in Adapter : transport'[a] = IF a = h THEN None ELSE transport[a]
  <2>1. None \in 0..Len(outbox) /\ None \in 0..made
    BY <1>1, LenProperties DEF HookTypes, None
  <2> QED
    BY <1>1, <1>6, <1>7, <2>1 DEF HookTypes
<1>12. leftRunning => leftRunning'
  BY DEF Join
<1>9. HookTypes'
  BY <1>1, <1>2, <1>3, <1>4, <1>6, <1>8 DEF HookTypes
<1>10. HookBounds'
  BY <1>1, <1>2, <1>4 DEF HookBounds, Asking, Unplugging
<1>11. Plugged'
  <2>1. \A a : Wired(a) <=> a \in hooked \/ a = h
    BY <1>2, <1>5 DEF Wired, Bare, InHand, Unplugging
  <2>2. \A a : Wired(a)' <=> a \in hooked
    BY <1>2, <1>4 DEF Wired, Bare, InHand, Unplugging, Asking
  <2>3. \A a \in Adapter : /\ Wired(a)' => transport'[a] # None
                           /\ transport'[a] # None => Wired(a)' \/ leftRunning'
    BY <1>1, <1>2, <1>6, <1>8, <1>12, <2>1, <2>2 DEF Plugged
  <2>4. \A a, b \in Adapter : a # b /\ transport'[a] = transport'[b] => transport'[a] = None
    BY <1>1, <1>8 DEF Plugged
  <2> QED
    BY <1>1, <1>2, <1>4, <1>6, <2>3, <2>4 DEF Plugged, Patching, Unplugging, Asking
<1> QED
  BY <1>4, <1>9, <1>10, <1>11 DEF HookInv

LEMMA UnappliedKeepsHooks ==
  ASSUME HookInv, Unapplied
  PROVE  HookInv'
<1>1. HookTypes /\ HookBounds /\ LockRight /\ Plugged
  BY DEF HookInv
<1>2. /\ UNCHANGED <<hooked, transport, ownSession>> /\ UNCHANGED <<sharedId, idLock, made>>
      /\ UNCHANGED <<op, activations, period, leftRunning>> /\ patchedList' = <<>>
      /\ UNCHANGED <<outbox, worker, put, gone, late>> /\ UNCHANGED <<on, arg, id, early>>
      /\ pc[Admin] = "restore" /\ todo = <<>>
  BY DEF Unapplied, wireVars, idVars, callVars
<1>3. hooked = {} /\ patchedList' \in Seq(Adapter) /\ IsInjective(patchedList') /\ ToSet(patchedList') = {}
  BY <1>1, <1>2 DEF Plugged, ToSet, IsInjective
<1>4. \A a : ~Wired(a)
  BY <1>2, <1>3 DEF Wired, InHand, Unplugging, Asking
<1>5. CASE op = "activate"
  <2>1. todo' = Adapters /\ Go(Admin, "open")
    BY <1>5 DEF Unapplied
  <2>2. "open" \in AdminSteps \ {"lock", "create"}
    BY DEF AdminSteps
  <2>3. /\ pc' \in [Actor -> CallSteps \cup AdminSteps]
        /\ pc'[Admin] = "open" /\ \A c \in Call : pc'[c] = pc[c] /\ pc[c] \in CallSteps
        /\ Busy' = Busy /\ LockRight'
    BY <1>2, <2>1, <2>2, AdminGoes
  <2>4. todo' \in Seq(Adapter) /\ IsInjective(todo')
    BY <2>1, AdaptersAssumption
  <2>5. HookTypes'
    BY <1>1, <1>2, <1>3, <2>2, <2>3, <2>4 DEF HookTypes
  <2>6. HookBounds'
    BY <1>1, <1>2, <1>5, <2>1, <2>3 DEF HookBounds, Asking, Unplugging
  <2>7. \A a : ~Wired(a)'
    BY <1>2, <1>3, <2>3 DEF Wired, InHand, Unplugging, Asking
  <2>8. Plugged'
    BY <1>1, <1>2, <1>3, <1>4, <2>3, <2>4, <2>7 DEF Plugged, Patching, Unplugging, Asking
  <2> QED
    BY <2>3, <2>5, <2>6, <2>8 DEF HookInv
<1>6. CASE op # "activate"
  <2>1. todo' = todo /\ Go(Admin, "reset")
    BY <1>6 DEF Unapplied
  <2>2. "reset" \in AdminSteps \ {"lock", "create"}
    BY DEF AdminSteps
  <2>3. /\ pc' \in [Actor -> CallSteps \cup AdminSteps]
        /\ pc'[Admin] = "reset" /\ \A c \in Call : pc'[c] = pc[c] /\ pc[c] \in CallSteps
        /\ Busy' = Busy /\ LockRight'
    BY <1>2, <2>1, <2>2, AdminGoes
  <2>4. HookTypes'
    BY <1>1, <1>2, <1>3, <2>1, <2>2, <2>3 DEF HookTypes
  <2>5. HookBounds'
    BY <1>1, <1>2, <1>6, <2>1, <2>3 DEF HookBounds, Asking, Unplugging
  <2>6. \A a : ~Wired(a)'
    BY <1>2, <1>3, <2>3 DEF Wired, InHand, Unplugging, Asking
  <2>7. Plugged'
    BY <1>1, <1>2, <1>3, <1>4, <2>1, <2>3, <2>6 DEF Plugged, Patching, Unplugging, Asking
  <2> QED
    BY <2>3, <2>4, <2>5, <2>7 DEF HookInv
<1> QED
  BY <1>5, <1>6

LEMMA ResetKeepsHooks ==
  ASSUME HookInv, Reset
  PROVE  HookInv'
<1>1. HookTypes /\ HookBounds /\ LockRight /\ Plugged /\ Nobody \notin Actor /\ Admin \in Actor
  BY Actors DEF HookInv, Actor
<1>2. /\ UNCHANGED <<hooked, transport, ownSession, patchedList>> /\ UNCHANGED <<idLock, made>>
      /\ UNCHANGED <<op, todo, activations, leftRunning>> /\ period' = period + 1 /\ sharedId' = None
      /\ UNCHANGED <<outbox, worker, put, gone, late>> /\ UNCHANGED <<on, arg, id, early>>
      /\ pc[Admin] = "reset" /\ idLock = Nobody /\ Go(Admin, "idle")
  BY DEF Reset, hookVars, wireVars, callVars
<1>3. "idle" \in AdminSteps
  BY DEF AdminSteps
<1>4. /\ pc' \in [Actor -> CallSteps \cup AdminSteps]
      /\ pc'[Admin] = "idle" /\ \A x \in Actor \ {Admin} : pc'[x] = pc[x]
  BY <1>1, <1>2, <1>3 DEF Go, HookTypes
<1>5. \A c \in Call : pc'[c] = pc[c] /\ pc[c] \in CallSteps
  BY <1>1, <1>4, Actors DEF HookTypes, Actor
<1>6. LockRight'
  BY <1>1, <1>2, <1>4 DEF LockRight
<1>7. HookTypes'
  <2>1. None \in 0..made /\ period + 1 \in Nat
    BY <1>1 DEF HookTypes, None
  <2> QED
    BY <1>1, <1>2, <1>3, <1>4, <1>5, <2>1 DEF HookTypes
<1>8. HookBounds'
  <2>1. Busy' = Busy
    BY <1>5 DEF Busy
  <2>2. period \in Nat /\ activations \in Nat /\ made \in Nat /\ period < activations /\ made <= period + 1
    BY <1>1, <1>2 DEF HookTypes, HookBounds
  <2>3. period' <= activations' /\ made' <= period' /\ made' <= period' + 1
    BY <1>2, <2>2
  <2> QED
    BY <1>1, <1>2, <1>4, <2>1, <2>3 DEF HookBounds, Asking, Unplugging
<1>9. Plugged'
  BY <1>1, <1>2, <1>4 DEF Plugged, Wired, Bare, InHand, Patching, Asking, Unplugging
<1> QED
  BY <1>6, <1>7, <1>8, <1>9 DEF HookInv

\* The first of the adapters to come gets a new transport ...
LEMMA OpenKeepsHooks ==
  ASSUME HookInv, Open \/ Connect
  PROVE  HookInv'
<1>1. HookTypes /\ HookBounds /\ LockRight /\ Plugged
  BY DEF HookInv
<1>2. PICK l \in {"look", "replace"} : Go(Admin, l)
  BY DEF Open, Connect
<1>3. /\ UNCHANGED <<hooked, ownSession, patchedList>> /\ UNCHANGED <<sharedId, idLock, made>>
      /\ UNCHANGED <<op, todo, activations, period, leftRunning>>
      /\ UNCHANGED <<put, gone, late>> /\ UNCHANGED <<on, arg, id, early>>
      /\ pc[Admin] \in {"open", "connect"} /\ todo # <<>> /\ leftRunning' = leftRunning
      /\ pc[Admin] = "open" => Head(todo) \notin HookFirst
  BY <1>1 DEF Open, Connect, NewTransport, Plugged, Patching, idVars, adminVars, callVars
<1>4. l \in AdminSteps \ {"lock", "create"} /\ l \in Asking /\ l \notin Unplugging
  BY DEF AdminSteps, Patching, Asking, Unplugging
<1>5. /\ pc' \in [Actor -> CallSteps \cup AdminSteps]
      /\ pc'[Admin] = l /\ \A c \in Call : pc'[c] = pc[c] /\ pc[c] \in CallSteps
      /\ Busy' = Busy /\ LockRight'
  BY <1>2, <1>3, <1>4, AdminGoes
<1>6. PICK h : h = Head(todo)
  OBVIOUS
<1>7. PICK k : k = Len(outbox) + 1
  OBVIOUS
<1>8. /\ outbox' = Append(outbox, <<>>) /\ worker' = Append(worker, "running")
      /\ transport' = [transport EXCEPT ![h] = k]
  BY <1>6, <1>7 DEF Open, Connect, NewTransport
<1>9. /\ outbox' \in Seq(Seq(put \cup {Sentinel})) /\ Len(outbox') = k
      /\ worker' \in Seq({"running", "done"}) /\ Len(worker') = k
      /\ Len(outbox) \in Nat /\ k \in Nat \ {0}
  <2>1. outbox \in Seq(Seq(put \cup {Sentinel})) /\ <<>> \in Seq(put \cup {Sentinel})
    BY <1>1 DEF HookTypes
  <2>2. worker \in Seq({"running", "done"}) /\ "running" \in {"running", "done"}
    BY <1>1 DEF HookTypes
  <2>3. outbox' \in Seq(Seq(put \cup {Sentinel})) /\ Len(outbox') = Len(outbox) + 1 /\ Len(outbox) \in Nat
    BY <1>8, <2>1, Appended
  <2>4. worker' \in Seq({"running", "done"}) /\ Len(worker') = Len(worker) + 1
    BY <1>8, <2>2, Appended
  <2> QED
    BY <1>1, <1>7, <2>3, <2>4 DEF HookTypes
<1>10. /\ h \in Adapter /\ h \in ToSet(todo) /\ h \notin ToSet(patchedList)
       /\ Len(todo) \in Nat \ {0}
  BY <1>1, <1>3, <1>6, HeadOff DEF Plugged, Patching, HookTypes
<1>11. /\ transport' \in [Adapter -> 0..k] /\ arg \in [Actor -> 0..k]
       /\ \A a \in Adapter : transport'[a] = IF a = h THEN k ELSE transport[a]
       /\ k # None /\ \A a \in Adapter : transport[a] # k
  <2>1. 0..Len(outbox) \subseteq 0..k /\ k \in 0..k /\ k \notin 0..Len(outbox) /\ k # None
    BY <1>7, <1>9 DEF None
  <2> QED
    BY <1>1, <1>8, <1>10, <2>1 DEF HookTypes
<1>12. HookTypes'
  BY <1>1, <1>3, <1>4, <1>5, <1>9, <1>11 DEF HookTypes
<1>13. HookBounds'
  <2>1. PICK n : n = activations * Len(Adapters)
    OBVIOUS
  <2>2. n \in Nat
    BY <1>1, <2>1, AdaptersAssumption, LenProperties DEF HookTypes
  <2>3. Len(outbox) + Len(todo) <= n
    BY <1>1, <1>3, <2>1 DEF HookBounds
  <2>4. k <= n /\ k + Len(todo) <= n + 1
    BY <1>7, <1>9, <1>10, <2>2, <2>3
  <2> QED
    BY <1>1, <1>3, <1>4, <1>5, <1>9, <2>1, <2>4 DEF HookBounds, Asking, Unplugging
<1>14. Plugged'
  <2>1. hooked = ToSet(patchedList) \cup ({h} \cap HookFirst)
    BY <1>1, <1>3, <1>6 DEF Plugged, Patching
  <2>2. \A a : (Wired(a) <=> a \in hooked /\ a # h) /\ (Wired(a)' <=> a \in hooked \/ a = h)
    BY <1>3, <1>4, <1>5, <1>6, <1>10, <2>1 DEF Wired, Bare, InHand, Unplugging, Asking
  <2>3. \A a \in Adapter : /\ Wired(a)' => transport'[a] # None
                           /\ transport'[a] # None => Wired(a)' \/ leftRunning'
    BY <1>1, <1>3, <1>11, <2>2 DEF Plugged
  <2>4. \A a, b \in Adapter : a # b /\ transport'[a] = transport'[b] => transport'[a] = None
    BY <1>1, <1>11 DEF Plugged
  <2>5. pc'[Admin] \notin {"idle", "open", "reset", "restore", "connect"} \cup Unplugging
    BY <1>4, <1>5 DEF Asking
  <2>6. /\ IsInjective(patchedList') /\ IsInjective(todo')
        /\ hooked' = ToSet(patchedList') \cup ({Head(todo')} \cap HookFirst)
        /\ ToSet(patchedList') \cap ToSet(todo') = {} /\ todo' # <<>>
    BY <1>1, <1>3, <1>6, <2>1 DEF Plugged, Patching
  <2> QED
    BY <2>3, <2>4, <2>5, <2>6 DEF Plugged
<1> QED
  BY <1>5, <1>12, <1>13, <1>14 DEF HookInv

\* ... for which autogen's hook does not wait.
LEMMA OpenHookKeepsHooks ==
  ASSUME HookInv, OpenHook
  PROVE  HookInv'
<1>1. HookTypes /\ HookBounds /\ LockRight /\ Plugged
  BY DEF HookInv
<1>2. PICK h : h = Head(todo)
  OBVIOUS
<1>3. /\ UNCHANGED <<transport, ownSession, patchedList>> /\ UNCHANGED <<sharedId, idLock, made>>
      /\ UNCHANGED <<op, todo, activations, period, leftRunning>>
      /\ UNCHANGED <<outbox, worker, put, gone, late>> /\ UNCHANGED <<on, arg, id, early>>
      /\ pc[Admin] = "open" /\ todo # <<>> /\ h \in HookFirst /\ Go(Admin, "connect")
      /\ hooked' = hooked \cup {h}
  BY <1>2 DEF OpenHook, wireVars, idVars, adminVars, callVars
<1>4. "connect" \in AdminSteps \ {"lock", "create"}
  BY DEF AdminSteps, Patching
<1>5. /\ pc' \in [Actor -> CallSteps \cup AdminSteps]
      /\ pc'[Admin] = "connect" /\ \A c \in Call : pc'[c] = pc[c] /\ pc[c] \in CallSteps
      /\ Busy' = Busy /\ LockRight'
  BY <1>3, <1>4, AdminGoes
<1>6. h \in Adapter /\ h \in ToSet(todo)
  BY <1>1, <1>2, <1>3, HeadOff DEF HookTypes
<1>7. hooked = ToSet(patchedList) /\ h \notin hooked
  BY <1>1, <1>3, <1>6 DEF Plugged
<1>8. HookTypes'
  BY <1>1, <1>3, <1>4, <1>5, <1>6 DEF HookTypes
<1>9. HookBounds'
  BY <1>1, <1>3, <1>5 DEF HookBounds, Asking, Unplugging
<1>10. Plugged'
  <2>1. \A a : Wired(a)' <=> Wired(a)
    BY <1>2, <1>3, <1>5, <1>7 DEF Wired, Bare, InHand, Unplugging, Asking
  <2> QED
    BY <1>1, <1>2, <1>3, <1>5, <1>7, <2>1 DEF Plugged, Patching, Unplugging, Asking
<1> QED
  BY <1>5, <1>8, <1>9, <1>10 DEF HookInv

\* patch() is over, with the hook or with an exception.
LEMMA ReplaceKeepsHooks ==
  ASSUME HookInv, Replace \/ PatchRaises
  PROVE  HookInv'
<1>1. HookTypes /\ HookBounds /\ LockRight /\ Plugged
  BY DEF HookInv
<1>2. PICK h : h = Head(todo)
  OBVIOUS
<1>3. /\ UNCHANGED transport /\ UNCHANGED <<sharedId, idLock, made>>
      /\ UNCHANGED <<op, activations, period>> /\ todo' = Tail(todo)
      /\ UNCHANGED <<outbox, worker, put, gone, late>> /\ UNCHANGED <<on, arg, id, early>>
      /\ pc[Admin] = "replace" /\ Go(Admin, "open")
      /\ \/ /\ hooked' = hooked \cup {h} /\ patchedList' = Append(patchedList, h)
            /\ leftRunning' = leftRunning
         \/ /\ hooked' = hooked /\ patchedList' = patchedList
            /\ h \notin HookFirst /\ leftRunning'
  BY <1>2 DEF Replace, PatchRaises, wireVars, idVars, callVars
<1>4. "open" \in AdminSteps \ {"lock", "create"} /\ "replace" \in Asking \cap Patching
  BY DEF AdminSteps, Patching, Asking
<1>5. /\ pc' \in [Actor -> CallSteps \cup AdminSteps]
      /\ pc'[Admin] = "open" /\ \A c \in Call : pc'[c] = pc[c] /\ pc[c] \in CallSteps
      /\ Busy' = Busy /\ LockRight'
  BY <1>3, <1>4, AdminGoes
<1>6. /\ todo # <<>> /\ h \in Adapter /\ todo' \in Seq(Adapter)
      /\ IsInjective(todo') /\ h \notin ToSet(todo') /\ ToSet(todo) = {h} \cup ToSet(todo')
      /\ Len(todo') = Len(todo) - 1 /\ Len(todo) \in Nat \ {0}
  BY <1>1, <1>2, <1>3, <1>4, HeadOff DEF Plugged, HookTypes
<1>7. hooked = ToSet(patchedList) \cup ({h} \cap HookFirst) /\ ToSet(patchedList) \cap ToSet(todo) = {}
  BY <1>1, <1>2, <1>3, <1>4 DEF Plugged
<1>8. /\ patchedList' \in Seq(Adapter) /\ IsInjective(patchedList')
      /\ hooked' = ToSet(patchedList') /\ ToSet(patchedList') \cap ToSet(todo') = {}
  <2>1. patchedList \in Seq(Adapter) /\ IsInjective(patchedList) /\ h \notin ToSet(patchedList)
    BY <1>1, <1>6, <1>7 DEF Plugged, HookTypes
  <2>2. /\ Append(patchedList, h) \in Seq(Adapter) /\ IsInjective(Append(patchedList, h))
        /\ ToSet(Append(patchedList, h)) = ToSet(patchedList) \cup {h}
    BY <1>6, <2>1, Appended
  <2> QED
    BY <1>3, <1>6, <1>7, <2>1, <2>2
<1>9. ownSession' \in [Adapter -> 0..made]
  <2>1. id[Admin] \in 0..made
    BY <1>1 DEF HookTypes, Actor
  <2> QED
    BY <1>1, <2>1 DEF Replace, PatchRaises, KeepSession, HookTypes
<1>10. HookTypes'
  BY <1>1, <1>3, <1>4, <1>5, <1>6, <1>8, <1>9 DEF HookTypes
<1>11. HookBounds'
  <2>1. PICK n : n = activations * Len(Adapters)
    OBVIOUS
  <2>2. n \in Nat /\ Len(outbox) \in Nat
    BY <1>1, <2>1, AdaptersAssumption, LenProperties DEF HookTypes
  <2>3. Len(outbox) + Len(todo) <= n + 1 /\ Len(outbox) <= n
    BY <1>1, <1>3, <1>4, <2>1 DEF HookBounds
  <2>4. Len(outbox) + Len(todo') <= n
    BY <1>6, <2>2, <2>3
  <2> QED
    BY <1>1, <1>3, <1>5, <2>1, <2>3, <2>4 DEF HookBounds, Asking, Unplugging
<1>12. Plugged'
  <2>1. \A a : Wired(a) <=> a \in hooked \/ a = h
    BY <1>2, <1>3, <1>4 DEF Wired, Bare, InHand
  <2>2. \A a : Wired(a)' <=> a \in hooked'
    BY <1>5 DEF Wired, Bare, InHand, Unplugging, Asking
  <2>3. \A a \in Adapter : /\ Wired(a)' => transport'[a] # None
                           /\ transport'[a] # None => Wired(a)' \/ leftRunning'
    BY <1>1, <1>3, <2>1, <2>2 DEF Plugged
  <2> QED
    BY <1>1, <1>3, <1>5, <1>6, <1>8, <2>3 DEF Plugged, Patching, Unplugging, Asking
<1> QED
  BY <1>5, <1>10, <1>11, <1>12 DEF HookInv

\* apply() passes an adapter by.
LEMMA PassOverKeepsHooks ==
  ASSUME HookInv, PassOver
  PROVE  HookInv'
<1>1. HookTypes /\ HookBounds /\ LockRight /\ Plugged
  BY DEF HookInv
<1>2. /\ UNCHANGED <<hooked, transport, ownSession, patchedList>> /\ UNCHANGED <<sharedId, idLock, made>>
      /\ UNCHANGED <<op, activations, period, leftRunning>> /\ todo' = Tail(todo)
      /\ UNCHANGED <<outbox, worker, put, gone, late>> /\ UNCHANGED <<on, arg, id, early>>
      /\ pc[Admin] = "open" /\ todo # <<>> /\ Go(Admin, "open")
  BY DEF PassOver, hookVars, wireVars, idVars, callVars
<1>3. "open" \in AdminSteps \ {"lock", "create"}
  BY DEF AdminSteps
<1>4. /\ pc' \in [Actor -> CallSteps \cup AdminSteps]
      /\ pc'[Admin] = "open" /\ \A c \in Call : pc'[c] = pc[c] /\ pc[c] \in CallSteps
      /\ Busy' = Busy /\ LockRight'
  BY <1>2, <1>3, AdminGoes
<1>5. /\ todo' \in Seq(Adapter) /\ IsInjective(todo') /\ ToSet(todo') \subseteq ToSet(todo)
      /\ Len(todo') = Len(todo) - 1 /\ Len(todo) \in Nat \ {0}
  BY <1>1, <1>2, HeadOff DEF Plugged, HookTypes
<1>6. HookTypes'
  BY <1>1, <1>2, <1>3, <1>4, <1>5 DEF HookTypes
<1>7. HookBounds'
  <2>1. PICK n : n = activations * Len(Adapters)
    OBVIOUS
  <2>2. n \in Nat /\ Len(outbox) \in Nat
    BY <1>1, <2>1, AdaptersAssumption, LenProperties DEF HookTypes
  <2>3. Len(outbox) + Len(todo) <= n
    BY <1>1, <1>2, <2>1 DEF HookBounds
  <2>4. Len(outbox) + Len(todo') <= n /\ Len(outbox) <= n
    BY <1>5, <2>2, <2>3
  <2> QED
    BY <1>1, <1>2, <1>4, <2>1, <2>4 DEF HookBounds, Asking, Unplugging
<1>8. Plugged'
  <2>1. \A a : Wired(a)' <=> Wired(a)
    BY <1>2, <1>4 DEF Wired, Bare, InHand, Unplugging, Asking
  <2> QED
    BY <1>1, <1>2, <1>4, <1>5, <2>1 DEF Plugged, Patching, Unplugging, Asking
<1> QED
  BY <1>4, <1>6, <1>7, <1>8 DEF HookInv

LEMMA AppliedKeepsHooks ==
  ASSUME HookInv, Applied
  PROVE  HookInv'
<1>1. HookTypes /\ HookBounds /\ LockRight /\ Plugged
  BY DEF HookInv
<1>2. /\ UNCHANGED <<hooked, transport, ownSession, patchedList>> /\ UNCHANGED <<sharedId, idLock, made>>
      /\ UNCHANGED <<op, todo, activations, period, leftRunning>>
      /\ UNCHANGED <<outbox, worker, put, gone, late>> /\ UNCHANGED <<on, arg, id, early>>
      /\ pc[Admin] = "open" /\ Go(Admin, "idle")
  BY DEF Applied, hookVars, wireVars, idVars, adminVars, callVars
<1>3. "idle" \in AdminSteps \ {"lock", "create"}
  BY DEF AdminSteps
<1>4. /\ pc' \in [Actor -> CallSteps \cup AdminSteps]
      /\ pc'[Admin] = "idle" /\ \A c \in Call : pc'[c] = pc[c] /\ pc[c] \in CallSteps
      /\ Busy' = Busy /\ LockRight'
  BY <1>2, <1>3, AdminGoes
<1>5. HookTypes'
  BY <1>1, <1>2, <1>3, <1>4 DEF HookTypes
<1>6. HookBounds'
  BY <1>1, <1>2, <1>4 DEF HookBounds, Asking, Unplugging
<1>7. Plugged'
  BY <1>1, <1>2, <1>4 DEF Plugged, Wired, Bare, InHand, Patching, Asking, Unplugging
<1> QED
  BY <1>4, <1>5, <1>6, <1>7 DEF HookInv

LEMMA HooksInit == PatchInit => HookInv
<1> SUFFICES ASSUME PatchInit PROVE HookInv
  OBVIOUS
<1>1. Adapters[1] \in Adapter
  <2>1. Len(Adapters) \in Nat /\ DOMAIN Adapters = 1..Len(Adapters) /\ Len(Adapters) # 0
    BY AdaptersAssumption, LenProperties, EmptySeq
  <2> QED
    BY <2>1 DEF Adapter, ToSet
<1>2. Len(outbox) = 0 /\ Len(worker) = 0 /\ Admin \in Actor
  BY DEF PatchInit, Actor
<1>3. HookTypes
  BY <1>1, <1>2 DEF PatchInit, HookTypes, None, CallSteps, AdminSteps, Actor
<1>4. HookBounds
  <2>1. Busy = {}
    BY DEF PatchInit, Busy, Actor
  <2>2. IsFiniteSet(Busy)
    BY <2>1, FS_EmptySet
  <2>3. pc[Admin] = "idle"
    BY DEF PatchInit, Actor
  <2>4. 0 * Len(Adapters) = 0
    BY AdaptersAssumption, LenProperties
  <2> QED
    BY <1>2, <2>2, <2>3, <2>4, Actors DEF PatchInit, HookBounds, Unplugging, Asking, None
<1>5. LockRight
  BY DEF PatchInit, LockRight, Actor
<1>6. Plugged
  <2>1. ToSet(<<>>) = {} /\ IsInjective(<<>>)
    BY DEF ToSet, IsInjective
  <2> QED
    BY <1>2, <2>1 DEF PatchInit, Plugged, Wired, Bare, InHand, Actor, Patching, Unplugging, Asking
<1> QED
  BY <1>3, <1>4, <1>5, <1>6 DEF HookInv

LEMMA StutterKeepsHooks ==
  ASSUME HookInv, UNCHANGED patchVars
  PROVE  HookInv'
<1>1. /\ UNCHANGED <<hooked, transport, ownSession, patchedList>> /\ UNCHANGED <<sharedId, idLock, made>>
      /\ UNCHANGED <<op, todo, activations, period, leftRunning>> /\ pc' = pc
      /\ UNCHANGED <<outbox, worker, put, gone, late>> /\ UNCHANGED <<on, arg, id, early>>
  BY DEF patchVars, hookVars, wireVars, idVars, adminVars, callVars
<1>2. HookTypes /\ HookBounds /\ LockRight /\ Plugged
  BY DEF HookInv
<1>3. HookTypes' /\ LockRight'
  BY <1>1, <1>2 DEF HookTypes, LockRight
<1>4. HookBounds'
  BY <1>1, <1>2 DEF HookBounds, Busy
<1>5. Plugged'
  <2>1. \A a : Wired(a)' <=> Wired(a)
    BY <1>1 DEF Wired, Bare, InHand
  <2> QED
    BY <1>1, <1>2, <2>1 DEF Plugged
<1> QED
  BY <1>3, <1>4, <1>5 DEF HookInv

LEMMA HooksKept ==
  ASSUME HookInv, [PatchNext]_patchVars
  PROVE  HookInv'
<1>1. ASSUME NEW c \in Call,
             \/ \E a \in Adapter : Begin(c, a)
             \/ CheckBefore(c) \/ SendBefore(c) \/ HostReturns(c) \/ HostRaises(c)
             \/ OriginalGone(c) \/ CheckAfter(c) \/ SendAfter(c)
      PROVE  HookInv'
  BY <1>1, CallsKeepHooks
<1>2. ASSUME NEW x \in Actor, Look(x) \/ Lock(x) \/ CreateSession(x) \/ ReturnId(x)
      PROVE  HookInv'
  BY <1>2, LookKeepsHooks, LockKeepsHooks, CreateKeepsHooks, ReturnKeepsHooks
<1>3. ASSUME Activate \/ Deactivate \/ Restore \/ Shutdown \/ Join
      PROVE  HookInv'
  BY <1>3, StartKeepsHooks, RestoreKeepsHooks, ShutdownKeepsHooks, JoinKeepsHooks
<1>4. ASSUME Unapplied \/ Reset \/ Applied
      PROVE  HookInv'
  BY <1>4, UnappliedKeepsHooks, ResetKeepsHooks, AppliedKeepsHooks
<1>5. ASSUME Open \/ OpenHook \/ Connect \/ Replace \/ PassOver \/ PatchRaises
      PROVE  HookInv'
  BY <1>5, OpenKeepsHooks, OpenHookKeepsHooks, ReplaceKeepsHooks, PassOverKeepsHooks
<1> QED
  BY <1>1, <1>2, <1>3, <1>4, <1>5, WorkKeepsHooks, StutterKeepsHooks DEF PatchNext

-----------------------------------------------------------------------------
(* Calls that nothing has overlapped *)

\* A step that takes no hook away keeps what such a call knows, the acting call apart.
LEMMA OthersUntouched ==
  ASSUME HookInv, RunInv, NEW x \in Actor, NEW l, Go(x, l),
         hooked \subseteq hooked', overlapped \subseteq overlapped',
         \A a \in hooked : transport[a] # None => transport'[a] # None,
         \A d \in Call \ {x} : on'[d] = on[d] /\ arg'[d] = arg[d]
  PROVE  \A d \in Call \ {x} : Untouched(d)'
<1>1. \A d \in Call \ {x} : pc'[d] = pc[d]
  BY Actors DEF HookInv, HookTypes, Go, Actor
<1> QED
  BY <1>1 DEF RunInv, Untouched

\* The step of an admin that takes no hook away.
LEMMA AdminHarmsNone ==
  ASSUME HookInv, RunInv, NEW l, Go(Admin, l), hooked \subseteq hooked',
         \A a \in hooked : transport[a] # None => transport'[a] # None,
         UNCHANGED <<on, overlapped, harmed>>, \A c \in Call : arg'[c] = arg[c]
  PROVE  RunInv'
<1>1. \A c \in Call : Untouched(c)'
  <2>1. Admin \in Actor /\ \A c \in Call : c \in Call \ {Admin}
    BY Actors DEF Actor
  <2> QED
    BY <2>1, OthersUntouched
<1> QED
  BY <1>1 DEF RunInv, HostUnharmed

\* A call that nothing overlapped finds a transport, unless its hook went in first.
LEMMA TransportThere ==
  ASSUME HookInv, RunInv, NEW c \in Call, c \notin overlapped, pc[c] \notin {"idle", "done"}
  PROVE  /\ on[c] \in hooked
         /\ pc[c] \in Sending \/ on[c] \notin HookFirst => transport[on[c]] # None
<1>1. on[c] \in hooked /\ on[c] \in Adapter /\ (pc[c] \in Sending => transport[on[c]] # None)
  BY DEF HookInv, HookTypes, RunInv, Untouched
<1>2. on[c] \notin HookFirst => Wired(on[c])
  BY <1>1 DEF HookInv, Plugged, Wired, Bare
<1> QED
  BY <1>1, <1>2 DEF HookInv, Plugged

LEMMA CallRuns ==
  ASSUME HookInv, RunInv, NEW c \in Call,
         \/ \E a \in Adapter : Begin(c, a)
         \/ CheckBefore(c) \/ SendBefore(c) \/ HostReturns(c) \/ HostRaises(c)
         \/ OriginalGone(c) \/ CheckAfter(c) \/ SendAfter(c)
  PROVE  RunInv'
<1>1. HookTypes /\ c \in Actor /\ overlapped \subseteq Call /\ harmed \subseteq overlapped
  BY DEF HookInv, Actor, RunInv, HostUnharmed
<1>2. PICK l : Go(c, l)
  BY DEF Begin, CheckBefore, SendBefore, Send, HostReturns, HostRaises, OriginalGone, CheckAfter, SendAfter
<1>3. /\ UNCHANGED <<hooked, transport, overlapped, arg>> /\ \A d \in Call \ {c} : on'[d] = on[d]
  BY <1>1 DEF Begin, CheckBefore, SendBefore, Send, HostReturns, HostRaises, OriginalGone, CheckAfter,
              SendAfter, hookVars, callVars, HookTypes
<1>4. \A d \in Call \ {c} : Untouched(d)'
  BY <1>1, <1>2, <1>3, OthersUntouched
<1>5. pc'[c] = l
  BY <1>1, <1>2 DEF Go, HookTypes
<1>6. CASE \E a \in Adapter : Begin(c, a)
  <2>1. PICK a \in Adapter : Begin(c, a)
    BY <1>6
  <2>2. /\ on'[c] = a /\ a \in hooked /\ harmed' = harmed /\ pc'[c] = "check1"
    BY <1>1, <2>1 DEF Begin, Go, HookTypes
  <2>3. Untouched(c)'
    BY <1>3, <2>2 DEF Untouched, Sending
  <2> QED
    BY <1>1, <1>3, <1>4, <2>2, <2>3 DEF RunInv, HostUnharmed
<1>7. CASE ~\E a \in Adapter : Begin(c, a)
  <2>1. /\ on' = on /\ pc[c] \notin {"idle", "done"} /\ pc[c] \notin {"lock", "create"}
        /\ pc'[c] \notin {"lock", "create"}
    BY <1>1, <1>7 DEF CheckBefore, SendBefore, Send, HostReturns, HostRaises, OriginalGone, CheckAfter,
              SendAfter, Go, callVars, HookTypes, AfterHost
  <2>2. Untouched(c)'
    <3> SUFFICES ASSUME c \notin overlapped
                 PROVE  on[c] \in hooked /\ (pc'[c] \in Sending => transport[on[c]] # None)
      BY <1>3, <2>1 DEF Untouched
    <3>1. /\ on[c] \in hooked
          /\ pc[c] \in Sending \/ on[c] \notin HookFirst => transport[on[c]] # None
      BY <2>1, TransportThere
    <3>2. on[c] \notin AgentAdapter => on[c] \notin HookFirst
      BY AdaptersAssumption
    <3>3. CASE CheckBefore(c) \/ CheckAfter(c)
      BY <1>1, <3>1, <3>3 DEF CheckBefore, CheckAfter, Go, HookTypes, Sending
    <3>4. CASE SendBefore(c) \/ SendAfter(c)
      BY <1>1, <3>1, <3>4 DEF SendBefore, SendAfter, Send, Go, HookTypes, Sending
    <3>5. CASE HostReturns(c)
      BY <1>1, <3>1, <3>2, <3>5 DEF HostReturns, AfterHost, Go, HookTypes, Sending
    <3>6. CASE HostRaises(c) \/ OriginalGone(c)
      BY <1>1, <3>1, <3>6 DEF HostRaises, OriginalGone, Go, HookTypes, Sending
    <3> QED
      BY <1>7, <3>3, <3>4, <3>5, <3>6
  <2>3. harmed' \subseteq overlapped
    <3>1. CASE c \in overlapped
      BY <1>1, <1>7, <3>1 DEF CheckBefore, SendBefore, Send, HostReturns, HostRaises, OriginalGone,
              CheckAfter, SendAfter, callVars
    <3>2. CASE c \notin overlapped
      <4>1. on[c] \in hooked /\ (pc[c] \in {"send1", "send2"} => transport[on[c]] # None)
        BY <2>1, <3>2, TransportThere DEF Sending
      <4> QED
        BY <1>1, <1>7, <4>1 DEF CheckBefore, SendBefore, Send, HostReturns, HostRaises, OriginalGone,
              CheckAfter, SendAfter, callVars
    <3> QED
      BY <3>1, <3>2
  <2> QED
    BY <1>1, <1>3, <1>4, <2>2, <2>3 DEF RunInv, HostUnharmed
<1> QED
  BY <1>6, <1>7

LEMMA AskingRuns ==
  ASSUME HookInv, RunInv, NEW x \in Actor,
         Look(x) \/ Lock(x) \/ CreateSession(x) \/ ReturnId(x)
  PROVE  RunInv'
<1>1. HookTypes /\ LockRight /\ overlapped \subseteq Call /\ harmed \subseteq overlapped
  BY DEF HookInv, RunInv, HostUnharmed
<1>2. PICK l : Go(x, l)
  BY DEF Look, Lock, CreateSession, ReturnId
<1>3. /\ UNCHANGED <<hooked, transport, overlapped, on>> /\ \A d \in Call \ {x} : arg'[d] = arg[d]
      /\ pc[x] \in {"look", "lock", "create", "return"}
  BY <1>1 DEF Look, Lock, CreateSession, ReturnId, hookVars, HookTypes, Actor
<1>4. \A d \in Call \ {x} : Untouched(d)'
  BY <1>1, <1>2, <1>3, OthersUntouched
<1>5. CASE x = Admin
  <2>1. \A c \in Call : Untouched(c)'
    BY <1>4, <1>5, Actors
  <2>2. harmed' = harmed
    BY <1>1, <1>5 DEF Look, Lock, CreateSession, ReturnId, LockRight
  <2> QED
    BY <1>1, <1>3, <2>1, <2>2 DEF RunInv, HostUnharmed
<1>6. CASE x # Admin
  <2>1. x \in Call
    BY <1>6 DEF Actor
  <2>2. harmed' \subseteq overlapped
    <3>1. x \notin overlapped /\ pc[x] = "create" => arg[x] # None
      BY <2>1 DEF RunInv, Untouched
    <3> QED
      BY <1>1, <3>1 DEF Look, Lock, CreateSession, ReturnId
  <2>3. Untouched(x)'
    <3> SUFFICES ASSUME x \notin overlapped
                 PROVE  /\ on[x] \in hooked /\ transport[on[x]] # None
                        /\ pc'[x] \in {"lock", "create"} => arg'[x] # None
      BY <1>3 DEF Untouched
    <3>1. on[x] \in hooked /\ transport[on[x]] # None
      BY <1>3, <2>1, TransportThere DEF Sending
    <3>2. pc'[x] \in {"lock", "create"} => arg'[x] # None
      <4>1. CASE Look(x)
        BY <1>1, <1>6, <3>1, <4>1 DEF Look, HookTypes
      <4>2. CASE Lock(x)
        <5>1. arg'[x] = arg[x] /\ pc[x] = "lock"
          BY <4>2 DEF Lock
        <5> QED
          BY <2>1, <5>1 DEF RunInv, Untouched
      <4>3. CASE CreateSession(x) \/ ReturnId(x)
        <5>1. pc'[x] \in {"done", "return", AfterId(x)}
          BY <1>1, <4>3 DEF CreateSession, ReturnId, Go, HookTypes
        <5> QED
          BY <5>1, AfterIdStep
      <4> QED
        BY <4>1, <4>2, <4>3
    <3> QED
      BY <1>3, <3>1, <3>2
  <2>4. \A c \in Call : Untouched(c)'
    BY <1>4, <2>3
  <2> QED
    BY <1>1, <1>3, <2>2, <2>4 DEF RunInv, HostUnharmed
<1> QED
  BY <1>5, <1>6

LEMMA RunsKept ==
  ASSUME HookInv, RunInv, [PatchNext]_patchVars
  PROVE  RunInv'
<1>1. ASSUME NEW t \in DOMAIN outbox, Work(t)
      PROVE  RunInv'
  BY <1>1 DEF Work, hookVars, callVars, RunInv, HostUnharmed, Untouched
<1>2. CASE \/ Activate \/ Deactivate \/ Shutdown \/ Unapplied \/ Reset
           \/ OpenHook \/ Replace \/ PassOver \/ PatchRaises \/ Applied
  <2>1. PICK l : Go(Admin, l)
    BY <1>2 DEF Activate, Deactivate, Shutdown, Unapplied, Reset, OpenHook, Replace, PassOver,
                PatchRaises, Applied
  <2>2. hooked \subseteq hooked' /\ UNCHANGED <<transport, arg, on, overlapped, harmed>>
    BY <1>2 DEF Activate, Deactivate, Shutdown, Unapplied, Reset, OpenHook, Replace, PassOver,
                PatchRaises, Applied, hookVars, callVars
  <2> QED
    BY <2>1, <2>2, AdminHarmsNone
<1>3. CASE Join \/ Open \/ Connect
  <2>1. PICK l : Go(Admin, l)
    BY <1>3 DEF Join, Open, Connect
  <2>2. hooked' = hooked /\ UNCHANGED <<arg, on, overlapped, harmed>>
    BY <1>3 DEF Join, Open, Connect, callVars
  <2>3. \A a \in hooked : transport[a] # None => transport'[a] # None
    <3>1. HookTypes /\ Plugged /\ Len(outbox) \in Nat
      BY LenProperties DEF HookInv, HookTypes
    <3>2. CASE Join
      <4>1. Head(todo) \notin hooked /\ transport' = [transport EXCEPT ![Head(todo)] = None]
        BY <3>1, <3>2 DEF Join, Plugged, Unplugging
      <4> QED
        BY <3>1, <4>1 DEF HookTypes
    <3>3. CASE Open \/ Connect
      <4>1. transport' = [transport EXCEPT ![Head(todo)] = Len(outbox) + 1]
        BY <3>3 DEF Open, Connect, NewTransport
      <4>2. Len(outbox) + 1 # None
        BY <3>1 DEF None
      <4> QED
        BY <3>1, <4>1, <4>2 DEF HookTypes
    <3> QED
      BY <1>3, <3>2, <3>3
  <2> QED
    BY <2>1, <2>2, <2>3, AdminHarmsNone
<1>4. CASE Restore
  <2>1. /\ hooked' = hooked \ {Head(todo)} /\ overlapped' = overlapped \cup Calling(Head(todo))
        /\ UNCHANGED <<transport, on, arg, harmed>> /\ Go(Admin, "shutdown")
    BY <1>4 DEF Restore
  <2>2. \A c \in Call : pc'[c] = pc[c]
    BY <2>1, Actors DEF HookInv, HookTypes, Go, Actor
  <2>3. overlapped \subseteq overlapped' /\ overlapped' \subseteq Call
    BY <2>1 DEF RunInv, Calling
  <2>4. ASSUME NEW c \in Call
        PROVE  Untouched(c)'
    <3> SUFFICES ASSUME c \notin overlapped', pc[c] \notin {"idle", "done"}
                 PROVE  /\ on[c] \in hooked'
                        /\ pc[c] \in Sending => transport[on[c]] # None
                        /\ pc[c] \in {"lock", "create"} => arg[c] # None
      BY <2>1, <2>2 DEF Untouched
    <3>1. Untouched(c) /\ c \notin overlapped
      BY <2>3 DEF RunInv
    <3>2. on[c] # Head(todo)
      BY <2>1 DEF Calling
    <3> QED
      BY <2>1, <3>1, <3>2 DEF Untouched
  <2> QED
    BY <2>1, <2>3, <2>4 DEF RunInv, HostUnharmed
<1>5. CASE UNCHANGED patchVars
  <2>1. UNCHANGED <<hooked, transport, on, arg, overlapped, harmed, pc>>
    BY <1>5 DEF patchVars, hookVars, callVars
  <2>2. \A c \in Call : Untouched(c)'
    BY <2>1 DEF RunInv, Untouched
  <2> QED
    BY <2>1, <2>2 DEF RunInv, HostUnharmed
<1> QED
  BY <1>1, <1>2, <1>3, <1>4, <1>5, CallRuns, AskingRuns DEF PatchNext

LEMMA RunsInit == PatchInit => RunInv
BY DEF PatchInit, RunInv, HostUnharmed, Untouched, Actor

\* "any exception during event emission is logged but does not propagate": a call
\* fails because it is traced only if its hook was taken away under it.
THEOREM TracingHarmsNobody == PatchSpec => []HostUnharmed
<1>1. PatchInit => HookInv /\ RunInv
  BY HooksInit, RunsInit
<1>2. HookInv /\ RunInv /\ [PatchNext]_patchVars => HookInv' /\ RunInv'
  BY HooksKept, RunsKept
<1>3. RunInv => HostUnharmed
  BY DEF RunInv
<1> QED
  BY <1>1, <1>2, <1>3, PTL DEF PatchSpec

-----------------------------------------------------------------------------
(* One session *)

\* What a step that touches neither the shared session nor the events keeps.
LEMMA AskersKeep ==
  ASSUME HookInv, SessionInv, NEW x \in Actor, NEW l, Go(x, l),
         UNCHANGED sharedId, overlapped \subseteq overlapped', early \subseteq early',
         \A d \in Call \ {x} : on'[d] = on[d] /\ id'[d] = id[d]
  PROVE  \A d \in Call \ {x} : SameSession(d)'
<1>1. \A d \in Call \ {x} : pc'[d] = pc[d]
  BY Actors DEF HookInv, HookTypes, Go, Actor
<1> QED
  BY <1>1 DEF SessionInv, SameSession

LEMMA EventsKeep ==
  ASSUME SessionInv, UNCHANGED <<put, sharedId, period>>,
         overlapped \subseteq overlapped', early \subseteq early'
  PROVE  EventSessions'
BY DEF SessionInv, EventSessions

LEMMA CallSameSession ==
  ASSUME HookInv, RunInv, SessionInv, NEW c \in Call,
         \/ \E a \in Adapter : Begin(c, a)
         \/ CheckBefore(c) \/ HostReturns(c) \/ HostRaises(c) \/ OriginalGone(c) \/ CheckAfter(c)
  PROVE  SessionInv'
<1>1. HookTypes /\ Plugged /\ c \in Actor /\ c # Admin /\ Admin \in Actor
  BY Actors DEF HookInv, Actor
<1>2. PICK l : Go(c, l)
  BY DEF Begin, CheckBefore, HostReturns, HostRaises, OriginalGone, CheckAfter
<1>3. /\ UNCHANGED <<hooked, ownSession, patchedList, sharedId, todo, put, period, overlapped>>
      /\ early \subseteq early'
      /\ \A d \in Call \ {c} : on'[d] = on[d] /\ id'[d] = id[d]
      /\ id'[Admin] = id[Admin]
  BY <1>1 DEF Begin, CheckBefore, HostReturns, HostRaises, OriginalGone, CheckAfter, hookVars,
              wireVars, idVars, adminVars, callVars, HookTypes, Actor
<1>4. pc'[Admin] = pc[Admin] /\ pc'[c] = l
  BY <1>1, <1>2 DEF Go, HookTypes
<1>5. \A d \in Call \ {c} : SameSession(d)'
  BY <1>1, <1>2, <1>3, AskersKeep
<1>6. SameSession(c)'
  <2>1. SameSession(c)
    BY DEF SessionInv
  <2>2. CASE \E a \in Adapter : Begin(c, a)
    <3>1. PICK a \in Adapter : Begin(c, a)
      BY <2>2
    <3>2. /\ on'[c] = a /\ a \in hooked /\ l = "check1"
          /\ a \in AgentAdapter => id'[c] = ownSession[a]
          /\ a \notin ToSet(patchedList) => c \in early'
      BY <1>1, <1>4, <3>1 DEF Begin, HookTypes, Go
    <3>3. a \in AgentAdapter => \/ ownSession[a] = sharedId /\ sharedId # None
                                \/ ownSession[a] = None /\ c \in early'
      <4>1. CASE a \in ToSet(patchedList)
        <5>1. a \in hooked \cap ToSet(patchedList)
          BY <3>2, <4>1
        <5>2. a \in AgentAdapter => ownSession[a] = sharedId /\ sharedId # None
          BY <5>1 DEF SessionInv, OwnSessions
        <5> QED
          BY <5>2
      <4>2. CASE a \notin ToSet(patchedList)
        <5>1. pc[Admin] \in Patching /\ a \in HookFirst
          BY <1>1, <3>2, <4>2 DEF Plugged, HookTypes, AdminSteps, Unplugging
        <5>2. pc[Admin] \notin Unplugging
          BY <5>1 DEF Patching, Asking, Unplugging
        <5> QED
          BY <3>2, <4>2, <5>1, <5>2 DEF SessionInv, OwnSessions
      <4> QED
        BY <4>1, <4>2
    <3> QED
      BY <1>3, <1>4, <3>2, <3>3 DEF SameSession
  <2>3. CASE CheckBefore(c)
    <3>1. /\ pc[c] = "check1" /\ UNCHANGED <<on, id>>
          /\ l = IF transport[on[c]] = None THEN "host"
                 ELSE IF on[c] \in AgentAdapter THEN "send1" ELSE "look"
      BY <1>1, <1>4, <2>3 DEF CheckBefore, callVars, Go, HookTypes
    <3>2. c \in overlapped \/ transport[on[c]] # None \/ on[c] \in AgentAdapter
      BY <3>1, TransportThere, AdaptersAssumption
    <3> QED
      BY <1>3, <1>4, <2>1, <3>1, <3>2 DEF SameSession
  <2>4. CASE HostReturns(c) \/ HostRaises(c) \/ OriginalGone(c)
    <3>1. pc[c] = "host" /\ l \in {"check2", "send2", "done"} /\ UNCHANGED <<on, id>>
      BY <1>1, <1>4, <2>4 DEF HostReturns, HostRaises, OriginalGone, AfterHost, callVars, Go, HookTypes
    <3> QED
      BY <1>3, <1>4, <2>1, <3>1 DEF SameSession
  <2>5. CASE CheckAfter(c)
    <3>1. pc[c] = "check2" /\ l \in {"send2", "done"} /\ UNCHANGED <<on, id>>
      BY <1>1, <1>4, <2>5 DEF CheckAfter, callVars, Go, HookTypes
    <3> QED
      BY <1>3, <1>4, <2>1, <3>1 DEF SameSession
  <2> QED
    BY <2>2, <2>3, <2>4, <2>5
<1>7. \A d \in Call : SameSession(d)'
  BY <1>5, <1>6
<1>8. OwnSessions' /\ EventSessions'
  BY <1>3, <1>4, EventsKeep DEF SessionInv, OwnSessions
<1> QED
  BY <1>3, <1>4, <1>7, <1>8 DEF SessionInv

LEMMA SendSameSession ==
  ASSUME HookInv, RunInv, SessionInv, NEW c \in Call, NEW kind, NEW l \in {"host", "done"},
         pc[c] \in {"send1", "send2"}, Send(c, kind, l)
  PROVE  SessionInv'
<1>1. HookTypes /\ c \in Actor /\ c # Admin /\ SameSession(c)
  BY Actors DEF HookInv, Actor, SessionInv
<1>2. PICK t, e : /\ t = transport[on[c]]
                  /\ e = [call |-> c, kind |-> kind, session |-> id[c], period |-> period]
  OBVIOUS
<1>3. /\ UNCHANGED <<hooked, ownSession, patchedList, sharedId, todo, period, overlapped>>
      /\ UNCHANGED <<on, id, early>>
      /\ put' = put \/ put' = put \cup {e}
  BY <1>2 DEF Send, hookVars, idVars, adminVars, wireVars
<1>4. PICK m : Go(c, m) /\ m \in {"host", "done"}
  BY DEF Send
<1>5. pc'[Admin] = pc[Admin] /\ pc'[c] = m
  BY <1>1, <1>4 DEF Go, HookTypes
<1>6. \A d \in Call : SameSession(d)'
  <2>1. \A d \in Call \ {c} : SameSession(d)'
    BY <1>1, <1>3, <1>4, AskersKeep
  <2>2. SameSession(c)'
    BY <1>1, <1>3, <1>4, <1>5 DEF SameSession
  <2> QED
    BY <2>1, <2>2
<1>7. /\ e.call = c /\ e.session = id[c] /\ e.period = period
      /\ c \notin overlapped => \/ id[c] = sharedId /\ sharedId # None
                                \/ id[c] = None /\ c \in early
  <2>1. e.call = c /\ e.session = id[c] /\ e.period = period
    BY <1>2
  <2>2. c \notin overlapped => \/ id[c] = sharedId /\ sharedId # None
                               \/ id[c] = None /\ c \in early
    BY <1>1 DEF SameSession
  <2> QED
    BY <2>1, <2>2
<1>8. \A n \in put' : n.period <= period
  <2>1. period <= period
    BY <1>1 DEF HookTypes
  <2> QED
    BY <1>3, <1>7, <2>1 DEF SessionInv, EventSessions
<1>9. \A n \in put' : n.call \notin overlapped /\ n.period = period =>
        \/ n.session = sharedId /\ sharedId # None
        \/ n.session = None /\ n.call \in early
  BY <1>3, <1>7 DEF SessionInv, EventSessions
<1>10. \A n, o \in put' :
         n.period = o.period /\ n.call \notin overlapped /\ o.call \notin overlapped =>
           /\ n.session = None => n.call \in early
           /\ n.session # None /\ o.session # None => n.session = o.session
  <2> SUFFICES ASSUME NEW n \in put', NEW o \in put', n.period = o.period,
                      n.call \notin overlapped, o.call \notin overlapped
               PROVE  /\ n.session = None => n.call \in early
                      /\ n.session # None /\ o.session # None => n.session = o.session
    OBVIOUS
  <2>1. CASE n.period = period
    BY <1>9, <2>1
  <2>2. CASE n.period # period
    <3>1. n \in put /\ o \in put
      BY <1>3, <1>7, <2>2
    <3> QED
      BY <3>1 DEF SessionInv, EventSessions
  <2> QED
    BY <2>1, <2>2
<1>11. OwnSessions' /\ EventSessions'
  BY <1>3, <1>5, <1>8, <1>9, <1>10 DEF SessionInv, OwnSessions, EventSessions
<1> QED
  BY <1>3, <1>5, <1>6, <1>11 DEF SessionInv

LEMMA AskingSameSession ==
  ASSUME HookInv, RunInv, SessionInv, NEW x \in Actor,
         Look(x) \/ Lock(x) \/ ReturnId(x)
  PROVE  SessionInv'
<1>1. HookTypes /\ Admin \in Actor /\ Admin \notin Call /\ Call \subseteq Actor
  BY Actors DEF HookInv, Actor
<1>2. PICK l : Go(x, l)
  BY DEF Look, Lock, ReturnId
<1>3. /\ UNCHANGED <<hooked, ownSession, patchedList, sharedId, todo, put, period, overlapped, on, early>>
      /\ \A y \in Actor \ {x} : id'[y] = id[y]
      /\ pc[x] \in Asking
  BY <1>1 DEF Look, Lock, ReturnId, hookVars, wireVars, idVars, adminVars, HookTypes, Asking
<1>4. pc'[x] = l /\ \A y \in Actor \ {x} : pc'[y] = pc[y]
  BY <1>1, <1>2 DEF Go, HookTypes
<1>5. \A d \in Call \ {x} : SameSession(d)'
  BY <1>1, <1>2, <1>3, AskersKeep
<1>6. /\ l \in {"return", AfterId(x)} => sharedId # None \/ x \in overlapped
      /\ l = AfterId(x) => id'[x] = sharedId
      /\ l \in {"return", "lock", "create", AfterId(x)}
  <2>1. CASE Look(x)
    <3>1. pc'[x] \in {"return", "lock"} /\ (pc'[x] = "return" => sharedId # None)
      BY <1>1, <2>1 DEF Look, Go, HookTypes
    <3>2. AfterId(x) \in {"replace", "send1"}
      BY DEF AfterId
    <3> QED
      BY <1>4, <3>1, <3>2
  <2>2. CASE Lock(x)
    <3>1. \/ sharedId # None /\ pc'[x] = AfterId(x) /\ id'[x] = sharedId
          \/ sharedId = None /\ pc'[x] = "create"
      BY <1>1, <2>2 DEF Lock, Go, HookTypes
    <3>2. AfterId(x) \in {"replace", "send1"}
      BY DEF AfterId
    <3> QED
      BY <1>4, <3>1, <3>2
  <2>3. CASE ReturnId(x)
    <3>1. pc[x] = "return" /\ pc'[x] = AfterId(x) /\ id'[x] = sharedId
      BY <1>1, <2>3 DEF ReturnId, Go, HookTypes
    <3>2. AfterId(x) \in {"replace", "send1"}
      BY DEF AfterId
    <3>3. x \in overlapped \/ sharedId # None
      BY <1>1, <3>1 DEF SessionInv, SameSession, Actor
    <3> QED
      BY <1>4, <3>1, <3>2, <3>3
  <2> QED
    BY <2>1, <2>2, <2>3
<1>7. \A d \in Call : SameSession(d)'
  <2>1. ASSUME x \in Call
        PROVE  SameSession(x)'
    <3>1. AfterId(x) = "send1"
      BY <1>1, <2>1 DEF AfterId
    <3> QED
      BY <1>3, <1>4, <1>6, <3>1 DEF SameSession
  <2> QED
    BY <1>5, <2>1
<1>8. /\ pc'[Admin] = "return" => sharedId' # None
      /\ pc'[Admin] = "replace" /\ Head(todo') \in AgentAdapter =>
           id'[Admin] = sharedId' /\ sharedId' # None
  <2>1. CASE x = Admin
    <3>1. AfterId(x) = "replace"
      BY <2>1 DEF AfterId
    <3>2. x \notin overlapped
      BY <1>1, <2>1 DEF RunInv
    <3> QED
      BY <1>3, <1>4, <1>6, <2>1, <3>1, <3>2
  <2>2. CASE x # Admin
    BY <1>1, <1>3, <1>4, <2>2 DEF SessionInv
  <2> QED
    BY <2>1, <2>2
<1>9. OwnSessions' /\ EventSessions'
  <2>1. pc[Admin] \in Unplugging => pc'[Admin] = pc[Admin]
    BY <1>1, <1>3, <1>4 DEF Asking, Unplugging
  <2> QED
    BY <1>3, <2>1, EventsKeep DEF SessionInv, OwnSessions
<1> QED
  BY <1>7, <1>8, <1>9 DEF SessionInv

\* A session is made while there is none: so nobody had one to keep.
LEMMA CreateSameSession ==
  ASSUME HookInv, RunInv, SessionInv, NEW x \in Actor, CreateSession(x)
  PROVE  SessionInv'
<1>1. /\ HookTypes /\ LockRight /\ Admin \in Actor /\ Admin \notin Call /\ Call \subseteq Actor
      /\ Nobody \notin Actor
  BY Actors DEF HookInv, Actor
<1>2. /\ UNCHANGED <<hooked, ownSession, patchedList, todo, put, period, overlapped, on, id, early>>
      /\ pc[x] = "create"
  BY DEF CreateSession, hookVars, wireVars, adminVars
<1>3. sharedId = None
  BY <1>1, <1>2 DEF LockRight
<1>4. PICK l \in {"done", "return"} :
        /\ Go(x, l)
        /\ l = "done" => sharedId' = sharedId /\ x # Admin
        /\ l = "return" => sharedId' # None
  <2>1. CASE arg[x] = None
    BY <1>1, <1>2, <2>1 DEF CreateSession, LockRight
  <2>2. CASE arg[x] # None
    <3>1. Go(x, "return") /\ sharedId' = made + 1 /\ made \in Nat
      BY <1>1, <2>2 DEF CreateSession, HookTypes
    <3>2. sharedId' # None
      BY <3>1 DEF None
    <3> QED
      BY <3>1, <3>2
  <2> QED
    BY <2>1, <2>2
<1>5. pc'[x] = l /\ \A y \in Actor \ {x} : pc'[y] = pc[y]
  BY <1>1, <1>4 DEF Go, HookTypes
<1>6. \A d \in Call : SameSession(d)'
  <2>1. ASSUME NEW d \in Call, d \notin overlapped
        PROVE  SameSession(d)'
    <3>1. SameSession(d) /\ d \in Actor
      BY <1>1 DEF SessionInv
    <3>2. CASE d = x
      BY <1>4, <1>5, <3>2 DEF SameSession
    <3>3. CASE d # x
      BY <1>2, <1>3, <1>5, <2>1, <3>1, <3>3 DEF SameSession
    <3> QED
      BY <3>2, <3>3
  <2> QED
    BY <1>2, <2>1 DEF SameSession
<1>7. /\ pc'[Admin] = "return" => sharedId' # None
      /\ ~(pc'[Admin] = "replace" /\ Head(todo') \in AgentAdapter)
  BY <1>1, <1>2, <1>3, <1>4, <1>5 DEF SessionInv
<1>8. OwnSessions'
  <2>1. pc[Admin] \in Unplugging => pc'[Admin] = pc[Admin]
    BY <1>1, <1>2, <1>5 DEF Unplugging
  <2> QED
    BY <1>2, <1>3, <2>1 DEF SessionInv, OwnSessions
<1>9. EventSessions'
  BY <1>2, <1>3 DEF SessionInv, EventSessions
<1> QED
  BY <1>6, <1>7, <1>8, <1>9 DEF SessionInv

\* The session is reset when no hook is left, and so no call that has one.
LEMMA ResetSameSession ==
  ASSUME HookInv, RunInv, SessionInv, Reset
  PROVE  SessionInv'
<1>1. /\ HookTypes /\ Plugged /\ Admin \in Actor /\ Admin \notin Call /\ Call \subseteq Actor
  BY Actors DEF HookInv, Actor
<1>2. /\ UNCHANGED <<hooked, ownSession, patchedList, todo, put, overlapped, on, id, early>>
      /\ period' = period + 1
      /\ pc[Admin] = "reset" /\ Go(Admin, "idle")
  BY DEF Reset, hookVars, wireVars, callVars
<1>3. hooked = {}
  BY <1>1, <1>2 DEF Plugged, ToSet
<1>4. pc'[Admin] = "idle" /\ \A c \in Call : pc'[c] = pc[c]
  BY <1>1, <1>2 DEF Go, HookTypes
<1>5. \A c \in Call : c \notin overlapped => pc[c] \in {"idle", "done"}
  BY <1>3 DEF RunInv, Untouched
<1>6. \A c \in Call : SameSession(c)'
  BY <1>2, <1>4, <1>5 DEF SameSession
<1>7. \A m \in put' : m.period <= period' /\ m.period # period'
  <2>1. \A m \in put : m.period \in Nat /\ m.period <= period /\ period \in Nat
    BY <1>1, Actors DEF HookTypes, PatchEvent, SessionInv, EventSessions
  <2> QED
    BY <1>2, <2>1
<1>8. OwnSessions' /\ EventSessions'
  BY <1>2, <1>3, <1>7 DEF SessionInv, OwnSessions, EventSessions, Unplugging
<1> QED
  BY <1>4, <1>6, <1>8 DEF SessionInv

\* The other steps of the admin leave the session alone.
LEMMA AdminSameSession ==
  ASSUME HookInv, RunInv, SessionInv,
         \/ Activate \/ Deactivate \/ Restore \/ Shutdown \/ Join \/ Unapplied \/ Open
         \/ OpenHook \/ Connect \/ Replace \/ PassOver \/ PatchRaises \/ Applied
  PROVE  SessionInv'
<1>1. /\ HookTypes /\ Plugged /\ Admin \in Actor /\ Admin \notin Call /\ Call \subseteq Actor
  BY Actors DEF HookInv, Actor
<1>2. /\ UNCHANGED <<sharedId, period, put, on, id, early>> /\ overlapped \subseteq overlapped'
  BY DEF Activate, Deactivate, Restore, Shutdown, Join, Unapplied, Open, OpenHook, Connect, NewTransport,
         Replace, PassOver, PatchRaises, Applied, hookVars, wireVars, idVars, adminVars, callVars
<1>3. PICK l : /\ Go(Admin, l) /\ l # "return"
               /\ l = "replace" => todo' = todo /\ Head(todo) \notin AgentAdapter
  BY DEF Activate, Deactivate, Restore, Shutdown, Join, Unapplied, Open, OpenHook, Connect, Replace,
         PassOver, PatchRaises, Applied, adminVars
<1>4. pc'[Admin] = l
  BY <1>1, <1>3 DEF Go, HookTypes
<1>5. \A c \in Call : SameSession(c)'
  <2>1. \A c \in Call : c \in Call \ {Admin}
    BY <1>1
  <2> QED
    BY <1>1, <1>2, <1>3, <2>1, AskersKeep
<1>6. OwnSessions'
  <2>1. CASE Activate \/ Deactivate \/ Connect \/ PassOver \/ Applied \/ Open
    <3>1. hooked' = hooked /\ ownSession' = ownSession /\ patchedList' = patchedList
      BY <2>1 DEF Activate, Deactivate, Connect, PassOver, Applied, Open, hookVars
    <3>2. pc[Admin] \notin Unplugging
      BY <2>1 DEF Activate, Deactivate, Connect, PassOver, Applied, Open, Unplugging
    <3> QED
      BY <1>2, <3>1, <3>2 DEF SessionInv, OwnSessions
  <2>2. CASE Restore \/ Shutdown
    <3>1. /\ hooked \ {Head(todo)} \subseteq hooked' /\ hooked' \subseteq hooked
          /\ UNCHANGED <<ownSession, patchedList, todo>> /\ l \in Unplugging
      BY <1>1, <1>4, <2>2 DEF Restore, Shutdown, hookVars, adminVars, Unplugging, Go, HookTypes
    <3> QED
      BY <1>2, <1>4, <3>1 DEF SessionInv, OwnSessions
  <2>3. CASE Join
    <3>1. /\ UNCHANGED <<hooked, patchedList>>
          /\ ownSession' = [ownSession EXCEPT ![Head(todo)] = None]
          /\ Head(todo) \notin hooked
      BY <1>1, <2>3 DEF Join, Plugged, Unplugging
    <3>2. \A a \in Adapter : ownSession'[a] = IF a = Head(todo) THEN None ELSE ownSession[a]
      BY <1>1, <3>1 DEF HookTypes
    <3>3. hooked \subseteq Adapter /\ HookFirst \subseteq Adapter
      BY <1>1, AdaptersAssumption DEF HookTypes
    <3> QED
      BY <1>2, <3>1, <3>2, <3>3 DEF SessionInv, OwnSessions
  <2>4. CASE Unapplied
    <3>1. UNCHANGED <<hooked, ownSession>> /\ pc[Admin] = "restore" /\ todo = <<>>
      BY <2>4 DEF Unapplied
    <3>2. hooked = {} /\ pc[Admin] \notin Unplugging
      BY <1>1, <3>1 DEF Plugged, ToSet, Unplugging
    <3> QED
      BY <3>1, <3>2 DEF SessionInv, OwnSessions
  <2>5. CASE OpenHook \/ PatchRaises \/ Replace
    <3>1. PICK h : h = Head(todo)
      OBVIOUS
    <3>2. /\ hooked \subseteq hooked' /\ hooked' \subseteq hooked \cup {h}
          /\ pc[Admin] \in {"open", "replace"}
          /\ todo # <<>>
      BY <1>1, <2>5, <3>1 DEF OpenHook, PatchRaises, Replace, Plugged, Patching, Asking
    <3>3. h \in Adapter /\ h \in ToSet(todo) /\ h \notin ToSet(patchedList)
      <4>1. todo \in Seq(Adapter) /\ ToSet(patchedList) \cap ToSet(todo) = {}
        BY <1>1, <3>2 DEF HookTypes, Plugged, Patching, Asking
      <4> QED
        BY <3>1, <3>2, <4>1, HeadOff
    <3>4. hooked \subseteq Adapter /\ AgentAdapter \subseteq Adapter /\ HookFirst \subseteq AgentAdapter
          /\ ownSession \in [Adapter -> 0..made] /\ patchedList \in Seq(Adapter)
      BY <1>1, AdaptersAssumption DEF HookTypes
    <3>5. CASE OpenHook
      <4>1. UNCHANGED <<ownSession, patchedList>> /\ pc[Admin] \notin Unplugging
        BY <3>5 DEF OpenHook, Unplugging
      <4> QED
        BY <1>2, <3>2, <3>3, <4>1 DEF SessionInv, OwnSessions
    <3>6. CASE PatchRaises \/ Replace
      <4>1. /\ pc[Admin] = "replace" /\ pc[Admin] \notin Unplugging
            /\ ownSession' = IF h \in AgentAdapter THEN [ownSession EXCEPT ![h] = id[Admin]] ELSE ownSession
        BY <3>1, <3>6 DEF PatchRaises, Replace, KeepSession, Unplugging
      <4>2. \A a \in Adapter : ownSession'[a] = IF a = h /\ h \in AgentAdapter THEN id[Admin] ELSE ownSession[a]
        BY <3>4, <4>1
      <4>3. h \in AgentAdapter => id[Admin] = sharedId /\ sharedId # None
        BY <3>1, <4>1 DEF SessionInv
      <4>4. CASE PatchRaises
        <5>1. UNCHANGED <<hooked, patchedList>> /\ h \notin HookFirst
          BY <3>1, <4>4 DEF PatchRaises
        <5> QED
          BY <1>2, <3>3, <3>4, <4>1, <4>2, <5>1 DEF SessionInv, OwnSessions
      <4>5. CASE Replace
        <5>1. hooked' = hooked \cup {h} /\ patchedList' = Append(patchedList, h)
          BY <3>1, <4>5 DEF Replace
        <5>2. ToSet(patchedList') = ToSet(patchedList) \cup {h}
          BY <3>3, <3>4, <5>1, Appended
        <5> QED
          BY <1>2, <3>3, <3>4, <4>1, <4>2, <4>3, <5>1, <5>2 DEF SessionInv, OwnSessions
      <4> QED
        BY <3>6, <4>4, <4>5
    <3> QED
      BY <2>5, <3>5, <3>6
  <2> QED
    BY <2>1, <2>2, <2>3, <2>4, <2>5
<1>7. EventSessions'
  BY <1>2, EventsKeep
<1> QED
  BY <1>2, <1>3, <1>4, <1>5, <1>6, <1>7 DEF SessionInv

LEMMA SessionKept ==
  ASSUME HookInv, RunInv, SessionInv, [PatchNext]_patchVars
  PROVE  SessionInv'
<1>1. ASSUME NEW c \in Call, SendBefore(c) \/ SendAfter(c)
      PROVE  SessionInv'
  <2>1. PICK kind \in {"before", "after"}, l \in {"host", "done"} :
          Send(c, kind, l) /\ pc[c] \in {"send1", "send2"}
    BY <1>1 DEF SendBefore, SendAfter
  <2> QED
    BY <2>1, SendSameSession
<1>2. ASSUME NEW t \in DOMAIN outbox, Work(t)
      PROVE  SessionInv'
  <2>1. /\ UNCHANGED <<hooked, ownSession, patchedList, put, sharedId, todo, period>>
        /\ UNCHANGED <<pc, on, id, early, overlapped>>
    BY <1>2 DEF Work, hookVars, idVars, adminVars, callVars
  <2> QED
    BY <2>1, EventsKeep DEF SessionInv, SameSession, OwnSessions
<1>3. CASE UNCHANGED patchVars
  <2>1. /\ UNCHANGED <<hooked, ownSession, patchedList, put, sharedId, todo, period>>
        /\ UNCHANGED <<pc, on, id, early, overlapped>>
    BY <1>3 DEF patchVars, hookVars, wireVars, idVars, adminVars, callVars
  <2> QED
    BY <2>1, EventsKeep DEF SessionInv, SameSession, OwnSessions
<1> QED
  BY <1>1, <1>2, <1>3, CallSameSession, AskingSameSession, CreateSameSession, ResetSameSession,
     AdminSameSession DEF PatchNext

LEMMA SessionInit == PatchInit => SessionInv
BY AdaptersAssumption DEF PatchInit, SessionInv, SameSession, OwnSessions, EventSessions, Actor

\* "all adapters within the same process share a single session", for any
\* adapters, any calls and any interleaving of their first looks at it.
THEOREM SessionIsShared == PatchSpec => []OneSharedSession
<1>1. PatchInit => HookInv /\ RunInv /\ SessionInv
  BY HooksInit, RunsInit, SessionInit
<1>2. HookInv /\ RunInv /\ SessionInv /\ [PatchNext]_patchVars => HookInv' /\ RunInv' /\ SessionInv'
  BY HooksKept, RunsKept, SessionKept
<1>3. SessionInv => OneSharedSession
  BY DEF SessionInv, OwnSessions, EventSessions, OneSharedSession
<1> QED
  BY <1>1, <1>2, <1>3, PTL DEF PatchSpec

-----------------------------------------------------------------------------
(* The order in the queues *)

\* A call's own step that queues nothing: it has put nothing yet, or its first
\* event stays where it is.
LEMMA CallKeepsQueues ==
  ASSUME HookInv, QueueInv, NEW c \in Call, NEW l, Go(c, l), UNCHANGED wireVars,
         UNCHANGED <<transport, hooked, todo, leftRunning, overlapped>>,
         \A d \in Call \ {c} : on'[d] = on[d],
         \/ pc[c] \notin {"host", "check2", "send2", "done"}
         \/ /\ pc[c] \in {"host", "check2", "send2"} /\ on'[c] = on[c]
            /\ l \in {"host", "check2", "send2", "done"}
  PROVE  QueueInv'
<1>1. HookTypes /\ c \in Actor /\ c # Admin /\ Admin \in Actor /\ UNCHANGED <<outbox, worker, put, gone, late>>
  BY Actors DEF HookInv, Actor, wireVars
<1>2. pc'[c] = l /\ pc'[Admin] = pc[Admin] /\ \A d \in Call \ {c} : pc'[d] = pc[d]
  BY <1>1 DEF Go, HookTypes, Actor
<1>3. Distinct' /\ Pending' /\ BehindIsLate'
  BY <1>1 DEF QueueInv, Distinct, Pending, BehindIsLate
<1>4. Clean'
  <2>1. \A a : Running(a)' <=> Running(a)
    BY <1>2 DEF Running, Wired, Bare, InHand
  <2> QED
    BY <1>1, <2>1 DEF QueueInv, Clean
<1>5. \A m : Waiting(m)' <=> Waiting(m)
  BY <1>1 DEF Waiting
<1>6. \A d \in Call \ {c} : PutSoFar(d)' /\ Follows(d)'
  BY <1>1, <1>2, <1>5 DEF QueueInv, PutSoFar, Follows
<1>7. PutSoFar(c) /\ Follows(c)
  BY DEF QueueInv
<1>8. PutSoFar(c)' /\ Follows(c)'
  <2>1. CASE pc[c] \notin {"host", "check2", "send2", "done"}
    <3>1. \A m \in put : m.call = c => m.kind # "before" /\ m.kind # "after"
      BY <1>7, <2>1 DEF PutSoFar
    <3> QED
      BY <1>1, <1>5, <3>1 DEF PutSoFar, Follows, Waiting
  <2>2. CASE /\ pc[c] \in {"host", "check2", "send2"} /\ on'[c] = on[c]
             /\ l \in {"host", "check2", "send2", "done"}
    <3>1. \A m \in put : m.call = c => m.kind # "after"
      BY <1>7, <2>2 DEF PutSoFar
    <3>2. PutSoFar(c)'
      BY <1>1, <1>2, <2>2, <3>1 DEF PutSoFar
    <3>3. Follows(c)'
      BY <1>1, <1>2, <1>5, <1>7, <2>2, <3>1 DEF Follows
    <3> QED
      BY <3>2, <3>3
  <2> QED
    BY <2>1, <2>2
<1>9. LateAreOverlapped'
  BY <1>1 DEF QueueInv, LateAreOverlapped
<1> QED
  BY <1>3, <1>4, <1>6, <1>8, <1>9 DEF QueueInv

\* A step of the admin that moves no transport and takes none in hand.
LEMMA AdminKeepsQueues ==
  ASSUME HookInv, QueueInv, NEW l, Go(Admin, l), UNCHANGED wireVars,
         UNCHANGED <<transport, on>>, leftRunning => leftRunning', overlapped \subseteq overlapped',
         \A a \in Adapter : Running(a)' => Running(a)
  PROVE  QueueInv'
<1>1. HookTypes /\ Admin \in Actor /\ UNCHANGED <<outbox, worker, put, gone, late>>
  BY DEF HookInv, Actor, wireVars
<1>2. pc'[Admin] = l /\ \A d \in Call : pc'[d] = pc[d]
  BY <1>1, Actors DEF Go, HookTypes, Actor
<1>3. Distinct' /\ Pending' /\ BehindIsLate'
  BY <1>1 DEF QueueInv, Distinct, Pending, BehindIsLate
<1>4. Clean'
  BY <1>1, <1>2 DEF QueueInv, Clean
<1>5. \A m : Waiting(m)' => Waiting(m)
  BY <1>1 DEF Waiting
<1>6. \A d \in Call : PutSoFar(d)' /\ Follows(d)'
  BY <1>1, <1>2, <1>5 DEF QueueInv, PutSoFar, Follows
<1>7. LateAreOverlapped'
  BY <1>1 DEF QueueInv, LateAreOverlapped
<1> QED
  BY <1>3, <1>4, <1>6, <1>7 DEF QueueInv

\* A transport's queue with something new at its end ...
LEMMA QueueAppended ==
  ASSUME HookInv, NEW t \in 1..Len(outbox), NEW e, e \in put' \cup {Sentinel}, put \subseteq put',
         outbox' = [outbox EXCEPT ![t] = Append(@, e)]
  PROVE  /\ DOMAIN outbox' = DOMAIN outbox /\ t \in DOMAIN outbox
         /\ \A u \in DOMAIN outbox \ {t} : outbox'[u] = outbox[u]
         /\ Len(outbox[t]) \in Nat /\ DOMAIN outbox[t] = 1..Len(outbox[t])
         /\ DOMAIN outbox'[t] = 1..(Len(outbox[t]) + 1)
         /\ \A i \in DOMAIN outbox[t] : i \in DOMAIN outbox'[t] /\ outbox'[t][i] = outbox[t][i]
         /\ outbox'[t][Len(outbox[t]) + 1] = e
         /\ ToSet(outbox'[t]) = ToSet(outbox[t]) \cup {e}
<1>1. outbox \in Seq(Seq(put \cup {Sentinel})) /\ DOMAIN outbox = 1..Len(outbox)
  BY LenProperties DEF HookInv, HookTypes
<1>2. outbox[t] \in Seq(put \cup {Sentinel})
  BY <1>1, ElementOfSeq
<1>3. PICK S : S = put' \cup {Sentinel}
  OBVIOUS
<1>4. outbox[t] \in Seq(S) /\ e \in S
  BY <1>2, <1>3, SeqMonotonic
<1>5. DOMAIN outbox' = DOMAIN outbox /\ outbox'[t] = Append(outbox[t], e)
      /\ \A u \in DOMAIN outbox \ {t} : outbox'[u] = outbox[u]
  BY <1>1
<1>6. /\ Len(outbox[t]) \in Nat /\ DOMAIN outbox[t] = 1..Len(outbox[t])
      /\ DOMAIN outbox'[t] = 1..(Len(outbox[t]) + 1)
      /\ \A i \in 1..Len(outbox[t]) : outbox'[t][i] = outbox[t][i]
      /\ outbox'[t][Len(outbox[t]) + 1] = e
      /\ ToSet(outbox'[t]) = ToSet(outbox[t]) \cup {e}
  BY <1>4, <1>5, Appended
<1>7. 1..Len(outbox[t]) \subseteq 1..(Len(outbox[t]) + 1)
  BY <1>6
<1> QED
  BY <1>1, <1>5, <1>6, <1>7

\* ... is as good as it was, if what is new is a sentinel, or an event that is
\* late where it has to be.
LEMMA AppendKeepsOrder ==
  ASSUME HookInv, QueueInv, NEW t \in 1..Len(outbox), NEW e,
         outbox' = [outbox EXCEPT ![t] = Append(@, e)],
         UNCHANGED <<worker, gone>>, put \subseteq put', late \subseteq late',
         \/ e = Sentinel
         \/ /\ e \in put' \ put
            /\ worker[t] = "done" \/ Sentinel \in ToSet(outbox[t]) => e \in late'
  PROVE  Distinct' /\ Pending' /\ BehindIsLate'
<1>1. HookTypes /\ e \in put' \cup {Sentinel}
  BY DEF HookInv
<1>2. PICK n \in Nat : n = Len(outbox[t])
  BY <1>1, QueueAppended
<1>3. /\ DOMAIN outbox' = DOMAIN outbox /\ t \in DOMAIN outbox
      /\ \A u \in DOMAIN outbox \ {t} : outbox'[u] = outbox[u]
      /\ DOMAIN outbox[t] = 1..n /\ DOMAIN outbox'[t] = 1..(n + 1)
      /\ \A i \in 1..n : outbox'[t][i] = outbox[t][i]
      /\ outbox'[t][n + 1] = e
  BY <1>1, <1>2, QueueAppended
<1>4. ASSUME NEW u \in DOMAIN outbox, NEW i \in DOMAIN outbox'[u]
      PROVE  \/ u = t /\ i = n + 1 /\ outbox'[u][i] = e
             \/ i \in DOMAIN outbox[u] /\ outbox'[u][i] = outbox[u][i] /\ (u = t => i <= n)
  <2>1. CASE u = t
    <3>1. i \in 1..n \/ i = n + 1
      BY <1>3, <2>1
    <3> QED
      BY <1>3, <2>1, <3>1
  <2>2. CASE u # t
    BY <1>3, <2>2
  <2> QED
    BY <2>1, <2>2
<1>5. Pending /\ Distinct /\ BehindIsLate
  BY DEF QueueInv
<1>6. e # Sentinel => e \in put' \ put /\ e \notin gone
  BY <1>1 DEF HookTypes
<1>7. \A u \in DOMAIN outbox : \A i \in DOMAIN outbox[u] : outbox[u][i] # Sentinel => outbox[u][i] # e
  BY <1>5, <1>6 DEF Pending
<1>8. Distinct'
  <2>1. ASSUME NEW u \in DOMAIN outbox, NEW v \in DOMAIN outbox,
               NEW i \in DOMAIN outbox'[u], NEW j \in DOMAIN outbox'[v],
               outbox'[u][i] = outbox'[v][j], outbox'[u][i] # Sentinel
        PROVE  u = v /\ i = j
    <3>1. CASE u = t /\ i = n + 1 /\ outbox'[u][i] = e
      BY <1>4, <1>7, <2>1, <3>1
    <3>2. CASE i \in DOMAIN outbox[u] /\ outbox'[u][i] = outbox[u][i]
      <4>1. j \in DOMAIN outbox[v] /\ outbox'[v][j] = outbox[v][j]
        BY <1>4, <1>7, <2>1, <3>2
      <4> QED
        BY <1>5, <2>1, <3>2, <4>1 DEF Distinct
    <3> QED
      BY <1>4, <3>1, <3>2
  <2> QED
    BY <1>3, <2>1 DEF Distinct
<1>9. Pending'
  BY <1>3, <1>4, <1>5, <1>6 DEF Pending
<1>10. BehindIsLate'
  <2>1. ASSUME NEW u \in DOMAIN outbox, NEW i \in DOMAIN outbox'[u], outbox'[u][i] # Sentinel,
               worker[u] = "done" \/ \E j \in DOMAIN outbox'[u] : j < i /\ outbox'[u][j] = Sentinel
        PROVE  outbox'[u][i] \in late'
    <3>1. CASE u = t /\ i = n + 1 /\ outbox'[u][i] = e
      <4>1. worker[t] = "done" \/ Sentinel \in ToSet(outbox[t])
        <5>1. ASSUME NEW j \in DOMAIN outbox'[u], j < i, outbox'[u][j] = Sentinel
              PROVE  Sentinel \in ToSet(outbox[t])
          <6>1. j \in DOMAIN outbox[t] /\ outbox[t][j] = Sentinel
            BY <1>4, <3>1, <5>1
          <6> QED
            BY <6>1 DEF ToSet
        <5> QED
          BY <2>1, <3>1, <5>1
      <4> QED
        BY <2>1, <3>1, <4>1
    <3>2. CASE i \in DOMAIN outbox[u] /\ outbox'[u][i] = outbox[u][i] /\ (u = t => i <= n)
      <4>1. ASSUME NEW j \in DOMAIN outbox'[u], j < i, outbox'[u][j] = Sentinel
            PROVE  j \in DOMAIN outbox[u] /\ outbox[u][j] = Sentinel
        <5>1. CASE u = t
          <6>1. i \in 1..n /\ j \in 1..(n + 1)
            BY <1>3, <3>2, <5>1
          <6>2. j \in 1..n
            BY <4>1, <6>1
          <6> QED
            BY <1>3, <4>1, <5>1, <6>2
        <5>2. CASE u # t
          BY <1>3, <4>1, <5>2
        <5> QED
          BY <5>1, <5>2
      <4> QED
        BY <1>5, <2>1, <3>2, <4>1 DEF BehindIsLate
    <3> QED
      BY <1>4, <3>1, <3>2
  <2> QED
    BY <1>3, <2>1 DEF BehindIsLate
<1> QED
  BY <1>8, <1>9, <1>10

\* What was queued is queued still, and in the same order.
LEMMA AppendKeepsPlaces ==
  ASSUME HookInv, NEW t \in 1..Len(outbox), NEW e, e \in put' \cup {Sentinel}, put \subseteq put',
         outbox' = [outbox EXCEPT ![t] = Append(@, e)]
  PROVE  /\ \A u \in DOMAIN outbox : \A m : m \in ToSet(outbox[u]) => m \in ToSet(outbox'[u])
         /\ \A u \in DOMAIN outbox : \A i \in DOMAIN outbox[u] :
              i \in DOMAIN outbox'[u] /\ outbox'[u][i] = outbox[u][i]
BY QueueAppended DEF ToSet

LEMMA SendKeepsQueues ==
  ASSUME HookInv, RunInv, QueueInv, NEW c \in Call, NEW kind \in {"before", "after"}, NEW l,
         Send(c, kind, l),
         \/ pc[c] = "send1" /\ kind = "before" /\ l = "host"
         \/ pc[c] = "send2" /\ kind = "after" /\ l = "done"
  PROVE  QueueInv'
<1>1. HookTypes /\ Plugged /\ c \in Actor /\ c # Admin /\ Admin \in Actor
  BY Actors DEF HookInv, Actor
<1>2. PICK t, e : /\ t = transport[on[c]]
                  /\ e = [call |-> c, kind |-> kind, session |-> id[c], period |-> period]
  OBVIOUS
<1>3. UNCHANGED <<transport, hooked, todo, leftRunning, overlapped>> /\ on' = on
  BY DEF Send, hookVars, adminVars
<1>4. CASE t = None
  <2>1. Go(c, "done") /\ UNCHANGED wireVars
    BY <1>2, <1>4 DEF Send
  <2>2. "done" \in {"host", "check2", "send2", "done"}
    OBVIOUS
  <2> QED
    BY <1>3, <2>1, <2>2, CallKeepsQueues
<1>5. CASE t # None
  <2>1. /\ outbox' = [outbox EXCEPT ![t] = Append(@, e)]
        /\ put' = put \cup {e} /\ Go(c, l) /\ UNCHANGED <<worker, gone>>
        /\ late' = IF worker[t] = "done" \/ Sentinel \in ToSet(outbox[t]) THEN late \cup {e} ELSE late
    BY <1>2, <1>5 DEF Send
  <2>2. t \in 1..Len(outbox) /\ DOMAIN outbox = 1..Len(outbox) /\ Len(outbox) \in Nat
    <3>1. t \in 0..Len(outbox) /\ Len(outbox) \in Nat /\ DOMAIN outbox = 1..Len(outbox)
      BY <1>1, <1>2, LenProperties DEF HookTypes
    <3> QED
      BY <1>5, <3>1 DEF None
  <2>3. pc'[c] = l /\ pc'[Admin] = pc[Admin] /\ \A d \in Call \ {c} : pc'[d] = pc[d]
    BY <1>1, <2>1 DEF Go, HookTypes, Actor
  <2>4. e.call = c /\ e.kind = kind
    BY <1>2
  <2>5. /\ PutSoFar(c) /\ Follows(c) /\ Clean /\ LateAreOverlapped
        /\ \A d \in Call : PutSoFar(d) /\ Follows(d)
    BY DEF QueueInv
  <2>6. e \in put' \ put /\ e \notin gone /\ put \subseteq put' /\ late \subseteq late'
        /\ e \in put' \cup {Sentinel}
    BY <1>1, <2>1, <2>4, <2>5 DEF PutSoFar, HookTypes
  <2>7. Distinct' /\ Pending' /\ BehindIsLate'
    BY <2>1, <2>2, <2>6, AppendKeepsOrder
  <2>8. e # Sentinel
    <3>1. HookTypes'
      <4>1. l \in CallSteps
        BY DEF CallSteps
      <4> QED
        BY <4>1, SendTypes
    <3> QED
      BY <2>6, <3>1, Actors DEF HookTypes
  <2>9. Clean'
    <3>1. ASSUME NEW a \in Adapter, Running(a)
          PROVE  worker[transport[a]] = "running" /\ Sentinel \notin ToSet(outbox'[transport[a]])
      <4>1. worker[transport[a]] = "running" /\ Sentinel \notin ToSet(outbox[transport[a]])
        BY <2>5, <3>1 DEF Clean
      <4>2. transport[a] \in DOMAIN outbox
        <5>1. transport[a] # None /\ transport[a] \in 0..Len(outbox)
          BY <1>1, <3>1 DEF Plugged, HookTypes, Running
        <5> QED
          BY <2>2, <5>1 DEF None
      <4>3. /\ ToSet(outbox'[t]) = ToSet(outbox[t]) \cup {e}
            /\ \A u \in DOMAIN outbox \ {t} : outbox'[u] = outbox[u]
        BY <2>1, <2>2, <2>6, QueueAppended
      <4> QED
        BY <2>8, <4>1, <4>2, <4>3
    <3>2. \A a : Running(a)' <=> Running(a)
      BY <1>3, <2>3 DEF Running, Wired, Bare, InHand
    <3> QED
      BY <1>3, <2>1, <2>3, <3>1, <3>2 DEF Clean
  <2>10. LateAreOverlapped'
    <3>1. ASSUME c \notin overlapped, ~leftRunning
          PROVE  worker[t] = "running" /\ Sentinel \notin ToSet(outbox[t])
      <4>1. on[c] \in hooked /\ on[c] \in Adapter
        BY <1>1, <3>1, TransportThere DEF HookTypes
      <4>2. Wired(on[c])
        BY <1>1, <1>2, <1>5, <3>1, <4>1 DEF Plugged
      <4>3. Running(on[c])
        BY <1>1, <4>1, <4>2 DEF Running, Plugged, Unplugging
      <4> QED
        BY <1>2, <2>5, <4>1, <4>3 DEF Clean
    <3> QED
      BY <1>3, <2>1, <2>4, <2>5, <3>1 DEF LateAreOverlapped
  <2>11. \A d \in Call : PutSoFar(d)'
    <3>1. \A d \in Call \ {c} : PutSoFar(d)'
      BY <2>1, <2>3, <2>4, <2>5 DEF PutSoFar
    <3>2. PutSoFar(c)'
      BY <2>1, <2>3, <2>4, <2>5 DEF PutSoFar
    <3> QED
      BY <3>1, <3>2
  <2>12. /\ \A u \in DOMAIN outbox : \A m : m \in ToSet(outbox[u]) => m \in ToSet(outbox'[u])
         /\ \A u \in DOMAIN outbox : \A i \in DOMAIN outbox[u] :
              i \in DOMAIN outbox'[u] /\ outbox'[u][i] = outbox[u][i]
         /\ DOMAIN outbox' = DOMAIN outbox
    BY <2>1, <2>2, <2>6, AppendKeepsPlaces, QueueAppended
  <2>13. ASSUME NEW d \in Call, NEW m \in put, m.call = d, Waiting(m)'
         PROVE  Waiting(m) /\ m # e
    BY <1>3, <2>1, <2>6, <2>13 DEF Waiting
  <2>14. ASSUME NEW d \in Call
         PROVE  transport[on[d]] # None => transport[on[d]] \in DOMAIN outbox
    <3>1. transport[on[d]] \in 0..Len(outbox)
      BY <1>1 DEF HookTypes
    <3> QED
      BY <2>2, <3>1 DEF None
  <2>15. ASSUME NEW d \in Call \ {c}
         PROVE  Follows(d)'
    <3>1. ASSUME NEW m \in put', m.call = d, Waiting(m)'
          PROVE  /\ pc'[d] # "done" => transport'[on'[d]] # None /\ m \in ToSet(outbox'[transport'[on'[d]]])
                 /\ \A n \in put' : n.call = d /\ n.kind = "after" =>
                      /\ n \notin gone'
                      /\ \E u \in DOMAIN outbox' : \E i, j \in DOMAIN outbox'[u] :
                           i < j /\ outbox'[u][i] = m /\ outbox'[u][j] = n
      <4>1. m \in put /\ Waiting(m)
        BY <2>1, <2>4, <2>13, <3>1
      <4>2. pc'[d] # "done" => transport[on[d]] # None /\ m \in ToSet(outbox'[transport[on[d]]])
        BY <2>3, <2>5, <2>12, <2>14, <3>1, <4>1 DEF Follows
      <4>3. ASSUME NEW n \in put', n.call = d, n.kind = "after"
            PROVE  /\ n \notin gone
                   /\ \E u \in DOMAIN outbox : \E i, j \in DOMAIN outbox'[u] :
                        i < j /\ outbox'[u][i] = m /\ outbox'[u][j] = n
        <5>1. n \in put
          BY <2>1, <2>4, <4>3
        <5>2. /\ n \notin gone
              /\ \E u \in DOMAIN outbox : \E i, j \in DOMAIN outbox[u] :
                   i < j /\ outbox[u][i] = m /\ outbox[u][j] = n
          BY <2>5, <3>1, <4>1, <4>3, <5>1 DEF Follows
        <5> QED
          BY <2>12, <5>2
      <4> QED
        BY <1>3, <2>1, <2>12, <4>2, <4>3
    <3> QED
      BY <3>1 DEF Follows
  <2>16. Follows(c)'
    <3>1. CASE kind = "before"
      <4>1. \A n \in put' : n.call = c => n = e
        <5>1. \A n \in put : n.call = c => n.kind # "before" /\ n.kind # "after"
          BY <2>5, <3>1 DEF PutSoFar
        <5>2. \A n \in put : n.kind \in {"before", "after"}
          BY <1>1 DEF HookTypes, PatchEvent
        <5> QED
          BY <2>1, <5>1, <5>2
      <4>2. e \in ToSet(outbox'[t])
        <5>1. ToSet(outbox'[t]) = ToSet(outbox[t]) \cup {e}
          BY <2>1, <2>2, <2>6, QueueAppended
        <5> QED
          BY <5>1
      <4>3. e.kind # "after"
        BY <2>4, <3>1
      <4> QED
        BY <1>2, <1>3, <1>5, <4>1, <4>2, <4>3 DEF Follows
    <3>2. CASE kind = "after"
      <4>1. pc[c] = "send2" /\ pc'[c] = "done"
        BY <2>3, <3>2
      <4>2. \A n \in put : n.call = c => n.kind # "after"
        BY <2>5, <4>1 DEF PutSoFar
      <4>3. ASSUME NEW m \in put', m.call = c, Waiting(m)'
            PROVE  \E i, j \in DOMAIN outbox'[t] : i < j /\ outbox'[t][i] = m /\ outbox'[t][j] = e
        <5>1. m \in put /\ Waiting(m)
          BY <2>1, <2>4, <2>13, <3>2, <4>3 DEF Waiting
        <5>2. m \in ToSet(outbox[t])
          BY <1>2, <2>5, <4>1, <4>3, <5>1 DEF Follows
        <5>3. PICK i \in DOMAIN outbox[t] : outbox[t][i] = m
          BY <5>2 DEF ToSet
        <5>4. PICK j : j = Len(outbox[t]) + 1
          OBVIOUS
        <5>5. /\ i \in DOMAIN outbox'[t] /\ outbox'[t][i] = m
              /\ j \in DOMAIN outbox'[t] /\ outbox'[t][j] = e /\ i < j
          BY <2>1, <2>2, <2>6, <5>3, <5>4, QueueAppended
        <5> QED
          BY <5>5
      <4>4. \A n \in put' : n.call = c /\ n.kind = "after" => n = e
        BY <2>1, <4>2
      <4>5. t \in DOMAIN outbox'
        BY <2>2, <2>12
      <4> QED
        BY <2>1, <2>6, <4>1, <4>3, <4>4, <4>5 DEF Follows
    <3> QED
      BY <3>1, <3>2
  <2> QED
    BY <2>7, <2>9, <2>10, <2>11, <2>15, <2>16 DEF QueueInv
<1> QED
  BY <1>4, <1>5

\* A shutdown only adds a sentinel, to a queue that no hook uses any more.
LEMMA ShutdownKeepsQueues ==
  ASSUME HookInv, QueueInv, Shutdown
  PROVE  QueueInv'
<1>1. HookTypes /\ Plugged /\ Admin \in Actor
  BY DEF HookInv, Actor
<1>2. PICK h, t : h = Head(todo) /\ t = transport[h]
  OBVIOUS
<1>3. /\ pc[Admin] = "shutdown" /\ Go(Admin, "join") /\ outbox' = [outbox EXCEPT ![t] = Append(@, Sentinel)]
      /\ UNCHANGED <<transport, hooked, todo, leftRunning, overlapped, on>> /\ UNCHANGED <<worker, put, gone, late>>
  BY <1>2 DEF Shutdown, hookVars, adminVars, callVars
<1>4. pc'[Admin] = "join" /\ \A d \in Call : pc'[d] = pc[d]
  BY <1>1, <1>3, Actors DEF Go, HookTypes, Actor
<1>5. /\ h \in Adapter /\ h \notin hooked /\ t # None /\ InHand(h)
      /\ \A a \in Adapter : InHand(a) => a = h
  <2>1. h \in Adapter /\ h \notin hooked /\ InHand(h) /\ Wired(h)
    BY <1>1, <1>2, <1>3, HeadOff DEF Plugged, HookTypes, InHand, Wired, Bare, Unplugging
  <2> QED
    BY <1>1, <1>2, <2>1 DEF Plugged, InHand
<1>6. t \in 1..Len(outbox) /\ DOMAIN outbox = 1..Len(outbox) /\ Len(outbox) \in Nat
  <2>1. t \in 0..Len(outbox) /\ Len(outbox) \in Nat /\ DOMAIN outbox = 1..Len(outbox)
    BY <1>1, <1>2, <1>5, LenProperties DEF HookTypes
  <2> QED
    BY <1>5, <2>1 DEF None
<1>7. Sentinel \in put' \cup {Sentinel} /\ put \subseteq put' /\ late \subseteq late'
  BY <1>3
<1>8. Distinct' /\ Pending' /\ BehindIsLate'
  BY <1>3, <1>6, <1>7, AppendKeepsOrder
<1>9. /\ \A u \in DOMAIN outbox : \A m : m \in ToSet(outbox[u]) => m \in ToSet(outbox'[u])
      /\ \A u \in DOMAIN outbox : \A i \in DOMAIN outbox[u] :
           i \in DOMAIN outbox'[u] /\ outbox'[u][i] = outbox[u][i]
      /\ DOMAIN outbox' = DOMAIN outbox
      /\ \A u \in DOMAIN outbox \ {t} : outbox'[u] = outbox[u]
  BY <1>3, <1>6, <1>7, AppendKeepsPlaces, QueueAppended
<1>10. \A a \in Adapter : transport[a] # None => transport[a] \in DOMAIN outbox
  <2> SUFFICES ASSUME NEW a \in Adapter, transport[a] # None
               PROVE  transport[a] \in DOMAIN outbox
    OBVIOUS
  <2>1. transport[a] \in 0..Len(outbox)
    BY <1>1 DEF HookTypes
  <2> QED
    BY <1>6, <2>1 DEF None
<1>11. Clean'
  <2>1. ASSUME NEW a \in hooked
        PROVE  worker[transport[a]] = "running" /\ Sentinel \notin ToSet(outbox'[transport[a]])
    <3>1. a \in Adapter /\ a # h /\ Wired(a)
      BY <1>1, <1>3, <1>5 DEF HookTypes, Wired, Bare
    <3>2. transport[a] # None /\ transport[a] # t /\ Running(a)
      BY <1>1, <1>2, <1>3, <1>5, <3>1 DEF Plugged, Running
    <3> QED
      BY <1>9, <1>10, <3>1, <3>2 DEF QueueInv, Clean
  <2>2. \A a \in Adapter : Running(a)' => a \in hooked
    BY <1>2, <1>3, <1>4 DEF Running, Wired, InHand
  <2> QED
    BY <1>3, <2>1, <2>2 DEF Clean
<1>12. \A m : Waiting(m)' <=> Waiting(m)
  BY <1>3 DEF Waiting
<1>13. ASSUME NEW d \in Call
       PROVE  PutSoFar(d)' /\ Follows(d)'
  <2>1. PutSoFar(d) /\ Follows(d)
    BY DEF QueueInv
  <2>2. PutSoFar(d)'
    BY <1>3, <1>4, <2>1 DEF PutSoFar
  <2>3. ASSUME NEW m \in put, m.call = d, Waiting(m)
        PROVE  /\ pc[d] # "done" => transport[on[d]] # None /\ m \in ToSet(outbox'[transport[on[d]]])
               /\ \A n \in put : n.call = d /\ n.kind = "after" =>
                    /\ n \notin gone
                    /\ \E u \in DOMAIN outbox : \E i, j \in DOMAIN outbox'[u] :
                         i < j /\ outbox'[u][i] = m /\ outbox'[u][j] = n
    <3>1. on[d] \in Adapter
      BY <1>1 DEF HookTypes
    <3>2. pc[d] # "done" => transport[on[d]] # None /\ m \in ToSet(outbox'[transport[on[d]]])
      BY <1>9, <1>10, <2>1, <2>3, <3>1 DEF Follows
    <3>3. ASSUME NEW n \in put, n.call = d, n.kind = "after"
          PROVE  /\ n \notin gone
                 /\ \E u \in DOMAIN outbox : \E i, j \in DOMAIN outbox'[u] :
                      i < j /\ outbox'[u][i] = m /\ outbox'[u][j] = n
      <4>1. /\ n \notin gone
            /\ \E u \in DOMAIN outbox : \E i, j \in DOMAIN outbox[u] :
                 i < j /\ outbox[u][i] = m /\ outbox[u][j] = n
        BY <2>1, <2>3, <3>3 DEF Follows
      <4> QED
        BY <1>9, <4>1
    <3> QED
      BY <3>2, <3>3
  <2>4. Follows(d)'
    BY <1>3, <1>4, <1>9, <1>12, <2>3 DEF Follows
  <2> QED
    BY <2>2, <2>4
<1> QED
  BY <1>3, <1>8, <1>11, <1>13 DEF QueueInv, LateAreOverlapped

\* When a join ends well the thread has ended: what its queue still holds is late.
LEMMA JoinKeepsQueues ==
  ASSUME HookInv, QueueInv, Join
  PROVE  QueueInv'
<1>1. HookTypes /\ Plugged /\ Admin \in Actor
  BY DEF HookInv, Actor
<1>2. PICK h, t : h = Head(todo) /\ t = transport[h]
  OBVIOUS
<1>3. /\ pc[Admin] = "join" /\ Go(Admin, "restore") /\ transport' = [transport EXCEPT ![h] = None]
      /\ UNCHANGED <<hooked, overlapped, on>> /\ UNCHANGED <<outbox, worker, put, gone, late>>
      /\ leftRunning' = (leftRunning \/ worker[t] # "done")
  BY <1>2 DEF Join, wireVars, callVars
<1>4. pc'[Admin] = "restore" /\ \A d \in Call : pc'[d] = pc[d]
  BY <1>1, <1>3, Actors DEF Go, HookTypes, Actor
<1>5. h \in Adapter /\ h \notin hooked /\ t # None
  <2>1. h \in Adapter /\ h \notin hooked /\ InHand(h) /\ Wired(h)
    BY <1>1, <1>2, <1>3, HeadOff DEF Plugged, HookTypes, InHand, Wired, Bare, Unplugging
  <2> QED
    BY <1>1, <1>2, <2>1 DEF Plugged
<1>6. t \in DOMAIN outbox
  <2>1. t \in 0..Len(outbox) /\ Len(outbox) \in Nat /\ DOMAIN outbox = 1..Len(outbox)
    BY <1>1, <1>2, <1>5, LenProperties DEF HookTypes
  <2> QED
    BY <1>5, <2>1 DEF None
<1>7. Distinct' /\ Pending' /\ BehindIsLate'
  BY <1>3 DEF QueueInv, Distinct, Pending, BehindIsLate
<1>8. \A a \in Adapter \ {h} : transport'[a] = transport[a]
  BY <1>1, <1>3 DEF HookTypes
<1>9. Clean'
  <2>1. \A a \in hooked : a \in Adapter \ {h} /\ Running(a)
    BY <1>1, <1>2, <1>3, <1>5 DEF HookTypes, Running, Wired, Bare
  <2>2. \A a : Running(a)' => a \in hooked
    BY <1>3, <1>4 DEF Running, Wired, InHand, Unplugging, Asking
  <2> QED
    BY <1>3, <1>8, <2>1, <2>2 DEF QueueInv, Clean
<1>10. ASSUME NEW d \in Call
       PROVE  PutSoFar(d)' /\ Follows(d)'
  <2>1. PutSoFar(d) /\ Follows(d) /\ on[d] \in Adapter
    BY <1>1 DEF QueueInv, HookTypes
  <2>2. PutSoFar(d)'
    BY <1>3, <1>4, <2>1 DEF PutSoFar
  <2>3. ASSUME NEW m \in put, m.call = d, Waiting(m)'
        PROVE  Waiting(m) /\ (pc[d] # "done" => on[d] # h)
    <3>1. Waiting(m) /\ worker[t] = "done" /\ m \notin late
      BY <1>3, <2>3 DEF Waiting
    <3>2. ASSUME pc[d] # "done", on[d] = h
          PROVE  FALSE
      <4>1. m \in ToSet(outbox[t])
        BY <1>2, <2>1, <2>3, <3>1, <3>2 DEF Follows
      <4>2. PICK i \in DOMAIN outbox[t] : outbox[t][i] = m
        BY <4>1 DEF ToSet
      <4>3. m # Sentinel
        BY <1>1, Actors DEF HookTypes
      <4> QED
        BY <1>6, <3>1, <4>2, <4>3 DEF QueueInv, BehindIsLate
    <3> QED
      BY <3>1, <3>2
  <2>4. Follows(d)'
    BY <1>3, <1>4, <1>8, <2>1, <2>3 DEF Follows
  <2> QED
    BY <2>2, <2>4
<1> QED
  BY <1>3, <1>7, <1>9, <1>10 DEF QueueInv, LateAreOverlapped

\* A new transport has an empty queue and a thread that runs.
LEMMA OpenKeepsQueues ==
  ASSUME HookInv, QueueInv, Open \/ Connect
  PROVE  QueueInv'
<1>1. HookTypes /\ Plugged /\ Admin \in Actor
  BY DEF HookInv, Actor
<1>2. PICK h, k : h = Head(todo) /\ k = Len(outbox) + 1
  OBVIOUS
<1>3. PICK l \in {"look", "replace"} : Go(Admin, l)
  BY DEF Open, Connect
<1>4. /\ pc[Admin] \in {"open", "connect"} /\ transport' = [transport EXCEPT ![h] = k]
      /\ UNCHANGED <<hooked, todo, leftRunning, overlapped, on>> /\ UNCHANGED <<put, gone, late>>
      /\ outbox' = Append(outbox, <<>>) /\ worker' = Append(worker, "running")
  BY <1>2 DEF Open, Connect, NewTransport, adminVars, callVars
<1>5. pc'[Admin] = l /\ \A d \in Call : pc'[d] = pc[d]
  BY <1>1, <1>3, Actors DEF Go, HookTypes, Actor
<1>6. h \in Adapter /\ (transport[h] = None \/ leftRunning)
  <2>1. todo # <<>>
    BY <1>1 DEF Open, Connect, Plugged, Patching
  <2>2. h \in Adapter /\ h \in ToSet(todo)
    BY <1>1, <1>2, <2>1, HeadOff DEF HookTypes
  <2>3. ~Wired(h)
    BY <1>1, <1>2, <1>4, <2>2 DEF Plugged, Wired, Bare, InHand, Unplugging, Asking
  <2> QED
    BY <1>1, <2>2, <2>3 DEF Plugged
<1>7. /\ DOMAIN outbox = 1..(k - 1) /\ DOMAIN outbox' = 1..k /\ k \in Nat \ {0}
      /\ \A u \in 1..(k - 1) : outbox'[u] = outbox[u] /\ worker'[u] = worker[u]
      /\ outbox'[k] = <<>> /\ worker'[k] = "running"
  <2>1. outbox \in Seq(Seq(put \cup {Sentinel})) /\ <<>> \in Seq(put \cup {Sentinel})
    BY <1>1 DEF HookTypes
  <2>2. worker \in Seq({"running", "done"}) /\ "running" \in {"running", "done"} /\ Len(worker) = Len(outbox)
    BY <1>1 DEF HookTypes
  <2>3. /\ Len(outbox) \in Nat /\ DOMAIN outbox = 1..Len(outbox) /\ DOMAIN outbox' = 1..(Len(outbox) + 1)
        /\ \A u \in 1..Len(outbox) : outbox'[u] = outbox[u]
        /\ outbox'[Len(outbox) + 1] = <<>>
    BY <1>4, <2>1, Appended
  <2>4. /\ \A u \in 1..Len(worker) : worker'[u] = worker[u]
        /\ worker'[Len(worker) + 1] = "running"
    BY <1>4, <2>2, Appended
  <2>5. k - 1 = Len(outbox) /\ k \in Nat \ {0}
    BY <1>2, <2>3
  <2> QED
    BY <1>2, <2>2, <2>3, <2>4, <2>5
<1>8. \A u \in 1..k : (u \in DOMAIN outbox /\ outbox'[u] = outbox[u] /\ worker'[u] = worker[u])
                      \/ (u = k /\ DOMAIN outbox'[u] = {})
  BY <1>7
<1>9. Distinct'
  BY <1>7, <1>8 DEF QueueInv, Distinct
<1>10. Pending'
  BY <1>4, <1>7, <1>8 DEF QueueInv, Pending
<1>11. BehindIsLate'
  <2>1. ASSUME NEW u \in 1..k, NEW i \in DOMAIN outbox'[u], outbox'[u][i] # Sentinel,
               worker'[u] = "done" \/ \E j \in DOMAIN outbox'[u] : j < i /\ outbox'[u][j] = Sentinel
        PROVE  outbox'[u][i] \in late
    <3>1. u \in DOMAIN outbox /\ outbox'[u] = outbox[u] /\ worker'[u] = worker[u]
      BY <1>8
    <3> QED
      BY <2>1, <3>1 DEF QueueInv, BehindIsLate
  <2> QED
    BY <1>4, <1>7, <2>1 DEF BehindIsLate
<1>12. /\ \A a \in Adapter \ {h} : transport'[a] = transport[a]
       /\ transport'[h] = k
       /\ \A a \in Adapter : transport[a] # None => transport[a] \in DOMAIN outbox /\ transport[a] \in 1..(k - 1)
  <2>1. \A a \in Adapter : transport[a] \in 0..(k - 1)
    BY <1>1, <1>2, LenProperties DEF HookTypes
  <2>2. \A n \in 0..(k - 1) : n # None => n \in 1..(k - 1)
    BY <1>7 DEF None
  <2> QED
    BY <1>1, <1>4, <1>6, <1>7, <2>1, <2>2 DEF HookTypes
<1>13. Clean'
  <2>1. \A a : Running(a)' => a = h \/ a \in hooked
    BY <1>2, <1>4 DEF Running, Wired, InHand
  <2>2. ASSUME NEW a \in hooked, a # h
        PROVE  worker'[transport'[a]] = "running" /\ Sentinel \notin ToSet(outbox'[transport'[a]])
    <3>1. a \in Adapter \ {h} /\ Wired(a)
      BY <1>1, <1>2, <2>2 DEF HookTypes, Wired, Bare
    <3>2. transport[a] # None /\ Running(a)
      BY <1>1, <1>4, <3>1 DEF Plugged, Running
    <3> QED
      BY <1>7, <1>12, <3>1, <3>2 DEF QueueInv, Clean
  <2>3. worker'[transport'[h]] = "running" /\ Sentinel \notin ToSet(outbox'[transport'[h]])
    BY <1>7, <1>12 DEF ToSet
  <2> QED
    BY <1>4, <2>1, <2>2, <2>3 DEF Clean
<1>14. \A m : Waiting(m)' <=> Waiting(m)
  BY <1>4 DEF Waiting
<1>15. ASSUME NEW d \in Call
       PROVE  PutSoFar(d)' /\ Follows(d)'
  <2>1. PutSoFar(d) /\ Follows(d) /\ on[d] \in Adapter
    BY <1>1 DEF QueueInv, HookTypes
  <2>2. PutSoFar(d)'
    BY <1>4, <1>5, <2>1 DEF PutSoFar
  <2>3. ASSUME NEW m \in put, m.call = d, Waiting(m)
        PROVE  /\ pc[d] # "done" => transport'[on[d]] # None /\ m \in ToSet(outbox'[transport'[on[d]]])
               /\ \A n \in put : n.call = d /\ n.kind = "after" =>
                    /\ n \notin gone
                    /\ \E u \in DOMAIN outbox' : \E i, j \in DOMAIN outbox'[u] :
                         i < j /\ outbox'[u][i] = m /\ outbox'[u][j] = n
    <3>1. ASSUME pc[d] # "done"
          PROVE  transport'[on[d]] # None /\ m \in ToSet(outbox'[transport'[on[d]]])
      <4>1. transport[on[d]] # None /\ m \in ToSet(outbox[transport[on[d]]])
        BY <2>1, <2>3, <3>1 DEF Follows
      <4>2. on[d] \in Adapter \ {h}
        BY <1>6, <2>1, <2>3, <4>1 DEF Waiting
      <4> QED
        BY <1>7, <1>12, <4>1, <4>2
    <3>2. ASSUME NEW n \in put, n.call = d, n.kind = "after"
          PROVE  /\ n \notin gone
                 /\ \E u \in DOMAIN outbox' : \E i, j \in DOMAIN outbox'[u] :
                      i < j /\ outbox'[u][i] = m /\ outbox'[u][j] = n
      <4>1. n \notin gone
        BY <2>1, <2>3, <3>2 DEF Follows
      <4>2. PICK u \in DOMAIN outbox : \E i, j \in DOMAIN outbox[u] :
                  i < j /\ outbox[u][i] = m /\ outbox[u][j] = n
        BY <2>1, <2>3, <3>2 DEF Follows
      <4>3. outbox'[u] = outbox[u] /\ u \in DOMAIN outbox'
        BY <1>7
      <4> QED
        BY <4>1, <4>2, <4>3
    <3> QED
      BY <3>1, <3>2
  <2>4. Follows(d)'
    <3>1. put' = put /\ gone' = gone /\ on'[d] = on[d] /\ pc'[d] = pc[d]
      BY <1>4, <1>5
    <3>2. \A m \in put : Waiting(m)' => Waiting(m)
      BY <1>14
    <3> QED
      BY <2>3, <3>1, <3>2 DEF Follows
  <2> QED
    BY <2>2, <2>4
<1>16. LateAreOverlapped'
  BY <1>4 DEF QueueInv, LateAreOverlapped
<1> QED
  BY <1>9, <1>10, <1>11, <1>13, <1>15, <1>16 DEF QueueInv

\* What a thread takes is the first of its queue: never an event that is queued
\* behind the one its call waits for.
LEMMA WorkKeepsQueues ==
  ASSUME HookInv, QueueInv, NEW t \in DOMAIN outbox, Work(t)
  PROVE  QueueInv'
<1>1. HookTypes /\ Plugged /\ Admin \in Actor
  BY DEF HookInv, Actor
<1>2. PICK h : h = Head(outbox[t])
  OBVIOUS
<1>3. /\ worker[t] = "running" /\ outbox[t] # <<>> /\ outbox' = [outbox EXCEPT ![t] = Tail(@)]
      /\ UNCHANGED <<transport, hooked, todo, leftRunning, overlapped, on, pc>> /\ UNCHANGED <<put, late>>
      /\ \/ h = Sentinel /\ worker' = [worker EXCEPT ![t] = "done"] /\ gone' = gone
         \/ h # Sentinel /\ worker' = worker /\ gone' = gone \cup {h}
  BY <1>2 DEF Work, hookVars, adminVars, callVars
<1>4. outbox[t] \in Seq(put \cup {Sentinel}) /\ DOMAIN outbox = DOMAIN worker
  BY <1>1, LenProperties, ElementOfSeq DEF HookTypes
<1>5. /\ DOMAIN outbox' = DOMAIN outbox /\ \A u \in DOMAIN outbox \ {t} : outbox'[u] = outbox[u]
      /\ \A u \in DOMAIN outbox \ {t} : worker'[u] = worker[u]
      /\ outbox'[t] = Tail(outbox[t])
  BY <1>3, <1>4
<1>6. PICK k \in Nat \ {0} :
        /\ DOMAIN outbox[t] = 1..k /\ DOMAIN outbox'[t] = 1..(k - 1)
        /\ h = outbox[t][1] /\ \A i \in 1..(k - 1) : outbox'[t][i] = outbox[t][i + 1]
  BY <1>2, <1>3, <1>4, <1>5, HeadOff
<1>7. \A i \in 1..(k - 1) : i + 1 \in 1..k
  BY <1>6
<1>8. \A u \in DOMAIN outbox : \A i \in DOMAIN outbox'[u] :
        \/ u # t /\ i \in DOMAIN outbox[u] /\ outbox'[u] = outbox[u]
        \/ u = t /\ i \in 1..(k - 1) /\ i + 1 \in DOMAIN outbox[t] /\ outbox'[u][i] = outbox[t][i + 1]
  BY <1>5, <1>6, <1>7
<1>9. Distinct /\ Pending /\ BehindIsLate /\ Clean
  BY DEF QueueInv
<1>10. Distinct'
  <2>1. ASSUME NEW u \in DOMAIN outbox, NEW v \in DOMAIN outbox,
               NEW i \in DOMAIN outbox'[u], NEW j \in DOMAIN outbox'[v],
               outbox'[u][i] = outbox'[v][j], outbox'[u][i] # Sentinel
        PROVE  u = v /\ i = j
    <3>1. CASE u # t /\ v # t
      BY <1>8, <1>9, <2>1, <3>1 DEF Distinct
    <3>2. CASE u = t /\ v # t
      <4>1. i + 1 \in DOMAIN outbox[t] /\ outbox'[u][i] = outbox[t][i + 1]
            /\ j \in DOMAIN outbox[v] /\ outbox'[v][j] = outbox[v][j]
        BY <1>8, <3>2
      <4> QED
        BY <1>9, <2>1, <3>2, <4>1 DEF Distinct
    <3>3. CASE u # t /\ v = t
      <4>1. j + 1 \in DOMAIN outbox[t] /\ outbox'[v][j] = outbox[t][j + 1]
            /\ i \in DOMAIN outbox[u] /\ outbox'[u][i] = outbox[u][i]
        BY <1>8, <3>3
      <4> QED
        BY <1>9, <2>1, <3>3, <4>1 DEF Distinct
    <3>4. CASE u = t /\ v = t
      <4>1. /\ i + 1 \in DOMAIN outbox[t] /\ outbox'[u][i] = outbox[t][i + 1] /\ i \in 1..(k - 1)
            /\ j + 1 \in DOMAIN outbox[t] /\ outbox'[v][j] = outbox[t][j + 1] /\ j \in 1..(k - 1)
        BY <1>8, <3>4
      <4>2. PICK a, b : a = i + 1 /\ b = j + 1
        OBVIOUS
      <4>3. a \in DOMAIN outbox[t] /\ b \in DOMAIN outbox[t] /\ outbox[t][a] = outbox[t][b] /\ outbox[t][a] # Sentinel
        BY <2>1, <4>1, <4>2
      <4>4. a = b
        BY <1>9, <4>3 DEF Distinct
      <4> QED
        BY <3>4, <4>1, <4>2, <4>4
    <3> QED
      BY <3>1, <3>2, <3>3, <3>4
  <2> QED
    BY <1>5, <2>1 DEF Distinct
<1>11. \A u \in DOMAIN outbox : \A i \in DOMAIN outbox[u] :
         outbox[u][i] = h /\ h # Sentinel => u = t /\ i = 1
  <2>1. 1 \in DOMAIN outbox[t]
    BY <1>6
  <2> QED
    BY <1>6, <1>9, <2>1 DEF Distinct
<1>12. Pending'
  <2>1. ASSUME NEW u \in DOMAIN outbox, NEW i \in DOMAIN outbox'[u], outbox'[u][i] # Sentinel
        PROVE  outbox'[u][i] \in put /\ outbox'[u][i] \notin gone'
    <3>1. CASE u # t
      <4>1. i \in DOMAIN outbox[u] /\ outbox'[u][i] = outbox[u][i]
        BY <1>8, <3>1
      <4> QED
        BY <1>3, <1>9, <1>11, <2>1, <3>1, <4>1 DEF Pending
    <3>2. CASE u = t
      <4>1. i + 1 \in DOMAIN outbox[t] /\ outbox'[u][i] = outbox[t][i + 1] /\ i + 1 # 1
        BY <1>6, <1>8, <3>2
      <4> QED
        BY <1>3, <1>9, <1>11, <2>1, <4>1 DEF Pending
    <3> QED
      BY <3>1, <3>2
  <2> QED
    BY <1>3, <1>5, <2>1 DEF Pending
<1>13. BehindIsLate'
  <2>1. ASSUME NEW u \in DOMAIN outbox, NEW i \in DOMAIN outbox'[u], outbox'[u][i] # Sentinel,
               worker'[u] = "done" \/ \E j \in DOMAIN outbox'[u] : j < i /\ outbox'[u][j] = Sentinel
        PROVE  outbox'[u][i] \in late
    <3>1. CASE u # t
      <4>1. i \in DOMAIN outbox[u] /\ outbox'[u] = outbox[u] /\ worker'[u] = worker[u]
        BY <1>5, <1>8, <3>1
      <4> QED
        BY <1>9, <2>1, <4>1 DEF BehindIsLate
    <3>2. CASE u = t
      <4>1. /\ i + 1 \in DOMAIN outbox[t] /\ outbox'[t][i] = outbox[t][i + 1] /\ i \in 1..(k - 1)
            /\ 1 \in DOMAIN outbox[t] /\ 1 < i + 1
        BY <1>6, <1>8, <3>2
      <4>2. \E j \in DOMAIN outbox[t] : j < i + 1 /\ outbox[t][j] = Sentinel
        <5>1. CASE h = Sentinel
          BY <1>6, <4>1, <5>1
        <5>2. CASE h # Sentinel
          <6>1. PICK j \in DOMAIN outbox'[t] : j < i /\ outbox'[t][j] = Sentinel
            BY <1>3, <2>1, <3>2, <5>2
          <6>2. j + 1 \in DOMAIN outbox[t] /\ outbox[t][j + 1] = Sentinel /\ j \in 1..(k - 1)
            BY <1>8, <6>1
          <6>3. j + 1 < i + 1
            BY <4>1, <6>1, <6>2
          <6> QED
            BY <6>2, <6>3
        <5> QED
          BY <5>1, <5>2
      <4> QED
        BY <1>9, <2>1, <3>2, <4>1, <4>2 DEF BehindIsLate
    <3> QED
      BY <3>1, <3>2
  <2> QED
    BY <1>3, <1>5, <2>1 DEF BehindIsLate
<1>14. Clean'
  <2>1. ASSUME NEW u, worker[u] = "running", Sentinel \notin ToSet(outbox[u]), u \in DOMAIN outbox
        PROVE  worker'[u] = "running" /\ Sentinel \notin ToSet(outbox'[u])
    <3>1. CASE u # t
      BY <1>5, <2>1, <3>1
    <3>2. CASE u = t
      <4>1. ToSet(outbox[t]) = {h} \cup ToSet(outbox'[t])
        BY <1>2, <1>3, <1>4, <1>5, HeadOff
      <4> QED
        BY <1>3, <2>1, <3>2, <4>1
    <3> QED
      BY <3>1, <3>2
  <2>2. ASSUME NEW a \in Adapter, Running(a)
        PROVE  transport[a] \in DOMAIN outbox
    <3>1. transport[a] # None /\ transport[a] \in 0..Len(outbox) /\ DOMAIN outbox = 1..Len(outbox)
          /\ Len(outbox) \in Nat
      BY <1>1, <2>2, LenProperties DEF Plugged, HookTypes, Running
    <3> QED
      BY <3>1 DEF None
  <2>3. \A a : Running(a)' <=> Running(a)
    BY <1>3 DEF Running, Wired, Bare, InHand
  <2> QED
    BY <1>3, <1>9, <2>1, <2>2, <2>3 DEF Clean
<1>15. ASSUME NEW d \in Call
       PROVE  PutSoFar(d)' /\ Follows(d)'
  <2>1. PutSoFar(d) /\ Follows(d) /\ on[d] \in Adapter
    BY <1>1 DEF QueueInv, HookTypes
  <2>2. PutSoFar(d)'
    BY <1>3, <2>1 DEF PutSoFar
  <2>3. ASSUME NEW m \in put, m.call = d, Waiting(m)'
        PROVE  /\ pc[d] # "done" => transport[on[d]] # None /\ m \in ToSet(outbox'[transport[on[d]]])
               /\ \A n \in put : n.call = d /\ n.kind = "after" =>
                    /\ n \notin gone'
                    /\ \E u \in DOMAIN outbox : \E i, j \in DOMAIN outbox'[u] :
                         i < j /\ outbox'[u][i] = m /\ outbox'[u][j] = n
    <3>1. Waiting(m) /\ m # h
      <4>1. m # Sentinel
        BY <1>1, Actors DEF HookTypes
      <4> QED
        BY <1>3, <2>3, <4>1 DEF Waiting
    <3>2. ASSUME pc[d] # "done"
          PROVE  transport[on[d]] # None /\ m \in ToSet(outbox'[transport[on[d]]])
      <4>1. PICK u : u = transport[on[d]]
        OBVIOUS
      <4>2. u # None /\ m \in ToSet(outbox[u])
        BY <2>1, <2>3, <3>1, <3>2, <4>1 DEF Follows
      <4>3. u \in DOMAIN outbox
        <5>1. u \in 0..Len(outbox) /\ DOMAIN outbox = 1..Len(outbox) /\ Len(outbox) \in Nat
          BY <1>1, <2>1, <4>1, LenProperties DEF HookTypes
        <5> QED
          BY <4>2, <5>1 DEF None
      <4>4. m \in ToSet(outbox'[u])
        <5>1. CASE u = t
          <6>1. ToSet(outbox[t]) = {h} \cup ToSet(outbox'[t])
            BY <1>2, <1>3, <1>4, <1>5, HeadOff
          <6> QED
            BY <3>1, <4>2, <5>1, <6>1
        <5>2. CASE u # t
          BY <1>5, <4>2, <4>3, <5>2
        <5> QED
          BY <5>1, <5>2
      <4> QED
        BY <4>1, <4>2, <4>4
    <3>3. ASSUME NEW n \in put, n.call = d, n.kind = "after"
          PROVE  /\ n \notin gone'
                 /\ \E u \in DOMAIN outbox : \E i, j \in DOMAIN outbox'[u] :
                      i < j /\ outbox'[u][i] = m /\ outbox'[u][j] = n
      <4>1. n \notin gone
        BY <2>1, <2>3, <3>1, <3>3 DEF Follows
      <4>2. PICK u \in DOMAIN outbox : \E i, j \in DOMAIN outbox[u] :
                  i < j /\ outbox[u][i] = m /\ outbox[u][j] = n
        BY <2>1, <2>3, <3>1, <3>3 DEF Follows
      <4>3. PICK i \in DOMAIN outbox[u], j \in DOMAIN outbox[u] :
                  i < j /\ outbox[u][i] = m /\ outbox[u][j] = n
        BY <4>2
      <4>4. n # h
        <5>1. n # Sentinel
          BY <1>1, Actors DEF HookTypes
        <5>2. ASSUME n = h
              PROVE  FALSE
          <6>1. u = t /\ j = 1
            BY <1>11, <4>3, <5>1, <5>2
          <6>2. i \in 1..k
            BY <1>6, <4>3, <6>1
          <6> QED
            BY <4>3, <6>1, <6>2
        <5> QED
          BY <5>2
      <4>5. \E a, b \in DOMAIN outbox'[u] : a < b /\ outbox'[u][a] = m /\ outbox'[u][b] = n
        <5>1. CASE u = t
          <6>1. i \in 1..k /\ j \in 1..k /\ i # 1 /\ j # 1
            BY <1>6, <3>1, <4>3, <4>4, <5>1
          <6>2. PICK a, b \in 1..(k - 1) : a + 1 = i /\ b + 1 = j /\ a < b
            <7>1. i - 1 \in 1..(k - 1) /\ j - 1 \in 1..(k - 1) /\ (i - 1) + 1 = i /\ (j - 1) + 1 = j
                  /\ i - 1 < j - 1
              BY <4>3, <6>1
            <7> QED
              BY <7>1
          <6>3. outbox'[t][a] = m /\ outbox'[t][b] = n
            BY <1>6, <4>3, <5>1, <6>2
          <6> QED
            BY <1>6, <5>1, <6>2, <6>3
        <5>2. CASE u # t
          BY <1>5, <4>3, <5>2
        <5> QED
          BY <5>1, <5>2
      <4>6. n \notin gone'
        BY <1>3, <4>1, <4>4
      <4> QED
        BY <4>5, <4>6
    <3> QED
      BY <3>2, <3>3
  <2>4. Follows(d)'
    BY <1>3, <1>5, <2>3 DEF Follows
  <2> QED
    BY <2>2, <2>4
<1>16. LateAreOverlapped'
  BY <1>3 DEF QueueInv, LateAreOverlapped
<1> QED
  BY <1>10, <1>12, <1>13, <1>14, <1>15, <1>16 DEF QueueInv

LEMMA CallQueues ==
  ASSUME HookInv, RunInv, QueueInv, NEW c \in Call,
         \/ \E a \in Adapter : Begin(c, a)
         \/ CheckBefore(c) \/ SendBefore(c) \/ HostReturns(c) \/ HostRaises(c)
         \/ OriginalGone(c) \/ CheckAfter(c) \/ SendAfter(c)
  PROVE  QueueInv'
<1>1. HookTypes
  BY DEF HookInv
<1>2. CASE SendBefore(c) \/ SendAfter(c)
  BY <1>2, SendKeepsQueues DEF SendBefore, SendAfter
<1>3. CASE (\E a \in Adapter : Begin(c, a)) \/ CheckBefore(c)
  <2>1. PICK l : Go(c, l)
    BY <1>3 DEF Begin, CheckBefore
  <2>2. /\ UNCHANGED wireVars /\ UNCHANGED <<transport, hooked, todo, leftRunning, overlapped>>
        /\ \A d \in Call \ {c} : on'[d] = on[d]
        /\ pc[c] \notin {"host", "check2", "send2", "done"}
    BY <1>1, <1>3 DEF Begin, CheckBefore, hookVars, adminVars, callVars, HookTypes
  <2> QED
    BY <2>1, <2>2, CallKeepsQueues
<1>4. CASE HostReturns(c) \/ HostRaises(c) \/ OriginalGone(c) \/ CheckAfter(c)
  <2>1. PICK l \in {"host", "check2", "send2", "done"} : Go(c, l)
    BY <1>4 DEF HostReturns, HostRaises, OriginalGone, CheckAfter, AfterHost
  <2>2. /\ UNCHANGED wireVars /\ UNCHANGED <<transport, hooked, todo, leftRunning, overlapped>> /\ on' = on
        /\ pc[c] \in {"host", "check2", "send2"}
    BY <1>4 DEF HostReturns, HostRaises, OriginalGone, CheckAfter, hookVars, adminVars, callVars
  <2> QED
    BY <2>1, <2>2, CallKeepsQueues
<1> QED
  BY <1>2, <1>3, <1>4

LEMMA AskingQueues ==
  ASSUME HookInv, QueueInv, NEW x \in Actor,
         Look(x) \/ Lock(x) \/ CreateSession(x) \/ ReturnId(x)
  PROVE  QueueInv'
<1>1. HookTypes /\ LockRight /\ Admin \in Actor
  BY DEF HookInv, Actor
<1>2. /\ UNCHANGED wireVars /\ UNCHANGED <<transport, hooked, todo, leftRunning, overlapped, on>>
      /\ pc[x] \in {"look", "lock", "create", "return"}
  BY DEF Look, Lock, CreateSession, ReturnId, hookVars, adminVars
<1>3. PICK l : Go(x, l) /\ (x = Admin => l \in Asking)
  <2>1. CASE CreateSession(x)
    BY <1>1, <2>1 DEF CreateSession, LockRight, Asking
  <2>2. CASE Look(x) \/ Lock(x) \/ ReturnId(x)
    BY <2>2, AfterIdStep DEF Look, Lock, ReturnId, Asking
  <2> QED
    BY <2>1, <2>2
<1>4. CASE x = Admin
  <2>1. pc[Admin] \in Asking /\ pc[Admin] # "join" /\ pc'[Admin] = l /\ l \in Asking /\ l # "join"
    BY <1>1, <1>2, <1>3, <1>4 DEF Asking, Go, HookTypes
  <2>2. \A a \in Adapter : Running(a)' => Running(a)
    BY <1>2, <2>1 DEF Running, Wired, Bare, InHand, Asking
  <2> QED
    BY <1>2, <1>3, <1>4, <2>2, AdminKeepsQueues
<1>5. CASE x # Admin
  BY <1>2, <1>3, <1>5, CallKeepsQueues DEF Actor
<1> QED
  BY <1>4, <1>5

LEMMA AdminQueues ==
  ASSUME HookInv, QueueInv,
         \/ Activate \/ Deactivate \/ Restore \/ Unapplied \/ Reset
         \/ OpenHook \/ Replace \/ PassOver \/ PatchRaises \/ Applied
  PROVE  QueueInv'
<1>1. HookTypes /\ Plugged /\ Admin \in Actor
  BY DEF HookInv, Actor
<1>2. /\ UNCHANGED wireVars /\ UNCHANGED <<transport, on>> /\ overlapped \subseteq overlapped'
      /\ leftRunning => leftRunning'
  BY DEF Activate, Deactivate, Restore, Unapplied, Reset, OpenHook, Replace, PassOver, PatchRaises,
         Applied, hookVars, adminVars, callVars
<1>3. PICK l : Go(Admin, l)
  BY DEF Activate, Deactivate, Restore, Unapplied, Reset, OpenHook, Replace, PassOver, PatchRaises,
         Applied
<1>4. pc'[Admin] = l
  BY <1>1, <1>3 DEF Go, HookTypes
<1>5. \A a \in Adapter : Running(a)' => Running(a)
  <2>1. CASE Restore
    <3>1. /\ hooked' = hooked \ {Head(todo)} /\ todo' = todo /\ pc[Admin] = "restore" /\ todo # <<>>
      BY <2>1 DEF Restore, adminVars
    <3>2. Head(todo) \in hooked
      BY <1>1, <3>1, HeadOff DEF Plugged, HookTypes
    <3> QED
      BY <3>1, <3>2 DEF Running, Wired, Bare, InHand
  <2>2. CASE Replace
    <3>1. /\ hooked' = hooked \cup {Head(todo)} /\ pc[Admin] = "replace"
      BY <2>2 DEF Replace
    <3>2. InHand(Head(todo))
      BY <3>1 DEF InHand, Asking
    <3>3. l = "open"
      BY <1>1, <1>4, <2>2 DEF Replace, Go, HookTypes
    <3> QED
      BY <1>4, <3>1, <3>2, <3>3 DEF Running, Wired, Bare, InHand, Asking, Unplugging
  <2>3. CASE OpenHook
    <3>1. /\ hooked' = hooked \cup {Head(todo)} /\ todo' = todo /\ pc[Admin] = "open"
          /\ l = "connect"
      BY <1>1, <1>4, <2>3 DEF OpenHook, adminVars, Go, HookTypes
    <3> QED
      BY <1>4, <3>1 DEF Running, Wired, Bare, InHand, Asking, Unplugging
  <2>4. CASE Activate \/ Deactivate \/ Unapplied \/ Reset \/ PassOver \/ PatchRaises \/ Applied
    <3>1. hooked' = hooked /\ pc[Admin] \in {"idle", "restore", "reset", "open", "replace"}
      BY <2>4 DEF Activate, Deactivate, Unapplied, Reset, PassOver, PatchRaises, Applied, hookVars
    <3>2. l \in {"idle", "restore", "reset", "open"}
      BY <1>1, <1>4, <2>4 DEF Activate, Deactivate, Unapplied, Reset, PassOver, PatchRaises, Applied,
                              Go, HookTypes
    <3> QED
      BY <1>4, <3>1, <3>2 DEF Running, Wired, Bare, InHand, Asking, Unplugging
  <2> QED
    BY <2>1, <2>2, <2>3, <2>4
<1> QED
  BY <1>2, <1>3, <1>5, AdminKeepsQueues

LEMMA QueuesKept ==
  ASSUME HookInv, RunInv, QueueInv, [PatchNext]_patchVars
  PROVE  QueueInv'
<1>1. CASE UNCHANGED patchVars
  <2>1. /\ UNCHANGED <<hooked, transport, todo, on, overlapped, leftRunning, pc>>
        /\ UNCHANGED <<outbox, worker, put, gone, late>>
    BY <1>1 DEF patchVars, hookVars, wireVars, adminVars, callVars
  <2>2. \A a : Running(a)' <=> Running(a)
    BY <2>1 DEF Running, Wired, Bare, InHand
  <2>3. Distinct' /\ Pending' /\ BehindIsLate' /\ Clean' /\ LateAreOverlapped'
    BY <2>1, <2>2 DEF QueueInv, Distinct, Pending, BehindIsLate, Clean, LateAreOverlapped
  <2>4. \A c \in Call : PutSoFar(c)' /\ Follows(c)'
    BY <2>1 DEF QueueInv, PutSoFar, Follows, Waiting
  <2> QED
    BY <2>3, <2>4 DEF QueueInv
<1> QED
  BY <1>1, CallQueues, AskingQueues, WorkKeepsQueues, AdminQueues, ShutdownKeepsQueues, JoinKeepsQueues,
     OpenKeepsQueues DEF PatchNext

LEMMA QueuesInit == PatchInit => QueueInv
<1> SUFFICES ASSUME PatchInit PROVE QueueInv
  OBVIOUS
<1>1. DOMAIN outbox = {} /\ put = {} /\ late = {} /\ hooked = {} /\ pc[Admin] = "idle"
  BY DEF PatchInit, Actor
<1>2. Distinct /\ Pending /\ BehindIsLate
  BY <1>1 DEF Distinct, Pending, BehindIsLate
<1>3. Clean
  BY <1>1 DEF Clean, Running, Wired, InHand, Asking, Unplugging
<1>4. \A c \in Call : PutSoFar(c) /\ Follows(c)
  BY <1>1 DEF PutSoFar, Follows
<1> QED
  BY <1>1, <1>2, <1>3, <1>4 DEF QueueInv, LateAreOverlapped

\* The server sees what came before a call ahead of what came after it, for any
\* adapters and any number of activations under the calls.
THEOREM EventsInOrder == PatchSpec => []BeforeComesFirst
<1>1. PatchInit => HookInv /\ RunInv /\ QueueInv
  BY HooksInit, RunsInit, QueuesInit
<1>2. HookInv /\ RunInv /\ QueueInv /\ [PatchNext]_patchVars => HookInv' /\ RunInv' /\ QueueInv'
  BY HooksKept, RunsKept, QueuesKept
<1>3. HookInv /\ QueueInv => BeforeComesFirst
  <2> SUFFICES ASSUME HookInv, QueueInv, NEW m \in put, NEW n \in put,
                      m.call = n.call, m.kind = "before", n.kind = "after", n \in gone,
                      m \notin gone, ~(m \in late /\ m.call \in overlapped), ~leftRunning
               PROVE  FALSE
    BY DEF BeforeComesFirst
  <2>1. m.call \in Call
    BY DEF HookInv, HookTypes, PatchEvent
  <2>2. Waiting(m)
    BY DEF QueueInv, LateAreOverlapped, Waiting
  <2> QED
    BY <2>1, <2>2 DEF QueueInv, Follows
<1> QED
  BY <1>1, <1>2, <1>3, PTL DEF PatchSpec

-----------------------------------------------------------------------------
(* Types *)

\* Whatever activations and calls leave behind when they interleave is well formed.
THEOREM PatchTypeCorrect == PatchSpec => []PatchTypeOK
<1>1. PatchInit => HookInv
  BY HooksInit
<1>2. HookInv /\ [PatchNext]_patchVars => HookInv'
  BY HooksKept
<1>3. HookInv => PatchTypeOK
  <2> SUFFICES ASSUME HookInv PROVE PatchTypeOK
    OBVIOUS
  <2>1. HookTypes /\ HookBounds /\ LockRight /\ Plugged /\ Nobody \notin Actor
    BY Actors DEF HookInv
  <2>2. ASSUME NEW a \in hooked
        PROVE  /\ a \in ToSet(patchedList) \/ (a \in HookFirst /\ a = Head(todo))
               /\ transport[a] # None \/ pc[Admin] = "connect"
    <3>1. pc[Admin] \in AdminSteps /\ a \in Adapter
      BY <2>1 DEF HookTypes
    <3>2. a \in ToSet(patchedList) \/ (a \in HookFirst /\ a = Head(todo))
      BY <2>1, <3>1 DEF Plugged, AdminSteps, Unplugging
    <3>3. pc[Admin] # "connect" => Wired(a)
      BY DEF Wired, Bare
    <3> QED
      BY <2>1, <3>1, <3>2, <3>3 DEF Plugged
  <2>3. Len(outbox) \in 0..MaxOps * Len(Adapters)
    <3>1. PICK a, b, k : a = activations /\ b = Len(Adapters) /\ k = MaxOps
      OBVIOUS
    <3>2. a \in Nat /\ b \in Nat /\ k \in Nat /\ a <= k /\ Len(outbox) \in Nat /\ Len(outbox) <= a * b
      BY <2>1, <3>1, Actors, AdaptersAssumption, LenProperties DEF HookTypes, HookBounds
    <3>3. a * b <= k * b /\ a * b \in Nat /\ k * b \in Nat
      BY <3>2
    <3> QED
      BY <3>1, <3>2, <3>3
  <2>4. \A t \in DOMAIN outbox :
          /\ worker[t] \in {"running", "done"}
          /\ outbox[t] \in Seq(PatchEvent \cup {Sentinel})
    <3> SUFFICES ASSUME NEW t \in DOMAIN outbox
                 PROVE  /\ worker[t] \in {"running", "done"}
                        /\ outbox[t] \in Seq(PatchEvent \cup {Sentinel})
      OBVIOUS
    <3>1. t \in 1..Len(outbox) /\ t \in 1..Len(worker)
      BY <2>1, LenProperties DEF HookTypes
    <3>2. worker[t] \in {"running", "done"} /\ outbox[t] \in Seq(put \cup {Sentinel})
      BY <2>1, <3>1, ElementOfSeq DEF HookTypes
    <3>3. put \cup {Sentinel} \subseteq PatchEvent \cup {Sentinel}
      BY <2>1 DEF HookTypes
    <3> QED
      BY <3>2, <3>3, SeqMonotonic
  <2>5. made \in 0..(MaxOps + 1)
    <3>1. /\ made \in Nat /\ period \in Nat /\ activations \in Nat /\ MaxOps \in Nat
          /\ made <= period + 1 /\ period <= activations /\ activations <= MaxOps
      BY <2>1, Actors DEF HookTypes, HookBounds
    <3> QED
      BY <3>1
  <2>6. idLock # Nobody <=> \E x \in Actor : pc[x] = "create" /\ idLock = x
    BY <2>1 DEF LockRight, HookTypes
  <2>7. /\ \A c \in Call : pc[c] \in {"idle", "check1", "look", "lock", "create", "return",
                                      "send1", "host", "check2", "send2", "done"}
        /\ pc[Admin] \in {"idle", "restore", "shutdown", "join", "reset", "open",
                          "connect", "look", "lock", "create", "return", "replace"}
        /\ \A x \in Actor : id[x] \in 0..made
        /\ early \subseteq {c \in Call : on[c] \in HookFirst}
        /\ IsInjective(patchedList)
    BY <2>1 DEF HookTypes, CallSteps, AdminSteps, Patching, Asking, Plugged
  <2> QED
    BY <2>1, <2>2, <2>3, <2>4, <2>5, <2>6, <2>7 DEF PatchTypeOK, HookTypes
<1> QED
  BY <1>1, <1>2, <1>3, PTL DEF PatchSpec

-----------------------------------------------------------------------------
(* The services together *)

\* Activations, alert writes and restores leave nothing malformed behind, each
\* service by its own invariant.
THEOREM ServicesTypeCorrect == ServicesSpec => []ServicesTypeOK
<1>1. ServicesInit => PatchInit /\ AlertInit /\ RestoreInit
  BY DEF ServicesInit
<1>2. [ServicesNext]_<<service, patchVars, alertVars, restoreVars>> =>
        [PatchNext]_patchVars /\ [AlertNext]_alertVars /\ [RestoreNext]_restoreVars
  BY DEF ServicesNext
<1>3. ServicesSpec => PatchSpec /\ AlertSpec /\ RestoreSpec
  BY <1>1, <1>2, PTL DEF ServicesSpec, PatchSpec, AlertSpec, RestoreSpec
<1>4. PatchTypeOK /\ AlertTypeOK /\ RestoreTypeOK => ServicesTypeOK
  BY DEF ServicesTypeOK
<1> QED
  BY <1>3, <1>4, PatchTypeCorrect, AlertTypeCorrect, RestoreTypeCorrect, PTL
=============================================================================
