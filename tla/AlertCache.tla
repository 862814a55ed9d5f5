---------------------------- MODULE AlertCache ----------------------------
(***************************************************************************)
(* Alert statistics (storage/repositories/alert_repo.py, storage/cache.py, *)
(* routes of api/trace_routes.py): the summaries of one tenant are cached  *)
(* for all requests of the process.  A request that misses the cache       *)
(* computes its summary by one or several queries, with an await after     *)
(* each, and then caches it.  A request that changes an alert clears all   *)
(* summaries of the tenant before it commits.  Deleting a session deletes  *)
(* its alerts (storage/repositories/session_repo.py) and clears none.      *)
(*                                                                         *)
(* Every SELECT sees what is committed then (SQLite outside a write        *)
(* transaction, or READ COMMITTED).  An alert is its status; no other      *)
(* column that the queries group by ever changes, so such a query counts   *)
(* the alerts that exist.  No alert gets too old for the hours or days     *)
(* that a query looks back.                                                *)
(***************************************************************************)
EXTENDS Naturals, SequencesExt

CONSTANTS
  Alert,        \* ids of alerts
  OldAlert,     \* those that exist from the start
  Writer,       \* requests that create, change or delete alerts, each run once
  Reader,       \* requests for a summary, which come again and again
  Summary,      \* the summaries asked for
  Ttl           \* steps of time a cached summary lives

Status == {"active", "acknowledged", "resolved", "dismissed"}
Absent == "absent"

\* The queries behind each summary, in order.
Plan == [alert_summary     |-> <<"severity", "type", "session">>,
         trending_alerts   |-> <<"type">>,
         lifecycle_summary |-> <<"status", "type", "critical", "high", "medium", "low">>,
         trending          |-> <<"day">>]

ASSUME AlertsAssumption == OldAlert \subseteq Alert
ASSUME SummaryAssumption == Summary \subseteq DOMAIN Plan /\ Ttl \in Nat \ {0}

VARIABLES
  status,    \* committed: alert -> status, or Absent
  staged,    \* writer -> the rows its transaction will write, with their status
  write,     \* writer -> "idle", "open" (invalidated, not committed) or "over"
  asks,      \* reader -> the summary it computes, or Nothing
  partial,   \* reader -> answers of the queries so far
  outrun,    \* history: reader -> a writer was "open" or alerts were deleted meanwhile
  cache      \* summary -> its entry in QueryCache, or NoEntry

alertVars == <<status, staged, write, asks, partial, outrun, cache>>

Nothing == "nothing"
NoEntry == [left |-> 0, answers |-> <<>>, outrun |-> FALSE]

Existing == {a \in Alert : status[a] # Absent}

\* What one query answers now.
Answer(column) ==
  IF column = "status" THEN [s \in Status |-> Cardinality({a \in Alert : status[a] = s})]
                       ELSE Cardinality(Existing)

\* What all queries of a summary answer if nothing changes meanwhile.
Answers(k) == [i \in DOMAIN Plan[k] |-> Answer(Plan[k][i])]

AlertTypeOK ==
  /\ status \in [Alert -> Status \cup {Absent}]
  /\ \A w \in Writer :
       /\ DOMAIN staged[w] \subseteq Alert /\ \A a \in DOMAIN staged[w] : staged[w][a] \in Status
       /\ write[w] \in {"idle", "open", "over"}
       /\ write[w] # "open" => DOMAIN staged[w] = {}
  /\ \A r \in Reader :
       /\ asks[r] \in Summary \cup {Nothing}
       /\ asks[r] = Nothing => partial[r] = <<>>
       /\ asks[r] # Nothing => Len(partial[r]) <= Len(Plan[asks[r]])
       /\ outrun[r] \in BOOLEAN
  /\ \A k \in Summary : cache[k] # NoEntry =>
       /\ cache[k].left \in 1..Ttl
       /\ Len(cache[k].answers) = Len(Plan[k])

NoRows == [a \in {} |-> "active"]

AlertInit ==
  /\ status = [a \in Alert |-> IF a \in OldAlert THEN "active" ELSE Absent]
  /\ staged = [w \in Writer |-> NoRows]
  /\ write = [w \in Writer |-> "idle"]
  /\ asks = [r \in Reader |-> Nothing]
  /\ partial = [r \in Reader |-> <<>>]
  /\ outrun = [r \in Reader |-> FALSE]
  /\ cache = [k \in Summary |-> NoEntry]

-----------------------------------------------------------------------------
(* Writers *)

\* _invalidate_summary_cache, with a transaction that has still to commit.
Stage(w, rows) ==
  /\ write[w] = "idle"
  /\ staged' = [staged EXCEPT ![w] = rows]
  /\ write' = [write EXCEPT ![w] = "open"]
  /\ cache' = [k \in Summary |-> NoEntry]
  /\ outrun' = [r \in Reader |-> asks[r] # Nothing]
  /\ UNCHANGED <<status, asks, partial>>

\* create_anomaly_alert; ids are fresh.
CreateAlert(w, a) ==
  /\ a \notin Existing /\ \A v \in Writer : a \notin DOMAIN staged[v]
  /\ Stage(w, [b \in {a} |-> "active"])

\* Mutant: the cache is cleared for new alerts only.
UpdateStatus_KeepsCache(w, a, s) ==
  /\ write[w] = "idle" /\ a \in Existing
  /\ staged' = [staged EXCEPT ![w] = [b \in {a} |-> s]]
  /\ write' = [write EXCEPT ![w] = "open"]
  /\ outrun' = [r \in Reader |-> asks[r] # Nothing]
  /\ UNCHANGED <<status, asks, partial, cache>>

\* update_alert_status; an alert that is not found is a 404 that changes nothing.
UpdateStatus(w, a, s) ==
  /\ a \in Existing
  /\ Stage(w, [b \in {a} |-> s])

\* bulk_update_status: the rows among the ids that exist, possibly none.
BulkUpdate(w, ids, s) == Stage(w, [b \in ids \cap Existing |-> s])

CommitAlerts(w) ==
  /\ write[w] = "open"
  /\ status' = [a \in Alert |-> IF a \in DOMAIN staged[w] THEN staged[w][a] ELSE status[a]]
  /\ write' = [write EXCEPT ![w] = "over"]
  /\ staged' = [staged EXCEPT ![w] = NoRows]
  /\ UNCHANGED <<asks, partial, outrun, cache>>

\* The commit fails, and the route rolls back.
RollbackAlerts(w) ==
  /\ write[w] = "open"
  /\ write' = [write EXCEPT ![w] = "over"]
  /\ staged' = [staged EXCEPT ![w] = NoRows]
  /\ UNCHANGED <<status, asks, partial, outrun, cache>>

\* delete_session: a session goes with its alerts, and the summaries stay.  A change
\* that is still to commit finds the rows no longer.
DeleteSession(w, ids) ==
  /\ write[w] = "idle" /\ ids # {} /\ ids \subseteq Existing
  /\ status' = [a \in Alert |-> IF a \in ids THEN Absent ELSE status[a]]
  /\ staged' = [v \in Writer |-> [a \in DOMAIN staged[v] \ ids |-> staged[v][a]]]
  /\ write' = [write EXCEPT ![w] = "over"]
  /\ outrun' = [r \in Reader |-> asks[r] # Nothing]
  /\ cache' = [k \in Summary |-> IF cache[k] = NoEntry THEN NoEntry
                                  ELSE [cache[k] EXCEPT !.outrun = TRUE]]
  /\ UNCHANGED <<asks, partial>>

-----------------------------------------------------------------------------
(* Readers *)

\* A miss.  (A hit answers from the cache and changes nothing.)
Miss(r, k) ==
  /\ asks[r] = Nothing /\ cache[k] = NoEntry
  /\ asks' = [asks EXCEPT ![r] = k]
  /\ outrun' = [outrun EXCEPT ![r] = \E w \in Writer : write[w] = "open"]
  /\ UNCHANGED <<status, staged, write, partial, cache>>

Query(r) ==
  /\ asks[r] # Nothing
  /\ LET i == Len(partial[r]) + 1
     IN /\ i \in DOMAIN Plan[asks[r]]
        /\ partial' = [partial EXCEPT ![r] = Append(@, Answer(Plan[asks[r]][i]))]
  /\ UNCHANGED <<status, staged, write, asks, outrun, cache>>

\* QueryCache.set; the route answers with the same summary.
Fill(r) ==
  /\ asks[r] # Nothing /\ Len(partial[r]) = Len(Plan[asks[r]])
  /\ cache' = [cache EXCEPT ![asks[r]] =
                 [left |-> Ttl, answers |-> partial[r], outrun |-> outrun[r]]]
  /\ asks' = [asks EXCEPT ![r] = Nothing]
  /\ partial' = [partial EXCEPT ![r] = <<>>]
  /\ outrun' = [outrun EXCEPT ![r] = FALSE]
  /\ UNCHANGED <<status, staged, write>>

\* Time passes; QueryCache.get finds an entry no longer when it has expired.
Tick ==
  /\ \E k \in Summary : cache[k] # NoEntry
  /\ cache' = [k \in Summary |-> IF cache[k].left <= 1 THEN NoEntry
                                  ELSE [cache[k] EXCEPT !.left = @ - 1]]
  /\ UNCHANGED <<status, staged, write, asks, partial, outrun>>

AlertNext ==
  \/ \E w \in Writer :
       \/ \E a \in Alert : CreateAlert(w, a)
       \/ \E a \in Alert, s \in Status : UpdateStatus(w, a, s)
       \/ \E ids \in SUBSET Alert, s \in Status : BulkUpdate(w, ids, s)
       \/ CommitAlerts(w) \/ RollbackAlerts(w)
       \/ \E ids \in SUBSET Alert : DeleteSession(w, ids)
  \/ \E r \in Reader : Query(r) \/ Fill(r) \/ \E k \in Summary : Miss(r, k)
  \/ Tick

AlertSpec == AlertInit /\ [][AlertNext]_alertVars

-----------------------------------------------------------------------------
(* Properties *)

\* "Invalidate cache when alert status changes", "when new alert is created":
\* a cached summary that is not what the database says comes from a computation
\* that a writer overlapped between its invalidation and its commit, or a session with
\* alerts was deleted since its first query.  Any other entry is right, over all
\* queries it was put together from.
StaleOnlyIfOutrun ==
  \A k \in Summary : cache[k] # NoEntry /\ ~cache[k].outrun => cache[k].answers = Answers(k)
=============================================================================
