------------------------------ MODULE Restore ------------------------------
(***************************************************************************)
(* Checkpoints and what becomes of them: the collector takes a checkpoint  *)
(* (collector/server.py, ingest_checkpoint), restores it into a new        *)
(* session (api/replay_routes.py, restore_checkpoint), and the SDK adopts  *)
(* that session, or falls back to rebuilding one by itself                 *)
(* (session_manager.py), and replays what the source session recorded      *)
(* (trace_context.py, restore).                                            *)
(*                                                                         *)
(* There is one source session, which may still be running, and one        *)
(* checkpoint in it.  An event is its timestamp; events commit in any      *)
(* order, and some never do.                                               *)
(***************************************************************************)
EXTENDS Naturals, Sequences, Ordering

CONSTANTS
  Client,      \* calls of TraceContext.restore
  Replaying,   \* those of them with replay_events=True
  PageSize,    \* events fetched by one request of the replay
  MaxTime      \* bound: timestamps

Named == "named"        \* a session id that callers may ask for
Minted == "minted"      \* no id asked for: the server, or the SDK, makes one
Sdk == "sdk"

ASSUME RestoreAssumption ==
  /\ PageSize \in Nat \ {0} /\ Replaying \subseteq Client /\ {Named, Minted, Sdk} \cap Client = {}
  /\ MaxTime \in Nat

VARIABLES
  now,         \* the last timestamp given
  created,     \* events recorded
  committed,   \* events in the database
  cp,          \* the checkpoint
  rows,        \* sessions restored or created: id -> for whom, with which copies
               \* (since: history, the events committed when it was asked for)
  call,        \* client -> what it does
  post,        \* client -> its restore request at the server
  snap,        \* client -> the source's events, as the server read them
  raw,         \* client -> events fetched for the replay
  due,         \* history: client -> events committed when it began to fetch
  asked,       \* history: client -> events committed when it asked (see rows)
  shifted,     \* history: clients with an earlier event committed while they fetched
  timedOut     \* history: clients whose request got no answer

sourceVars == <<now, created, committed, cp>>
fetchVars == <<raw, due, shifted>>
restoreVars == <<sourceVars, rows, call, post, snap, asked, timedOut, fetchVars>>

NoAnchor == 0
SessionId == {Named} \cup Client     \* the id minted for a client's request is its name

RestoreTypeOK ==
  /\ now \in 0..MaxTime
  /\ created \subseteq 1..now /\ committed \subseteq created
  /\ cp.state \in {"none", "sent", "stored", "refused"}
  /\ cp.time \in 0..now /\ cp.anchor \in created \cup {NoAnchor}
  /\ cp.anchor < cp.time \/ cp.anchor = NoAnchor
  /\ DOMAIN rows \subseteq SessionId
  /\ \A id \in DOMAIN rows :
       rows[id].owner \in Client \cup {Sdk} /\ rows[id].copies \subseteq committed
  /\ \A c \in Client :
       /\ call[c].step \in {"idle", "posting", "getting", "fetching", "restored", "entered", "error"}
       /\ call[c].mode \in {"none", "semantic", "legacy"}
       /\ post[c] \in {"none", "received", "read", "done", "failed", "notfound"}
       /\ snap[c] \subseteq committed /\ raw[c] \in Seq(committed)
       /\ call[c].mode = "semantic" => post[c] = "done" /\ call[c].session \in DOMAIN rows
       /\ c \notin timedOut /\ call[c].step = "posting" => post[c] # "none"

NoCall == [step |-> "idle", wanted |-> Minted, mode |-> "none", session |-> Minted]

RestoreInit ==
  /\ now = 0 /\ created = {} /\ committed = {}
  /\ cp = [state |-> "none", time |-> 0, anchor |-> NoAnchor]
  /\ rows = [id \in {} |-> [owner |-> Sdk, copies |-> {}, since |-> {}]]
  /\ call = [c \in Client |-> NoCall]
  /\ post = [c \in Client |-> "none"]
  /\ snap = [c \in Client |-> {}]
  /\ raw = [c \in Client |-> <<>>]
  /\ due = [c \in Client |-> {}]
  /\ asked = [c \in Client |-> {}]
  /\ shifted = {} /\ timedOut = {}

-----------------------------------------------------------------------------
(* The source session *)

RecordEvent ==
  /\ now < MaxTime
  /\ now' = now + 1 /\ created' = created \cup {now + 1}
  /\ UNCHANGED <<committed, cp, rows, call, post, snap, asked, timedOut, fetchVars>>

Fetching == {c \in Client : call[c].step = "fetching"}

CommitEvent(e) ==
  /\ e \in created \ committed
  /\ committed' = committed \cup {e}
  /\ shifted' = IF \E d \in committed : d > e THEN shifted \cup Fetching ELSE shifted
  /\ UNCHANGED <<now, created, cp, rows, call, post, snap, asked, timedOut, raw, due>>

\* create_checkpoint: the event that is the current parent is the anchor.
CreateCheckpoint(a) ==
  /\ cp.state = "none" /\ now < MaxTime
  /\ now' = now + 1
  /\ cp' = [state |-> "sent", time |-> now + 1, anchor |-> a]
  /\ UNCHANGED <<created, committed, rows, call, post, snap, asked, timedOut, fetchVars>>

\* Mutant: the reference to the anchor is not looked up.
IngestCheckpoint_NoCheck ==
  /\ cp.state = "sent"
  /\ cp' = [cp EXCEPT !.state = "stored"]
  /\ UNCHANGED <<now, created, committed, rows, call, post, snap, asked, timedOut, fetchVars>>

\* A checkpoint whose anchor is not in the database is a 404, which the SDK takes
\* for permanent.  (Its request may also be lost: it stays "sent".)
IngestCheckpoint ==
  /\ cp.state = "sent"
  /\ cp' = [cp EXCEPT !.state =
              IF cp.anchor # NoAnchor /\ cp.anchor \notin committed THEN "refused" ELSE "stored"]
  /\ UNCHANGED <<now, created, committed, rows, call, post, snap, asked, timedOut, fetchVars>>

-----------------------------------------------------------------------------
(* The restore request at the server *)

\* get_checkpoint and get_event_tree.
ReadSource(c) ==
  /\ post[c] = "received"
  /\ IF cp.state = "stored"
       THEN /\ post' = [post EXCEPT ![c] = "read"] /\ snap' = [snap EXCEPT ![c] = committed]
            /\ UNCHANGED asked
       ELSE /\ post' = [post EXCEPT ![c] = "notfound"] /\ asked' = [asked EXCEPT ![c] = {}]
            /\ UNCHANGED snap
  /\ UNCHANGED <<sourceVars, rows, call, timedOut, fetchVars>>

\* _copy_prefix_events: up to the anchor, in timestamp order; nothing if it is
\* not among the events.
Prefix(events) == IF cp.anchor \in events THEN {e \in events : e <= cp.anchor} ELSE {}

IdFor(c) == IF call[c].wanted = Named THEN Named ELSE c

WithRow(id, owner, copies, since) ==
  [i \in DOMAIN rows \cup {id} |->
     IF i = id THEN [owner |-> owner, copies |-> copies, since |-> since] ELSE rows[i]]

\* Mutant: a session of that id is written over.
CommitRestore_Overwrites(c) ==
  /\ post[c] = "read"
  /\ post' = [post EXCEPT ![c] = "done"]
  /\ rows' = WithRow(IdFor(c), c, Prefix(snap[c]), asked[c])
  /\ snap' = [snap EXCEPT ![c] = {}] /\ asked' = [asked EXCEPT ![c] = {}]
  /\ UNCHANGED <<sourceVars, call, timedOut, fetchVars>>

\* One transaction inserts the session, the copies, the marker and the initial
\* checkpoint; a session of that id violates the primary key.
CommitRestore(c) ==
  /\ post[c] = "read"
  /\ IF IdFor(c) \in DOMAIN rows
       THEN post' = [post EXCEPT ![c] = "failed"] /\ UNCHANGED rows
       ELSE /\ post' = [post EXCEPT ![c] = "done"]
            /\ rows' = WithRow(IdFor(c), c, Prefix(snap[c]), asked[c])
  /\ snap' = [snap EXCEPT ![c] = {}] /\ asked' = [asked EXCEPT ![c] = {}]
  /\ UNCHANGED <<sourceVars, call, timedOut, fetchVars>>

-----------------------------------------------------------------------------
(* The SDK *)

Step(c, s) == call' = [call EXCEPT ![c].step = s]

Ask(c, wanted) ==
  /\ call[c].step = "idle" /\ cp.state # "none"
  /\ call' = [call EXCEPT ![c].step = "posting", ![c].wanted = wanted]
  /\ post' = [post EXCEPT ![c] = "received"]
  /\ asked' = [asked EXCEPT ![c] = committed]
  /\ UNCHANGED <<sourceVars, rows, snap, timedOut, fetchVars>>

\* With a session of either kind, the replay begins if there is to be one.
Restored(c, mode, id) ==
  /\ call' = [call EXCEPT ![c].step = IF c \in Replaying THEN "fetching" ELSE "restored",
                          ![c].mode = mode, ![c].session = id]
  /\ due' = [due EXCEPT ![c] = IF c \in Replaying THEN committed ELSE {}]
  /\ UNCHANGED <<sourceVars, rows, post, snap, asked, timedOut, raw, shifted>>

\* _build_semantic_restored_session: the server's ids are adopted.
Adopt(c) ==
  /\ call[c].step = "posting" /\ post[c] = "done"
  /\ Restored(c, "semantic", IdFor(c))

\* A 404 means an old server: fall back.  Any other error is raised.
Answered404(c) ==
  /\ call[c].step = "posting" /\ post[c] = "notfound"
  /\ Step(c, "getting")
  /\ UNCHANGED <<sourceVars, rows, post, snap, asked, timedOut, fetchVars>>

Answered500(c) ==
  /\ call[c].step = "posting" /\ post[c] = "failed"
  /\ Step(c, "error")
  /\ UNCHANGED <<sourceVars, rows, post, snap, asked, timedOut, fetchVars>>

\* No answer, whatever the server does with the request: fall back.
NoAnswer(c) ==
  /\ call[c].step = "posting"
  /\ timedOut' = timedOut \cup {c}
  /\ Step(c, "getting")
  /\ UNCHANGED <<sourceVars, rows, post, snap, asked, fetchVars>>

\* The legacy path: the checkpoint is fetched, and a session built locally.
Fallback(c) ==
  /\ call[c].step = "getting"
  /\ IF cp.state = "stored"
       THEN Restored(c, "legacy", IdFor(c))
       ELSE /\ Step(c, "error")
            /\ UNCHANGED <<sourceVars, rows, post, snap, asked, timedOut, fetchVars>>

\* The query sorts by timestamp.
Page(c) == LET all == Sorted(committed)
               from == Len(raw[c])
           IN  SubSeq(all, from + 1, IF from + PageSize < Len(all) THEN from + PageSize ELSE Len(all))

\* Mutant: the last page is taken for a full one only if it is longer.
FetchPage_StopsEarly(c) ==
  /\ call[c].step = "fetching"
  /\ raw' = [raw EXCEPT ![c] = @ \o Page(c)]
  /\ IF Len(Page(c)) <= PageSize THEN Step(c, "restored") ELSE UNCHANGED call
  /\ UNCHANGED <<sourceVars, rows, post, snap, asked, timedOut, due, shifted>>

\* GET /traces with limit and offset, until a page is not full.
FetchPage(c) ==
  /\ call[c].step = "fetching"
  /\ raw' = [raw EXCEPT ![c] = @ \o Page(c)]
  /\ IF Len(Page(c)) < PageSize THEN Step(c, "restored") ELSE UNCHANGED call
  /\ UNCHANGED <<sourceVars, rows, post, snap, asked, timedOut, due, shifted>>

\* Fetching fails, which is logged: what there is so far counts.
FetchFails(c) ==
  /\ call[c].step = "fetching"
  /\ Step(c, "restored")
  /\ shifted' = shifted \cup {c}
  /\ UNCHANGED <<sourceVars, rows, post, snap, asked, timedOut, raw, due>>

\* Entering the context creates its session; a 409 for an id that exists counts
\* as a failed delivery, and the run goes on.
EnterRestored(c) ==
  /\ call[c].step = "restored"
  /\ Step(c, "entered")
  /\ rows' = IF call[c].session \in DOMAIN rows THEN rows ELSE WithRow(call[c].session, Sdk, {}, {})
  /\ raw' = [raw EXCEPT ![c] = <<>>] /\ due' = [due EXCEPT ![c] = {}]
  /\ shifted' = shifted \ {c}
  /\ UNCHANGED <<sourceVars, post, snap, asked, timedOut>>

RestoreNext ==
  \/ RecordEvent \/ IngestCheckpoint
  \/ \E e \in created : CommitEvent(e)
  \/ \E a \in created \cup {NoAnchor} : CreateCheckpoint(a)
  \/ \E c \in Client :
       \/ ReadSource(c) \/ CommitRestore(c)
       \/ \E w \in {Named, Minted} : Ask(c, w)
       \/ Adopt(c) \/ Answered404(c) \/ Answered500(c) \/ NoAnswer(c) \/ Fallback(c)
       \/ FetchPage(c) \/ FetchFails(c) \/ EnterRestored(c)

RestoreSpec == RestoreInit /\ [][RestoreNext]_restoreVars

-----------------------------------------------------------------------------
(* Properties *)

\* "The new session carries the source session's history up to and including
\* the checkpoint's anchor event": whoever restores, and whatever commits
\* meanwhile, a restored session has the anchor, all that preceded it when the
\* restore was asked for, and nothing later.
HistoryIsCopied ==
  \A id \in DOMAIN rows : rows[id].owner # Sdk /\ cp.anchor # NoAnchor =>
    /\ cp.anchor \in rows[id].copies
    /\ {e \in rows[id].since : e <= cp.anchor} \subseteq rows[id].copies
    /\ \A e \in rows[id].copies : e <= cp.anchor

\* "The context adopts the server-assigned session id": a context that says so
\* is the only one on that session, which holds its own copies.  A restored
\* session that nobody adopts is one whose request had no answer.
RestoredIsAdopted ==
  /\ \A c \in Client : call[c].mode = "semantic" => rows[call[c].session].owner = c
  /\ \A id \in DOMAIN rows : rows[id].owner # Sdk =>
       \/ call[rows[id].owner].mode = "semantic" /\ call[rows[id].owner].session = id
       \/ call[rows[id].owner].step = "posting"
       \/ rows[id].owner \in timedOut

\* The events handed to the new context, by their places among those fetched.  Only a
\* session rebuilt by the SDK carries the checkpoint's timestamp, after which its events
\* must be; with one that the server restored nothing is filtered out.
Replayed(c) == {i \in DOMAIN raw[c] : call[c].mode = "legacy" => raw[c][i] > cp.time}

\* What a replay hands over of the events stored when it began, page by page: each of
\* them once, those up to the checkpoint only in the default, semantic mode, unless an
\* earlier event is committed meanwhile and moves the pages.  (The docstring of restore
\* promises "events recorded after the checkpoint" of both modes, which holds of the
\* legacy mode alone: the copies that a semantic restore has made already are replayed
\* from the source as well.)
ReplayedOnce ==
  \A c \in Replaying : call[c].step = "restored" /\ c \notin shifted =>
    /\ \A i, j \in Replayed(c) : raw[c][i] = raw[c][j] => i = j
    /\ {raw[c][i] : i \in Replayed(c)} \cap due[c] =
         {e \in due[c] : call[c].mode = "legacy" => e > cp.time}
=============================================================================
