--------------------------- MODULE SessionTotals ---------------------------
(***************************************************************************)
(* The column "errors" of a session's row has two writers.  Storing an     *)
(* error event adds one to it in SQL (storage/repository.py, add_event);   *)
(* a session update sets it to what the SDK has counted                    *)
(* (recorders.py, transport.py, session_repo.py, update_session).  The SDK *)
(* sends both side by side for every error it records (emitter.py), and    *)
(* two more updates when the session ends.                                 *)
(*                                                                         *)
(* A request may be answered, lost, or go on at the collector after its    *)
(* sender has given it up or sent it again.                                *)
(***************************************************************************)
EXTENDS Naturals, FiniteSets

CONSTANTS
  Task,        \* tasks of the agent that record errors
  MaxErrors,   \* bound: errors recorded
  MaxCopies,   \* bound: requests sent, second copies included
  MaxFaults    \* bound: answers that do not come

Closer == "closer"      \* the task that leaves the context

ASSUME CloserAssumption == Closer \notin Task

VARIABLES
  counted,     \* session.errors in the SDK
  row,         \* the column
  stored,      \* error events in the database
  copies,      \* requests in flight or inside a handler
  sent,        \* number of requests sent so far
  awaits,      \* task -> the requests it awaits
  phase,       \* "open", "ending", "final" or "closed"
  faults,
  underWay,    \* history: something else was under way during the last update
  landed       \* history: the last update was answered

totalsVars == <<counted, row, stored, copies, sent, awaits, phase, faults, underWay, landed>>

TotalsInit ==
  /\ counted = 0 /\ row = 0 /\ stored = {}
  /\ copies = {} /\ sent = 0
  /\ awaits = [t \in Task \cup {Closer} |-> {}]
  /\ phase = "open"
  /\ faults = 0
  /\ underWay = FALSE /\ landed = FALSE

\* A request: the event it carries (0 in an update), the total it carries, and
\* what the handler has read of the row, if it has.
Unread == {}
EventRequest(n, e) == [no |-> n, event |-> e, total |-> 0, seen |-> Unread]
UpdateRequest(n, total) == [no |-> n, event |-> 0, total |-> total, seen |-> Unread]

-----------------------------------------------------------------------------
(* The SDK *)

\* record_error, and emit: the event and an update go out together.
RecordError(t) ==
  LET e == EventRequest(sent + 1, sent + 1)
      u == UpdateRequest(sent + 2, counted + 1)
  IN  /\ phase # "closed" /\ awaits[t] = {}
      /\ counted < MaxErrors /\ sent + 2 <= MaxCopies
      /\ counted' = counted + 1
      /\ sent' = sent + 2
      /\ copies' = copies \cup {e, u}
      /\ awaits' = [awaits EXCEPT ![t] = {sent + 1, sent + 2}]
      /\ underWay' = (underWay \/ phase = "final")
      /\ UNCHANGED <<row, stored, phase, faults, landed>>

\* record_tool_result with an error: counted, but the event is of another type,
\* which the collector does not count.
RecordToolError(t) ==
  /\ phase # "closed" /\ awaits[t] = {}
  /\ counted < MaxErrors /\ sent < MaxCopies
  /\ counted' = counted + 1
  /\ sent' = sent + 1
  /\ copies' = copies \cup {UpdateRequest(sent + 1, counted + 1)}
  /\ awaits' = [awaits EXCEPT ![t] = {sent + 1}]
  /\ underWay' = (underWay \/ phase = "final")
  /\ UNCHANGED <<row, stored, phase, faults, landed>>

\* __aexit__: the end event, which brings an update with it ...
EndSession ==
  /\ phase = "open" /\ sent < MaxCopies
  /\ phase' = "ending"
  /\ sent' = sent + 1
  /\ copies' = copies \cup {UpdateRequest(sent + 1, counted)}
  /\ awaits' = [awaits EXCEPT ![Closer] = {sent + 1}]
  /\ UNCHANGED <<counted, row, stored, faults, underWay, landed>>

\* Mutant: the last update carries the status, and the totals of the session's
\* start.
FinalUpdate_NoTotals ==
  /\ phase = "ending" /\ awaits[Closer] = {} /\ sent < MaxCopies
  /\ phase' = "final"
  /\ sent' = sent + 1
  /\ underWay' = (copies # {})
  /\ copies' = copies \cup {UpdateRequest(sent + 1, row)}
  /\ awaits' = [awaits EXCEPT ![Closer] = {sent + 1}]
  /\ UNCHANGED <<counted, row, stored, faults, landed>>

\* ... and once that is answered or given up, the update with the final status.
FinalUpdate ==
  /\ phase = "ending" /\ awaits[Closer] = {} /\ sent < MaxCopies
  /\ phase' = "final"
  /\ sent' = sent + 1
  /\ underWay' = (copies # {})
  /\ copies' = copies \cup {UpdateRequest(sent + 1, counted)}
  /\ awaits' = [awaits EXCEPT ![Closer] = {sent + 1}]
  /\ UNCHANGED <<counted, row, stored, faults, landed>>

Close ==
  /\ phase = "final" /\ awaits[Closer] = {}
  /\ phase' = "closed"
  /\ UNCHANGED <<counted, row, stored, copies, sent, awaits, faults, underWay, landed>>

\* An answer that does not come: the sender sends another copy of the request ...
Resend(t, r) ==
  /\ r \in copies /\ r.no \in awaits[t] /\ sent < MaxCopies
  /\ faults < MaxFaults
  /\ faults' = faults + 1
  /\ sent' = sent + 1
  /\ copies' = copies \cup {[r EXCEPT !.no = sent + 1, !.seen = Unread]}
  /\ awaits' = [awaits EXCEPT ![t] = (@ \ {r.no}) \cup {sent + 1}]
  /\ underWay' = (underWay \/ phase = "final")
  /\ UNCHANGED <<counted, row, stored, phase, landed>>

\* ... or gives it up.
GiveUp(t, r) ==
  /\ r \in copies /\ r.no \in awaits[t]
  /\ faults < MaxFaults
  /\ faults' = faults + 1
  /\ awaits' = [awaits EXCEPT ![t] = @ \ {r.no}]
  /\ \/ copies' = copies \ {r}          \* it never arrives
     \/ copies' = copies                \* it arrives all the same
  /\ UNCHANGED <<counted, row, stored, sent, phase, underWay, landed>>

Answered(r) ==
  /\ copies' = copies \ {r}
  /\ awaits' = [t \in Task \cup {Closer} |-> awaits[t] \ {r.no}]
  /\ landed' = (landed \/ (phase = "final" /\ r.no \in awaits[Closer]))

-----------------------------------------------------------------------------
(* The collector *)

\* The event and the increment are one transaction; a second copy of the event
\* violates the primary key, and the transaction is rolled back.
StoreError(r) ==
  /\ r.event # 0
  /\ IF r.event \in stored THEN UNCHANGED <<row, stored>>
                           ELSE row' = row + 1 /\ stored' = stored \cup {r.event}
  /\ Answered(r)
  /\ UNCHANGED <<counted, sent, phase, faults, underWay>>

\* update_session reads the row ...
LoadTotals(r) ==
  /\ r.event = 0 /\ r.seen = Unread
  /\ copies' = (copies \ {r}) \cup {[r EXCEPT !.seen = {row}]}
  /\ UNCHANGED <<counted, row, stored, sent, awaits, phase, faults, underWay, landed>>

\* ... and the commit writes the column if it differs from what was read.
WriteTotals(r) ==
  /\ r.event = 0 /\ r.seen # Unread
  /\ row' = IF {r.total} # r.seen THEN r.total ELSE row
  /\ Answered(r)
  /\ UNCHANGED <<counted, stored, sent, phase, faults, underWay>>

TotalsNext ==
  \/ \E t \in Task : RecordError(t) \/ RecordToolError(t)
  \/ \E t \in Task \cup {Closer}, r \in copies : Resend(t, r) \/ GiveUp(t, r)
  \/ EndSession \/ FinalUpdate \/ Close
  \/ \E r \in copies : StoreError(r) \/ LoadTotals(r) \/ WriteTotals(r)

TotalsSpec == TotalsInit /\ [][TotalsNext]_totalsVars

-----------------------------------------------------------------------------
(* Properties *)

\* In between the column may count an error twice or lose one, but a session
\* whose last update was answered, with nothing else of the session under way
\* while it was, shows the number of errors the SDK counted.
TotalsSettle == landed /\ ~underWay => row = counted
=============================================================================
