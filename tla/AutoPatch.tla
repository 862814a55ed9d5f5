----------------------------- MODULE AutoPatch -----------------------------
(***************************************************************************)
(* Auto-patching (agent_debugger_sdk/auto_patch): activate() and           *)
(* deactivate() put hooks into LLM and agent frameworks and take them out, *)
(* while threads of the host program call those frameworks.  A hooked call *)
(* puts an event before and an event after the framework's own work into   *)
(* the queue of its adapter's SyncTransport, which a thread empties.       *)
(*                                                                         *)
(* LLM adapters (openai, anthropic) go through BaseAdapter._call_sync,     *)
(* agent adapters (crewai, llamaindex, autogen) through AgentAdapterMixin. *)
(* The adapter of autogen puts its hook in before it has a transport.      *)
(* No lock guards an adapter's fields: a step is what one thread does      *)
(* between two looks at what another one may change.                       *)
(***************************************************************************)
EXTENDS Naturals, SequencesExt

CONSTANTS
  Adapters,       \* the registered adapters, in order
  AgentAdapter,   \* those of them that wrap an agent framework
  HookFirst,      \* those of these whose patch() begins with the hook: autogen
  Call,           \* calls of the host program into a framework
  Admin,          \* the thread that runs activate() and deactivate()
  Nobody,         \* the lock of _SessionState is free
  Sentinel,       \* ends a transport's thread
  MaxOps          \* bound: calls and activations together

Adapter == ToSet(Adapters)
Actor == Call \cup {Admin}
None == 0         \* no transport, no session

ASSUME AdaptersAssumption ==
  /\ Adapters \in Seq(Adapter) /\ Adapters # <<>> /\ IsInjective(Adapters)
  /\ AgentAdapter \subseteq Adapter /\ HookFirst \subseteq AgentAdapter
ASSUME ActorsAssumption == Admin \notin Call /\ Nobody \notin Actor /\ MaxOps \in Nat

VARIABLES
  hooked,       \* adapters whose hook is in the framework
  transport,    \* adapter -> number of its SyncTransport, or None
  ownSession,   \* agent adapter -> its _session_id, or None
  patchedList,  \* PatchRegistry._patched
  outbox,       \* transports so far, each with its queue
  worker,       \* transport -> "running" or "done"
  sharedId,     \* _SessionState._id, or None
  idLock,       \* who holds _SessionState._lock
  made,         \* sessions created so far
  pc,           \* actor -> what it does next
  op,           \* "activate" or "deactivate": what the admin runs
  todo,         \* adapters the admin has still to visit
  activations,
  on,           \* call -> its adapter
  arg,          \* actor -> the transport it gave to get_or_create
  id,           \* actor -> the session id it got
  period,       \* history: number of resets of the session
  put,          \* history: events put into a queue
  gone,         \* history: events a worker has taken
  late,         \* history: events put behind a sentinel
  overlapped,   \* history: calls whose hook was removed meanwhile
  early,        \* history: calls begun before patch() was over
  harmed,       \* history: calls that failed because they were hooked
  leftRunning   \* history: a transport's thread was left to run

hookVars == <<hooked, transport, ownSession, patchedList>>
wireVars == <<outbox, worker, put, gone, late>>
idVars == <<sharedId, idLock, made>>
adminVars == <<op, todo, activations, period, leftRunning>>
callVars == <<on, arg, id, overlapped, early, harmed>>
patchVars == <<hookVars, wireVars, idVars, adminVars, callVars, pc>>

Session == 1..(MaxOps + 1)
PatchEvent == [call : Call, kind : {"before", "after"}, session : Session \cup {None},
               period : 0..MaxOps]

ASSUME SentinelAssumption == Sentinel \notin PatchEvent

PatchTypeOK ==
  /\ hooked \subseteq Adapter
  /\ transport \in [Adapter -> 0..Len(outbox)]
  /\ ownSession \in [Adapter -> 0..made]
  /\ patchedList \in Seq(Adapter) /\ IsInjective(patchedList)
  /\ \A a \in hooked :
       /\ a \in ToSet(patchedList) \/ (a \in HookFirst /\ a = Head(todo))
       /\ transport[a] # None \/ pc[Admin] = "connect"
  /\ Len(outbox) = Len(worker) /\ Len(outbox) \in 0..MaxOps * Len(Adapters)
  /\ \A t \in DOMAIN outbox :
       /\ worker[t] \in {"running", "done"}
       /\ outbox[t] \in Seq(PatchEvent \cup {Sentinel})
  /\ sharedId \in 0..made /\ made \in 0..(MaxOps + 1)
  /\ idLock \in Actor \cup {Nobody}
  /\ idLock # Nobody <=> \E x \in Actor : pc[x] = "create" /\ idLock = x
  /\ \A c \in Call : pc[c] \in {"idle", "check1", "look", "lock", "create", "return",
                                "send1", "host", "check2", "send2", "done"}
  /\ pc[Admin] \in {"idle", "restore", "shutdown", "join", "reset", "open",
                    "connect", "look", "lock", "create", "return", "replace"}
  /\ early \subseteq {c \in Call : on[c] \in HookFirst}
  /\ \A x \in Actor : id[x] \in 0..made
  /\ put \subseteq PatchEvent /\ gone \subseteq put /\ late \subseteq put

PatchInit ==
  /\ hooked = {}
  /\ transport = [a \in Adapter |-> None]
  /\ ownSession = [a \in Adapter |-> None]
  /\ patchedList = <<>>
  /\ outbox = <<>> /\ worker = <<>>
  /\ sharedId = None /\ idLock = Nobody /\ made = 0
  /\ pc = [x \in Actor |-> "idle"]
  /\ op = "deactivate" /\ todo = <<>> /\ activations = 0
  /\ on = [c \in Call |-> Adapters[1]]
  /\ arg = [x \in Actor |-> None]
  /\ id = [x \in Actor |-> None]
  /\ period = 0
  /\ put = {} /\ gone = {} /\ late = {}
  /\ overlapped = {} /\ early = {} /\ harmed = {}
  /\ leftRunning = FALSE

Go(x, label) == pc' = [pc EXCEPT ![x] = label]

-----------------------------------------------------------------------------
(* _SessionState.get_or_create, called by hooks and by patch() *)

AfterId(x) == IF x = Admin THEN "replace" ELSE "send1"

\* The transport is read for the call, and _id is looked at without the lock.
Look(x) ==
  /\ pc[x] = "look"
  /\ arg' = [arg EXCEPT ![x] = transport[IF x = Admin THEN Head(todo) ELSE on[x]]]
  /\ Go(x, IF sharedId # None THEN "return" ELSE "lock")
  /\ UNCHANGED <<hookVars, wireVars, idVars, adminVars, on, id, overlapped, early, harmed>>

\* Mutant: _id is not looked at again under the lock.
Lock_NoRecheck(x) ==
  /\ pc[x] = "lock" /\ idLock = Nobody
  /\ idLock' = x /\ Go(x, "create")
  /\ UNCHANGED <<hookVars, wireVars, sharedId, made, adminVars, callVars>>

\* Under the lock _id is looked at again.
Lock(x) ==
  /\ pc[x] = "lock" /\ idLock = Nobody
  /\ IF sharedId # None
       THEN /\ id' = [id EXCEPT ![x] = sharedId]
            /\ Go(x, AfterId(x))
            /\ UNCHANGED idLock
       ELSE /\ idLock' = x
            /\ Go(x, "create")
            /\ UNCHANGED id
  /\ UNCHANGED <<hookVars, wireVars, sharedId, made, adminVars, on, arg, overlapped, early, harmed>>

\* send_session: the server's id, or a local one if it fails.  A transport that
\* is None raises an AttributeError, which the hook lets through.
CreateSession(x) ==
  /\ pc[x] = "create"
  /\ idLock' = Nobody
  /\ IF arg[x] = None
       THEN /\ harmed' = harmed \cup {x}
            /\ Go(x, "done")
            /\ UNCHANGED <<sharedId, made>>
       ELSE /\ made' = made + 1 /\ sharedId' = made + 1
            /\ Go(x, "return")
            /\ UNCHANGED harmed
  /\ UNCHANGED <<hookVars, wireVars, adminVars, on, arg, id, overlapped, early>>

\* "return self._id", again without the lock.
ReturnId(x) ==
  /\ pc[x] = "return"
  /\ id' = [id EXCEPT ![x] = sharedId]
  /\ Go(x, AfterId(x))
  /\ UNCHANGED <<hookVars, wireVars, idVars, adminVars, on, arg, overlapped, early, harmed>>

-----------------------------------------------------------------------------
(* A hooked call *)

WithinBound == activations + Cardinality({d \in Call : pc[d] # "idle"}) < MaxOps

\* An agent's hook takes the adapter's session at once, if there is one by then.
Begin(c, a) ==
  /\ pc[c] = "idle" /\ a \in hooked
  /\ WithinBound
  /\ on' = [on EXCEPT ![c] = a]
  /\ id' = [id EXCEPT ![c] = IF a \in AgentAdapter THEN ownSession[a] ELSE None]
  /\ early' = IF a \in ToSet(patchedList) THEN early ELSE early \cup {c}
  /\ Go(c, "check1")
  /\ UNCHANGED <<hookVars, wireVars, idVars, adminVars, arg, overlapped, harmed>>

\* Mutant: nobody looks whether there is a transport.
CheckBefore_Unchecked(c) ==
  /\ pc[c] = "check1"
  /\ Go(c, IF on[c] \in AgentAdapter THEN "send1" ELSE "look")
  /\ UNCHANGED <<hookVars, wireVars, idVars, adminVars, callVars>>

\* "if self._transport is None" ahead of the first event: in _get_session_ids or
\* in _emit_event_safe.
CheckBefore(c) ==
  /\ pc[c] = "check1"
  /\ Go(c, IF transport[on[c]] = None THEN "host"
           ELSE IF on[c] \in AgentAdapter THEN "send1" ELSE "look")
  /\ UNCHANGED <<hookVars, wireVars, idVars, adminVars, callVars>>

\* self._transport.send_event(...).  The transport is read again; the
\* AttributeError of None is not among the exceptions the hooks catch.
Send(c, kind, next) ==
  LET t == transport[on[c]]
      e == [call |-> c, kind |-> kind, session |-> id[c], period |-> period]
  IN  /\ IF t = None
           THEN /\ harmed' = harmed \cup {c}
                /\ Go(c, "done")
                /\ UNCHANGED wireVars
           ELSE /\ outbox' = [outbox EXCEPT ![t] = Append(@, e)]
                /\ put' = put \cup {e}
                /\ late' = IF worker[t] = "done" \/ Sentinel \in ToSet(outbox[t])
                             THEN late \cup {e} ELSE late
                /\ Go(c, next)
                /\ UNCHANGED <<worker, gone, harmed>>
      /\ UNCHANGED <<hookVars, idVars, adminVars, on, arg, id, overlapped, early>>

SendBefore(c) == pc[c] = "send1" /\ Send(c, "before", "host")

AfterHost(c) == IF on[c] \in AgentAdapter THEN "check2" ELSE "send2"

\* The framework's own method returns.
HostReturns(c) ==
  /\ pc[c] = "host"
  /\ on[c] \in AgentAdapter => on[c] \in hooked
  /\ Go(c, AfterHost(c))
  /\ UNCHANGED <<hookVars, wireVars, idVars, adminVars, callVars>>

\* It raises: an LLM call has no further event.  (An agent's has an error event,
\* which takes the way of the end event.)
HostRaises(c) ==
  /\ pc[c] = "host" /\ on[c] \notin AgentAdapter
  /\ Go(c, "done")
  /\ UNCHANGED <<hookVars, wireVars, idVars, adminVars, callVars>>

\* An agent's hook reads the original from the adapter, which unpatch() has set
\* to None: calling it is a TypeError.
OriginalGone(c) ==
  /\ pc[c] = "host"
  /\ on[c] \in AgentAdapter \ hooked
  /\ harmed' = harmed \cup {c}
  /\ Go(c, "check2")
  /\ UNCHANGED <<hookVars, wireVars, idVars, adminVars, on, arg, id, overlapped, early>>

CheckAfter(c) ==
  /\ pc[c] = "check2"
  /\ Go(c, IF transport[on[c]] = None THEN "done" ELSE "send2")
  /\ UNCHANGED <<hookVars, wireVars, idVars, adminVars, callVars>>

SendAfter(c) == pc[c] = "send2" /\ Send(c, "after", "done")

-----------------------------------------------------------------------------
(* The thread of a transport *)

Work(t) ==
  /\ worker[t] = "running" /\ outbox[t] # <<>>
  /\ outbox' = [outbox EXCEPT ![t] = Tail(@)]
  /\ IF Head(outbox[t]) = Sentinel
       THEN /\ worker' = [worker EXCEPT ![t] = "done"]
            /\ UNCHANGED gone
       ELSE /\ gone' = gone \cup {Head(outbox[t])}    \* posted, or dropped
            /\ UNCHANGED worker
  /\ UNCHANGED <<hookVars, put, late, idVars, adminVars, callVars, pc>>

-----------------------------------------------------------------------------
(* activate() and deactivate() *)

Activate ==
  /\ pc[Admin] = "idle" /\ WithinBound
  /\ activations' = activations + 1
  /\ op' = "activate" /\ todo' = patchedList
  /\ Go(Admin, "restore")
  /\ UNCHANGED <<hookVars, wireVars, idVars, callVars, period, leftRunning>>

\* No more often than activate(): a second call in a row only resets again.
Deactivate ==
  /\ pc[Admin] = "idle" /\ period < activations
  /\ op' = "deactivate" /\ todo' = patchedList
  /\ Go(Admin, "restore")
  /\ UNCHANGED <<hookVars, wireVars, idVars, callVars, activations, period, leftRunning>>

Calling(a) == {c \in Call : on[c] = a /\ pc[c] \notin {"idle", "done"}}

\* unapply: the framework gets its original method back.
Restore ==
  /\ pc[Admin] = "restore" /\ todo # <<>>
  /\ hooked' = hooked \ {Head(todo)}
  /\ overlapped' = overlapped \cup Calling(Head(todo))
  /\ Go(Admin, "shutdown")
  /\ UNCHANGED <<transport, ownSession, patchedList, wireVars, idVars, adminVars,
                 on, arg, id, early, harmed>>

\* SyncTransport.shutdown ...
Shutdown ==
  /\ pc[Admin] = "shutdown"
  /\ LET t == transport[Head(todo)]
     IN outbox' = [outbox EXCEPT ![t] = Append(@, Sentinel)]
  /\ Go(Admin, "join")
  /\ UNCHANGED <<hookVars, worker, put, gone, late, idVars, adminVars, callVars>>

\* Mutant: nobody waits for the thread.
Join_NoWait ==
  /\ pc[Admin] = "join"
  /\ transport' = [transport EXCEPT ![Head(todo)] = None]
  /\ ownSession' = [ownSession EXCEPT ![Head(todo)] = None]
  /\ todo' = Tail(todo)
  /\ Go(Admin, "restore")
  /\ UNCHANGED <<hooked, patchedList, wireVars, idVars, op, activations, period, leftRunning, callVars>>

\* ... waits five seconds for the thread, and the adapter forgets both.
Join ==
  /\ pc[Admin] = "join"
  /\ leftRunning' = (leftRunning \/ worker[transport[Head(todo)]] # "done")
  /\ transport' = [transport EXCEPT ![Head(todo)] = None]
  /\ ownSession' = [ownSession EXCEPT ![Head(todo)] = None]
  /\ todo' = Tail(todo)
  /\ Go(Admin, "restore")
  /\ UNCHANGED <<hooked, patchedList, wireVars, idVars, op, activations, period, callVars>>

\* Mutant: the list is kept.
Unapplied_KeepsList ==
  /\ pc[Admin] = "restore" /\ todo = <<>>
  /\ IF op = "activate"
       THEN /\ todo' = Adapters /\ Go(Admin, "open")
       ELSE /\ UNCHANGED todo /\ Go(Admin, "reset")
  /\ UNCHANGED <<hookVars, wireVars, idVars, op, activations, period, leftRunning, callVars>>

\* The list of patched adapters is cleared; activate() goes on to apply().
Unapplied ==
  /\ pc[Admin] = "restore" /\ todo = <<>>
  /\ patchedList' = <<>>
  /\ IF op = "activate"
       THEN /\ todo' = Adapters /\ Go(Admin, "open")
       ELSE /\ UNCHANGED todo /\ Go(Admin, "reset")
  /\ UNCHANGED <<hooked, transport, ownSession, wireVars, idVars, op, activations,
                 period, leftRunning, callVars>>

\* reset_session
Reset ==
  /\ pc[Admin] = "reset" /\ idLock = Nobody
  /\ sharedId' = None
  /\ period' = period + 1
  /\ Go(Admin, "idle")
  /\ UNCHANGED <<hookVars, wireVars, idLock, made, op, todo, activations, leftRunning, callVars>>

NewTransport(a) ==
  /\ outbox' = Append(outbox, <<>>)
  /\ worker' = Append(worker, "running")
  /\ transport' = [transport EXCEPT ![a] = Len(outbox) + 1]
  /\ UNCHANGED <<put, gone, late>>

\* patch: a transport first, then an agent adapter asks for the session ...
Open ==
  /\ pc[Admin] = "open" /\ todo # <<>> /\ Head(todo) \notin HookFirst
  /\ NewTransport(Head(todo))
  /\ Go(Admin, IF Head(todo) \in AgentAdapter THEN "look" ELSE "replace")
  /\ UNCHANGED <<hooked, ownSession, patchedList, idVars, adminVars, callVars>>

\* ... or the hook first, and then the transport.
OpenHook ==
  /\ pc[Admin] = "open" /\ todo # <<>> /\ Head(todo) \in HookFirst
  /\ hooked' = hooked \cup {Head(todo)}
  /\ Go(Admin, "connect")
  /\ UNCHANGED <<transport, ownSession, patchedList, wireVars, idVars, adminVars, callVars>>

Connect ==
  /\ pc[Admin] = "connect"
  /\ NewTransport(Head(todo))
  /\ Go(Admin, "look")
  /\ UNCHANGED <<hooked, ownSession, patchedList, idVars, adminVars, callVars>>

KeepSession ==
  ownSession' = IF Head(todo) \in AgentAdapter
                  THEN [ownSession EXCEPT ![Head(todo)] = id[Admin]] ELSE ownSession

\* The session is kept and the hook is in, at the latest now.
Replace ==
  /\ pc[Admin] = "replace"
  /\ KeepSession
  /\ hooked' = hooked \cup {Head(todo)}
  /\ patchedList' = Append(patchedList, Head(todo))
  /\ todo' = Tail(todo)
  /\ Go(Admin, "open")
  /\ UNCHANGED <<transport, wireVars, idVars, op, activations, period, leftRunning, callVars>>

\* apply goes on after an adapter that is not available, or whose patch() raises at once ...
PassOver ==
  /\ pc[Admin] = "open" /\ todo # <<>>
  /\ todo' = Tail(todo)
  /\ Go(Admin, "open")
  /\ UNCHANGED <<hookVars, wireVars, idVars, op, activations, period, leftRunning, callVars>>

\* ... or does not find the framework's method: its transport is left to run.
PatchRaises ==
  /\ pc[Admin] = "replace" /\ Head(todo) \notin HookFirst
  /\ KeepSession
  /\ todo' = Tail(todo)
  /\ leftRunning' = TRUE
  /\ Go(Admin, "open")
  /\ UNCHANGED <<hooked, transport, patchedList, wireVars, idVars, op, activations, period,
                 callVars>>

Applied ==
  /\ pc[Admin] = "open" /\ todo = <<>>
  /\ Go(Admin, "idle")
  /\ UNCHANGED <<hookVars, wireVars, idVars, adminVars, callVars>>

PatchNext ==
  \/ \E c \in Call :
       \/ \E a \in Adapter : Begin(c, a)
       \/ CheckBefore(c) \/ SendBefore(c) \/ HostReturns(c) \/ HostRaises(c)
       \/ OriginalGone(c) \/ CheckAfter(c) \/ SendAfter(c)
  \/ \E x \in Actor : Look(x) \/ Lock(x) \/ CreateSession(x) \/ ReturnId(x)
  \/ \E t \in DOMAIN outbox : Work(t)
  \/ Activate \/ Deactivate \/ Restore \/ Shutdown \/ Join \/ Unapplied \/ Reset
  \/ Open \/ OpenHook \/ Connect \/ Replace \/ PassOver \/ PatchRaises \/ Applied

PatchSpec == PatchInit /\ [][PatchNext]_patchVars

-----------------------------------------------------------------------------
(* Properties *)

\* "any exception during event emission is logged but does not propagate"
\* (AgentAdapterMixin): only a call from under which the hooks are taken away can
\* fail because it was traced.
HostUnharmed == harmed \subseteq overlapped

\* "all adapters within the same process share a single session": between two
\* resets the calls that no unpatching overlaps report to one and the same
\* session, however their first looks at it interleave.  Only a call that begins while
\* patch() is still under way, behind a hook that went in first, may report none.
OneSharedSession ==
  \A m, n \in put :
    m.period = n.period /\ {m.call, n.call} \cap overlapped = {} =>
      /\ m.session = None => m.call \in early
      /\ None \notin {m.session, n.session} => m.session = n.session
      /\ m.session # None /\ m.period = period =>
           \A a \in hooked \cap ToSet(patchedList) \cap AgentAdapter :
             ownSession[a] = m.session

\* The server never sees what came after a call before what came before it,
\* though a call may begin with one transport and end with another: the old one
\* is drained first, unless the join gives up, patch() raises and leaves one behind, or
\* the event came too late for it.
BeforeComesFirst ==
  \A m, n \in put :
    m.call = n.call /\ m.kind = "before" /\ n.kind = "after" /\ n \in gone =>
      m \in gone \/ (m \in late /\ m.call \in overlapped) \/ leftRunning
=============================================================================
