---------------------------- MODULE SessionView ----------------------------
(***************************************************************************)
(* What the frontend shows of the selected session (frontend/src/App.tsx,  *)
(* stores/sessionStore.ts, hooks): one store, the actions of the user on   *)
(* it, and effects that ask the server for the bundle and the replay.  An  *)
(* effect runs again when what it depends on changes, asks anew, and       *)
(* ignores the answer to what it had asked.  The live stream adds events.  *)
(*                                                                         *)
(* React runs the effects of a change before the next click or answer is   *)
(* handled, so a change and its effects are one step here.  Events of a    *)
(* session are numbered by their timestamps and recorded in that order.    *)
(* The panels that load like the bundle and of which nothing else depends  *)
(* (audit, justification, evidence graph, drift, comparison) are left out, *)
(* and so is focusEventId.                                                 *)
(***************************************************************************)
EXTENDS Naturals, FiniteSets, SequencesExt

CONSTANTS
  SessionIds,
  MaxStored,     \* bound: events of a session
  MaxClicks      \* bound: what the user does

VARIABLES
  recordedOf,  \* server: session -> number of its events
  view,        \* the store
  waits,       \* effect -> what it has asked for and waits for, or Nil
  clicks,      \* number of them
  ignored,     \* sessions whose bundle is under way for an effect that has run again
  failed,      \* history: effects whose last request failed
  sought       \* history: the search result jumped to, and nothing done since; or Nil

viewVars == <<recordedOf, view, waits, clicks, ignored, failed, sought>>

Nil == <<>>
ASSUME SessionAssumption == Nil \notin SessionIds

Effect == {"bundle", "replay"}
Ev(s, n) == [session |-> s, n |-> n]
EventsOf(s) == {Ev(s, n) : n \in 1..recordedOf[s]}

\* What an effect depends on; Nil: it does not ask.
Key(x, v) ==
  IF x = "bundle" THEN v.selected
  ELSE IF v.selected # Nil /\ v.bundle.session = v.selected
         THEN <<v.selected, v.bundle, v.mode, v.event>> ELSE Nil

\* What the effect of the live stream does at once: it starts over.
AtOnce(v) == [v EXCEPT !.live = IF v.selected # view.selected THEN {} ELSE @]

Render(v, waiting) ==
  LET again == {x \in Effect : Key(x, v) # Key(x, view)}
  IN  /\ view' = AtOnce(v)
      /\ waits' = [x \in Effect |-> IF x \in again THEN Key(x, v) ELSE waiting[x]]
      /\ ignored' = IF "bundle" \in again /\ waiting["bundle"] # Nil
                      THEN ignored \cup {waiting["bundle"]} ELSE ignored

ViewInit ==
  /\ recordedOf = [s \in SessionIds |-> 1]
  /\ view = [selected |-> Nil, event |-> Nil, mode |-> "full", index |-> 0, pending |-> Nil,
             bundle |-> [session |-> Nil, last |-> 0, load |-> 0], live |-> {},
             replay |-> Nil]
  /\ waits = [x \in Effect |-> Nil]
  /\ clicks = 0 /\ ignored = {} /\ failed = {} /\ sought = Nil

-----------------------------------------------------------------------------
InBundle(v) == {Ev(v.bundle.session, n) : n \in 1..v.bundle.last}

\* mergeSessionEvents: without duplicates, in the order of timestamps.
Merged(v) ==
  LET all == InBundle(v) \cup v.live
      Earlier(a, b) == a.n < b.n \/ (a.n = b.n /\ a.session = v.selected /\ b.session # a.session)
  IN  CHOOSE q \in [1..Cardinality(all) -> all] :
        \A i, j \in DOMAIN q : i < j => Earlier(q[i], q[j])
FindIndex(seq, e) == IF e \in ToSet(seq) THEN CHOOSE i \in 0..(Len(seq) - 1) : seq[i + 1] = e ELSE 0
Keep(pending, event) == IF event = pending THEN pending ELSE Nil

(* The user *)

Clicked == clicks < MaxClicks /\ clicks' = clicks + 1 /\ UNCHANGED <<recordedOf, failed>>
Click(v) == Render(v, waits) /\ sought' = Nil /\ Clicked

\* SessionRail: of setters that are called one after the other, the last state counts.
SelectSession(s) ==
  /\ view.selected # Nil
  /\ Click([view EXCEPT !.selected = s, !.mode = "full", !.event = Nil, !.pending = Nil])

\* From the portfolio, a cluster or a similar failure: nothing else changes.
SwitchSession(s) ==
  /\ view.selected \notin {Nil, s}
  /\ Click([view EXCEPT !.selected = s, !.pending = Nil])

Inspect(e) ==
  /\ e \in ToSet(Merged(view))
  /\ Click([view EXCEPT !.event = e, !.pending = Nil, !.index = FindIndex(Merged(view), e)])

SetReplayMode(m) == Click([view EXCEPT !.mode = m, !.pending = Nil])

\* Mutant: the place is looked for in the events at hand only.
JumpToSearchResult_Now(e) ==
  /\ view.selected # Nil
  /\ LET events == IF e.session = view.selected THEN Merged(view) ELSE <<>>
     IN  Render([view EXCEPT !.mode = "full", !.selected = e.session, !.event = e,
                             !.index = FindIndex(events, e), !.pending = Nil], waits)
  /\ sought' = e /\ Clicked

JumpToSearchResult(e) ==
  /\ view.selected # Nil
  /\ LET events == IF e.session = view.selected THEN Merged(view) ELSE <<>>
     IN  Render([view EXCEPT !.mode = "full", !.selected = e.session, !.event = e,
                             !.index = FindIndex(events, e), !.pending = e], waits)
  /\ sought' = e /\ Clicked

-----------------------------------------------------------------------------
(* Answers *)

EffectAnswered(x, v) ==
  /\ waits[x] # Nil
  /\ Render(v, [waits EXCEPT ![x] = Nil])
  /\ failed' = failed \ {x}
  /\ UNCHANGED <<recordedOf, clicks, sought>>

\* The list of sessions: the first of it is selected if none is.
SessionsLoaded(s) ==
  /\ view.selected = Nil
  /\ Render([view EXCEPT !.selected = s], waits)
  /\ UNCHANGED <<recordedOf, clicks, failed, sought>>

\* setBundle, and the first event is selected if none is.
WithBundle(s) ==
  LET event == IF view.event = Nil THEN Ev(s, 1) ELSE view.event
  IN  [view EXCEPT !.bundle = [session |-> s, last |-> recordedOf[s], load |-> 1 - view.bundle.load],
                   !.event = event, !.pending = Keep(@, event)]

BundleArrives == EffectAnswered("bundle", WithBundle(waits["bundle"]))

\* setReplay: to the search result, if it is in the list, else to where the
\* replay stopped or its start.
ReplayArrives(stop) ==
  LET key == waits["replay"]
      lands == view.pending # Nil /\ view.pending.session = key[1] /\ key[3] = "full"
               /\ view.pending \in ToSet(Merged(view))
  IN  /\ waits["replay"] # Nil
      /\ Render([view EXCEPT !.replay = key,
                             !.index = IF lands THEN FindIndex(Merged(view), view.pending) ELSE stop,
                             !.pending = Nil], [waits EXCEPT !["replay"] = Nil])
      /\ failed' = failed \ {"replay"}
      /\ sought' = IF waits["bundle"] # Nil THEN Nil ELSE sought
      /\ UNCHANGED <<recordedOf, clicks>>

\* An error: a banner, and the bundle and the replay stay what they were.
Fails(x) ==
  /\ waits[x] # Nil
  /\ Render(view, [waits EXCEPT ![x] = Nil])
  /\ failed' = failed \cup {x}
  /\ UNCHANGED <<recordedOf, clicks, sought>>

\* Mutant: a late bundle is taken.
IgnoredArrives_Taken(s) ==
  /\ ignored' = ignored \ {s}
  /\ view' = WithBundle(s)
  /\ UNCHANGED <<recordedOf, waits, clicks, failed, sought>>

IgnoredArrives(s) ==
  /\ ignored' = ignored \ {s}
  /\ UNCHANGED <<recordedOf, view, waits, clicks, failed, sought>>

\* addLiveEvent: the stream of the selected session brings a new event.
LiveEvent(e) ==
  /\ view.selected # Nil /\ e \notin view.live
  /\ view' = [view EXCEPT !.live = @ \cup {e}]
  /\ UNCHANGED <<recordedOf, waits, clicks, ignored, failed, sought>>

Stored(s) ==
  /\ recordedOf[s] < MaxStored
  /\ recordedOf' = [recordedOf EXCEPT ![s] = @ + 1]
  /\ UNCHANGED <<view, waits, clicks, ignored, failed, sought>>

ViewNext ==
  \/ \E s \in SessionIds :
       SelectSession(s) \/ SwitchSession(s) \/ SessionsLoaded(s) \/ Stored(s)
  \/ \E s \in SessionIds : \E e \in EventsOf(s) : Inspect(e) \/ JumpToSearchResult(e)
  \/ view.selected # Nil /\ \E e \in EventsOf(view.selected) : LiveEvent(e)
  \/ \E m \in {"full", "focus"} : view.selected # Nil /\ SetReplayMode(m)
  \/ BundleArrives
  \/ \E stop \in 0..1 : ReplayArrives(stop)
  \/ \E x \in Effect : Fails(x)
  \/ \E s \in ignored : IgnoredArrives(s)

ViewSpec == ViewInit /\ [][ViewNext]_viewVars

-----------------------------------------------------------------------------
(* Properties *)

Settled(x) == waits[x] = Nil /\ x \notin failed

\* Whatever is clicked while answers are under way, and in whatever order they
\* come: once an effect waits for nothing, what is shown is of the session, the
\* event and the mode selected now; the live events are of that session always.
ShownIsSelected ==
  view.selected # Nil =>
    /\ \A e \in view.live : e.session = view.selected
    /\ Settled("bundle") => view.bundle.session = view.selected
    /\ Settled("bundle") /\ Settled("replay") => view.replay = Key("replay", view)

\* A search result that is in the bundle is found: when everything has loaded,
\* it is selected and the replay stands at it, though its session, its bundle
\* and its replay came one after the other.  Excepted is a replay that comes while
\* the bundle is loaded a second time: the next replay starts over.
SearchLands ==
  sought # Nil /\ (\A x \in {"bundle", "replay"} : Settled(x)) /\ sought \in InBundle(view) =>
    /\ view.event = sought
    /\ view.index < Len(Merged(view)) /\ Merged(view)[view.index + 1] = sought
=============================================================================
