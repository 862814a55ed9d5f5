------------------------------- MODULE Audit -------------------------------
(***************************************************************************)
(* What the audit of a session says of its decisions (collector/audit):    *)
(* the verdict on each claim, the path to the failure that contradicts it, *)
(* the evidence graph with its slices, and the events to run again.  Each  *)
(* of them walks the same events with a traversal and an index of its own. *)
(*                                                                         *)
(* An event is its place in the order of timestamps.  Events land in the   *)
(* database in any order, and one may refer to others that land later, or  *)
(* never; the references may form cycles.  An audit reads what has landed. *)
(* Timestamps do not tie here, and an agent's turn always has a content.   *)
(***************************************************************************)
EXTENDS Naturals, FiniteSets, Functions

CONSTANTS
  TraceLength,          \* events of the session
  Sources,              \* the sources that evidence items may name
  ContradictionLevels,  \* levels searched for a failure: 200 in the code
  SliceCap,             \* SLICE_CAP, the entries of a slice: 64 in the code
  MaxSuspects,          \* candidates a failure is given: 3 in the code
  MaxLinks              \* bound: references and named sources of a session

Places == 1..TraceLength

ASSUME AuditAssumption ==
  /\ TraceLength \in Nat \ {0}
  /\ Sources \subseteq {"none", "tool", "user", "retrieved", "inferred"} /\ "none" \in Sources
  /\ ContradictionLevels \in Nat \ {0} /\ MaxLinks \in Nat
  /\ SliceCap \in Nat \ {0} /\ MaxSuspects \in Nat \ {0}

VARIABLE trace   \* the events that have landed: place -> what is said

auditVars == <<trace>>

\* What an event refers to or names.
Links(say) ==
  Cardinality(say.refs) + Cardinality(say.cites) + (IF say.source = "none" THEN 0 ELSE 1)

\* refs: the parent and the upstream events; cites: evidence_event_ids, which only
\* decisions have; source: of the evidence items; sure: confidence >= 0.5.
Said ==
  {say \in [kind : {"decision", "tool_call", "tool_result", "failed_result", "turn", "error"},
            refs : SUBSET Places, cites : SUBSET Places, source : Sources, sure : BOOLEAN] :
     /\ say.kind # "decision" => say.cites = {} /\ ~say.sure
     /\ Links(say) <= MaxLinks}

Landed == DOMAIN trace
Decisions == {e \in Landed : trace[e].kind = "decision"}
Failures == {e \in Landed : trace[e].kind \in {"failed_result", "error"}}

AuditInit == trace = <<>>

LinkCount == FoldFunction(LAMBDA say, n : Links(say) + n, 0, trace)

Land(e) ==
  LET left == MaxLinks - LinkCount
  IN  /\ e \notin Landed
      /\ \E say \in Said :
           /\ Links(say) <= left
           /\ trace' = [p \in Landed \cup {e} |-> IF p = e THEN say ELSE trace[p]]

AuditNext == \E e \in Places : Land(e)

AuditSpec == AuditInit /\ [][AuditNext]_auditVars

-----------------------------------------------------------------------------
(* Walks *)

\* The events whose parent, upstream events or evidence include e.
ChildrenOf(e) == {c \in Landed : e \in trace[c].refs \cup trace[c].cites}
ChildrenIndex == [e \in Landed |-> ChildrenOf(e)]

\* A walk of at most n levels that starts with a frontier, and what it has seen.
WalkOf(frontier, seen, next, n) ==
  LET walk[k \in 0..n] ==
        IF k = 0 THEN [seen |-> seen, frontier |-> frontier]
        ELSE LET last == walk[k - 1]
                 fresh == last.frontier \ last.seen
             IN  [seen |-> last.seen \cup fresh, frontier |-> UNION {next[x] : x \in fresh}]
  IN walk[n].seen

\* More levels than there are events find everything.
AllLevels == TraceLength + 1

\* What is downstream of e; e itself, when the references lead back to it.
Subtree(e) == WalkOf(ChildrenOf(e), {}, ChildrenIndex, AllLevels)

FailsWithin(e, levels) == (WalkOf(ChildrenOf(e), {e}, ChildrenIndex, levels) \ {e}) \cap Failures # {}

\* The events on the shortest path from e to a failure, e not counted; 0 if none.
PathLength(e) ==
  LET found == {n \in 1..AllLevels : FailsWithin(e, n)}
  IN  IF found = {} THEN 0 ELSE CHOOSE n \in found : \A m \in found : n <= m

-----------------------------------------------------------------------------
(* Claims *)

FactsNamed(sources) == {e \in Landed \ Decisions : trace[e].source \in sources}
ToolFacts == {e \in Landed : trace[e].kind = "tool_result"} \cup FactsNamed({"tool"})
UserFacts == {e \in Landed : trace[e].kind = "turn"} \cup FactsNamed({"user"})
RetrievedFacts == FactsNamed({"retrieved"})
Facts == ToolFacts \cup UserFacts \cup RetrievedFacts

Resolved(d) == trace[d].cites \cap Landed

Backed(d, facts, source) == Resolved(d) \cap facts # {} \/ trace[d].source = source

GroundedVerdict(d) ==
  IF Backed(d, ToolFacts, "tool") \/ Backed(d, UserFacts, "user") THEN "verified"
  ELSE IF Backed(d, RetrievedFacts, "retrieved") THEN "partially_verified"
  ELSE IF trace[d].cites # {} \/ trace[d].source # "none" THEN "partially_verified"
  ELSE IF trace[d].sure THEN "unsupported" ELSE "unverified"

\* A fact newer than all that it cites was there when it was taken.
Superseded(d) ==
  LET cited == Resolved(d) \cap Facts
  IN  /\ cited # {}
      /\ \E f \in Facts \ Resolved(d) : f <= d /\ \A c \in cited : c < f

Verdict(d) ==
  IF trace[d].sure /\ FailsWithin(d, ContradictionLevels) THEN "contradicted"
  ELSE IF GroundedVerdict(d) \in {"verified", "partially_verified"} /\ Superseded(d) THEN "stale"
  ELSE GroundedVerdict(d)

-----------------------------------------------------------------------------
(* The evidence graph and its slices *)

Nodes ==
  {e \in Landed : trace[e].kind \in {"decision", "tool_result", "failed_result", "turn"}}
  \cup UNION {Resolved(d) : d \in Decisions}

EvidenceEdges == {g \in Decisions \X Landed : g[2] \in Resolved(g[1])}
CausalEdges == {g \in Nodes \X Nodes : g[1] \in trace[g[2]].refs}

\* Mutant: a citation is followed as it is recorded.
Dependence_AsRecorded == EvidenceEdges \cup CausalEdges

\* Who fed whom: a citation points from the claim to the fact that fed it.
Dependence == {<<g[2], g[1]>> : g \in EvidenceEdges} \cup CausalEdges

Mirrored == {<<g[2], g[1]>> : g \in Dependence}

\* _bfs: the start is never among what it reaches.
Reached(e, deps) ==
  LET next == [x \in Landed |-> {g[2] : g \in {h \in deps : h[1] = x}}]
  IN  WalkOf(next[e], {e}, next, AllLevels) \ {e}

\* The entries of a slice are sorted by their place before they are cut.
Slice(e, deps) ==
  LET reached == Reached(e, deps)
  IN  {x \in reached : Cardinality({y \in reached : y < x}) < SliceCap}

Truncated(e, deps) == Cardinality(Reached(e, deps)) > SliceCap

ForwardSlice(e) == Slice(e, Dependence)
BackwardSlice(e) == Slice(e, Mirrored)
ForwardCut(e) == Truncated(e, Dependence)
BackwardCut(e) == Truncated(e, Mirrored)

-----------------------------------------------------------------------------
(* What to run again *)

Producers(d) ==
  {p \in Landed : trace[p].kind = "tool_call"
                  /\ \E e \in Resolved(d) \ {d} : p \in trace[e].refs}

RerunSet(d) == {d} \cup Resolved(d) \cup Producers(d) \cup Subtree(d)

-----------------------------------------------------------------------------
(* Who is suspected of a failure *)

\* The latest earlier event of some kinds.  (The windows of six and more events in
\* which it is looked for are wider than a session of the runs; all calls and
\* results are of one tool.)
Previous(e, kinds) ==
  LET before == {b \in Landed : b < e /\ trace[b].kind \in kinds}
  IN  {b \in before : \A c \in before : c <= b}

Inferred(e) ==
  CASE trace[e].kind = "failed_result" -> Previous(e, {"tool_call"}) \cup Previous(e, {"decision"})
    [] trace[e].kind = "error" -> Previous(e, {"decision"})
    [] OTHER -> {}

DirectCauses(e) == (((trace[e].refs \cup trace[e].cites) \cap Landed) \cup Inferred(e)) \ {e}

\* candidate_map: what is found within three steps up.
Candidates(f) == WalkOf(DirectCauses(f), {}, [e \in Landed |-> DirectCauses(e)], 3)

\* What may be shown: all candidates, or as many as fit.  Which are best is a matter of
\* scores, and any may be.
SuspectLists(f) ==
  {best \in SUBSET Candidates(f) :
     \/ Cardinality(best) = MaxSuspects
     \/ best = Candidates(f) /\ Cardinality(best) < MaxSuspects}

-----------------------------------------------------------------------------
(* Property *)

\* The views of an audit tell one story of every decision, whatever has landed and
\* whatever the references.  It is contradicted exactly if the path to a failure
\* that they show is short enough to be searched; if that is three steps away at
\* most, a failure lists it as a suspect unless its list is full of others.  Its
\* forward slice is downstream of it, and all that is, if the graph has a node for it
\* and the slice does not say that it was truncated; one slice misses what another
\* mirrors only if it says so too.  What runs again and is not downstream of it feeds
\* it.  A claim that is verified by what it cites has a fact in its backward slice,
\* or that slice is truncated.
ViewsAgree ==
  \A d \in Decisions :
    LET forward == ForwardSlice(d)
        backward == BackwardSlice(d)
        subtree == Subtree(d)
    IN  /\ Verdict(d) = "contradicted" <=>
             trace[d].sure /\ PathLength(d) \in 1..ContradictionLevels
        /\ PathLength(d) \in 1..3 =>
             \E f \in Failures \cap subtree : \A best \in SuspectLists(f) :
               d \in best \/ Cardinality(best) = MaxSuspects
        /\ forward \subseteq subtree
        /\ subtree \subseteq Nodes => forward = subtree \ {d} \/ ForwardCut(d)
        /\ \A e \in Landed :
             /\ e \in forward => d \in BackwardSlice(e) \/ BackwardCut(e)
             /\ d \in BackwardSlice(e) => e \in forward \/ ForwardCut(d)
             /\ e \in backward => d \in ForwardSlice(e) \/ ForwardCut(e)
             /\ d \in ForwardSlice(e) => e \in backward \/ BackwardCut(d)
        /\ \A e \in RerunSet(d) \ ({d} \cup subtree) : d \in Subtree(e)
        /\ Verdict(d) = "verified" /\ trace[d].source = "none" =>
             backward \cap (ToolFacts \cup UserFacts) # {} \/ BackwardCut(d)
=============================================================================
