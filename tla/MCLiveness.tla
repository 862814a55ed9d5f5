----------------------------- MODULE MCLiveness -----------------------------
(***************************************************************************)
(* What must happen, of the trace files and of delivery: each behaviour is *)
(* one of the collector's persistence or of the SDK's transport, under its *)
(* own fairness, while the other stays in its initial state.               *)
(***************************************************************************)
CONSTANTS
  Session, MaxEventsPerSession, MaxSessions, Caller, Loop, NoOne,
  MaxPublished, MaxBadRollbacks, MaxCrashes,
  Task, Main, Context, MaxRetries, MaxEvents, MaxTimeouts, MaxFaults

VARIABLES
  side,
  events, activity, clock, published, dropped,
  running, task, pc, holder, snapshot, listed, pending, write, target, batch, current,
  base, disk, torn, scarred, badRollbacks, crashes,
  started, seqVar, stack, phase, emitted, sends, stats, summary, row, stored,
  broadcast, wire, timeouts, faults

filesVars ==
  <<events, activity, clock, published, dropped, running, task, pc, holder, snapshot, listed, pending, write,
    target, batch, current, base, disk, torn, scarred, badRollbacks, crashes>>
sendingVars ==
  <<started, seqVar, stack, phase, emitted, sends, stats, summary, row, stored, broadcast, wire,
    timeouts, faults>>

Files == INSTANCE Persistence
Sending == INSTANCE Delivery WITH published <- broadcast

LivenessInit ==
  /\ side \in {"files", "sending"} /\ Files!Init /\ Sending!Init
  /\ side = "sending" => target = CHOOSE s \in Session : TRUE

LivenessNext ==
  /\ UNCHANGED side
  /\ \/ side = "files" /\ Files!Next /\ UNCHANGED sendingVars
     \/ side = "sending" /\ Sending!Next /\ UNCHANGED filesVars

LivenessSpec ==
  /\ LivenessInit /\ [][LivenessNext]_<<side, filesVars, sendingVars>>
  /\ \/ side = "files" /\ Files!Fairness
     \/ side = "sending" /\ Sending!Fairness

-----------------------------------------------------------------------------
\* An event in the collector's memory reaches its file, is given up by the bounds or a
\* crash, or the flush loop ends, or writes keep failing (flush loop and writes of
\* persistence.py).
FilesGrowOn == Files!EventuallyStored

\* A task of the agent that awaits its requests runs again (transport.py).
AgentRunsOn == Sending!AgentNeverBlocked
=============================================================================
