---------------------------- MODULE MCPersistence ----------------------------
EXTENDS Persistence, TLC

Symmetry == Permutations(Session) \cup Permutations(Caller) \cup Permutations(Loop)

\* What a task that is gone was about, and the size that an append began with once its
\* outcome is known, are not read again.
WithoutLeftovers ==
  <<bufferVars, pc, holder, snapshot, listed, pending, write, disk, torn, scarred, badRollbacks,
    lifeVars, crashes,
    IF write = "none" THEN <<>> ELSE <<target, batch, current>>,
    IF write \in {"partial", "ok"} THEN base ELSE <<>>>>

\* A behaviour has one crash or one truncation that fails, not both.
OneDisaster == crashes + badRollbacks <= 1
=============================================================================
