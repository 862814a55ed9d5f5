----------------------------- MODULE MCServices -----------------------------
(***************************************************************************)
(* Services beside the event path, in one run: they share no state, so     *)
(* each behaviour is one of a single service, and the states of the run    *)
(* are the sum of theirs.                                                  *)
(***************************************************************************)
EXTENDS AutoPatch, AlertCache, Restore

CONSTANTS llm, autogen, c1, c2, admin, nobody, stop

VARIABLE service

MCAdapters == <<llm, autogen>>

ServicesInit ==
  /\ service \in {"auto_patch", "alerts", "restore"}
  /\ PatchInit /\ AlertInit /\ RestoreInit

ServicesNext ==
  /\ UNCHANGED service
  /\ \/ /\ service = "auto_patch" /\ PatchNext
        /\ UNCHANGED <<alertVars, restoreVars>>
     \/ /\ service = "alerts" /\ AlertNext
        /\ UNCHANGED <<patchVars, restoreVars>>
     \/ /\ service = "restore" /\ RestoreNext
        /\ UNCHANGED <<patchVars, alertVars>>

\* What a state says beyond the initial values of the services at rest.
InService ==
  <<service, CASE service = "auto_patch" -> patchVars
               [] service = "alerts" -> alertVars
               [] service = "restore" -> restoreVars>>

ServicesSpec ==
  ServicesInit /\ [][ServicesNext]_<<service, patchVars, alertVars, restoreVars>>

-----------------------------------------------------------------------------
\* The variables have their types: nothing that activations, alert writes and restores
\* leave behind when they interleave is malformed (registry.py and _transport.py,
\* alert_repo.py, replay_routes.py and session_manager.py).
ServicesTypeOK == PatchTypeOK /\ AlertTypeOK /\ RestoreTypeOK
=============================================================================
