----------------------------- MODULE MCReading -----------------------------
(***************************************************************************)
(* Where a user reads of a session: the totals of its row, the stepper,    *)
(* the files of an export, the page of the frontend, the replay and the    *)
(* audit.  They share no state: each behaviour is one of a single reader,  *)
(* as in MCServices.                                                       *)
(***************************************************************************)
EXTENDS SessionTotals, Stepper, FileExporter, SessionView, ReplayScope, Audit

VARIABLE reader

\* A kind, and an event in the middle.
MCCondition == {<<"event_type", "tool_result">>, <<"event_id", 2>>}

\* Only a behaviour of the replay is about references, checkpoints and a focus.
NoReplay ==
  /\ parent = [e \in Event |-> Nowhere] /\ upstream = [e \in Event |-> {}]
  /\ checkpoints = <<>> /\ mode = "full" /\ focus = Nowhere

ReadingInit ==
  /\ reader \in {"totals", "stepper", "exporter", "frontend", "replay", "audit"}
  /\ IF reader = "replay" THEN TRUE ELSE NoReplay
  /\ TotalsInit /\ StepperInit /\ ExporterInit /\ ViewInit /\ ReplayInit /\ AuditInit

ReadingNext ==
  /\ UNCHANGED reader
  /\ \/ /\ reader = "totals" /\ TotalsNext
        /\ UNCHANGED <<stepperVars, exporterVars, viewVars, replayVars, auditVars>>
     \/ /\ reader = "stepper" /\ StepperNext
        /\ UNCHANGED <<totalsVars, exporterVars, viewVars, replayVars, auditVars>>
     \/ /\ reader = "exporter" /\ ExporterNext
        /\ UNCHANGED <<totalsVars, stepperVars, viewVars, replayVars, auditVars>>
     \/ /\ reader = "frontend" /\ ViewNext
        /\ UNCHANGED <<totalsVars, stepperVars, exporterVars, replayVars, auditVars>>
     \/ /\ reader = "replay" /\ ReplayNext
        /\ UNCHANGED <<totalsVars, stepperVars, exporterVars, viewVars, auditVars>>
     \/ /\ reader = "audit" /\ AuditNext
        /\ UNCHANGED <<totalsVars, stepperVars, exporterVars, viewVars, replayVars>>

\* What a state says beyond the initial values of the readers at rest.
InReader ==
  <<reader, CASE reader = "totals" -> totalsVars
              [] reader = "stepper" -> stepperVars
              [] reader = "exporter" -> exporterVars
              [] reader = "frontend" -> viewVars
              [] reader = "replay" -> replayVars
              [] reader = "audit" -> auditVars>>

ReadingSpec ==
  ReadingInit /\ [][ReadingNext]_<<reader, totalsVars, stepperVars, exporterVars, viewVars, replayVars,
                                   auditVars>>
=============================================================================
