------------------------------- MODULE Orchestration -------------------------------
(***************************************************************************)
(* The components that decide what work is done, by which model, what      *)
(* becomes of it and what is recorded.  They share no state, so a          *)
(* behaviour exercises one of them, "part", and the others stay as they    *)
(* started.                                                                *)
(***************************************************************************)
EXTENDS ProviderCircuit, BindingFailover, HumanDecisionQueue, WorkflowEngine,
        GitWriteWave, MutationJournal, TelemetryReadModel

VARIABLE part

allVars == <<circuitVars, failoverVars, queueVars, workflowVars, gitVars,
             journalVars, telemetryVars, part>>

Parts == {"circuit", "failover", "queue", "workflow", "git", "journal", "telemetry"}

(* The choices of Init belong to the part that is exercised.               *)
Init == /\ part \in Parts
        /\ CircuitInit /\ FailoverInit /\ QueueInit /\ WorkflowInit /\ GitInit
        /\ JournalInit /\ TelemetryInit
        /\ part # "failover" => returnPolicy = "AUTO_RETURN"
        /\ part # "workflow" => edges = {}
        /\ part # "git"      => capability /\ index = {} /\ workers = 1

Next ==
    \/ part = "circuit" /\ CircuitNext
          /\ UNCHANGED <<failoverVars, queueVars, workflowVars, gitVars,
                         journalVars, telemetryVars, part>>
    \/ part = "failover" /\ FailoverNext
          /\ UNCHANGED <<circuitVars, queueVars, workflowVars, gitVars,
                         journalVars, telemetryVars, part>>
    \/ part = "queue" /\ QueueNext
          /\ UNCHANGED <<circuitVars, failoverVars, workflowVars, gitVars,
                         journalVars, telemetryVars, part>>
    \/ part = "workflow" /\ WorkflowNext
          /\ UNCHANGED <<circuitVars, failoverVars, queueVars, gitVars,
                         journalVars, telemetryVars, part>>
    \/ part = "git" /\ GitNext
          /\ UNCHANGED <<circuitVars, failoverVars, queueVars, workflowVars,
                         journalVars, telemetryVars, part>>
    \/ part = "journal" /\ JournalNext
          /\ UNCHANGED <<circuitVars, failoverVars, queueVars, workflowVars,
                         gitVars, telemetryVars, part>>
    \/ part = "telemetry" /\ TelemetryNext
          /\ UNCHANGED <<circuitVars, failoverVars, queueVars, workflowVars,
                         gitVars, journalVars, part>>

Spec == Init /\ [][Next]_allVars /\ FailoverFairness
-----------------------------------------------------------------------------
OrchestrationTypeOK == /\ CircuitTypeOK
                       /\ FailoverTypeOK
                       /\ QueueTypeOK
                       /\ WorkflowTypeOK
                       /\ GitTypeOK
                       /\ JournalTypeOK
                       /\ TelemetryTypeOK
====================================================================================
