------------------------------- MODULE WorkflowEngine -------------------------------
(***************************************************************************)
(* The states of the nodes of a published workflow: legal transitions of   *)
(* single nodes, and the propagation that readies or blocks what depends   *)
(* on them.  Propagation is one pass over the nodes in topological order,  *)
(* so a node sees what the pass has made of its predecessors.  A caller    *)
(* may make several transitions before it propagates.                      *)
(***************************************************************************)
EXTENDS FiniteSets

CONSTANTS Nodes,      \* the nodes of the workflow
          Workflows   \* the graphs to consider: sets of edges <<from, to>>

ASSUME WorkflowEngineAssumption ==
    /\ IsFiniteSet(Nodes)
    /\ Workflows \subseteq SUBSET (Nodes \X Nodes)

VARIABLES edges,        \* the edges of the published workflow
          nodeStates,   \* nodeStates[n]: the state of node n
          propagated    \* the last step was a propagation

workflowVars == <<edges, nodeStates, propagated>>

WorkflowNodeStates == {"PENDING", "READY", "RUNNING", "PASSED", "FAILED", "BLOCKED",
                       "HUMAN_REQUIRED"}

TerminalFailureStates == {"FAILED", "BLOCKED"}

LegalTransitions ==
    [PENDING        |-> {"READY", "BLOCKED"},
     READY          |-> {"RUNNING", "HUMAN_REQUIRED", "BLOCKED"},
     RUNNING        |-> {"PASSED", "FAILED", "BLOCKED", "HUMAN_REQUIRED"},
     PASSED         |-> {},
     FAILED         |-> {},
     BLOCKED        |-> {},
     HUMAN_REQUIRED |-> {"RUNNING", "PASSED", "FAILED", "BLOCKED"}]

Predecessors(n) == {m \in Nodes : <<m, n>> \in edges}

(* Nodes that can be removed one after the other, predecessors first.      *)
Acyclic(graph) ==
    \A S \in SUBSET Nodes \ {{}} : \E n \in S : \A m \in S : <<m, n>> \notin graph

CreateInitialNodeStates ==
    [n \in Nodes |-> IF Predecessors(n) = {} THEN "READY" ELSE "PENDING"]

WorkflowInit == /\ edges \in {graph \in Workflows : Acyclic(graph)}
                /\ nodeStates = CreateInitialNodeStates
                /\ propagated = TRUE

(* The caller may ready or block a node that waits, too: nothing compares  *)
(* a transition with the graph.                                            *)
TransitionNodeState(n, next) ==
    /\ next \in LegalTransitions[nodeStates[n]]
    /\ nodeStates' = [nodeStates EXCEPT ![n] = next]
    /\ propagated' = FALSE
    /\ UNCHANGED edges

(* A bug: looks at what the predecessors were before the pass.             *)
PropagatedOneStep ==
    [n \in Nodes |->
        LET parents == {nodeStates[m] : m \in Predecessors(n)}
        IN  IF nodeStates[n] # "PENDING" THEN nodeStates[n]
            ELSE IF parents \cap TerminalFailureStates # {} THEN "BLOCKED"
            ELSE IF parents = {"PASSED"} THEN "READY"
            ELSE "PENDING"]

(* What the pass makes of each node, its predecessors first.               *)
PropagatedStates ==
    LET becomes[n \in Nodes] ==
           LET parents == {becomes[m] : m \in Predecessors(n)}
           IN  IF nodeStates[n] # "PENDING" THEN nodeStates[n]
               ELSE IF parents \cap TerminalFailureStates # {} THEN "BLOCKED"
               ELSE IF parents = {"PASSED"} THEN "READY"
               ELSE "PENDING"
    IN  becomes

PropagateWorkflowStates == /\ nodeStates' = PropagatedStates
                           /\ propagated' = TRUE
                           /\ UNCHANGED edges

WorkflowNext ==
    \/ \E n \in Nodes, next \in WorkflowNodeStates : TransitionNodeState(n, next)
    \/ PropagateWorkflowStates

WorkflowSpec == WorkflowInit /\ [][WorkflowNext]_workflowVars
-----------------------------------------------------------------------------
WorkflowTypeOK == /\ edges \in Workflows
                  /\ nodeStates \in [Nodes -> WorkflowNodeStates]
                  /\ propagated \in BOOLEAN

(* After one propagation, however many nodes changed before it and in      *)
(* whatever order, nothing is left to propagate: what still waits has no   *)
(* predecessor that failed or is blocked, and not all of them passed.      *)
NothingLeftToPropagate ==
    propagated =>
       \A n \in Nodes : nodeStates[n] = "PENDING" =>
          LET parents == {nodeStates[m] : m \in Predecessors(n)}
          IN  /\ parents \cap TerminalFailureStates = {}
              /\ parents # {"PASSED"}
=================================================================================
