------------------------------ MODULE RuntimeDrain ------------------------------
(***************************************************************************)
(* A runtime that is drained: its activities with their permits (module    *)
(* Bulkhead) and their injected secrets (module SecretReceipts), the       *)
(* cancellation of a tree of them, and the graceful drain that may stop    *)
(* only when all is given back.                                            *)
(*                                                                         *)
(* Neither the drain nor a cancellation reaches into the bulkhead: a       *)
(* request that was cancelled while it waited is promoted all the same,    *)
(* and its permit has to be given back.  The evidence for a transition is  *)
(* gathered before the transition, and work goes on in between.            *)
(***************************************************************************)
EXTENDS Bulkhead, SecretReceipts

CONSTANTS NoParent,              \* an activity at the root of its tree
          ParentOf,              \* ParentOf[a]: the activity that started a
          SupportsCancellation,  \* the activities that react to a signal
          ReceiptOf              \* ReceiptOf[a]: the secret a injects, if any

Activities == Requests

ASSUME RuntimeDrainAssumption ==
    /\ ParentOf \in [Activities -> Activities \cup {NoParent}]
    /\ NoParent \notin Activities
    /\ SupportsCancellation \subseteq Activities
    /\ ReceiptOf \in [Activities -> Receipts \cup {NoReceipt}]
    /\ NoReceipt \notin Receipts

VARIABLES activity,       \* the lifecycle state of each activity
          drain,          \* the state of the graceful drain
          evidence,       \* the evidence for the next transition was gathered
          checkpointed,   \* a safe checkpoint has been persisted
          leaseHeld       \* the runtime holds its run lease

drainVars   == <<activity, drain, evidence, checkpointed, leaseHeld>>
runtimeVars == <<bulkheadVars, receiptVars, drainVars>>

LifecycleStates == {"NEW", "QUEUED", "RUNNING", "CANCEL_REQUESTED",
                    "CANCELLED", "COMPLETED", "FAILED"}
Terminal        == {"CANCELLED", "COMPLETED", "FAILED"}
DrainStates     == {"RUNNING", "DRAINING", "CHECKPOINTED", "RELEASING", "STOPPED"}

RuntimeInit == /\ BulkheadInit
               /\ ReceiptsInit
               /\ activity = [a \in Activities |-> "NEW"]
               /\ drain = "RUNNING"
               /\ evidence = FALSE
               /\ checkpointed = FALSE
               /\ leaseHeld = TRUE

(* Once the runtime means to drain it accepts no new work: that is the     *)
(* evidence of the first transition.                                       *)
AcceptsNewWork == drain = "RUNNING" /\ ~evidence

(* An activity is started by a running one, or by the run itself.          *)
Submit(a) ==
    /\ AcceptsNewWork
    /\ activity[a] = "NEW"
    /\ ParentOf[a] # NoParent => activity[ParentOf[a]] = "RUNNING"
    /\ \/ AcquirePermit(a) /\ activity' = [activity EXCEPT ![a] = "RUNNING"]
       \/ EnqueueRequest(a) /\ activity' = [activity EXCEPT ![a] = "QUEUED"]
    /\ UNCHANGED <<receiptVars, drain, evidence, checkpointed, leaseHeld>>

(* A running activity injects its secret and waits before it ends until    *)
(* its receipt is tracked, or injection or tracking has thrown.            *)
Inject(a) ==
    /\ activity[a] = "RUNNING"
    /\ a \in active
    /\ ReceiptOf[a] # NoReceipt
    /\ InjectSecret(ReceiptOf[a])
    /\ UNCHANGED <<bulkheadVars, drainVars>>

Track(a) ==
    /\ ReceiptOf[a] # NoReceipt
    /\ TrackReceipt(ReceiptOf[a])
    /\ UNCHANGED <<bulkheadVars, drainVars>>

InjectionPending(a) == /\ ReceiptOf[a] # NoReceipt
                       /\ ReceiptOf[a] \in live \ (tracked \cup lost)

(* A bug: a cancelled activity has nothing to end.                         *)
TerminalOutcomesOnce(state) == CASE state = "RUNNING"          -> {"COMPLETED", "FAILED"}
                                 [] state = "CANCEL_REQUESTED" -> Terminal
                                 [] OTHER                      -> {}

(* How an activity that holds a permit can end.  One that was cancelled    *)
(* while it waited, and promoted since, only gives its permit back.        *)
TerminalOutcomes(state) == CASE state = "RUNNING"          -> {"COMPLETED", "FAILED"}
                             [] state = "CANCEL_REQUESTED" -> Terminal
                             [] state = "CANCELLED"        -> {"CANCELLED"}
                             [] OTHER                      -> {}

(* The end of an activity gives its permit back and starts the request     *)
(* that is promoted for it.                                                *)
Settle(a) ==
    /\ ~InjectionPending(a)
    /\ ReleasePermit(a)
    /\ \E outcome \in TerminalOutcomes(activity[a]) :
          activity' = [b \in Activities |->
             IF b = a THEN outcome
             ELSE IF b \in active' \ active /\ activity[b] = "QUEUED" THEN "RUNNING"
             ELSE activity[b]]
    /\ UNCHANGED <<receiptVars, drain, evidence, checkpointed, leaseHeld>>

(* The tree of activities under root.                                      *)
Descendants(root) ==
    LET under[a \in Activities] == \/ a = root
                                   \/ ParentOf[a] # NoParent /\ under[ParentOf[a]]
    IN  {a \in Activities : under[a]}

CancellationAction(a) ==
    CASE activity[a] = "QUEUED"                                 -> "CANCELLED"
      [] activity[a] = "RUNNING" /\ a \in SupportsCancellation  -> "CANCEL_REQUESTED"
      [] OTHER                                                  -> activity[a]

Cancel(root) ==
    /\ activity[root] # "NEW"
    /\ activity' = [a \in Activities |-> IF a \in Descendants(root)
                                         THEN CancellationAction(a) ELSE activity[a]]
    /\ UNCHANGED <<bulkheadVars, receiptVars, drain, evidence, checkpointed, leaseHeld>>

Revocation(v) == /\ RevocationStep(v)
                 /\ UNCHANGED <<bulkheadVars, drainVars>>

(* The runtime's own parts of the drain, done when their turn has come.    *)
PersistCheckpoint == /\ drain = "DRAINING"
                     /\ checkpointed' = TRUE
                     /\ UNCHANGED <<bulkheadVars, receiptVars, activity, drain, evidence,
                                    leaseHeld>>

ReleaseLease == /\ drain = "RELEASING"
                /\ leaseHeld' = FALSE
                /\ UNCHANGED <<bulkheadVars, receiptVars, activity, drain, evidence,
                               checkpointed>>

NextDrainState == CASE drain = "RUNNING"      -> "DRAINING"
                    [] drain = "DRAINING"     -> "CHECKPOINTED"
                    [] drain = "CHECKPOINTED" -> "RELEASING"
                    [] drain = "RELEASING"    -> "STOPPED"

ActivitiesSettled == \A a \in Activities : activity[a] \in Terminal \cup {"NEW"}

(* A bug: does not ask whether the secrets were revoked.                   *)
EvidenceWithoutReceipts(to) ==
    CASE to = "DRAINING"     -> TRUE
      [] to = "CHECKPOINTED" -> checkpointed
      [] to = "RELEASING"    -> ActivitiesSettled
      [] to = "STOPPED"      -> ActivitiesSettled /\ active = {} /\ ~leaseHeld

(* What transitionRuntimeDrain demands of the evidence.                    *)
EvidenceSuffices(to) ==
    CASE to = "DRAINING"     -> TRUE
      [] to = "CHECKPOINTED" -> checkpointed
      [] to = "RELEASING"    -> ActivitiesSettled
      [] to = "STOPPED"      -> /\ ActivitiesSettled
                                /\ active = {}
                                /\ ~leaseHeld
                                /\ tracked = {}

GatherEvidence == /\ drain # "STOPPED"
                  /\ ~evidence
                  /\ EvidenceSuffices(NextDrainState)
                  /\ evidence' = TRUE
                  /\ UNCHANGED <<bulkheadVars, receiptVars, activity, drain, checkpointed,
                                 leaseHeld>>

TransitionRuntimeDrain == /\ drain # "STOPPED"
                          /\ evidence
                          /\ drain' = NextDrainState
                          /\ evidence' = FALSE
                          /\ UNCHANGED <<bulkheadVars, receiptVars, activity, checkpointed,
                                         leaseHeld>>

RuntimeNext ==
    \/ \E a \in Activities : Submit(a) \/ Inject(a) \/ Track(a) \/ Settle(a) \/ Cancel(a)
    \/ \E v \in Passes : Revocation(v)
    \/ PersistCheckpoint
    \/ ReleaseLease
    \/ GatherEvidence
    \/ TransitionRuntimeDrain

RuntimeSpec == RuntimeInit /\ [][RuntimeNext]_runtimeVars

(* Every activity ends (it has a deadline), what the runtime does itself   *)
(* gets done, and a revocation that is tried again and again succeeds.     *)
RuntimeFairness ==
    /\ \A a \in Activities : /\ WF_runtimeVars(Settle(a))
                             /\ WF_runtimeVars(Track(a))
    /\ \A v \in Passes :
          /\ WF_runtimeVars(RevokeAll(v) /\ UNCHANGED <<bulkheadVars, drainVars>>)
          /\ \A r \in Receipts :
                /\ WF_runtimeVars((SkipReceipt(v, r) \/ CallRevoke(v, r))
                                  /\ UNCHANGED <<bulkheadVars, drainVars>>)
                /\ SF_runtimeVars(RevokeSucceeds(v, r)
                                  /\ UNCHANGED <<bulkheadVars, drainVars>>)
    /\ WF_runtimeVars(PersistCheckpoint)
    /\ WF_runtimeVars(ReleaseLease)
    /\ WF_runtimeVars(drain # "RUNNING" /\ GatherEvidence)
    /\ WF_runtimeVars(TransitionRuntimeDrain)
-----------------------------------------------------------------------------
RuntimeTypeOK == /\ BulkheadTypeOK
                 /\ ReceiptsTypeOK
                 /\ activity \in [Activities -> LifecycleStates]
                 /\ drain \in DrainStates
                 /\ evidence \in BOOLEAN
                 /\ checkpointed \in BOOLEAN
                 /\ leaseHeld \in BOOLEAN

(* A runtime that has stopped left nothing behind that it knew of: no      *)
(* activity, no permit, no request that still waits for one, no lease and, *)
(* of the secrets whose receipt its scope was given, none that is alive,   *)
(* although each was looked at before the transition and cancelled         *)
(* requests were promoted meanwhile.  A secret that the sink took in a     *)
(* call that threw may be alive: no evidence speaks of it.                 *)
StoppedIsClean ==
    drain = "STOPPED" => /\ ActivitiesSettled
                         /\ active = {} /\ queued = <<>>
                         /\ ~leaseHeld
                         /\ live \subseteq lost

(* A drain that has begun ends: the permits of cancelled requests do not   *)
(* block it, and neither do two revocation passes that work on the same    *)
(* receipts.                                                               *)
DrainEnds == drain = "DRAINING" ~> drain = "STOPPED"
=================================================================================
