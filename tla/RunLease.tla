-------------------------------- MODULE RunLease --------------------------------
(***************************************************************************)
(* One run intent and the runs that want to execute it: the lease that     *)
(* makes one of them the owner, the heartbeats it leaves, and the          *)
(* reconciliation of a run that got stuck.                                 *)
(*                                                                         *)
(* The code decides and its caller stores: every decision is a synchronous *)
(* function of the stored lease record, so reading the record, deciding    *)
(* and storing the result are one action.  A run keeps its own copy of the *)
(* lease it was given; it may be slow or dead when the lease runs out, and *)
(* a slow run goes on calling.  Time is relative: a lease and a heartbeat  *)
(* carry the ticks that are left, so no clock grows.                       *)
(***************************************************************************)
EXTENDS Integers

CONSTANTS Runs,           \* the runs of the intent, in any order
          LeaseIds,       \* a process offers the same lease id for all its runs
          LeaseIdOf,      \* LeaseIdOf[r]: the lease id that r offers
          NoLease,        \* no lease record, no copy of one
          Profiles,       \* the kinds of activities: which persist checkpoints, and
                          \* whose effect is proven idempotent
          Ttl,            \* ticks for which a lease is given or renewed
          MaxSilence      \* ticks without a heartbeat before a run is stalled

Leases == [runId : Runs, leaseId : LeaseIds, generation : Nat \ {0},
           left : 0..Ttl, state : {"ACTIVE", "RELEASED"}]

ASSUME RunLeaseAssumption ==
    /\ NoLease \notin Leases
    /\ LeaseIdOf \in [Runs -> LeaseIds]
    /\ Profiles \subseteq [checkpointing : BOOLEAN, idempotent : BOOLEAN]
    /\ Ttl \in Nat \ {0}
    /\ MaxSilence \in Nat \ {0}

VARIABLES lease,       \* the stored lease record of the intent
          held,        \* held[r]: the lease record as r was last given it
          heartbeat,   \* heartbeat[r]: ticks since the last one and ticks it says
                       \* are left of the lease
          work,        \* work[r]: how far r is with the activity
          checkpoint,  \* what the persisted checkpoint of the activity says
          profile,     \* the kind of this activity
          nextAction,  \* what the last reconciliation decided, until it is done
          effects      \* how often the effect was applied (history)

leaseVars == <<lease, held, heartbeat, work, checkpoint, profile, nextAction, effects>>

Beats  == [age : 0..MaxSilence + 1, left : 0..Ttl]
NoBeat == [age |-> 0, left |-> -1]

(* "effect" is the window in which a run has begun the effect and not yet  *)
(* seen its result.                                                        *)
Works       == {"waiting", "working", "effect", "applied", "finished", "stopped"}
Checkpoints == {"MISSING", "SAFE_BEFORE", "UNSAFE", "SAFE_AFTER"}

RunLeaseIsActive(l) == l.state = "ACTIVE" /\ l.left > 0

Live(r) == held[r] # NoLease /\ RunLeaseIsActive(held[r])

LeaseInit ==
    /\ lease = NoLease
    /\ held = [r \in Runs |-> NoLease]
    /\ heartbeat = [r \in Runs |-> NoBeat]
    /\ work = [r \in Runs |-> "waiting"]
    /\ checkpoint = "MISSING"
    /\ profile \in Profiles
    /\ nextAction = "NONE"
    /\ effects = 0

(* The record a free lease is given out as: a run that finds it active     *)
(* attaches to the existing one instead, which changes nothing.            *)
AcquireRunLease(r) ==
    [runId |-> r, leaseId |-> LeaseIdOf[r],
     generation |-> IF lease = NoLease THEN 1 ELSE lease.generation + 1,
     left |-> Ttl, state |-> "ACTIVE"]

LeaseIsFree == lease # NoLease => ~RunLeaseIsActive(lease)

TakeLease(r) == /\ LeaseIsFree
                /\ lease' = AcquireRunLease(r)
                /\ held' = [held EXCEPT ![r] = lease']

(* A bug: a lease id is enough.                                            *)
OwnsLeaseById(r) == /\ held[r] # NoLease /\ lease # NoLease
                    /\ lease.leaseId = LeaseIdOf[r]

(* The ownership check of renewal and release: the caller's lease id and   *)
(* the generation it was given.                                            *)
OwnsLease(r) == /\ held[r] # NoLease /\ lease # NoLease
                /\ lease.leaseId = LeaseIdOf[r]
                /\ lease.generation = held[r].generation

RenewRunLease(r) ==
    /\ work[r] \in {"working", "effect", "applied"}
    /\ OwnsLease(r)
    /\ RunLeaseIsActive(lease)
    /\ lease' = [lease EXCEPT !.left = Ttl]
    /\ held' = [held EXCEPT ![r] = lease']
    /\ UNCHANGED <<heartbeat, work, checkpoint, profile, nextAction, effects>>

ReleaseRunLease(r) ==
    /\ OwnsLease(r)
    /\ lease.state = "ACTIVE"
    /\ lease' = [lease EXCEPT !.state = "RELEASED"]
    /\ held' = [held EXCEPT ![r] = lease']

(* The first run of the intent: nothing has been started yet.              *)
StartRun(r) ==
    /\ \A s \in Runs : work[s] = "waiting"
    /\ TakeLease(r)
    /\ work' = [work EXCEPT ![r] = "working"]
    /\ checkpoint' = IF profile.checkpointing THEN "SAFE_BEFORE" ELSE checkpoint
    /\ UNCHANGED <<heartbeat, profile, nextAction, effects>>

NodeIsRunning == /\ \E r \in Runs : work[r] # "waiting"
                 /\ \A r \in Runs : work[r] # "finished"

(* The lease as a reconciler that owns none observes it.                   *)
LeaseObservation == IF lease = NoLease THEN "MISSING"
                    ELSE IF lease.state = "RELEASED" THEN "RELEASED"
                    ELSE IF lease.left = 0 THEN "EXPIRED" ELSE "ACTIVE_OTHER"

(* A bug: any checkpoint is one to resume from.                            *)
RecoverFromAnyCheckpoint(observed, evidenceValid) ==
    IF observed \in {"EXPIRED", "RELEASED", "MISSING"} /\ evidenceValid
    THEN CASE checkpoint # "MISSING"                         -> "RESUME_FROM_CHECKPOINT"
           [] checkpoint = "MISSING" /\ profile.idempotent  -> "RERUN_SAFE"
           [] checkpoint = "MISSING" /\ ~profile.idempotent -> "HUMAN_REVIEW"
    ELSE "HUMAN_REVIEW"

(* The decision table for a node that is still marked RUNNING.  Replay     *)
(* evidence and revision enter as one fact; HUMAN_REVIEW stands for every  *)
(* reason to leave the run to a person.                                    *)
RecoveryNextAction(observed, evidenceValid) ==
    IF /\ observed \in {"EXPIRED", "RELEASED", "MISSING"}
       /\ evidenceValid
       /\ checkpoint # "UNSAFE"
    THEN CASE checkpoint # "MISSING"                         -> "RESUME_FROM_CHECKPOINT"
           [] checkpoint = "MISSING" /\ profile.idempotent  -> "RERUN_SAFE"
           [] checkpoint = "MISSING" /\ ~profile.idempotent -> "HUMAN_REVIEW"
    ELSE "HUMAN_REVIEW"

(* One reconciler looks; what it decides is carried out later.             *)
ReconcileStuckRun ==
    /\ NodeIsRunning
    /\ nextAction = "NONE"
    /\ \E evidenceValid \in BOOLEAN :
          LET decided == RecoveryNextAction(LeaseObservation, evidenceValid)
          IN  nextAction' = IF decided = "HUMAN_REVIEW" THEN "NONE" ELSE decided
    /\ UNCHANGED <<lease, held, heartbeat, work, checkpoint, profile, effects>>

RecoverRun(r) ==
    /\ work[r] = "waiting"
    /\ nextAction # "NONE"
    /\ TakeLease(r)
    /\ work' = [work EXCEPT ![r] = IF /\ nextAction = "RESUME_FROM_CHECKPOINT"
                                      /\ checkpoint = "SAFE_AFTER"
                                   THEN "applied" ELSE "working"]
    /\ nextAction' = "NONE"
    /\ UNCHANGED <<heartbeat, checkpoint, profile, effects>>

(* A run works on the effect only while its own copy of the lease is       *)
(* active.  The effect lands later, whatever became of the lease.          *)
BeginEffect(r) ==
    /\ work[r] = "working"
    /\ Live(r)
    /\ work' = [work EXCEPT ![r] = "effect"]
    /\ checkpoint' = IF profile.checkpointing THEN "UNSAFE" ELSE checkpoint
    /\ UNCHANGED <<lease, held, heartbeat, profile, nextAction, effects>>

ApplyEffect(r) ==
    /\ work[r] = "effect"
    /\ effects' = effects + 1
    /\ work' = [work EXCEPT ![r] = "applied"]
    /\ checkpoint' = IF profile.checkpointing THEN "SAFE_AFTER" ELSE checkpoint
    /\ UNCHANGED <<lease, held, heartbeat, profile, nextAction>>

FinishRun(r) ==
    /\ work[r] = "applied"
    /\ ReleaseRunLease(r)
    /\ work' = [work EXCEPT ![r] = "finished"]
    /\ UNCHANGED <<heartbeat, checkpoint, profile, nextAction, effects>>

(* A run gives up in good order, or is gone without a word.                *)
AbandonRun(r) ==
    /\ work[r] \in {"working", "applied"}
    /\ ReleaseRunLease(r)
    /\ work' = [work EXCEPT ![r] = "stopped"]
    /\ UNCHANGED <<heartbeat, checkpoint, profile, nextAction, effects>>

CrashRun(r) ==
    /\ work[r] \in {"working", "effect", "applied"}
    /\ work' = [work EXCEPT ![r] = "stopped"]
    /\ UNCHANGED <<lease, held, heartbeat, checkpoint, profile, nextAction, effects>>

(* A heartbeat whose lease has already expired cannot be created.          *)
RecordHeartbeat(r) ==
    /\ work[r] \in {"working", "effect", "applied"}
    /\ held[r] # NoLease
    /\ held[r].left > 0
    /\ heartbeat' = [heartbeat EXCEPT ![r] = [age |-> 0, left |-> held[r].left]]
    /\ UNCHANGED <<lease, held, work, checkpoint, profile, nextAction, effects>>

(* A bug: counts on below zero.                                            *)
SoonerWithoutFloor(left) == left - 1

Sooner(left) == IF left > 0 THEN left - 1 ELSE left

Tick ==
    /\ lease' = IF lease = NoLease THEN lease ELSE [lease EXCEPT !.left = Sooner(@)]
    /\ held' = [r \in Runs |-> IF held[r] = NoLease THEN NoLease
                               ELSE [held[r] EXCEPT !.left = Sooner(@)]]
    /\ heartbeat' = [r \in Runs |->
          IF heartbeat[r] = NoBeat THEN NoBeat
          ELSE [age  |-> IF heartbeat[r].age > MaxSilence THEN heartbeat[r].age
                         ELSE heartbeat[r].age + 1,
                left |-> Sooner(heartbeat[r].left)]]
    /\ UNCHANGED <<work, checkpoint, profile, nextAction, effects>>

LeaseNext ==
    \/ Tick
    \/ ReconcileStuckRun
    \/ \E r \in Runs : \/ StartRun(r) \/ RecoverRun(r)
                       \/ RenewRunLease(r) \/ RecordHeartbeat(r)
                       \/ BeginEffect(r) \/ ApplyEffect(r)
                       \/ FinishRun(r) \/ AbandonRun(r) \/ CrashRun(r)

LeaseSpec == LeaseInit /\ [][LeaseNext]_leaseVars

(* A bug: trusts a heartbeat whose own lease has run out.                  *)
ClassifyByAgeOnly(observed, r) ==
    IF observed = "UNKNOWN" THEN "RECOVERY_REQUIRED"
    ELSE IF observed \in {"EXPIRED", "MISSING"} THEN "INTERRUPTED"
    ELSE IF heartbeat[r] = NoBeat THEN "RECOVERY_REQUIRED"
    ELSE IF heartbeat[r].age > MaxSilence THEN "STALLED" ELSE "ACTIVE_PROGRESSING"

(* What a supervisor makes of the last heartbeat of r.  The lease it       *)
(* observed may be long gone when it classifies.                           *)
ClassifyRuntimeActivityLiveness(observed, r) ==
    IF observed = "UNKNOWN" THEN "RECOVERY_REQUIRED"
    ELSE IF observed \in {"EXPIRED", "MISSING"} THEN "INTERRUPTED"
    ELSE IF heartbeat[r] = NoBeat \/ heartbeat[r].left <= 0 THEN "RECOVERY_REQUIRED"
    ELSE IF heartbeat[r].age > MaxSilence THEN "STALLED" ELSE "ACTIVE_PROGRESSING"
-----------------------------------------------------------------------------
LeaseTypeOK ==
    /\ lease \in Leases \cup {NoLease}
    /\ held \in [Runs -> Leases \cup {NoLease}]
    /\ heartbeat \in [Runs -> Beats \cup {NoBeat}]
    /\ work \in [Runs -> Works]
    /\ checkpoint \in Checkpoints
    /\ profile \in Profiles
    /\ nextAction \in {"NONE", "RESUME_FROM_CHECKPOINT", "RERUN_SAFE"}
    /\ effects \in Nat

(* No two runs ever believe at the same time that they hold an unexpired   *)
(* lease, although each looks only at its own copy, slow runs go on        *)
(* calling after their lease was taken over, and a process offers the same *)
(* lease id again.                                                         *)
OneLiveHolder == \A r, s \in Runs : Live(r) /\ Live(s) => r = s

(* A run that is reported as progressing still owns the lease, however old *)
(* the supervisor's look at the lease is: only a run that released the     *)
(* lease itself may be reported so a little longer.                        *)
ProgressingIsHolder ==
    \A r \in Runs :
       ClassifyRuntimeActivityLiveness("ACTIVE", r) = "ACTIVE_PROGRESSING"
       => \/ Live(r) /\ lease = held[r]
          \/ held[r].state = "RELEASED"

(* An effect that is not proven idempotent is not applied twice: not by a  *)
(* recovery that follows a stale decision, and not by a run that lost its  *)
(* lease between beginning the effect and seeing it land.                  *)
NoBlindRepeat == effects <= 1 \/ profile.idempotent

(* What the stored record is as a lease, and who acts on it: the runs whose *)
(* own copy is active.                                                     *)
Standing == IF lease = NoLease \/ lease.state = "RELEASED" THEN "OVER"
            ELSE IF lease.left > 0 THEN "LIVE" ELSE "LAPSED"

Fence == INSTANCE FencedLease
         WITH Parties  <- Runs,
              NoParty  <- NoLease,
              holder   <- IF lease = NoLease THEN NoLease ELSE lease.runId,
              term     <- IF lease = NoLease THEN 0 ELSE lease.generation,
              standing <- Standing,
              acting   <- {r \in Runs : Live(r)}

(* The copies that runs keep come to one lease with a fencing number: it    *)
(* passes to another run only under a new generation and never while it is *)
(* live, and only its holder acts on it, and only while it is.             *)
LeaseIsFenced == Fence!Spec
=================================================================================
