------------------------------ MODULE RunLeaseProofs ------------------------------
(***************************************************************************)
(* The lease of a run intent, for any number of runs and lease ids, any    *)
(* kinds of activities and any lengths of leases and silences; and the     *)
(* workspaces that started items are given, for any number of allocations. *)
(***************************************************************************)
EXTENDS RunLease, WorkspaceBackend, TLAPS

-----------------------------------------------------------------------------
(* The inductive invariant                                                 *)

(* Every lease that was ever given out is either the stored one or dead.   *)
CurrentOrDead ==
    \A r \in Runs : held[r] # NoLease =>
       /\ lease # NoLease
       /\ held[r].runId = r
       /\ held[r].generation <= lease.generation
       /\ held[r].generation = lease.generation => held[r] = lease
       /\ held[r].generation < lease.generation => ~RunLeaseIsActive(held[r])

(* A heartbeat never promises more than the run's copy of the lease holds. *)
BeatsCovered ==
    \A r \in Runs : heartbeat[r].left > 0 =>
       held[r] # NoLease /\ heartbeat[r].left <= held[r].left

(* A run that has started was given a lease; a recovery that was decided   *)
(* and not yet carried out follows a start and finds the lease free.       *)
RecoveryFindsLeaseFree ==
    /\ \A r \in Runs : work[r] # "waiting" => held[r] # NoLease
    /\ nextAction # "NONE" => /\ lease # NoLease /\ ~RunLeaseIsActive(lease)
                              /\ \E r \in Runs : work[r] # "waiting"

(* A run that was overtaken by another one.                                *)
Overtaken(r) == held[r].generation < lease.generation

(* What the checkpoint of an activity that is not idempotent tells.        *)
CheckpointTells ==
    /\ nextAction # "RERUN_SAFE"
    /\ checkpoint \in {"MISSING", "SAFE_BEFORE", "UNSAFE"} => effects = 0
    /\ checkpoint = "SAFE_AFTER" => effects = 1
    /\ checkpoint = "MISSING" <=> \A r \in Runs : work[r] = "waiting"
    /\ checkpoint = "SAFE_BEFORE" =>
          \A r \in Runs : work[r] \notin {"effect", "applied", "finished"}
    /\ checkpoint = "UNSAFE" =>
          /\ nextAction = "NONE"
          /\ \A r \in Runs : work[r] = "working" => Overtaken(r)
          /\ \A r \in Runs : work[r] = "effect" => ~Overtaken(r)
          /\ \A r \in Runs : work[r] \notin {"applied", "finished"}
    /\ checkpoint = "SAFE_AFTER" =>
          /\ \A r \in Runs : work[r] = "working" => Overtaken(r)
          /\ \A r \in Runs : work[r] # "effect"

(* Without a checkpoint such an activity is never tried again.             *)
TriedOnce ==
    /\ checkpoint = "MISSING"
    /\ nextAction = "NONE"
    /\ effects \in {0, 1}
    /\ \A r, s \in Runs : work[r] # "waiting" /\ work[s] # "waiting" => r = s
    /\ effects = 1 => \A r \in Runs : work[r] \notin {"working", "effect"}
    /\ effects = 1 => \E r \in Runs : work[r] # "waiting"

Accounted ==
    ~profile.idempotent => IF profile.checkpointing THEN CheckpointTells ELSE TriedOnce

-----------------------------------------------------------------------------
(* Types                                                                   *)

(* A free lease is given out as a lease.                                   *)
LEMMA AcquiredIsLease ==
    ASSUME NEW r \in Runs, LeaseTypeOK
    PROVE  AcquireRunLease(r) \in Leases
  BY RunLeaseAssumption DEF AcquireRunLease, LeaseTypeOK, Leases

(* Every value the variables take has its type: no lease is given for      *)
(* longer than its ttl and none outlives it by renewals.                   *)
THEOREM LeaseTypeCorrect == LeaseSpec => []LeaseTypeOK
<1>1. LeaseInit => LeaseTypeOK
  BY DEF LeaseInit, LeaseTypeOK, Works, Checkpoints
<1>2. LeaseTypeOK /\ [LeaseNext]_leaseVars => LeaseTypeOK'
  <2> SUFFICES ASSUME LeaseTypeOK, [LeaseNext]_leaseVars PROVE LeaseTypeOK'
    OBVIOUS
  <2> USE RunLeaseAssumption DEF LeaseTypeOK
  <2>1. CASE Tick
    <3>1. \A left \in 0..Ttl : Sooner(left) \in 0..Ttl
      BY DEF Sooner
    <3>2. lease' \in Leases \cup {NoLease}
      BY <2>1, <3>1 DEF Tick, Leases
    <3>3. held' \in [Runs -> Leases \cup {NoLease}]
      BY <2>1, <3>1 DEF Tick, Leases
    <3>4. heartbeat' \in [Runs -> Beats \cup {NoBeat}]
      <4> DEFINE later(r) == IF heartbeat[r] = NoBeat THEN NoBeat
                 ELSE [age  |-> IF heartbeat[r].age > MaxSilence THEN heartbeat[r].age
                                ELSE heartbeat[r].age + 1,
                       left |-> Sooner(heartbeat[r].left)]
      <4>1. ASSUME NEW r \in Runs PROVE later(r) \in Beats \cup {NoBeat}
        <5>1. CASE heartbeat[r] = NoBeat
          BY <5>1
        <5>2. CASE heartbeat[r] # NoBeat
          <6>1. heartbeat[r] \in Beats
            BY <5>2
          <6>2. heartbeat[r].age \in 0..MaxSilence + 1 /\ heartbeat[r].left \in 0..Ttl
            BY <6>1 DEF Beats
          <6>3. Sooner(heartbeat[r].left) \in 0..Ttl
            BY <6>2, <3>1
          <6>4. QED
            BY <5>2, <6>2, <6>3 DEF Beats
        <5>3. QED
          BY <5>1, <5>2
      <4>2. heartbeat' = [r \in Runs |-> later(r)]
        BY <2>1 DEF Tick
      <4> HIDE DEF later
      <4>3. QED
        BY <4>1, <4>2
    <3>5. QED
      BY <2>1, <3>2, <3>3, <3>4 DEF Tick
  <2>2. CASE ReconcileStuckRun
    <3>1. \A observed, evidenceValid :
             RecoveryNextAction(observed, evidenceValid)
                \in {"HUMAN_REVIEW", "RESUME_FROM_CHECKPOINT", "RERUN_SAFE"}
      BY DEF RecoveryNextAction
    <3>2. nextAction' \in {"NONE", "RESUME_FROM_CHECKPOINT", "RERUN_SAFE"}
      BY <2>2, <3>1 DEF ReconcileStuckRun
    <3>3. QED
      BY <2>2, <3>2 DEF ReconcileStuckRun
  <2>3. ASSUME NEW r \in Runs, StartRun(r) PROVE LeaseTypeOK'
    BY <2>3, AcquiredIsLease DEF StartRun, TakeLease, Works, Checkpoints
  <2>4. ASSUME NEW r \in Runs, RecoverRun(r) PROVE LeaseTypeOK'
    BY <2>4, AcquiredIsLease DEF RecoverRun, TakeLease, Works, Checkpoints
  <2>5. ASSUME NEW r \in Runs, RenewRunLease(r) PROVE LeaseTypeOK'
    <3>1. lease' \in Leases
      BY <2>5 DEF RenewRunLease, OwnsLease, Leases
    <3>2. QED
      BY <2>5, <3>1 DEF RenewRunLease
  <2>6. ASSUME NEW r \in Runs, RecordHeartbeat(r) PROVE LeaseTypeOK'
    <3>1. held[r].left \in 0..Ttl
      BY <2>6 DEF RecordHeartbeat, Leases
    <3>2. [age |-> 0, left |-> held[r].left] \in Beats
      BY <3>1 DEF Beats
    <3>3. QED
      BY <2>6, <3>2 DEF RecordHeartbeat
  <2>7. ASSUME NEW r \in Runs, BeginEffect(r) PROVE LeaseTypeOK'
    BY <2>7 DEF BeginEffect, Works, Checkpoints
  <2>8. ASSUME NEW r \in Runs, ApplyEffect(r) PROVE LeaseTypeOK'
    BY <2>8 DEF ApplyEffect, Works, Checkpoints
  <2>9. ASSUME NEW r \in Runs, FinishRun(r) \/ AbandonRun(r) PROVE LeaseTypeOK'
    <3>1. lease' \in Leases
      BY <2>9 DEF FinishRun, AbandonRun, ReleaseRunLease, OwnsLease, Leases
    <3>2. QED
      BY <2>9, <3>1 DEF FinishRun, AbandonRun, ReleaseRunLease, Works
  <2>10. ASSUME NEW r \in Runs, CrashRun(r) PROVE LeaseTypeOK'
    BY <2>10 DEF CrashRun, Works
  <2>11. CASE UNCHANGED leaseVars
    BY <2>11 DEF leaseVars
  <2>12. QED
    BY <2>1, <2>2, <2>3, <2>4, <2>5, <2>6, <2>7, <2>8, <2>9, <2>10, <2>11 DEF LeaseNext
<1>3. QED
  BY <1>1, <1>2, PTL DEF LeaseSpec

-----------------------------------------------------------------------------
(* Who holds the lease                                                     *)

(* The first two parts of the invariant are kept by every step.            *)
LEMMA HoldersPreserved ==
    ASSUME LeaseTypeOK, LeaseTypeOK', CurrentOrDead, BeatsCovered, [LeaseNext]_leaseVars
    PROVE  CurrentOrDead' /\ BeatsCovered'
<1> USE RunLeaseAssumption DEF LeaseTypeOK
<1>1. CASE Tick
  <2>1. \A left \in 0..Ttl : /\ Sooner(left) <= left
                             /\ left > 0 => Sooner(left) = left - 1
                             /\ ~(left > 0) => Sooner(left) = left
    BY DEF Sooner
  <2>2. lease # NoLease => lease \in Leases
    OBVIOUS
  <2>3. lease # NoLease => lease' = [lease EXCEPT !.left = Sooner(lease.left)]
    BY <1>1 DEF Tick
  <2>4. lease = NoLease => lease' = NoLease
    BY <1>1 DEF Tick
  <2>5. ASSUME NEW r \in Runs
        PROVE  /\ held[r] = NoLease => held'[r] = NoLease
               /\ held[r] # NoLease => held'[r] = [held[r] EXCEPT !.left = Sooner(held[r].left)]
    BY <1>1 DEF Tick
  <2>6. ASSUME NEW l \in Leases
        PROVE  LET m == [l EXCEPT !.left = Sooner(l.left)]
               IN  /\ m \in Leases
                   /\ m.runId = l.runId /\ m.generation = l.generation
                   /\ m.left = Sooner(l.left)
                   /\ m.left <= l.left
                   /\ m.state = l.state
                   /\ ~RunLeaseIsActive(l) => ~RunLeaseIsActive(m)
    <3>1. l.left \in 0..Ttl
      BY DEF Leases
    <3>2. Sooner(l.left) \in 0..Ttl
      BY <3>1 DEF Sooner
    <3>3. QED
      BY <2>1, <3>1, <3>2 DEF Leases, RunLeaseIsActive
  <2>7. CurrentOrDead'
    <3> SUFFICES ASSUME NEW r \in Runs, held'[r] # NoLease
                 PROVE  /\ lease' # NoLease
                        /\ held'[r].runId = r
                        /\ held'[r].generation <= lease'.generation
                        /\ held'[r].generation = lease'.generation => held'[r] = lease'
                        /\ held'[r].generation < lease'.generation
                           => ~RunLeaseIsActive(held'[r])
      BY DEF CurrentOrDead, RunLeaseIsActive
    <3>1. held[r] # NoLease /\ held[r] \in Leases
      BY <2>5
    <3>2. lease # NoLease /\ lease \in Leases
      BY <3>1 DEF CurrentOrDead
    <3> DEFINE m == [held[r] EXCEPT !.left = Sooner(held[r].left)]
               n == [lease EXCEPT !.left = Sooner(lease.left)]
    <3>3. held'[r] = m /\ lease' = n
      BY <2>3, <2>5, <3>1, <3>2
    <3>4. /\ m.runId = held[r].runId /\ m.generation = held[r].generation
          /\ ~RunLeaseIsActive(held[r]) => ~RunLeaseIsActive(m)
      BY <2>6, <3>1
    <3>5. n \in Leases /\ n.generation = lease.generation
      BY <2>6, <3>2
    <3>6. held[r] = lease => m = n
      OBVIOUS
    <3> HIDE DEF m, n
    <3>7. QED
      BY <3>1, <3>2, <3>3, <3>4, <3>5, <3>6 DEF CurrentOrDead
  <2>8. BeatsCovered'
    <3> SUFFICES ASSUME NEW r \in Runs, heartbeat'[r].left > 0
                 PROVE  held'[r] # NoLease /\ heartbeat'[r].left <= held'[r].left
      BY DEF BeatsCovered
    <3>1. heartbeat[r] # NoBeat
      BY <1>1 DEF Tick, NoBeat
    <3>2. heartbeat'[r].left = Sooner(heartbeat[r].left)
      BY <1>1, <3>1 DEF Tick
    <3>3. heartbeat[r].left \in 0..Ttl
      BY <3>1 DEF Beats
    <3>4. heartbeat[r].left > 0 /\ heartbeat'[r].left = heartbeat[r].left - 1
      BY <2>1, <3>2, <3>3
    <3>5. held[r] # NoLease /\ heartbeat[r].left <= held[r].left
      BY <3>4 DEF BeatsCovered
    <3>6. held[r] \in Leases
      BY <3>5
    <3>7. held[r].left \in 0..Ttl
      BY <3>6 DEF Leases
    <3>8. held[r].left > 0
      BY <3>3, <3>4, <3>5, <3>7
    <3>9. held'[r] \in Leases /\ held'[r].left = held[r].left - 1
      BY <2>1, <2>5, <2>6, <3>5, <3>6, <3>7, <3>8
    <3>10. QED
      BY <3>3, <3>4, <3>5, <3>7, <3>9
  <2>9. QED
    BY <2>7, <2>8
<1>2. ASSUME NEW r \in Runs, TakeLease(r), heartbeat' = heartbeat
      PROVE  CurrentOrDead' /\ BeatsCovered'
  <2>1. lease' = AcquireRunLease(r) /\ lease' \in Leases
    BY <1>2, AcquiredIsLease DEF TakeLease
  <2>2. lease'.runId = r /\ lease'.left = Ttl
    BY <2>1 DEF AcquireRunLease
  <2>3. lease # NoLease => lease'.generation = lease.generation + 1
    BY <2>1 DEF AcquireRunLease
  <2>4. held' = [held EXCEPT ![r] = lease']
    BY <1>2 DEF TakeLease
  <2>5. ASSUME NEW s \in Runs, s # r, held[s] # NoLease
        PROVE  /\ held'[s] = held[s]
               /\ held[s].generation < lease'.generation
               /\ ~RunLeaseIsActive(held[s])
    <3>1. held'[s] = held[s]
      BY <2>4, <2>5
    <3>2. lease # NoLease /\ lease \in Leases
      BY <2>5 DEF CurrentOrDead
    <3>3. held[s] \in Leases /\ held[s].generation <= lease.generation
      BY <2>5 DEF CurrentOrDead
    <3>4. held[s].generation < lease'.generation
      BY <2>3, <3>2, <3>3 DEF Leases
    <3>5. ~RunLeaseIsActive(lease)
      BY <1>2, <3>2 DEF TakeLease, LeaseIsFree
    <3>6. ~RunLeaseIsActive(held[s])
      <4>1. CASE held[s].generation = lease.generation
        BY <2>5, <3>5, <4>1 DEF CurrentOrDead, RunLeaseIsActive
      <4>2. CASE held[s].generation # lease.generation
        <5>1. held[s].generation \in Nat /\ lease.generation \in Nat
          BY <3>2, <3>3 DEF Leases
        <5>2. held[s].generation < lease.generation
          BY <3>3, <4>2, <5>1
        <5>3. QED
          BY <2>5, <5>2 DEF CurrentOrDead
      <4>3. QED
        BY <4>1, <4>2
    <3>7. QED
      BY <3>1, <3>4, <3>6
  <2>6. CurrentOrDead'
    <3> SUFFICES ASSUME NEW s \in Runs, held'[s] # NoLease
                 PROVE  /\ lease' # NoLease
                        /\ held'[s].runId = s
                        /\ held'[s].generation <= lease'.generation
                        /\ held'[s].generation = lease'.generation => held'[s] = lease'
                        /\ held'[s].generation < lease'.generation
                           => ~RunLeaseIsActive(held'[s])
      BY DEF CurrentOrDead, RunLeaseIsActive
    <3>1. CASE s = r
      <4>1. held'[s] = lease'
        BY <2>4, <3>1
      <4>2. lease'.generation \in Nat
        BY <2>1 DEF Leases
      <4>3. QED
        BY <2>1, <2>2, <3>1, <4>1, <4>2
    <3>2. CASE s # r
      <4>1. held[s] # NoLease /\ held'[s] = held[s]
        BY <2>4, <3>2
      <4>2. held[s].runId = s
        BY <4>1 DEF CurrentOrDead
      <4>3. held[s].generation \in Nat /\ lease'.generation \in Nat
        BY <2>1, <4>1 DEF Leases
      <4>4. QED
        BY <2>1, <2>5, <3>2, <4>1, <4>2, <4>3
    <3>3. QED
      BY <3>1, <3>2
  <2>7. BeatsCovered'
    <3> SUFFICES ASSUME NEW s \in Runs, heartbeat[s].left > 0
                 PROVE  held'[s] # NoLease /\ heartbeat[s].left <= held'[s].left
      BY <1>2 DEF BeatsCovered
    <3>1. CASE s = r
      <4>1. heartbeat[s] # NoBeat
        BY DEF NoBeat
      <4>2. heartbeat[s].left \in 0..Ttl
        BY <4>1 DEF Beats
      <4>3. QED
        BY <2>1, <2>2, <2>4, <3>1, <4>2
    <3>2. CASE s # r
      BY <2>4, <3>2 DEF BeatsCovered
    <3>3. QED
      BY <3>1, <3>2
  <2>8. QED
    BY <2>6, <2>7
<1>3. ASSUME NEW r \in Runs, OwnsLease(r), heartbeat' = heartbeat,
             lease' \in Leases, held' = [held EXCEPT ![r] = lease'],
             lease'.runId = lease.runId, lease'.generation = lease.generation,
             lease'.left >= lease.left
      PROVE  CurrentOrDead' /\ BeatsCovered'
  <2>1. /\ held[r] \in Leases /\ lease \in Leases /\ held[r] = lease
        /\ lease.runId = r
    BY <1>3 DEF OwnsLease, CurrentOrDead
  <2>2. ASSUME NEW s \in Runs, s # r, held[s] # NoLease
        PROVE  held[s].generation < lease.generation
    <3>1. held[s].runId = s /\ held[s].generation <= lease.generation
      BY <2>2 DEF CurrentOrDead
    <3>2. held[s].generation # lease.generation
      BY <2>1, <2>2, <3>1 DEF CurrentOrDead
    <3>3. held[s].generation \in Nat /\ lease.generation \in Nat
      BY <2>1, <2>2 DEF Leases
    <3>4. QED
      BY <3>1, <3>2, <3>3
  <2>3. CurrentOrDead'
    <3> SUFFICES ASSUME NEW s \in Runs, held'[s] # NoLease
                 PROVE  /\ lease' # NoLease
                        /\ held'[s].runId = s
                        /\ held'[s].generation <= lease'.generation
                        /\ held'[s].generation = lease'.generation => held'[s] = lease'
                        /\ held'[s].generation < lease'.generation
                           => ~RunLeaseIsActive(held'[s])
      BY DEF CurrentOrDead, RunLeaseIsActive
    <3>1. CASE s = r
      <4>1. held'[s] = lease'
        BY <1>3, <3>1
      <4>2. lease'.generation \in Nat
        BY <1>3 DEF Leases
      <4>3. QED
        BY <1>3, <2>1, <3>1, <4>1, <4>2
    <3>2. CASE s # r
      <4>1. held[s] # NoLease /\ held'[s] = held[s]
        BY <1>3, <3>2
      <4>2. /\ held[s].runId = s
            /\ held[s].generation < lease.generation
            /\ ~RunLeaseIsActive(held[s])
        BY <2>2, <3>2, <4>1 DEF CurrentOrDead
      <4>3. held[s].generation \in Nat /\ lease.generation \in Nat
        BY <2>1, <4>1 DEF Leases
      <4>4. QED
        BY <1>3, <4>1, <4>2, <4>3
    <3>3. QED
      BY <3>1, <3>2
  <2>4. BeatsCovered'
    <3> SUFFICES ASSUME NEW s \in Runs, heartbeat[s].left > 0
                 PROVE  held'[s] # NoLease /\ heartbeat[s].left <= held'[s].left
      BY <1>3 DEF BeatsCovered
    <3>1. held[s] # NoLease /\ heartbeat[s].left <= held[s].left
      BY DEF BeatsCovered
    <3>2. CASE s = r
      <4>1. heartbeat[s] # NoBeat
        BY DEF NoBeat
      <4>2. heartbeat[s].left \in 0..Ttl
        BY <4>1 DEF Beats
      <4>3. lease.left \in 0..Ttl /\ lease'.left \in 0..Ttl
        BY <1>3, <2>1 DEF Leases
      <4>4. QED
        BY <1>3, <2>1, <3>1, <3>2, <4>2, <4>3
    <3>3. CASE s # r
      BY <1>3, <3>1, <3>3
    <3>4. QED
      BY <3>2, <3>3
  <2>5. QED
    BY <2>3, <2>4
<1>4. ASSUME NEW r \in Runs, RenewRunLease(r) PROVE CurrentOrDead' /\ BeatsCovered'
  <2>1. lease \in Leases /\ lease' = [lease EXCEPT !.left = Ttl]
    BY <1>4 DEF RenewRunLease, OwnsLease
  <2>2. /\ lease' \in Leases /\ lease'.runId = lease.runId
        /\ lease'.generation = lease.generation /\ lease'.left >= lease.left
    BY <2>1 DEF Leases
  <2>3. QED
    BY <1>3, <1>4, <2>2 DEF RenewRunLease
<1>5. ASSUME NEW r \in Runs, FinishRun(r) \/ AbandonRun(r) PROVE CurrentOrDead' /\ BeatsCovered'
  <2>1. ReleaseRunLease(r) /\ heartbeat' = heartbeat
    BY <1>5 DEF FinishRun, AbandonRun
  <2>2. lease \in Leases /\ lease' = [lease EXCEPT !.state = "RELEASED"]
    BY <2>1 DEF ReleaseRunLease, OwnsLease
  <2>3. /\ lease' \in Leases /\ lease'.runId = lease.runId
        /\ lease'.generation = lease.generation /\ lease'.left >= lease.left
    BY <2>2 DEF Leases
  <2>4. QED
    BY <1>3, <2>1, <2>3 DEF ReleaseRunLease
<1>6. ASSUME NEW r \in Runs, RecordHeartbeat(r) PROVE CurrentOrDead' /\ BeatsCovered'
  <2>1. UNCHANGED <<lease, held>>
    BY <1>6 DEF RecordHeartbeat
  <2>2. held[r] # NoLease /\ heartbeat'[r].left = held[r].left
    BY <1>6 DEF RecordHeartbeat
  <2>3. held[r].left \in 0..Ttl
    BY <2>2 DEF Leases
  <2>4. ASSUME NEW s \in Runs, s # r PROVE heartbeat'[s] = heartbeat[s]
    BY <1>6, <2>4 DEF RecordHeartbeat
  <2>5. CurrentOrDead'
    BY <2>1 DEF CurrentOrDead, RunLeaseIsActive
  <2>6. BeatsCovered'
    BY <2>1, <2>2, <2>3, <2>4 DEF BeatsCovered
  <2>7. QED
    BY <2>5, <2>6
<1>7. CASE UNCHANGED <<lease, held, heartbeat>>
  BY <1>7 DEF CurrentOrDead, BeatsCovered, RunLeaseIsActive
<1>8. CASE ReconcileStuckRun \/ UNCHANGED leaseVars
  BY <1>7, <1>8 DEF ReconcileStuckRun, leaseVars
<1>9. ASSUME NEW r \in Runs, StartRun(r) \/ RecoverRun(r) PROVE CurrentOrDead' /\ BeatsCovered'
  BY <1>2, <1>9 DEF StartRun, RecoverRun
<1>10. ASSUME NEW r \in Runs, BeginEffect(r) \/ ApplyEffect(r) \/ CrashRun(r)
       PROVE  CurrentOrDead' /\ BeatsCovered'
  BY <1>7, <1>10 DEF BeginEffect, ApplyEffect, CrashRun
<1>11. QED
  BY <1>1, <1>4, <1>5, <1>6, <1>8, <1>9, <1>10 DEF LeaseNext

HolderInv == LeaseTypeOK /\ CurrentOrDead /\ BeatsCovered

(* Always: every lease that was given out is the stored one or dead, and   *)
(* no heartbeat promises more than its run's copy of the lease holds.      *)
THEOREM HoldersCorrect == LeaseSpec => []HolderInv
<1>1. LeaseInit => HolderInv
  <2> SUFFICES ASSUME LeaseInit PROVE HolderInv
    OBVIOUS
  <2>1. LeaseTypeOK
    BY RunLeaseAssumption DEF LeaseInit, LeaseTypeOK, Works, Checkpoints
  <2>2. CurrentOrDead
    BY DEF LeaseInit, CurrentOrDead
  <2>3. BeatsCovered
    BY DEF LeaseInit, BeatsCovered, NoBeat
  <2>4. QED
    BY <2>1, <2>2, <2>3 DEF HolderInv
<1>2. LeaseTypeOK /\ LeaseTypeOK' /\ HolderInv /\ [LeaseNext]_leaseVars => HolderInv'
  BY HoldersPreserved DEF HolderInv
<1>3. QED
  BY <1>1, <1>2, LeaseTypeCorrect, PTL DEF LeaseSpec

(* A run whose copy of the lease is live has the stored lease.             *)
LEMMA LiveIsCurrent ==
    ASSUME HolderInv, NEW r \in Runs, Live(r)
    PROVE  /\ lease \in Leases
           /\ held[r] = lease
           /\ lease.runId = r
<1>1. held[r] \in Leases /\ lease \in Leases
  BY DEF HolderInv, LeaseTypeOK, CurrentOrDead, Live
<1>2. held[r].generation \in Nat /\ lease.generation \in Nat
  BY <1>1 DEF Leases
<1>3. ~(held[r].generation < lease.generation)
  BY DEF HolderInv, CurrentOrDead, Live
<1>4. held[r].generation = lease.generation
  BY <1>2, <1>3 DEF HolderInv, CurrentOrDead, Live
<1>5. QED
  BY <1>1, <1>4 DEF HolderInv, CurrentOrDead, Live

(* At most one run believes that it holds an unexpired lease, for any      *)
(* number of runs, any lease ids and any ttl.                              *)
THEOREM OneLiveHolderHolds == LeaseSpec => []OneLiveHolder
<1>1. HolderInv => OneLiveHolder
  <2> SUFFICES ASSUME HolderInv, NEW r \in Runs, NEW s \in Runs, Live(r), Live(s)
               PROVE  r = s
    BY DEF OneLiveHolder
  <2>1. lease.runId = r
    BY LiveIsCurrent
  <2>2. lease.runId = s
    BY LiveIsCurrent
  <2>3. QED
    BY <2>1, <2>2
<1>2. QED
  BY <1>1, HoldersCorrect, PTL

(* What a step can do to the stored record.                                *)
LEMMA RecordMoves ==
    ASSUME LeaseTypeOK, [LeaseNext]_leaseVars
    PROVE  \/ lease' = lease
           \/ \E r \in Runs : LeaseIsFree /\ lease' = AcquireRunLease(r)
           \/ /\ lease \in Leases
              /\ \/ \E left \in 0..Ttl : /\ lease' = [lease EXCEPT !.left = left]
                                         /\ lease.left = 0 => left = 0
                 \/ /\ RunLeaseIsActive(lease)
                    /\ lease' = [lease EXCEPT !.left = Ttl]
                 \/ /\ lease.state = "ACTIVE"
                    /\ lease' = [lease EXCEPT !.state = "RELEASED"]
<1>1. lease # NoLease => lease \in Leases
  BY DEF LeaseTypeOK
<1>2. ASSUME Tick, lease # NoLease
      PROVE  \E left \in 0..Ttl : /\ lease' = [lease EXCEPT !.left = left]
                                  /\ lease.left = 0 => left = 0
  <2>1. lease' = [lease EXCEPT !.left = Sooner(lease.left)]
    BY <1>2 DEF Tick
  <2>2. /\ Sooner(lease.left) \in 0..Ttl
        /\ lease.left = 0 => Sooner(lease.left) = 0
    BY <1>1, <1>2, RunLeaseAssumption DEF Leases, Sooner
  <2>3. QED
    BY <2>1, <2>2
<1>3. ASSUME Tick, lease = NoLease PROVE lease' = lease
  BY <1>3 DEF Tick
<1>4. ASSUME NEW r \in Runs, StartRun(r) \/ RecoverRun(r)
      PROVE  LeaseIsFree /\ lease' = AcquireRunLease(r)
  BY <1>4 DEF StartRun, RecoverRun, TakeLease
<1>5. ASSUME NEW r \in Runs, RenewRunLease(r)
      PROVE  /\ lease # NoLease /\ RunLeaseIsActive(lease)
             /\ lease' = [lease EXCEPT !.left = Ttl]
  BY <1>5 DEF RenewRunLease, OwnsLease
<1>6. ASSUME NEW r \in Runs, FinishRun(r) \/ AbandonRun(r)
      PROVE  /\ lease # NoLease /\ lease.state = "ACTIVE"
             /\ lease' = [lease EXCEPT !.state = "RELEASED"]
  BY <1>6 DEF FinishRun, AbandonRun, ReleaseRunLease, OwnsLease
<1>7. ASSUME \/ ReconcileStuckRun
             \/ \E r \in Runs : \/ RecordHeartbeat(r) \/ BeginEffect(r) \/ ApplyEffect(r)
                                \/ CrashRun(r)
             \/ UNCHANGED leaseVars
      PROVE  lease' = lease
  BY <1>7 DEF ReconcileStuckRun, RecordHeartbeat, BeginEffect, ApplyEffect, CrashRun, leaseVars
<1>8. QED
  BY <1>1, <1>2, <1>3, <1>4, <1>5, <1>6, <1>7 DEF LeaseNext

(* The runs that believe they may act are those that may.                  *)
OnlyHolderActs == {r \in Runs : Live(r)} \subseteq Fence!MayAct

(* Only the holder of the stored record acts, and only while it is live.   *)
LEMMA HolderActs == HolderInv => OnlyHolderActs
<1> SUFFICES ASSUME HolderInv, NEW r \in Runs, Live(r) PROVE r \in Fence!MayAct
  BY DEF OnlyHolderActs
<1>1. lease \in Leases /\ held[r] = lease /\ lease.runId = r
  BY LiveIsCurrent
<1>2. lease # NoLease /\ lease.state = "ACTIVE" /\ lease.left > 0
  BY <1>1, RunLeaseAssumption DEF Live, RunLeaseIsActive
<1>3. Standing = "LIVE"
  BY <1>2 DEF Standing
<1>4. QED
  BY <1>1, <1>2, <1>3 DEF Fence!MayAct

(* The lease record and the copies that the runs keep of it, which they    *)
(* never compare again before they act, implement a lease with a fencing   *)
(* number.                                                                 *)
THEOREM LeaseIsFencedHolds == LeaseSpec => LeaseIsFenced
<1>1. LeaseInit => Fence!Init
  BY DEF LeaseInit, Fence!Init, Standing, Live
<1>2. ASSUME HolderInv, LeaseTypeOK', OnlyHolderActs', [LeaseNext]_leaseVars
      PROVE  [Fence!Next]_Fence!vars
  <2> DEFINE Holder == IF lease = NoLease THEN NoLease ELSE lease.runId
             Term == IF lease = NoLease THEN 0 ELSE lease.generation
  <2>a. {r \in Runs : Live(r)}' \subseteq Fence!MayAct'
    BY <1>2 DEF OnlyHolderActs
  <2>b. lease \in Leases \cup {NoLease} /\ NoLease \notin Leases /\ Ttl \in Nat \ {0}
    BY <1>2, RunLeaseAssumption DEF HolderInv, LeaseTypeOK
  <2>1. CASE lease' = lease
    <3>1. UNCHANGED <<Holder, Term, Standing>>
      BY <2>1 DEF Standing
    <3>2. QED
      BY <2>a, <3>1 DEF Fence!Next
  <2>2. ASSUME NEW r \in Runs, LeaseIsFree, lease' = AcquireRunLease(r)
        PROVE  Fence!Grant(r)
    <3>1. Standing # "LIVE"
      <4>1. CASE lease = NoLease
        BY <4>1 DEF Standing
      <4>2. CASE lease # NoLease
        <5>1. lease.state = "RELEASED" \/ ~(lease.left > 0)
          BY <2>2, <2>b, <4>2 DEF LeaseIsFree, RunLeaseIsActive, Leases
        <5>2. QED
          BY <4>2, <5>1 DEF Standing
      <4>3. QED
        BY <4>1, <4>2
    <3>2. lease' \in Leases
      BY <1>2, <2>2, AcquiredIsLease DEF HolderInv
    <3>3. lease'.runId = r /\ lease'.generation = Term + 1 /\ lease'.state = "ACTIVE"
      BY <2>2 DEF AcquireRunLease
    <3>4. Standing' \in {"LIVE", "LAPSED"} /\ Holder' = r /\ Term' = Term + 1
      BY <3>2, <3>3, <2>b DEF Standing
    <3>5. QED
      BY <3>1, <3>4 DEF Fence!Grant
  <2>3. ASSUME lease \in Leases, NEW left \in 0..Ttl, lease' = [lease EXCEPT !.left = left],
               lease.state = "RELEASED" \/ lease.state = "ACTIVE"
        PROVE  Fence!LapseOrExtend \/ UNCHANGED <<Holder, Term, Standing>>
    <3>1. lease' \in Leases
      BY <2>3 DEF Leases
    <3>2. /\ lease'.runId = lease.runId /\ lease'.generation = lease.generation
          /\ lease'.state = lease.state
      BY <2>3 DEF Leases
    <3>3. Holder' = Holder /\ Term' = Term
      BY <2>3, <3>1, <3>2, <2>b
    <3>4. CASE lease.state = "RELEASED"
      BY <3>1, <3>2, <3>3, <3>4, <2>b DEF Standing
    <3>5. CASE lease.state = "ACTIVE"
      <4>1. Standing # "OVER" /\ Standing' \in {"LIVE", "LAPSED"}
        BY <2>3, <3>1, <3>2, <3>5, <2>b DEF Standing
      <4>2. QED
        BY <3>3, <4>1 DEF Fence!LapseOrExtend
    <3>6. QED
      BY <2>3, <3>4, <3>5
  <2>4. ASSUME lease \in Leases, lease.state = "ACTIVE",
               lease' = [lease EXCEPT !.state = "RELEASED"]
        PROVE  Fence!GiveUp
    <3>1. /\ lease' \in Leases /\ lease'.state = "RELEASED"
          /\ lease'.runId = lease.runId /\ lease'.generation = lease.generation
      BY <2>4 DEF Leases
    <3>2. Standing # "OVER" /\ Standing' = "OVER" /\ Holder' = Holder /\ Term' = Term
      BY <2>4, <3>1, <2>b DEF Standing
    <3>3. QED
      BY <3>2 DEF Fence!GiveUp
  <2>5. lease \in Leases => lease.state = "RELEASED" \/ lease.state = "ACTIVE"
    BY DEF Leases
  <2>6. Ttl \in 0..Ttl
    BY <2>b
  <2>7. \/ lease' = lease
        \/ \E r \in Runs : Fence!Grant(r)
        \/ Fence!LapseOrExtend \/ UNCHANGED <<Holder, Term, Standing>>
        \/ Fence!GiveUp
    <3>1. LeaseTypeOK
      BY <1>2 DEF HolderInv
    <3>2. \/ lease' = lease
          \/ \E r \in Runs : LeaseIsFree /\ lease' = AcquireRunLease(r)
          \/ /\ lease \in Leases
             /\ \/ \E left \in 0..Ttl : /\ lease' = [lease EXCEPT !.left = left]
                                        /\ lease.left = 0 => left = 0
                \/ /\ RunLeaseIsActive(lease)
                   /\ lease' = [lease EXCEPT !.left = Ttl]
                \/ /\ lease.state = "ACTIVE"
                   /\ lease' = [lease EXCEPT !.state = "RELEASED"]
      BY <1>2, <3>1, RecordMoves
    <3>3. CASE \E r \in Runs : LeaseIsFree /\ lease' = AcquireRunLease(r)
      BY <2>2, <3>3
    <3>4. ASSUME lease \in Leases, NEW left \in 0..Ttl, lease' = [lease EXCEPT !.left = left]
          PROVE  Fence!LapseOrExtend \/ UNCHANGED <<Holder, Term, Standing>>
      BY <2>3, <2>5, <3>4
    <3>5. CASE /\ lease \in Leases
               /\ \/ \E left \in 0..Ttl : /\ lease' = [lease EXCEPT !.left = left]
                                          /\ lease.left = 0 => left = 0
                  \/ lease' = [lease EXCEPT !.left = Ttl]
      <4>1. PICK left \in 0..Ttl : lease' = [lease EXCEPT !.left = left]
        BY <2>6, <3>5
      <4>2. QED
        BY <3>4, <3>5, <4>1
    <3>6. CASE /\ lease \in Leases /\ lease.state = "ACTIVE"
               /\ lease' = [lease EXCEPT !.state = "RELEASED"]
      BY <2>4, <3>6
    <3>7. QED
      BY <3>2, <3>3, <3>5, <3>6, Zenon
  <2>8. (\/ \E r \in Runs : Fence!Grant(r)
         \/ Fence!LapseOrExtend \/ UNCHANGED <<Holder, Term, Standing>>
         \/ Fence!GiveUp) => Fence!Next
    BY <2>a DEF Fence!Next
  <2>9. QED
    BY <2>1, <2>7, <2>8
<1>3. HolderInv /\ LeaseTypeOK' /\ OnlyHolderActs' /\ [LeaseNext]_leaseVars
      => [Fence!Next]_Fence!vars
  BY <1>2
<1>4. QED
  BY <1>1, <1>3, HoldersCorrect, LeaseTypeCorrect, HolderActs, PTL
     DEF LeaseSpec, LeaseIsFenced, Fence!Spec

(* A run that is classified as progressing holds the lease, or released it *)
(* itself, however old the observation of the lease is.                    *)
THEOREM ProgressingIsHolderHolds == LeaseSpec => []ProgressingIsHolder
<1>1. HolderInv => ProgressingIsHolder
  <2> SUFFICES ASSUME HolderInv, NEW r \in Runs,
                      ClassifyRuntimeActivityLiveness("ACTIVE", r) = "ACTIVE_PROGRESSING"
               PROVE  \/ Live(r) /\ lease = held[r]
                      \/ held[r].state = "RELEASED"
    BY DEF ProgressingIsHolder
  <2>1. heartbeat[r] # NoBeat /\ ~(heartbeat[r].left <= 0)
    BY DEF ClassifyRuntimeActivityLiveness
  <2>2. heartbeat[r].left \in 0..Ttl
    BY <2>1 DEF HolderInv, LeaseTypeOK, Beats
  <2>3. heartbeat[r].left > 0
    BY <2>1, <2>2
  <2>4. held[r] # NoLease /\ heartbeat[r].left <= held[r].left
    BY <2>3 DEF HolderInv, BeatsCovered
  <2>5. held[r] \in Leases
    BY <2>4 DEF HolderInv, LeaseTypeOK
  <2>6. held[r].left > 0 /\ held[r].state \in {"ACTIVE", "RELEASED"}
    BY <2>2, <2>3, <2>4, <2>5 DEF Leases
  <2>7. CASE held[r].state = "ACTIVE"
    BY <2>4, <2>6, <2>7, LiveIsCurrent DEF Live, RunLeaseIsActive
  <2>8. QED
    BY <2>6, <2>7
<1>2. QED
  BY <1>1, HoldersCorrect, PTL

-----------------------------------------------------------------------------
(* How often the effect is applied                                         *)

Taking == \E r \in Runs : StartRun(r) \/ RecoverRun(r)

(* A run that was overtaken stays so, and only a run that takes the lease  *)
(* overtakes another one.                                                  *)
LEMMA OvertakenStays ==
    ASSUME HolderInv, LeaseTypeOK', [LeaseNext]_leaseVars,
           NEW s \in Runs, held[s] # NoLease, work[s] # "waiting"
    PROVE  /\ held'[s] # NoLease
           /\ Overtaken(s) => Overtaken(s)'
           /\ ~Taking /\ ~Overtaken(s) => ~Overtaken(s)'
<1> USE RunLeaseAssumption
<1>1. /\ held[s] \in Leases /\ lease \in Leases
      /\ held[s].generation \in Nat /\ lease.generation \in Nat
  BY DEF HolderInv, CurrentOrDead, LeaseTypeOK, Leases
<1>2. ASSUME NEW r \in Runs, TakeLease(r), work[r] = "waiting"
      PROVE  held'[s] # NoLease /\ (Overtaken(s) => Overtaken(s)')
  <2>1. lease'.generation = lease.generation + 1
    BY <1>1, <1>2 DEF TakeLease, AcquireRunLease
  <2>2. held'[s] = held[s]
    BY <1>2 DEF TakeLease, HolderInv, LeaseTypeOK
  <2>3. QED
    BY <1>1, <2>1, <2>2 DEF Overtaken
<1>3. ASSUME NEW r \in Runs, StartRun(r) \/ RecoverRun(r)
      PROVE  held'[s] # NoLease /\ (Overtaken(s) => Overtaken(s)') /\ Taking
  <2>1. TakeLease(r) /\ work[r] = "waiting"
    BY <1>3 DEF StartRun, RecoverRun
  <2>2. QED
    BY <1>2, <1>3, <2>1 DEF Taking
<1>4. ASSUME lease'.generation = lease.generation, held'[s] # NoLease,
             held'[s].generation = held[s].generation
      PROVE  held'[s] # NoLease /\ (Overtaken(s) <=> Overtaken(s)')
  BY <1>4 DEF Overtaken
<1>5. CASE Tick
  <2>1. lease' = [lease EXCEPT !.left = Sooner(lease.left)]
    BY <1>1, <1>5 DEF Tick
  <2>2. held'[s] = [held[s] EXCEPT !.left = Sooner(held[s].left)]
    BY <1>5 DEF Tick
  <2>3. Sooner(lease.left) \in 0..Ttl /\ Sooner(held[s].left) \in 0..Ttl
    BY <1>1 DEF Sooner, Leases
  <2>4. lease'.generation = lease.generation
    BY <1>1, <2>1 DEF Leases
  <2>5. held'[s].generation = held[s].generation
    BY <1>1, <2>2 DEF Leases
  <2>6. held'[s] \in Leases
    BY <1>1, <2>2, <2>3 DEF Leases
  <2>7. QED
    BY <1>4, <2>4, <2>5, <2>6
<1>6. ASSUME NEW r \in Runs, OwnsLease(r), held' = [held EXCEPT ![r] = lease'],
             lease' # NoLease, lease'.generation = lease.generation
      PROVE  held'[s] # NoLease /\ (Overtaken(s) <=> Overtaken(s)')
  <2>1. CASE s = r
    <3>1. held'[s] = lease' /\ lease.generation = held[s].generation
      BY <1>6, <2>1 DEF OwnsLease, HolderInv, LeaseTypeOK
    <3>2. QED
      BY <1>4, <1>6, <3>1
  <2>2. CASE s # r
    <3>1. held'[s] = held[s]
      BY <1>6, <2>2 DEF HolderInv, LeaseTypeOK
    <3>2. QED
      BY <1>4, <1>6, <3>1
  <2>3. QED
    BY <2>1, <2>2
<1>7. ASSUME NEW r \in Runs, RenewRunLease(r)
      PROVE  held'[s] # NoLease /\ (Overtaken(s) <=> Overtaken(s)')
  <2>1. lease' = [lease EXCEPT !.left = Ttl]
    BY <1>7 DEF RenewRunLease
  <2>2. lease' \in Leases /\ lease'.generation = lease.generation
    BY <1>1, <2>1 DEF Leases
  <2>3. QED
    BY <1>6, <1>7, <2>2 DEF RenewRunLease
<1>8. ASSUME NEW r \in Runs, FinishRun(r) \/ AbandonRun(r)
      PROVE  held'[s] # NoLease /\ (Overtaken(s) <=> Overtaken(s)')
  <2>1. ReleaseRunLease(r)
    BY <1>8 DEF FinishRun, AbandonRun
  <2>2. lease' = [lease EXCEPT !.state = "RELEASED"]
    BY <2>1 DEF ReleaseRunLease
  <2>3. lease' \in Leases /\ lease'.generation = lease.generation
    BY <1>1, <2>2 DEF Leases
  <2>4. QED
    BY <1>6, <2>1, <2>3 DEF ReleaseRunLease
<1>9. ASSUME UNCHANGED <<lease, held>>
      PROVE  held'[s] # NoLease /\ (Overtaken(s) <=> Overtaken(s)')
  BY <1>4, <1>9
<1>10. CASE ReconcileStuckRun \/ UNCHANGED leaseVars
  BY <1>9, <1>10 DEF ReconcileStuckRun, leaseVars
<1>11. ASSUME NEW r \in Runs,
              RecordHeartbeat(r) \/ BeginEffect(r) \/ ApplyEffect(r) \/ CrashRun(r)
       PROVE  held'[s] # NoLease /\ (Overtaken(s) <=> Overtaken(s)')
  BY <1>9, <1>11 DEF RecordHeartbeat, BeginEffect, ApplyEffect, CrashRun
<1>12. QED
  BY <1>3, <1>5, <1>7, <1>8, <1>10, <1>11 DEF LeaseNext

(* A run that was not overtaken has the stored lease, so there is only one.*)
LEMMA NotOvertakenIsOne ==
    ASSUME HolderInv, NEW r \in Runs, NEW s \in Runs,
           held[r] # NoLease, held[s] # NoLease, ~Overtaken(r), ~Overtaken(s)
    PROVE  r = s
<1>1. /\ held[r].generation \in Nat /\ held[s].generation \in Nat
      /\ lease.generation \in Nat
  BY DEF HolderInv, CurrentOrDead, LeaseTypeOK, Leases
<1>2. /\ held[r].generation = lease.generation
      /\ held[s].generation = lease.generation
  BY <1>1 DEF HolderInv, CurrentOrDead, Overtaken
<1>3. held[r] = lease /\ held[s] = lease /\ held[r].runId = r /\ held[s].runId = s
  BY <1>2 DEF HolderInv, CurrentOrDead
<1>4. QED
  BY <1>3

(* A run whose own copy of the lease is active was not overtaken.          *)
LEMMA LiveNotOvertaken ==
    ASSUME HolderInv, NEW r \in Runs, Live(r)
    PROVE  ~Overtaken(r)
<1>1. held[r] = lease /\ lease \in Leases
  BY LiveIsCurrent
<1>2. QED
  BY <1>1 DEF Overtaken, Leases

(* A decided recovery goes on finding the lease free until it is done.     *)
LEMMA RecoveryPreserved ==
    ASSUME HolderInv, LeaseTypeOK', RecoveryFindsLeaseFree, [LeaseNext]_leaseVars
    PROVE  RecoveryFindsLeaseFree'
<1> USE RunLeaseAssumption
<1>1. ASSUME NEW s \in Runs, work'[s] # "waiting" PROVE held'[s] # NoLease
  <2>1. CASE work[s] # "waiting"
    BY <2>1, OvertakenStays DEF RecoveryFindsLeaseFree
  <2>2. CASE work[s] = "waiting"
    <3>1. StartRun(s) \/ RecoverRun(s)
      BY <1>1, <2>2 DEF LeaseNext, leaseVars, Tick, ReconcileStuckRun, StartRun, RecoverRun,
         RenewRunLease, RecordHeartbeat, BeginEffect, ApplyEffect, FinishRun, AbandonRun,
         CrashRun, HolderInv, LeaseTypeOK
    <3>2. TakeLease(s)
      BY <3>1 DEF StartRun, RecoverRun
    <3>3. held'[s] \in Leases
      BY <3>2, AcquiredIsLease DEF TakeLease, HolderInv, LeaseTypeOK
    <3>4. QED
      BY <3>3
  <2>3. QED
    BY <2>1, <2>2
<1>2. ASSUME nextAction' # "NONE"
      PROVE  /\ lease' # NoLease /\ ~RunLeaseIsActive(lease')
             /\ \E r \in Runs : work'[r] # "waiting"
  <2>1. CASE ReconcileStuckRun
    <3>1. PICK r \in Runs : work[r] # "waiting"
      BY <2>1 DEF ReconcileStuckRun, NodeIsRunning
    <3>2. lease # NoLease /\ lease \in Leases
      BY <3>1 DEF RecoveryFindsLeaseFree, HolderInv, CurrentOrDead, LeaseTypeOK
    <3>3. PICK evidenceValid \in BOOLEAN :
             nextAction' = IF RecoveryNextAction(LeaseObservation, evidenceValid) = "HUMAN_REVIEW"
                           THEN "NONE" ELSE RecoveryNextAction(LeaseObservation, evidenceValid)
      BY <2>1 DEF ReconcileStuckRun
    <3>4. RecoveryNextAction(LeaseObservation, evidenceValid) # "HUMAN_REVIEW"
      BY <1>2, <3>3
    <3>5. LeaseObservation \in {"EXPIRED", "RELEASED", "MISSING"}
      BY <3>4 DEF RecoveryNextAction
    <3>6. lease.state = "RELEASED" \/ lease.left = 0
      BY <3>2, <3>5 DEF LeaseObservation
    <3>7. ~RunLeaseIsActive(lease)
      BY <3>2, <3>6 DEF RunLeaseIsActive, Leases
    <3>8. QED
      BY <2>1, <3>1, <3>2, <3>7 DEF ReconcileStuckRun, RunLeaseIsActive
  <2>2. CASE nextAction' = nextAction
    <3>1. lease # NoLease /\ lease \in Leases /\ ~RunLeaseIsActive(lease)
      BY <1>2, <2>2 DEF RecoveryFindsLeaseFree, HolderInv, LeaseTypeOK
    <3>2. PICK s \in Runs : work[s] # "waiting"
      BY <1>2, <2>2 DEF RecoveryFindsLeaseFree
    <3>3. work'[s] # "waiting"
      BY <3>2 DEF LeaseNext, leaseVars, Tick, ReconcileStuckRun, StartRun, RecoverRun,
         RenewRunLease, RecordHeartbeat, BeginEffect, ApplyEffect, FinishRun, AbandonRun,
         CrashRun, HolderInv, LeaseTypeOK
    <3>4. CASE Tick
      <4>1. lease' = [lease EXCEPT !.left = Sooner(lease.left)]
        BY <3>1, <3>4 DEF Tick
      <4>2. lease.left \in 0..Ttl
        BY <3>1 DEF Leases
      <4>3. Sooner(lease.left) \in 0..Ttl /\ (~(lease.left > 0) => ~(Sooner(lease.left) > 0))
        BY <4>2 DEF Sooner
      <4>4. lease' \in Leases /\ lease'.state = lease.state /\ lease'.left = Sooner(lease.left)
        BY <3>1, <4>1, <4>3 DEF Leases
      <4>5. QED
        BY <3>1, <3>2, <3>3, <4>3, <4>4 DEF RunLeaseIsActive
    <3>5. ASSUME NEW r \in Runs, FinishRun(r) \/ AbandonRun(r)
          PROVE  lease' # NoLease /\ ~RunLeaseIsActive(lease')
      <4>1. lease' = [lease EXCEPT !.state = "RELEASED"]
        BY <3>5 DEF FinishRun, AbandonRun, ReleaseRunLease
      <4>2. lease' \in Leases /\ lease'.state = "RELEASED"
        BY <3>1, <4>1 DEF Leases
      <4>3. QED
        BY <4>2 DEF RunLeaseIsActive
    <3>6. ~\E r \in Runs : StartRun(r) \/ RecoverRun(r) \/ RenewRunLease(r)
      BY <1>2, <2>2, <3>1, <3>2 DEF StartRun, RecoverRun, RenewRunLease
    <3>7. CASE lease' = lease
      BY <3>1, <3>2, <3>3, <3>7 DEF RunLeaseIsActive
    <3>8. QED
      BY <3>2, <3>3, <3>4, <3>5, <3>6, <3>7
         DEF LeaseNext, leaseVars, ReconcileStuckRun, RecordHeartbeat, BeginEffect,
             ApplyEffect, CrashRun
  <2>3. QED
    BY <1>2, <2>1, <2>2 DEF LeaseNext, leaseVars, Tick, StartRun, RecoverRun,
       RenewRunLease, RecordHeartbeat, BeginEffect, ApplyEffect, FinishRun, AbandonRun,
       CrashRun
<1>3. QED
  BY <1>1, <1>2 DEF RecoveryFindsLeaseFree, RunLeaseIsActive

(* An activity with checkpoints that is not idempotent.                    *)
LEMMA CheckpointTellsPreserved ==
    ASSUME HolderInv, LeaseTypeOK', RecoveryFindsLeaseFree, CheckpointTells,
           profile.checkpointing, ~profile.idempotent, [LeaseNext]_leaseVars
    PROVE  CheckpointTells'
<1> USE DEF HolderInv, LeaseTypeOK
<1>1. ASSUME NEW s \in Runs, work[s] # "waiting"
      PROVE  /\ held[s] # NoLease
             /\ Overtaken(s) => Overtaken(s)'
             /\ ~Taking /\ ~Overtaken(s) => ~Overtaken(s)'
  BY <1>1, OvertakenStays DEF RecoveryFindsLeaseFree
<1>2. ASSUME UNCHANGED <<work, checkpoint, effects>>, ~Taking,
             nextAction' = nextAction
      PROVE  CheckpointTells'
  BY <1>1, <1>2 DEF CheckpointTells
<1>3. CASE Tick \/ UNCHANGED leaseVars
  BY <1>2, <1>3 DEF Tick, leaseVars, Taking, StartRun, RecoverRun
<1>4. CASE ReconcileStuckRun
  <2>1. ~Taking
    BY <1>4 DEF ReconcileStuckRun, Taking, StartRun, RecoverRun
  <2>2. PICK evidenceValid \in BOOLEAN :
           nextAction' = IF RecoveryNextAction(LeaseObservation, evidenceValid) = "HUMAN_REVIEW"
                         THEN "NONE" ELSE RecoveryNextAction(LeaseObservation, evidenceValid)
    BY <1>4 DEF ReconcileStuckRun
  <2>3. nextAction' # "RERUN_SAFE" /\ (checkpoint = "UNSAFE" => nextAction' = "NONE")
    BY <2>2 DEF RecoveryNextAction
  <2>4. UNCHANGED <<work, checkpoint, effects>>
    BY <1>4 DEF ReconcileStuckRun
  <2>5. QED
    BY <1>1, <2>1, <2>3, <2>4 DEF CheckpointTells
<1>5. ASSUME NEW r \in Runs, StartRun(r) PROVE CheckpointTells'
  <2>1. checkpoint = "MISSING" /\ effects = 0
    BY <1>5 DEF StartRun, CheckpointTells
  <2>2. /\ checkpoint' = "SAFE_BEFORE" /\ effects' = 0
        /\ work' = [work EXCEPT ![r] = "working"]
        /\ nextAction' = nextAction
        /\ \A s \in Runs : work[s] = "waiting"
    BY <1>5, <2>1 DEF StartRun
  <2>3. QED
    BY <2>2 DEF CheckpointTells
<1>6. ASSUME NEW r \in Runs, RecoverRun(r) PROVE CheckpointTells'
  <2>1. nextAction = "RESUME_FROM_CHECKPOINT" /\ work[r] = "waiting"
    BY <1>6 DEF RecoverRun, CheckpointTells
  <2>2. checkpoint \in {"SAFE_BEFORE", "SAFE_AFTER"}
    BY <2>1 DEF CheckpointTells, RecoveryFindsLeaseFree, Checkpoints
  <2>3. UNCHANGED <<checkpoint, effects>> /\ nextAction' = "NONE"
    BY <1>6 DEF RecoverRun
  <2>4. CASE checkpoint = "SAFE_BEFORE"
    <3>1. work' = [work EXCEPT ![r] = "working"]
      BY <1>6, <2>4 DEF RecoverRun
    <3>2. QED
      BY <2>3, <2>4, <3>1 DEF CheckpointTells
  <2>5. CASE checkpoint = "SAFE_AFTER"
    <3>1. work' = [work EXCEPT ![r] = "applied"]
      BY <1>6, <2>1, <2>5 DEF RecoverRun
    <3>2. \A s \in Runs : work'[s] = "working" => Overtaken(s)'
      BY <1>1, <2>5, <3>1 DEF CheckpointTells
    <3>3. QED
      BY <2>3, <2>5, <3>1, <3>2 DEF CheckpointTells
  <2>6. QED
    BY <2>2, <2>4, <2>5
<1>7. ASSUME NEW r \in Runs, RenewRunLease(r) \/ RecordHeartbeat(r) PROVE CheckpointTells'
  <2>1. ~Taking
    BY <1>7 DEF Taking, StartRun, RecoverRun, RenewRunLease, RecordHeartbeat
  <2>2. QED
    BY <1>2, <1>7, <2>1 DEF RenewRunLease, RecordHeartbeat
<1>8. ASSUME NEW r \in Runs, BeginEffect(r) PROVE CheckpointTells'
  <2>1. ~Overtaken(r) /\ held[r] # NoLease
    BY <1>8, LiveNotOvertaken DEF BeginEffect, Live
  <2>2. checkpoint = "SAFE_BEFORE"
    BY <1>8, <2>1 DEF BeginEffect, CheckpointTells, Checkpoints
  <2>3. nextAction = "NONE"
    <3>1. held[r] = lease
      BY <1>8, LiveIsCurrent DEF BeginEffect
    <3>2. RunLeaseIsActive(lease)
      BY <1>8, <3>1 DEF BeginEffect, Live, RunLeaseIsActive
    <3>3. QED
      BY <3>2 DEF RecoveryFindsLeaseFree
  <2>4. /\ work' = [work EXCEPT ![r] = "effect"] /\ checkpoint' = "UNSAFE"
        /\ UNCHANGED <<lease, held, nextAction, effects>>
    BY <1>8 DEF BeginEffect
  <2>5. ASSUME NEW s \in Runs, work'[s] = "working" PROVE Overtaken(s)'
    <3>1. s # r /\ work[s] = "working" /\ held[s] # NoLease
      BY <2>4, <2>5, <1>1
    <3>2. Overtaken(s)
      BY <2>1, <3>1, NotOvertakenIsOne
    <3>3. QED
      BY <2>4, <3>2 DEF Overtaken
  <2>6. ASSUME NEW s \in Runs, work'[s] = "effect" PROVE ~Overtaken(s)'
    <3>1. s = r
      BY <2>2, <2>4, <2>6 DEF CheckpointTells
    <3>2. QED
      BY <2>1, <2>4, <3>1 DEF Overtaken
  <2>7. QED
    BY <2>2, <2>3, <2>4, <2>5, <2>6 DEF CheckpointTells
<1>9. ASSUME NEW r \in Runs, ApplyEffect(r) PROVE CheckpointTells'
  <2>1. checkpoint = "UNSAFE" /\ effects = 0
    BY <1>9 DEF ApplyEffect, CheckpointTells, Checkpoints
  <2>2. /\ work' = [work EXCEPT ![r] = "applied"] /\ checkpoint' = "SAFE_AFTER"
        /\ effects' = 1 /\ UNCHANGED <<lease, held, nextAction>>
    BY <1>9, <2>1 DEF ApplyEffect
  <2>3. ASSUME NEW s \in Runs, work'[s] = "effect" PROVE FALSE
    <3>1. s # r /\ work[s] = "effect" /\ work[r] = "effect"
      BY <1>9, <2>2, <2>3 DEF ApplyEffect
    <3>2. ~Overtaken(s) /\ ~Overtaken(r) /\ held[s] # NoLease /\ held[r] # NoLease
      BY <1>1, <2>1, <3>1 DEF CheckpointTells
    <3>3. QED
      BY <3>1, <3>2, NotOvertakenIsOne
  <2>4. ASSUME NEW s \in Runs, work'[s] = "working" PROVE Overtaken(s)'
    BY <2>1, <2>2, <2>4 DEF CheckpointTells, Overtaken
  <2>5. QED
    BY <2>1, <2>2, <2>3, <2>4 DEF CheckpointTells
<1>10. ASSUME NEW r \in Runs, FinishRun(r) \/ AbandonRun(r) \/ CrashRun(r)
       PROVE  CheckpointTells'
  <2>1. ~Taking
    BY <1>10 DEF Taking, StartRun, RecoverRun, FinishRun, AbandonRun, CrashRun
  <2>2. UNCHANGED <<checkpoint, effects, nextAction>>
    BY <1>10 DEF FinishRun, AbandonRun, CrashRun
  <2>3. PICK next \in {"finished", "stopped"} : work' = [work EXCEPT ![r] = next]
    BY <1>10 DEF FinishRun, AbandonRun, CrashRun
  <2>4. work[r] # "waiting" /\ (checkpoint = "UNSAFE" => next # "finished")
        /\ (checkpoint = "SAFE_BEFORE" => next # "finished")
    BY <1>10, <2>3 DEF FinishRun, AbandonRun, CrashRun, CheckpointTells
  <2>5. QED
    BY <1>1, <2>1, <2>2, <2>3, <2>4 DEF CheckpointTells
<1>11. QED
  BY <1>3, <1>4, <1>5, <1>6, <1>7, <1>8, <1>9, <1>10 DEF LeaseNext

(* An activity without checkpoints that is not idempotent.                 *)
LEMMA TriedOncePreserved ==
    ASSUME HolderInv, LeaseTypeOK', TriedOnce,
           ~profile.checkpointing, ~profile.idempotent, [LeaseNext]_leaseVars
    PROVE  TriedOnce'
<1> USE DEF HolderInv, LeaseTypeOK, TriedOnce
<1>1. CASE Tick \/ UNCHANGED leaseVars
  BY <1>1 DEF Tick, leaseVars
<1>2. CASE ReconcileStuckRun
  <2>1. \A observed, evidenceValid :
           RecoveryNextAction(observed, evidenceValid) = "HUMAN_REVIEW"
    BY DEF RecoveryNextAction
  <2>2. nextAction' = "NONE"
    BY <1>2, <2>1 DEF ReconcileStuckRun
  <2>3. QED
    BY <1>2, <2>2 DEF ReconcileStuckRun
<1>3. ASSUME NEW r \in Runs, StartRun(r) PROVE TriedOnce'
  <2>1. effects = 0
    BY <1>3 DEF StartRun
  <2>2. QED
    BY <1>3, <2>1 DEF StartRun
<1>4. ASSUME NEW r \in Runs, RecoverRun(r) PROVE TriedOnce'
  BY <1>4 DEF RecoverRun
<1>5. ASSUME NEW r \in Runs, RenewRunLease(r) \/ RecordHeartbeat(r) PROVE TriedOnce'
  BY <1>5 DEF RenewRunLease, RecordHeartbeat
<1>6. ASSUME NEW r \in Runs, BeginEffect(r) PROVE TriedOnce'
  <2>1. effects = 0
    BY <1>6 DEF BeginEffect
  <2>2. QED
    BY <1>6, <2>1 DEF BeginEffect
<1>7. ASSUME NEW r \in Runs, ApplyEffect(r) PROVE TriedOnce'
  <2>1. effects = 0 /\ work[r] = "effect" /\ \A s \in Runs : s # r => work[s] = "waiting"
    BY <1>7 DEF ApplyEffect
  <2>2. /\ work' = [work EXCEPT ![r] = "applied"] /\ effects' = 1
        /\ UNCHANGED <<checkpoint, nextAction>>
    BY <1>7, <2>1 DEF ApplyEffect
  <2>3. QED
    BY <2>1, <2>2
<1>8. ASSUME NEW r \in Runs, FinishRun(r) \/ AbandonRun(r) \/ CrashRun(r) PROVE TriedOnce'
  <2>1. UNCHANGED <<checkpoint, effects, nextAction>> /\ work[r] # "waiting"
    BY <1>8 DEF FinishRun, AbandonRun, CrashRun
  <2>2. PICK next \in {"finished", "stopped"} : work' = [work EXCEPT ![r] = next]
    BY <1>8 DEF FinishRun, AbandonRun, CrashRun
  <2>3. QED
    BY <2>1, <2>2
<1>9. QED
  BY <1>1, <1>2, <1>3, <1>4, <1>5, <1>6, <1>7, <1>8 DEF LeaseNext

(* The effect of an activity that is not proven idempotent is applied at   *)
(* most once, for any number of runs that are started, stalled, lose their *)
(* lease or are recovered in turn.                                         *)
THEOREM NoBlindRepeatHolds == LeaseSpec => []NoBlindRepeat
<1>1. LeaseInit => RecoveryFindsLeaseFree /\ Accounted
  <2> SUFFICES ASSUME LeaseInit PROVE RecoveryFindsLeaseFree /\ Accounted
    OBVIOUS
  <2>1. RecoveryFindsLeaseFree
    BY DEF LeaseInit, RecoveryFindsLeaseFree
  <2>2. CheckpointTells /\ TriedOnce
    BY DEF LeaseInit, CheckpointTells, TriedOnce
  <2>3. QED
    BY <2>1, <2>2 DEF Accounted
<1>2. HolderInv /\ LeaseTypeOK' /\ RecoveryFindsLeaseFree /\ Accounted /\ [LeaseNext]_leaseVars
      => RecoveryFindsLeaseFree' /\ Accounted'
  <2> SUFFICES ASSUME HolderInv, LeaseTypeOK', RecoveryFindsLeaseFree, Accounted,
                      [LeaseNext]_leaseVars
               PROVE  RecoveryFindsLeaseFree' /\ Accounted'
    OBVIOUS
  <2>1. RecoveryFindsLeaseFree'
    BY RecoveryPreserved
  <2>2. profile' = profile
    BY DEF LeaseNext, leaseVars, Tick, ReconcileStuckRun, StartRun, RecoverRun,
       RenewRunLease, RecordHeartbeat, BeginEffect, ApplyEffect, FinishRun, AbandonRun,
       CrashRun
  <2>3. CASE profile.idempotent
    BY <2>1, <2>2, <2>3 DEF Accounted
  <2>4. CASE ~profile.idempotent /\ profile.checkpointing
    BY <2>1, <2>2, <2>4, CheckpointTellsPreserved DEF Accounted
  <2>5. CASE ~profile.idempotent /\ ~profile.checkpointing
    BY <2>1, <2>2, <2>5, TriedOncePreserved DEF Accounted
  <2>6. QED
    BY <2>3, <2>4, <2>5
<1>3. LeaseTypeOK /\ Accounted => NoBlindRepeat
  BY DEF LeaseTypeOK, Accounted, CheckpointTells, TriedOnce, NoBlindRepeat, Checkpoints
<1>4. QED
  BY <1>1, <1>2, <1>3, HoldersCorrect, LeaseTypeCorrect, PTL DEF LeaseSpec
-----------------------------------------------------------------------------
(* The workspaces                                                          *)

(* Between the worktree and its metadata an allocation is alone with both: *)
(* whoever finds the worktree there gives up.                              *)
Making(a) == stage[a] \in {"write", "rename"}

Alone == \A a, b \in Allocators :
            Making(a) /\ Making(b) /\ WorkspaceOf(a) = WorkspaceOf(b) => a = b

MakesItsOwn(a) == /\ worktrees[WorkspaceOf(a)] = RevisionOf(a)
                  /\ metadata[WorkspaceOf(a)] = NoDescriptor
                  /\ stage[a] = "rename" => temporary[WorkspaceOf(a)] = DescriptorOf[a]

Named(a) == metadata[WorkspaceOf(a)] = DescriptorOf[a]

NamesItsTree(w) == metadata[w] # NoDescriptor => worktrees[w] \in {metadata[w].revision, Committed}

WorkspaceInv ==
    /\ WorkspaceTypeOK
    /\ Alone
    /\ \A a \in Allocators : Making(a) => MakesItsOwn(a)
    /\ \A a \in Allocators : activation[a] = "STARTABLE" \/ stage[a] = "head" => Named(a)
    /\ \A w \in WorkspaceIds : NamesItsTree(w)

LEMMA DescriptorFacts ==
    ASSUME NEW a \in Allocators
    PROVE  /\ DescriptorOf[a] \in Descriptors
           /\ DescriptorOf[a] # NoDescriptor
           /\ WorkspaceOf(a) \in WorkspaceIds
           /\ RevisionOf(a) \in WorkspaceRevision
           /\ RevisionOf(a) # NoTree
  BY WorkspaceBackendAssumption DEF WorkspaceOf, RevisionOf, WorkspaceIds, WorkspaceRevision

LEMMA WorkspaceInitially == WorkspaceInit => WorkspaceInv
<1> SUFFICES ASSUME WorkspaceInit PROVE WorkspaceInv
  OBVIOUS
<1>1. WorkspaceTypeOK
  BY DEF WorkspaceInit, WorkspaceTypeOK, Stages, ActivationStatuses
<1>2. \A a \in Allocators : stage[a] = "idle" /\ activation[a] = "NONE"
  BY DEF WorkspaceInit
<1>3. \A w \in WorkspaceIds : metadata[w] = NoDescriptor
  BY DEF WorkspaceInit
<1> QED
  BY <1>1, <1>2, <1>3 DEF WorkspaceInv, Alone, Making, NamesItsTree

(* What a step of an allocation may do to the files of its workspace.      *)
FilesKept == UNCHANGED WorkspaceFiles

TreeAdded(a) == /\ worktrees[WorkspaceOf(a)] = NoTree
                /\ worktrees' = [worktrees EXCEPT ![WorkspaceOf(a)] = RevisionOf(a)]
                /\ UNCHANGED <<metadata, temporary>>

TemporaryWritten(a) ==
    /\ stage[a] = "write" /\ temporary[WorkspaceOf(a)] = NoDescriptor
    /\ temporary' = [temporary EXCEPT ![WorkspaceOf(a)] = DescriptorOf[a]]
    /\ UNCHANGED <<worktrees, metadata>>

MetadataRenamed(a) == stage[a] = "rename" /\ Rename(a) /\ UNCHANGED worktrees

(* Where an allocation is after it.                                        *)
Moved(a) ==
    \E next \in Stages, status \in ActivationStatuses :
       /\ stage' = [stage EXCEPT ![a] = next]
       /\ activation' = [activation EXCEPT ![a] = status]
       /\ next = "write" => stage[a] = "add" /\ TreeAdded(a)
       /\ next = "rename" => TemporaryWritten(a)
       /\ next = "head" => Named(a) /\ FilesKept
       /\ status = "STARTABLE" => \/ activation[a] = "STARTABLE"
                                  \/ stage[a] = "head"

AllocatorMoves(a) == /\ Moved(a)
                     /\ \/ FilesKept \/ TreeAdded(a)
                        \/ TemporaryWritten(a) \/ MetadataRenamed(a)

HeadMoves(a) ==
    /\ activation[a] = "STARTABLE"
    /\ \E tip \in {Committed, RevisionOf(a)} :
          worktrees' = [worktrees EXCEPT ![WorkspaceOf(a)] = tip]
    /\ UNCHANGED <<metadata, temporary, stage, activation>>

LEMMA WorkspaceStepMoves ==
    ASSUME WorkspaceTypeOK, WorkspaceNext
    PROVE  \E a \in Allocators : AllocatorMoves(a) \/ HeadMoves(a)
<1>1. PICK a \in Allocators :
         \/ MaterializeWorkspace(a)
         \/ RequirePathMissing(a) \/ RequireMetadataMissing(a)
         \/ AddWorktree(a) \/ WriteTemporary(a) \/ RenameMetadata(a)
         \/ CompareMetadata(a) \/ CompareHead(a)
         \/ AllocationFails(a)
         \/ MoveHead(a)
  BY DEF WorkspaceNext
<1>2. /\ stage \in [Allocators -> Stages]
      /\ activation \in [Allocators -> ActivationStatuses]
  BY DEF WorkspaceTypeOK
<1>3. ASSUME NEW next \in Stages, Await(a, next)
      PROVE  /\ stage' = [stage EXCEPT ![a] = next]
             /\ activation' = [activation EXCEPT ![a] = activation[a]]
             /\ activation[a] \in ActivationStatuses
  BY <1>2, <1>3 DEF Await
<1>4. ASSUME NEW status \in ActivationStatuses, Activated(a, status)
      PROVE  /\ stage' = [stage EXCEPT ![a] = "idle"]
             /\ activation' = [activation EXCEPT ![a] = status]
             /\ "idle" \in Stages
  BY <1>4 DEF Activated, Stages
<1>5. Blocked(a) => Moved(a)
  <2> SUFFICES ASSUME Blocked(a) PROVE Moved(a)
    OBVIOUS
  <2>1. "BLOCKED_WORKSPACE" \in ActivationStatuses /\ "idle" \in Stages
    BY DEF ActivationStatuses, Stages
  <2> QED
    BY <1>4, <2>1 DEF Blocked, Moved
<1>6. ASSUME NEW next \in {"pathMissing", "metadataMissing", "add", "metadata"},
             Await(a, next)
      PROVE  Moved(a)
  <2>1. next \in Stages
    BY DEF Stages
  <2> QED
    BY <1>3, <1>6, <2>1 DEF Moved
<1>7. CASE MaterializeWorkspace(a)
  BY <1>1, <1>6, <1>7 DEF MaterializeWorkspace, AllocatorMoves, FilesKept
<1>8. CASE RequirePathMissing(a)
  BY <1>1, <1>5, <1>6, <1>8 DEF RequirePathMissing, AllocatorMoves, FilesKept
<1>9. CASE RequireMetadataMissing(a)
  BY <1>1, <1>5, <1>6, <1>9 DEF RequireMetadataMissing, AllocatorMoves, FilesKept
<1>10. CASE AddWorktree(a)
  <2>1. CASE worktrees[WorkspaceOf(a)] = NoTree
    <3>1. TreeAdded(a) /\ Await(a, "write") /\ stage[a] = "add" /\ "write" \in Stages
      BY <1>10, <2>1 DEF AddWorktree, TreeAdded, Stages
    <3>2. Moved(a)
      BY <1>3, <3>1 DEF Moved
    <3> QED
      BY <3>1, <3>2 DEF AllocatorMoves
  <2>2. CASE worktrees[WorkspaceOf(a)] # NoTree
    BY <1>5, <1>10, <2>2 DEF AddWorktree, AllocatorMoves, FilesKept, WorkspaceFiles
  <2> QED
    BY <2>1, <2>2
<1>11. CASE WriteTemporary(a)
  <2>1. CASE temporary[WorkspaceOf(a)] = NoDescriptor
    <3>1. TemporaryWritten(a) /\ Await(a, "rename") /\ "rename" \in Stages
      BY <1>11, <2>1 DEF WriteTemporary, TemporaryWritten, Stages
    <3>2. Moved(a)
      BY <1>3, <3>1 DEF Moved
    <3> QED
      BY <3>1, <3>2 DEF AllocatorMoves
  <2>2. CASE temporary[WorkspaceOf(a)] # NoDescriptor
    BY <1>5, <1>11, <2>2 DEF WriteTemporary, AllocatorMoves, FilesKept, WorkspaceFiles
  <2> QED
    BY <2>1, <2>2
<1>12. CASE RenameMetadata(a)
  BY <1>6, <1>12 DEF RenameMetadata, AllocatorMoves, MetadataRenamed
<1>13. CASE CompareMetadata(a)
  <2>1. CASE Named(a)
    <3>1. FilesKept /\ Await(a, "head") /\ "head" \in Stages
      BY <1>13, <2>1 DEF CompareMetadata, Named, FilesKept, Stages
    <3>2. Moved(a)
      BY <1>3, <2>1, <3>1 DEF Moved
    <3> QED
      BY <3>1, <3>2 DEF AllocatorMoves
  <2>2. CASE ~Named(a)
    BY <1>5, <1>13, <2>2 DEF CompareMetadata, Named, AllocatorMoves, FilesKept
  <2> QED
    BY <2>1, <2>2
<1>14. CASE CompareHead(a)
  <2>1. CASE Blocked(a)
    BY <1>5, <1>14, <2>1 DEF CompareHead, AllocatorMoves, FilesKept
  <2>2. CASE Activated(a, "STARTABLE")
    <3>1. stage[a] = "head" /\ FilesKept
      BY <1>14 DEF CompareHead, FilesKept
    <3>2. "STARTABLE" \in ActivationStatuses
      BY DEF ActivationStatuses
    <3>3. Moved(a)
      BY <1>4, <2>2, <3>1, <3>2 DEF Moved
    <3> QED
      BY <3>1, <3>3 DEF AllocatorMoves
  <2> QED
    BY <1>14, <2>1, <2>2 DEF CompareHead
<1>15. CASE AllocationFails(a)
  BY <1>5, <1>15 DEF AllocationFails, AllocatorMoves, FilesKept, TreeAdded,
                     TemporaryWritten, MetadataRenamed
<1>16. CASE MoveHead(a)
  BY <1>16 DEF MoveHead, HeadMoves
<1> QED
  BY <1>1, <1>7, <1>8, <1>9, <1>10, <1>11, <1>12, <1>13, <1>14, <1>15, <1>16

LEMMA WorkspaceTypes ==
    ASSUME WorkspaceInv, NEW a \in Allocators, AllocatorMoves(a) \/ HeadMoves(a)
    PROVE  WorkspaceTypeOK'
<1> USE DescriptorFacts DEF WorkspaceTypeOK
<1>1. WorkspaceTypeOK
  BY DEF WorkspaceInv
<1>2. CASE HeadMoves(a)
  BY <1>1, <1>2 DEF HeadMoves
<1>3. CASE AllocatorMoves(a)
  <2>1. stage' \in [Allocators -> Stages] /\ activation' \in [Allocators -> ActivationStatuses]
    BY <1>1, <1>3 DEF AllocatorMoves, Moved
  <2>2. /\ worktrees' \in [WorkspaceIds -> WorkspaceRevision \cup {NoTree, Committed}]
        /\ temporary' \in [WorkspaceIds -> Descriptors \cup {NoDescriptor}]
        /\ metadata' \in [WorkspaceIds -> Descriptors \cup {NoDescriptor}]
    <3>1. CASE FilesKept
      BY <1>1, <3>1 DEF FilesKept, WorkspaceFiles
    <3>2. CASE TreeAdded(a)
      BY <1>1, <3>2 DEF TreeAdded
    <3>3. CASE TemporaryWritten(a)
      BY <1>1, <3>3 DEF TemporaryWritten
    <3>4. CASE MetadataRenamed(a)
      BY <1>1, <3>4 DEF MetadataRenamed, Rename
    <3> QED
      BY <1>3, <3>1, <3>2, <3>3, <3>4 DEF AllocatorMoves
  <2> QED
    BY <2>1, <2>2
<1> QED
  BY <1>2, <1>3

(* The worktree is missing only while nobody is between it and its         *)
(* metadata, and while no metadata names it.                               *)
LEMMA MissingTreeIsFree ==
    ASSUME WorkspaceInv, NEW w \in WorkspaceIds, worktrees[w] = NoTree
    PROVE  /\ metadata[w] = NoDescriptor
           /\ \A a \in Allocators : Making(a) => WorkspaceOf(a) # w
<1>1. metadata[w] # NoDescriptor => metadata[w] \in Descriptors
  BY DEF WorkspaceInv, WorkspaceTypeOK
<1>2. metadata[w] # NoDescriptor => metadata[w].revision # NoTree /\ Committed # NoTree
  BY <1>1, WorkspaceBackendAssumption DEF WorkspaceRevision
<1> QED
  BY <1>2, DescriptorFacts DEF WorkspaceInv, NamesItsTree, MakesItsOwn

LEMMA AllocationKeeps ==
    ASSUME WorkspaceInv, NEW a \in Allocators, AllocatorMoves(a)
    PROVE  WorkspaceInv'
<1>1. WorkspaceTypeOK'
  BY WorkspaceTypes
<1>2. WorkspaceTypeOK /\ Alone
  BY DEF WorkspaceInv
<1>3. /\ WorkspaceOf(a) \in WorkspaceIds /\ DescriptorOf[a] # NoDescriptor
      /\ DescriptorOf[a] \in Descriptors
  BY DescriptorFacts
<1>4. \A b \in Allocators : b # a => /\ stage'[b] = stage[b]
                                     /\ activation'[b] = activation[b]
  BY <1>2 DEF AllocatorMoves, Moved, WorkspaceTypeOK
<1>5. /\ stage'[a] = "write" => stage[a] = "add" /\ TreeAdded(a)
      /\ stage'[a] = "rename" => TemporaryWritten(a)
      /\ stage'[a] = "head" => Named(a) /\ FilesKept
      /\ activation'[a] = "STARTABLE" => activation[a] = "STARTABLE" \/ stage[a] = "head"
  BY <1>2 DEF AllocatorMoves, Moved, WorkspaceTypeOK
<1>6. \A b \in Allocators : b # a /\ Making(b) => (MakesItsOwn(b) /\ Making(b)')
  BY <1>4 DEF WorkspaceInv, Making
<1>7. Alone'
  <2> SUFFICES ASSUME NEW b \in Allocators, Making(a)', Making(b)',
                      WorkspaceOf(a) = WorkspaceOf(b), b # a
               PROVE  FALSE
    BY <1>2, <1>4 DEF Alone, Making
  <2>1. Making(b)
    BY <1>4 DEF Making
  <2>2. CASE stage'[a] = "write"
    BY <1>3, <1>5, <2>1, <2>2, MissingTreeIsFree DEF TreeAdded
  <2>3. CASE stage'[a] = "rename"
    BY <1>2, <1>5, <2>1, <2>3 DEF Alone, Making, TemporaryWritten
  <2> QED
    BY <2>2, <2>3 DEF Making
<1>8. ASSUME NEW b \in Allocators, Making(b)'
      PROVE  MakesItsOwn(b)'
  <2>0. WorkspaceOf(b) \in WorkspaceIds
    BY DescriptorFacts
  <2>1. CASE b # a
    <3>1. Making(b) /\ MakesItsOwn(b) /\ stage'[b] = stage[b]
      BY <1>4, <1>8, <2>1 DEF WorkspaceInv, Making
    <3>2. CASE FilesKept
      BY <3>1, <3>2 DEF FilesKept, WorkspaceFiles, MakesItsOwn
    <3>3. CASE TreeAdded(a)
      <4>1. WorkspaceOf(a) # WorkspaceOf(b)
        BY <1>3, <3>1, <3>3, MissingTreeIsFree DEF TreeAdded
      <4> QED
        BY <1>2, <2>0, <3>1, <3>3, <4>1 DEF TreeAdded, MakesItsOwn, WorkspaceTypeOK
    <3>4. CASE TemporaryWritten(a) \/ MetadataRenamed(a)
      <4>1. WorkspaceOf(a) # WorkspaceOf(b)
        BY <1>2, <2>1, <3>1, <3>4 DEF Alone, Making, TemporaryWritten, MetadataRenamed
      <4> QED
        BY <1>2, <2>0, <3>1, <3>4, <4>1 DEF TemporaryWritten, MetadataRenamed, Rename,
                                            MakesItsOwn, WorkspaceTypeOK
    <3> QED
      BY <3>2, <3>3, <3>4 DEF AllocatorMoves
  <2>2. CASE b = a /\ stage'[a] = "write"
    <3>1. TreeAdded(a) /\ metadata[WorkspaceOf(a)] = NoDescriptor
      BY <1>3, <1>5, <2>2, MissingTreeIsFree DEF TreeAdded
    <3> QED
      BY <1>2, <1>3, <2>2, <3>1 DEF TreeAdded, MakesItsOwn, WorkspaceTypeOK
  <2>3. CASE b = a /\ stage'[a] = "rename"
    <3>1. TemporaryWritten(a) /\ MakesItsOwn(a)
      BY <1>5, <2>3 DEF WorkspaceInv, Making, TemporaryWritten
    <3> QED
      BY <1>2, <1>3, <2>3, <3>1 DEF TemporaryWritten, MakesItsOwn, WorkspaceTypeOK
  <2> QED
    BY <1>8, <2>1, <2>2, <2>3 DEF Making
<1>9. \A w \in WorkspaceIds : metadata[w] # NoDescriptor => metadata'[w] = metadata[w]
  <2>1. CASE MetadataRenamed(a)
    <3>1. metadata[WorkspaceOf(a)] = NoDescriptor
      BY <2>1 DEF WorkspaceInv, Making, MakesItsOwn, MetadataRenamed
    <3> QED
      BY <1>2, <2>1, <3>1 DEF MetadataRenamed, Rename, WorkspaceTypeOK
  <2> QED
    BY <2>1 DEF AllocatorMoves, FilesKept, WorkspaceFiles, TreeAdded, TemporaryWritten
<1>10. ASSUME NEW b \in Allocators, activation'[b] = "STARTABLE" \/ stage'[b] = "head"
       PROVE  Named(b)'
  <2>1. Named(b)
    BY <1>4, <1>5, <1>10 DEF WorkspaceInv
  <2>2. WorkspaceOf(b) \in WorkspaceIds /\ DescriptorOf[b] # NoDescriptor
    BY DescriptorFacts
  <2> QED
    BY <1>9, <2>1, <2>2 DEF Named
<1>11. ASSUME NEW w \in WorkspaceIds
       PROVE  NamesItsTree(w)'
  <2>1. NamesItsTree(w)
    BY DEF WorkspaceInv
  <2>2. CASE FilesKept \/ TemporaryWritten(a)
    BY <2>1, <2>2 DEF FilesKept, WorkspaceFiles, TemporaryWritten, NamesItsTree
  <2>3. CASE TreeAdded(a)
    <3>1. metadata[WorkspaceOf(a)] = NoDescriptor
      BY <1>3, <2>3, MissingTreeIsFree DEF TreeAdded
    <3> QED
      BY <1>2, <2>1, <2>3, <3>1 DEF TreeAdded, NamesItsTree, WorkspaceTypeOK
  <2>4. CASE MetadataRenamed(a)
    <3>1. MakesItsOwn(a) /\ stage[a] = "rename"
      BY <2>4 DEF WorkspaceInv, Making, MetadataRenamed
    <3>2. CASE w = WorkspaceOf(a)
      BY <1>2, <1>3, <2>4, <3>1, <3>2 DEF MetadataRenamed, Rename, NamesItsTree,
                                          MakesItsOwn, RevisionOf, WorkspaceTypeOK
    <3>3. CASE w # WorkspaceOf(a)
      BY <1>2, <2>1, <2>4, <3>3 DEF MetadataRenamed, Rename, NamesItsTree, WorkspaceTypeOK
    <3> QED
      BY <3>2, <3>3
  <2> QED
    BY <2>2, <2>3, <2>4 DEF AllocatorMoves
<1> QED
  BY <1>1, <1>7, <1>8, <1>10, <1>11 DEF WorkspaceInv

LEMMA HeadMoveKeeps ==
    ASSUME WorkspaceInv, NEW a \in Allocators, HeadMoves(a)
    PROVE  WorkspaceInv'
<1>1. WorkspaceTypeOK'
  BY WorkspaceTypes
<1>2. /\ metadata[WorkspaceOf(a)] = DescriptorOf[a]
      /\ DescriptorOf[a] # NoDescriptor /\ WorkspaceTypeOK
      /\ WorkspaceOf(a) \in WorkspaceIds
  BY DescriptorFacts DEF WorkspaceInv, HeadMoves, Named
<1>3. Alone'
  BY DEF WorkspaceInv, HeadMoves, Alone, Making
<1>4. ASSUME NEW b \in Allocators, Making(b)'
      PROVE  MakesItsOwn(b)'
  <2>1. Making(b) /\ MakesItsOwn(b)
    BY <1>4 DEF WorkspaceInv, HeadMoves, Making
  <2>2. WorkspaceOf(b) # WorkspaceOf(a) /\ WorkspaceOf(b) \in WorkspaceIds
    BY <1>2, <2>1, DescriptorFacts DEF MakesItsOwn
  <2> QED
    BY <1>2, <2>1, <2>2 DEF HeadMoves, MakesItsOwn, WorkspaceTypeOK
<1>5. \A b \in Allocators :
         (activation[b] = "STARTABLE" \/ stage[b] = "head" => Named(b))'
  BY DEF WorkspaceInv, HeadMoves, Named
<1>6. ASSUME NEW w \in WorkspaceIds
      PROVE  NamesItsTree(w)'
  BY <1>2 DEF WorkspaceInv, HeadMoves, NamesItsTree, RevisionOf, WorkspaceTypeOK
<1> QED
  BY <1>1, <1>3, <1>4, <1>5, <1>6 DEF WorkspaceInv

LEMMA WorkspaceStep == WorkspaceInv /\ [WorkspaceNext]_workspaceVars => WorkspaceInv'
<1> SUFFICES ASSUME WorkspaceInv, [WorkspaceNext]_workspaceVars
             PROVE  WorkspaceInv'
  OBVIOUS
<1>1. CASE WorkspaceNext
  <2>1. WorkspaceTypeOK
    BY DEF WorkspaceInv
  <2> QED
    BY <1>1, <2>1, WorkspaceStepMoves, AllocationKeeps, HeadMoveKeeps
<1>2. CASE UNCHANGED workspaceVars
  BY <1>2 DEF WorkspaceInv, workspaceVars, WorkspaceTypeOK, Alone, Making, MakesItsOwn,
              Named, NamesItsTree
<1> QED
  BY <1>1, <1>2

LEMMA WorkspaceInvHolds == WorkspaceSpec => []WorkspaceInv
  BY WorkspaceInitially, WorkspaceStep, PTL DEF WorkspaceSpec

(* The variables of the workspaces keep their types.                       *)
THEOREM WorkspaceTypeCorrect == WorkspaceSpec => []WorkspaceTypeOK
<1>1. WorkspaceInv => WorkspaceTypeOK
  BY DEF WorkspaceInv
<1> QED
  BY <1>1, WorkspaceInvHolds, PTL

(* However many allocations of however many runs check, add, write, fail   *)
(* and try again in whatever order, an item that create or reattach        *)
(* reported startable is in the worktree that was added for it.            *)
THEOREM StartedInOwnWorkspaceHolds == WorkspaceSpec => []StartedInOwnWorkspace
<1>1. WorkspaceInv => StartedInOwnWorkspace
  BY DEF WorkspaceInv, StartedInOwnWorkspace, Named, NamesItsTree
<1> QED
  BY <1>1, WorkspaceInvHolds, PTL
=================================================================================
