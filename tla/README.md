# Verification of the FreeHighlander Engineering Platform

TLA+ models of the platform's core, TLC runs on small instances of them, and
TLAPS proofs for every instance. Paths are relative to the repository (`src/`
in `PROJECT.json`). `PROJECT.json` holds the machine-readable side: components,
runs, mutants, the map from definitions to source lines, findings, hazards and
theorems.

    cd tla
    tlc -workers 2 -config AuthorityControlPlane_server.cfg MCAuthorityControlPlane.tla
    tlapm AuthorityControlPlaneProofs.tla

## 1. The system and its parts

The platform is a TypeScript monorepo: `packages/*` hold the parts with state
and rules, `apps/control-plane` the processes that use them, `apps/web` a
read-only dashboard, `tools/project` the command-line tools. What is worth
verifying is who may do what, when, after which crash: most code is validation
of immutable records, and a few parts keep state that several actors share.

| Component | State it keeps | Operations | Hard behaviours | What makes it correct |
|---|---|---|---|---|
| Atomic configuration store (`packages/persistence/src/atomic-json-config-store.ts`) | a JSON snapshot with a generation, a lock file, a temporary file | `read`, `write(expectedGeneration, payload)` | several processes, exceptions in any file system call, crashes, power loss, orphaned lock file | one writer inside; no lost update; an acknowledged write is unique and durable; a truthful answer; no waiting |
| Authority control plane (`apps/control-plane/bin/authority-server.mjs`, `src/authority-capability-*.ts`, `packages/persistence/src/authority-capability-state-store.ts`) | requested and active capabilities in the store above; approvals in memory; queued audit appends | request, approve, activate, deactivate, compensate, reconcile on startup | handlers overlap at the audit await, failed appends, stale approvals, two servers between any read and write, restarts | active implies requested, approved for exactly that state, audited; nothing active survives a restart |
| Telemetry event log (`packages/telemetry/src/jsonl-file-event-sink.ts`) | an append-only JSONL file, a promise queue | `append`, read | half-written lines, failing fsync | order of appends; readable after a failure |
| Execution gate and executors (`authority-capability-execution.ts`, `local-git-write-executor.ts`, ...) | none of their own; read the capability state, change git or infrastructure | `execute` | check then await then act | a wave reports no branch that is not there, and nothing undeclared that git shows |
| Worktree backend, workspace scheduling | git worktrees, metadata files, handles | create, reattach, snapshot, remove | crash between git and metadata | a handle names what it created; no two runs in one worktree |
| Runtime stability (`runtime-stability.ts`) | leases, bulkhead slots and queues, deadlines | acquire, renew, expire, request, release | expiry against renewal, promotion out of a queue | exclusive lease; no limit exceeded; who waits has a permit holder to wait for |
| Runtime lifecycle, heartbeat, recovery, preflight | activity and drain states, last beats | cancel, drain, classify, reconcile | evidence older than its transition, late beats, stale decisions | a drain ends and leaves nothing behind; an effect is not repeated blindly |
| Execution runtime (`execution-runtime.ts`) | an activity wave in progress, change budgets | `ActivityRunner.run`, `runParallelActivityWave` | one activity of several fails half-way | what a wave reports is what the repository holds |
| Project scheduler and human decisions (`packages/orchestration/src/project-scheduler.ts`, `tools/project/lib/human-decision-queue.mjs`) | the queue file: waiting decisions and answers | build plan, park, answer, resume | answers out of order, stale reads, exceptions of the store | what was reported as done stays done; a decision is answered once |
| Circuit breaker and failover (`packages/model-runtime/src/circuit-breaker.ts`, `quota-aware-failover.ts`, `provider-failover-integration.ts`) | circuit state, active binding, cooldowns | before request, record success and failure, observe recovery, return | late answers, cooldown against recovery, approval of a return | no probe before the provider's hints have run out; a binding is not cooling down when chosen; a return is approved for the state it leaves |
| Secret broker and receipts (`packages/governance/src/secret-*.ts`) | receipts of injected secrets | inject, track, revoke all, revoke expired | one revocation of several fails, two passes overlap | a pass that says it is complete left nothing alive |
| Workflow engine (`packages/orchestration/src/workflow-engine.ts`) | the state of each node of a graph | transition, propagate | several transitions before one propagation | after a propagation nothing is left to propagate |
| Portable checkpoint, handoff and resume (`tools/project/portable-resume.mjs`, `lib/portable-*.mjs`, `packages/orchestration/src/portable-ownership.ts`, `packages/persistence/src/git-resume-store.ts`) | two branches of a git remote, one of resume manifests and one of ownership leases with expiry; a cache ref per clone | checkpoint, handoff, claim, renew, inspect | commands of several machines interleave at every git command, lost answers, commands that end half way, two branches | one owner at a time; a live lease is not taken over; a release follows its checkpoint; checkpoints never go back |
| SQLite telemetry store, portable bundles (`packages/persistence/src/sqlite-telemetry-store.ts`) | rows projected from events | ingest, import of the log, rebuild | duplicate, late and re-ordered events, rollback | a row is what its events make it; an import misses nothing |
| Lineage and mutation journal (`packages/lineage/src/mutation-journal.ts`) | hash-linked entries of one file | append, verified read | two processes append to one head, torn appends | a journal that verifies tells the one history |
| Routine dispatch and connectors (`kuika-*.ts`) | none: receipts are returned, not kept | dispatch | duplicate dispatch | the adapter behind it recognises a duplicate |
| Governance policies, full-auto quorum, debate, context and token economy; evidence, checkpoints and replay records | none | pure functions and validators | none | not modelled, see section 8 |
| Model bindings, provider adapters, enterprise directory, web dashboard, command-line tools, phase packages, v2 compatibility | records, HTTP, a payload of the configuration store | validation, translation, presentation | none of their own | not modelled, see section 8 |

How they interact: the authority server calls the activation, approval and
safety services synchronously; these read and replace one file through the
configuration store, as do model management, secrets, the enterprise directory
and the human-decision queue of `tools/project`. The server then awaits an
append to the event log. The execution gate reads the capability state before
it calls an executor; executors work in worktrees; the scheduler starts runs
whose activities call providers through circuit breakers and failover.

## 2. Plan

In order, the most important first. What was planned first and what became of it:

1. `ConfigRegister`, `AtomicJsonConfigStore`: the storage everything durable
   rests on, and the register it implements. Modelled, checked, proved.
2. `AuthorityControlPlane`: the authority server over that register. Modelled,
   checked, proved.
3. `PortableResume`: machines that hand a project to one another through a git
   remote. Modelled, checked, proved.
4. Gate, git executor and worktrees: `GitWriteWave` (the gate reads the
   capability, then the commands of the executor, in a wave of activities) and
   `WorkspaceBackend`. Modelled, checked, proved: the branches that a wave reports
   for any number of workers, the whole report for one.
5. `ProviderCircuit` and `BindingFailover`: late answers, cooldowns, return
   approvals. Modelled, checked; safety proved.
6. `RunLease` (leases, heartbeats, recovery), `Bulkhead`, and `RuntimeDrain`, which
   composes the bulkhead with cancellation, secrets and the graceful drain and is
   shown to implement the bulkhead. Modelled, checked; safety proved.
7. `HumanDecisionQueue` over the register of (1). Modelled, checked, proved.
8. `SecretReceipts` (inside the drain), `MutationJournal`, `WorkflowEngine`,
   `TelemetryReadModel`. Modelled, checked, proved. A module for routine dispatch
   was dropped: the dispatcher keeps no state.
9. `RuntimePlatform` and `Orchestration`, the compositions of (4) to (8), with the
   theorems that carry every component's results over; `FencedLease`, the abstract
   lease that both kinds of ownership are shown to implement. Proved.
10. Quorum, debate and policy tables: dropped, see section 8.

What is left are results, not parts: the liveness properties are checked on small
instances only. Every safety property that a passing run checks is also proved.

## 3. Modules

| Module | Models | Uses |
|---|---|---|
| `ConfigRegister` | what the store promises: a register with compare-and-set and truthful answers | |
| `AtomicJsonConfigStore` | the store, one action per file system call | instance of `ConfigRegister` |
| `AtomicJsonConfigStoreProofs` | theorems of the store | |
| `AuthorityControlPlane` | the authority server or servers | the register; each read and each write of the file is an action |
| `AuthorityControlPlaneProofs` | theorems of the authority server | |
| `FencedLease` | what a lease with a fencing number promises, wherever it is recorded | |
| `PortableResume` | the portable checkpoint and resume commands over a git remote | instance of `FencedLease` |
| `PortableResumeProofs` | theorems of the portable commands | |
| `RunLease` | the lease of one run intent, heartbeats, recovery of a stuck run | instance of `FencedLease` |
| `RunLeaseProofs` | its theorems and those of `WorkspaceBackend` | |
| `ProviderCircuit`, `BindingFailover` | the circuit breaker; the bindings of a role | |
| `ModelRuntimeProofs` | the theorems of both | |
| `Bulkhead`, `SecretReceipts` | permits and their queue; the scope of injected secrets | |
| `RuntimeDrain` | activities, cancellation and the graceful drain | extends `Bulkhead` and `SecretReceipts` |
| `RuntimePlatform` | the composition of lease, drain and workspaces | `RunLease`, `RuntimeDrain`, `WorkspaceBackend` |
| `RuntimeDrainProofs` | the theorems of bulkhead, receipts, drain and composition | `RunLeaseProofs` |
| `HumanDecisionQueue` | decisions that wait for a person | instance of `ConfigRegister` |
| `WorkspaceBackend`, `GitWriteWave` | worktrees of work items; commits in one worktree | |
| `WorkflowEngine` | node states of a workflow graph | |
| `WorkProofs` | the theorems of queue, git wave and workflow | |
| `JsonLines` | a file of JSON lines and what a failed append leaves | |
| `MutationJournal`, `TelemetryReadModel` | the journal; the event log and its SQLite read model | `JsonLines` |
| `Orchestration` | the composition of circuit, failover, queue, workflow, git wave, journal and read model | the seven |
| `RecordProofs` | the theorems of journal, read model and composition | `ModelRuntimeProofs`, `WorkProofs` |
| `MCAtomicJsonConfigStore`, `MCAuthorityControlPlane`, `MCPortableResume` | model values, fault sets, clones and symmetry for TLC | |
| `MCRuntimePlatform`, `MCOrchestration` | small instances of the two compositions | |

Operators that are commented as bugs (`StageAnyGeneration`, `PromotableHead`, ...)
take no part in any specification. Each is a plausible mistake in the code; put
in place of the definition it follows, it must make TLC report the property
that `PROJECT.json` lists it for.

`RuntimePlatform` and `Orchestration` have a variable `part`: the components
they extend share no state, so a behaviour exercises one of them and the others
stay as they started. Their interleavings would be products that no property can
tell apart. Components that do share state are composed: the drain with its
bulkhead and its secrets, the decision queue with the configuration store, the
read model with the log it imports, the git executor with the capability.

### 3.1 AtomicJsonConfigStore

The actors are processes: `write()` contains no `await`, so within one Node.js
process calls cannot overlap. Each action is one file system call that another
process, or a crash, can fall before:

| Action | Code |
|---|---|
| `Write` | a caller uses the generation of the snapshot it read last (`seen`), however old |
| `OpenLock`, `RefuseLocked`, `OpenFails` | `openSync(lockPath, 'wx')` and its `EEXIST` branch, lines 62-76 |
| `RefuseStale`, `RejectPayload`, `Stage` | read and compare, validate, write and fsync the temporary file, 77-134 |
| `Rename`, `SyncDirectory`, `ReadBack` | lines 135-136 and 95-110 |
| `CloseLock`, `CloseFails` | `finally`, 111-114 |
| `BodyFails` | an exception in the body; `finally` runs, whatever has been replaced |
| `Crash`, `PowerLoss` | the environment |

Comparing and staging are one action: both happen under the lock file, touch
only private files, and what they read cannot change in between while the lock
excludes (`OneWriterInside` is checked and proved without assuming it).
Payloads are model values; hash, canonical JSON and size checks are the
identity of a snapshot, since a reader that meets a snapshot it cannot validate
gets an exception and changes nothing. `persistable` and `lockPersistable` hold
what the directory may contain after a power loss: renames since the last
directory fsync may each have reached the disk or not.

### 3.2 AuthorityControlPlane

The state file is the register that the store was shown to implement. A handler
runs from the parsed request to its queued audit event without an `await`, so one
process is in one call at a time (`call`); but it reads the file several times
before it writes it once, and another server may write in between. Each of these
accesses is an action:

| Action | Code |
|---|---|
| `Receive` | the parsed request and the read of `previousSnapshot` (`authority-server.mjs`); a client names the current generation or an earlier one |
| `VerifyApproval` | `activateApproved` compares its approval with a state that it reads itself (`authority-capability-approval.ts`, 153-160) |
| `Decide` | the read of `setRequested`, `approve`, `activate` or `deactivate` and its early returns (`authority-capability-activation.ts`) |
| `WriteState` | `writeState`: applied (`Applies`), or a conflict (`Refused`), also for a lock file held by somebody else |
| `DiesWriting`, `CompensationThrows` | a write cut short before or after its rename, whose lock file may stay; the first ends the process, the second is caught by the handler |
| `AuditSucceeds`, `AuditFails` | the append is answered, in the order of the sink's promise queue; meanwhile other requests wait in `pending` or are handled |
| `Start`, `Reread` | `reconcileAuthorityStateOnStartup`: a read, then a deactivation and a fresh read for each capability found active (`NextToDeactivate`) |
| `Crash` | a process dies between any two of these |

A failed append of an activation or a request starts the compensation as the next
call of that process, with nothing in between; it runs whatever the request's
outcome was, as in the code. `audit` keeps only events that bear on the present
state (`Concerns`), which keeps the state space finite without changing any
property. `activatedFrom` and `older` are history variables; `older` says what has
been active without a break since before a server started.

### 3.3 PortableResume

Processes run the commands of `tools/project/portable-resume.mjs`, each with a
lease id of its own, for one project with one active work item. A branch of the
remote is the sequence of what was pushed to it: a push carries
`--force-with-lease` and its commit has the replaced head as parent, so a head
never comes back and the length of the sequence stands for the object id. Git
commands are the steps:

| Action | Code |
|---|---|
| `StartCheckpoint`, `StartHandoff`, `StartInspect`, `StartClaim` | the command line, with `now` read once at its start (`portable-resume.mjs` 38-137) |
| `StartRenew` | a renewal, which has no command yet; the library function and the store are used as in `portable-ownership-store.test.mjs` |
| `ReadManifest`, `ReadManifestHead`, `PushManifest`, `VerifyManifest` | `GitResumeStore.getLatest` and `publishCas`, with `evaluateResumeManifestCas` and the checkpoint's read-back |
| `ReadOwnershipHead`, `Fetch`, `Decide` | `GitPortableOwnershipStore.getLatest`: `ls-remote`, `fetch` into the cache ref, `show`; then the decision of the command (`Successors`) |
| `PushLease`, then `ReadOwnershipHead`, `Fetch`, `VerifyLease` | `publishCas` and the read-backs, folded into one |
| `Abort` | any git command fails or times out, the reconciliation is not `READY`, the process dies; with `PushLease` before it, a lost acknowledgement |

`GitResumeStore.getLatest` is a single step, since it fetches the branch itself
and the branch only grows; the ownership store fetches the head it has listed
before, so there the three commands stay apart. `CloneOf` says which processes
share an object database: worktrees of a clone share the cache ref. `told` is
the last answer that let a process change the project (`HELD`, `CLAIMED` or a
renewal that was read back); a process forgets it when it asks again and when
it begins a handoff. Nothing in the code refreshes it, which is why the
properties speak of a `told` lease that has not expired.

### 3.4 RunLease, Bulkhead, RuntimeDrain, SecretReceipts

The lease functions of `runtime-stability.ts` decide on a record that their caller
stores, so reading, deciding and storing are one action. `held` is the copy a
run was given; it may be old, and a process offers the same lease id for all its
runs. Time is relative: leases and heartbeats carry the ticks that are left.

| Action | Code |
|---|---|
| `StartRun`, `RecoverRun` (`TakeLease`), `RenewRunLease`, `ReleaseRunLease` in `FinishRun` and `AbandonRun`, `Tick` | `acquireRunLease`, `renewRunLease`, `releaseRunLease` and expiry, `runtime-stability.ts` |
| `RecordHeartbeat`, `ClassifyRuntimeActivityLiveness` | `runtime-heartbeat.ts` |
| `ReconcileStuckRun`, then `RecoverRun` | `runtime-recovery.ts`: the decision, and carrying it out later |
| `BeginEffect`, `ApplyEffect`, `CrashRun` | the activity: its checkpoint is unsafe from before the effect until its result is seen |
| `AcquirePermit`, `EnqueueRequest`, `ReleasePermit` | the bulkhead of `runtime-stability.ts`; a full queue rejects and changes nothing |
| `Submit`, `Settle`, `Cancel` | an activity with its permit, `runtime-lifecycle.ts`; a cancelled request is still promoted and has to give its permit back |
| `Inject`, `Track` | an activity's `InjectSecret` and `TrackReceipt` (`secret-resolver-runtime.ts`, 413-436, and the lifecycle's `track`); either may throw after the sink has taken the secret, which then no receipt tells of (`lost`) |
| `RevokeAll`, `RevokeExpired`, `SkipReceipt`, `CallRevoke`, `RevokeSucceeds`, `RevokeFails` | `secret-receipt-lifecycle.ts`; each revocation awaits the resolver, so passes interleave |
| `GatherEvidence`, `TransitionRuntimeDrain` | `transitionRuntimeDrain`: its evidence is gathered before it, and work goes on in between |

### 3.5 WorkspaceBackend, GitWriteWave

Every file or git operation that is awaited is an action, and each may fail or be
killed after its effect (`AllocationFails`, `CommandFails`, `AddTimesOut`,
`CommitTimesOut`, `SwitchTimesOut`).

| Action | Code |
|---|---|
| `MaterializeWorkspace`, `RequirePathMissing`, `RequireMetadataMissing`, `AddWorktree`, `WriteTemporary`, `RenameMetadata`, `CompareMetadata`, `CompareHead` | `local-worktree-backend.ts` as called by `project-workspace-scheduling.ts` |
| `StartActivity` | a worker of `runParallelActivityWave` (`execution-runtime.ts`) and the gate of `authority-capability-execution.ts`, which goes on, denies, or throws; an exception rejects the whole wave (`threw`) |
| `AssertWorkspaceCurrent` to `ReportCommit` | the commands of `local-git-write-executor.ts`, in order |
| `ResetIndex`, `DetachHead`, `DeleteBranch`, `RollbackFails` | its rollback, whose failures the code ignores |
| `ToggleCapability` | the authority server, seen from the executor |

`workers` is what the caller gave the wave, from 1 to `MaxConcurrency`. The scope
check does not see the index but what `git diff --cached --name-only` prints of it
(`Printed`): of a rename, only the new name. A path stands for its changed
content; a commit is named after the activity that made it; `leftBehind` is a
history variable, the activities whose rollback failed to take the branch back;
`MoveHead` is an activity of a started item that commits in its worktree.

### 3.6 ProviderCircuit, BindingFailover

`inFlight` counts the requests that are not answered, so an answer may meet the
circuit in any state. The window until the next probe is counted down;
`demanded` is a history variable, the longest of the hints met since the circuit
opened. A cooldown ends by an observation and never by the clock, so the time of
its next check is left out; `observedAt` stays since the hash of the state covers
it. `RecordActiveBindingFailure`, `ObserveRecovery`, `ObserveOutage`,
`CreateReturnApproval` and `EvaluatePreferredReturn` are the operations of
`quota-aware-failover.ts`, with the classification of failures of
`provider-failover-integration.ts` as their scope. Which fallbacks are available
is any set.

### 3.7 HumanDecisionQueue, WorkflowEngine

A client of the queue reads the generation and the context of the project, later
compares and decides (`EnqueueHumanDecision`, `ResolveHumanDecision`, `GiveUp`),
and writes through the abstract register: `StoreStep` and `ReturnResult` are the
steps of `ConfigRegister`, so an exception may come before or after the write.
`acknowledged` is a history variable.

`TransitionNodeState` and `PropagateWorkflowStates` are the functions of
`workflow-engine.ts`; a caller may make any number of transitions before it
propagates. The pass is a recursive function over the graph, since a node sees
what the pass has made of its predecessors.

### 3.8 JsonLines, MutationJournal, TelemetryReadModel

`JsonLines` keeps lines as sequences of pieces: a failed append leaves nothing,
half a record, a record without its newline, or all of it, and the next append
continues an open line. `DraftRecord` and `WriteRecord` are the two halves of an
append to the journal, which one process orders and two do not.
`TelemetryReadModel` has the sink's appends, the import of the log
(`ImportJsonlRecovering`), batches from elsewhere (`IngestMany`), the events of a
transaction one by one (`IngestNext`) and its end (`CommitBatch`,
`RollbackBatch`). `IndexAgreesWithLog` reads the state that a row shows from its
events: where one of the last time tells a state, it is that state; where those
tell none, the row shows the state of one of its events, or none.
`ArtifactsShowLatestState` is what the documentation says instead, and does not hold
(section 7).

## 4. Runs

| Run | Instance | Question | Result |
|---|---|---|---|
| `store_processes` | 2 writers, 3 payloads of which one is invalid, exceptions, failing unlink, crashes, `MaxGeneration` 2 | does the lock exclude, is any update lost or acknowledged twice, does an orphaned lock freeze the store, is every write answered, does it implement the register? | holds |
| `store_power` | the same with power losses and directory fsync | is an acknowledged write ever taken back? | no |
| `authority_server` | 1 server, 2 capabilities, failing appends, deaths between and inside writes, 2 requests in flight, `MaxGeneration` 4 | is what is active audited, about to be, or being deactivated because that failed? does an unaudited activation end? | holds |
| `authority_pair` | 2 servers on one file that write between each other's reads, 2 capabilities, every fault, 1 request in flight each, `MaxGeneration` 3 | is the validator ever asked to refuse, is an approval still held for another state than the one seen, does anything activate without an approval of the state it is activated from, does anything stay active over a start? | no |
| `authority_torn`, `authority_approval` | 1 server, 1 capability | see section 7 | violated |
| `portable_machines` | 2 machines, lifetime 2, clock to 3, 2 checkpoints, 3 leases, every command and every abort | is a live lease taken over, does who was told to go on still own the branch, do generations fence owners, does a handoff release too early? | holds |
| `portable_regress` | 2 machines, 3 checkpoints | see section 7 | violated |
| `portable_worktrees` | 2 worktrees of a clone and another machine, lifetime 1, 3 leases | see section 7 | violated |
| `runtime_platform` | the four parts of `RuntimePlatform` | do the runs implement a fenced lease, is an effect repeated blindly, are the limits kept where two providers share an endpoint, does anyone wait with nobody to wait for, is everyone with an endpoint of one provider served, does a drain end and leave nothing behind, can an item start only in its own worktree? | holds |
| `orchestration` | the seven parts of `Orchestration` | does a probe go out too early, is a cooling binding chosen, is a return approved for another state, does the role return, is an answer lost, does a wave of one or two workers report what is not in the repository, does the journal tell two histories, does a row disagree with its events? | holds |
| `telemetry_latest` | the same without a log (`MaxLines` 0) | see section 7 | violated |

Bounds. `MaxGeneration` limits how often the file can be replaced: every hazard of
the store needs two writes by two writers on one generation, which 2 allows, and
the theorems hold for any bound. For the authority server a generation is needed
to request, one to activate, one for another request in between and one for
compensation or withdrawal: 4; the bound stops new requests only, so what has
begun, startup and compensation write on beyond it. `MaxPending` 2 lets one
handler run while another awaits the log; with two servers, the other server's
handlers come in between, and 1 is enough. Two writers or servers suffice for
every pairwise race; the theorems are for any number. The payload outside
`ValidPayloads` fires the validator's exception. Symmetry is used only in runs
without liveness properties. Of leases, three are what an interleaving needs: one
to claim, its renewal, release or expiry, and a claim by the other machine. A
clock that reaches 3 lets a lease of lifetime 2 expire and be claimed or renewed
in between. All this is for TLC only; the theorems of section 6 hold for any
bounds.

The smaller parts have the smallest instances in which their hazards meet:

| Part | Instance | Why |
|---|---|---|
| lease | 2 runs of one process (one lease id), `Ttl` 2, `MaxSilence` 1, every profile of checkpointing and idempotence but both | a slow run, its successor with the same lease id, a heartbeat older than its lease |
| bulkhead | limits 3, 2 and 1, queue of 3, 6 requests of 3 providers, two of which share an endpoint, and one with an endpoint of its own | a request behind another that cannot be promoted; a full queue; a release that frees two limits for two requests and promotes one |
| drain | 3 activities in 2 trees, one that cannot be cancelled, one secret whose injection may throw, 2 revocation passes | a request cancelled in the queue and promoted since, a revocation that fails in one pass while the other waits |
| workspace | 3 allocations for 2 runs that want the same workspace id at different revisions | the checks of one before the files of another |
| circuit | `FailureThreshold` 2, `OpenDuration` 2, hints 0, 1 and 4, 4 requests on their way | hints shorter and longer than the window, answers in every state |
| failover | 3 bindings of 2 providers, every policy, `MaxObservations` 3, `MaxApprovals` 2 | the second binding fails with its provider; an old and a new approval |
| queue | 2 clients, 2 decisions, 2 choices, `MaxRevision` 1, `MaxGeneration` 2 | a decision parked by one client and answered by the other; with 2 writes every pair of them |
| workflow | every acyclic graph on 3 nodes | a chain and a join |
| git | 3 commit activities, 3 paths of which two are the ends of a rename, 2 branch names, one or two workers | one that stages more than it declares and one whose excess git hides, two that want one branch; a dirty index at the start; with two workers every pair of commands interleaves |
| journal | 2 writers, `MaxRecords` 4 | two appends on one head and a third and a fourth after them |
| telemetry | 4 events of 2 runs and an artifact both name, `MaxLines` 2, batches of one or two | events that meet in every order, repeated, and rolled back |

`CHECK_DEADLOCK FALSE` is set where the system, or its bounded model, may stop: for
the authority server, which at the generation bound with nothing pending waits
for requests for ever, and for the runs of parts, in which a runtime stops,
a wave is finished and a bounded part has used up its bound.

## 5. Fairness

- `WF(WriteStep(w))` for each writer: a synchronous function that neither waits
  nor loops runs to its end or its process dies. Fault actions are not fair.
- `WF(Start(s))`: a server that is down is started again, by its operator or
  supervisor. Weak fairness is enough since being down persists. `WF(Reread(s))`
  and `WF(VerifyApproval(s))`: a process that runs goes on.
- `SF(Decide(s))`, `SF(WriteState(s))`: not every attempt at the same step ends in a
  crash. A server that dies there each time it is started never gets through its
  reconciliation, and nothing could be promised.
- `WF(AuditAnswers(s))`: the file system answers each append, with success or
  failure; the code sets no timeout on it.
- `PermitsReturn`, weak fairness of every `ReleasePermit` in `runtime_platform`: a
  request has a deadline and every outcome of it releases its permit.
- `RuntimeFairness`: an activity that runs ends (its deadline) and waits for the
  receipt of what it injected; the drain's own steps get done; the shutdown pass
  over the receipts is started again while there is something to revoke. A
  revocation that is tried again and again succeeds in the end, which is strong
  fairness of `RevokeSucceeds`, since a failing answer disables it in between.
  Without it nothing can be promised: the code never forgets a receipt that it
  could not revoke, and does not stop before.
- `FailoverFairness`: the return is evaluated, and a cooldown is checked by way
  of the binding it was recorded for, in the end with success. That a provider
  recovers is an assumption about the world; that this one check suffices to
  free every binding of it is what `ReturnsAfterOutage` shows.
- Nothing is assumed of clients, crashes or failures.
- `PortableResume` assumes no fairness and states no liveness property: a
  command may end at any git command and nothing starts the next one.

`UnauditedActivationEnds` carries the escape the code makes necessary: a lock
file whose owner died is never removed.

## 6. Proofs

Nothing is assumed beyond the named `ASSUME` of each module (finite sets, bounds
that are naturals, model values that differ), which TLC evaluates in the runs,
and what a theorem itself states as its hypothesis (`Distinct`, no power losses,
one server).

`AtomicJsonConfigStoreProofs`:

- `TypeCorrect`: `TypeOK`, strengthened by "what is staged is valid", "outcomes
  are decided only when closing" and "the present file is persistable".
- `ReadBackAgrees`: the comparison after the rename never fails a write that did
  nothing wrong, since nobody else replaces the file before it.
- `OrphansFreezeForGood`: a lock file whose owner died is never removed, and then
  the file does not change again, where no machine loses power
  (`OrphanFreezesStore`); `OrphansFreeze` says the same of each step that is not a
  power loss.
- `MutualExclusion`: `OneWriterInside` under every fault, by `LockInv`: a writer
  inside implies the lock file exists, and at most one is inside. A power loss
  throws every writer out, so a lock file that vanishes harms nothing.
- `NoLostUpdate`: without power losses a rename replaces what its caller read.
  The code compares generations only, so the invariant must say that `seen`
  never runs ahead of the file and that equal generations mean equal snapshots
  (`SeenBehind`), and that a writer past the comparison still finds the file it
  compared (`InFlight`).
- `AcknowledgedIsDurable`, `AcknowledgedOnce`: where directories are synced,
  power losses included, by `AckInv`: from the directory sync on, everything
  that may persist is at least what the writer is about to acknowledge.
- `StoreImplementsRegister`: `ImplementsRegister` without power losses, each
  step mapped to a step or a stutter of the register. `EffectMatches` relates a
  writer's `pc` and answer to the phase of its abstract call.

`AuthorityControlPlaneProofs`, for any number of servers and capabilities and
every fault unless said otherwise:

- `TypeCorrect`, and `ValidStates`, `ApprovalsAreExact` from `AuthorityInv`: what a
  call has decided holds of the state it read (`CallOK`), so it holds of the present
  one as long as the generation is the same, which is all that the write compares.
  Every write, compensation and restart included, makes a new generation.
- `ApprovedActivation`: an action property from the same invariant, with every read
  and the write of an activation apart. An approval that was found is held until
  the write and is not older than the generation the client named (`CallOK`), nor
  newer than the file's, which the write compares; every other write shrinks
  `active` (`WriteMoves`).
- `RestartDeactivates`, by `OlderInv`: what has been active since before a server
  began its startup is what that still has to deactivate, wherever other servers
  write between its reads and writes.
- `ActiveCapabilitiesAreAudited`: for one server whose compensating writes do
  not throw. `AuditInv` adds that nobody else writes, so a compensation finds the
  generation it names and a starting server still has all that is active before it
  (`Alone`), that a pending event is about its own request
  (`EventsOfTheirRequest`), and that a server which got past an orphaned lock file
  has nothing active (`OrphanedIsInactive`).

`PortableResumeProofs`, for any number of processes, lifetimes and commands:

- `TypeCorrect`: `TypeOK`, with what a command carries at each of its steps
  (`Carries`) and that the commits it has read or written exist.
- `ReleasesFollowCheckpoints`: `HandoffInv` says that a handoff past its
  read-back, wherever it is, has its own commit on the state branch.
- `LiveLeasesAreNotTakenOver`, `GenerationsFence`, `HoldersOwnTheBranch` and
  `OneHolderAtATime`, all from `OwnerInv` and the assumption that no two
  processes share a clone (`Distinct`). What a process is about to publish
  must be a successor of the lease at the revision it will push over, decided at
  a time that has passed (`Safe`); each lease on the branch is followed by its
  owner's until it was released or has expired (`Succession`). The last needs to
  look along the whole branch because a process may have been told of a lease
  long before. `portable_worktrees` shows that `Distinct` cannot be dropped.
- `OwnershipIsFencedHolds`: under `Distinct` the branch, and those who go on by what
  they were told, implement `FencedLease`. Each push grants the lease under the next
  generation, extends it or gives it up; a tick lets it lapse; whoever acts is its
  holder while it is live (`HolderHasNewest`). A renewal that was decided in time
  and pushed after the lease has lapsed makes it live again, which is why the
  abstract lease allows that until another party is granted it. This refinement is
  a theorem only: the run that would check it is at the limit of its time.

`RunLeaseProofs`, for any runs, lease ids, time to live and silence:

- `LeaseTypeCorrect`, `OneLiveHolderHolds`, `ProgressingIsHolderHolds`. `HolderInv` says
  that whatever copy a run has, it is the stored lease or dead (`CurrentOrDead`),
  and that no heartbeat claims more time than its run's copy has left
  (`BeatsCovered`).
- `LeaseIsFencedHolds`: the stored record, and the runs whose own copy is active,
  implement `FencedLease`, by `HolderInv` and what a step can do to the record
  (`RecordMoves`). The run `runtime_platform` checks it as `LeaseIsFenced`; that two
  runs never act at once (`OneLiveHolder`) follows.
- `NoBlindRepeatHolds`: a decision to recover that is not carried out yet finds
  the lease free (`RecoveryFindsLeaseFree`). Where checkpoints are persisted they
  tell whether the effect may have begun, and a run that is still about to begin
  it then has been overtaken (`CheckpointTells`); where they are not, there is a
  single attempt (`TriedOnce`).
- `StartedInOwnWorkspaceHolds`, `WorkspaceTypeCorrect`: whoever is past adding the
  worktree is alone (`Alone`), a temporary file is its maker's (`MakesItsOwn`),
  and metadata names the worktree that was added for it (`NamesItsTree`).

`ModelRuntimeProofs`: `CircuitTypeCorrect` and `ProbeRespectsRetryAfterHolds` from
`CircuitInv`, in which the demanded ticks never exceed the window while the
circuit is open; `FailoverTypeCorrect`, `NeverSelectCoolingHolds` and
`ApprovedAfterRecoveryHolds`, action properties from the type invariant and what
a failure does to the active binding (`FailureMoves`).

`RuntimeDrainProofs`, for any limits, activities, trees and passes:

- `BulkheadTypeCorrect` and `WaitsOnlyForReleaseHolds`, whoever shares an endpoint:
  an admission or a promotion is within the limits of the permits that stay
  (`LimitsStep`), and a queue that is not empty has a permit out (`QueueMoves`), for
  with none out the first in the queue fits, whatever the limits.
- `WaitingIsNotLost`: an action property of the bulkhead; a request leaves the queue
  with its permit only.
- `DrainUsesBulkhead`: `RuntimeSpec` implies `BulkheadSpec`, each step of the drain
  maps to a step of the bulkhead or a stutter; `DrainWaitsOnlyForRelease` follows.
  `DrainUsesReceipts` is the same for the scope of the secrets.
- `PermitsCanBeReturned`, `EndedStaysEnded`: a permit always has an activity that can
  still end, and what has ended, or was asked to cancel, does not run on when a
  promotion comes after it. `EveryRequestServed` and `DrainEnds` rest on this, which
  TLC checks under fairness.
- `CompleteMeansRevokedHolds`: by `PassesKnow`, what a pass has attempted and
  neither failed nor has before it is dead.
- `RuntimeTypeCorrect`, `StoppedIsCleanHolds`: by `DrainInv`, in which evidence that
  was gathered stays true until its transition (`EvidenceLasts`), the queue is
  empty when no permit is out (`QueueMoves`), and a secret that is alive, not tracked
  and not `lost` belongs to an activity that holds a permit (`InjectionsOwned`). A
  secret whose injection or tracking threw is `lost`, and all that the theorem says
  of it is that no other kind survives.
- `PlatformKeepsParts`: in `RuntimePlatform` each component behaves as it does alone,
  so `RuntimePlatformTypeCorrect` and `PlatformIsSafe` carry all the above over to the
  composition.

`WorkProofs`:

- `AcknowledgedIsKeptHolds`, `QueueTypeCorrect`: by `QueueInv`, which says of a write
  in progress that it carries the queue of its generation with its own change
  (`Carries`), that what a client is about to be told is in the file (`Promise`)
  and that the file is sound (`Sound`).
- `QueueLosesNothing`: an action property, since each write carries the queue of its
  generation; `QueueUsesStore`: what the processes do to the file is a behaviour of
  the register that `StoreImplementsRegister` is about, so the queue stands on the
  store as it was proved.
- `NothingLeftToPropagateHolds`, `PropagationSettles`, `AnyOrderPropagatesAlike`, for
  every finite graph without cycles. The pass is a recursive function, and no
  induction is available for it: instead, of the sets of nodes that can be visited
  in some order, one with the fewest nodes left is shown to leave none
  (`EveryNodeIsVisited`), so a function that satisfies the equation exists and
  `CHOOSE` picks it (`PropagationIsDefined`). The same argument shows that it is the
  only one, so the order `topologicalOrder` picks does not matter.
- `ReportsAreTrue`, `GitTypeCorrect`. For any number of workers, by `BranchInv`: each
  activity that counts on a branch, because it is committing to it or has
  succeeded, finds it there, and no two count on one, since git creates no branch
  that exists; so a rollback deletes a branch that nobody else counts on. For one
  worker, by `GitInv`: one activity is busy (`OneBusy`), the worktree is where its
  step needs it (`StandsAt`), and every commit on a branch is reported, about to be
  taken back, or left behind by a rollback that failed itself (`Accounted`,
  `Truthful`). With several workers the rest of a report is not true (section 7).

`RecordProofs`:

- `OneHistoryHolds`, `JournalTypeCorrect`: an append after which the journal still
  verifies extends the history that it had (`AppendThatParses`,
  `VerifiedPrefix`), so what was ever witnessed keeps its number.
- `IndexAgreesWithLogHolds`, `TelemetryTypeCorrect`: `TelemetryInv` says of the
  committed tables and of those of an open transaction alike that each row
  agrees with the events in the table (a row remembers the latest time of all its
  events, and its state is that of an event of this time if one tells any), that
  every event logged is a line of the
  log as long as its ended lines parse (`LoggedStands`), and that an
  import brings what it owes (`ImportOwes`).

- `OrchestrationKeepsParts`, `OrchestrationTypeCorrect`, `OrchestrationIsSafe`: the
  same for `Orchestration` and its seven components.

Only model-checked: the properties under fairness (`EveryWriteAnswered`,
`UnauditedActivationEnds`, `EveryRequestServed`, `DrainEnds`,
`ReturnsAfterOutage`), which are beyond the prover here, as is `ENABLED`. Every other
property of a passing run is a theorem, some under the hypotheses named above.

## 7. Findings

1. **An orphaned lock file defeats restart safety** (`authority_torn`). A
   server killed inside a write leaves the lock file, which names no owner and
   has no age. Each later start asks the store to deactivate what is active,
   is answered with a conflict and throws (`authority-capability-safety.ts`,
   lines 55-61). The capability stays active in the file, audited or not, until
   the lock file is removed by hand.
2. **An activation may outlive the failed audit of its approval**
   (`authority_approval`). The approval is usable from the moment it is stored,
   before its event is appended; when that append fails, only the approval is
   discarded.
3. **A stale checkpoint replaces a newer one** (`portable_regress`).
   `GitResumeStore.publishCas` evaluates the candidate against the manifest it
   read, then lists the head again and pushes with a lease on that second head;
   all it compares between the two is whether there was a manifest
   (`git-resume-store.ts`, lines 165-173). A writer delayed between the two
   reads publishes its old generation over newer ones.
4. **Worktrees of a clone can take over a live lease** (`portable_worktrees`).
   The ownership store shows the lease through a ref that every worktree of the
   clone writes, and returns the head it listed itself as the revision
   (`portable-ownership-store.mjs`, lines 26-54). A fetch by another worktree in
   between makes a claim judge an old lease and replace the new one.
5. **A row need not show the latest state** (`telemetry_latest`).
   `docs/persistence/SQLITE-READ-MODEL.md` (line 68) says that artifacts track the
   latest lifecycle state. The merge compares an event with the last one that
   named the artifact, whether that told a state or not
   (`sqlite-telemetry-store.ts`, lines 682-686): an invalidation that comes in
   after a newer model call which names the artifact is dropped, and the artifact
   stays `OBSERVED`. The status of a run is merged in the same way (588-592): with
   `run.completed` after a newer event that tells no status, the run is shown as it
   was, where line 43 of the same page speaks of the current status.

Observations. The models show these too; no document, comment or test of the
repository says otherwise clearly enough to call them findings.

- Compensation runs whatever the outcome of the request was. When the append of a
  request that was answered `UNCHANGED` or `CONFLICT` fails, its snapshot is put back
  at the current generation: it may withdraw what another request has settled
  meanwhile, or request it again. `ValidatorNeverRefuses` and
  `ActivatesOnlyWhatWasApproved` hold nevertheless; the test that exercises
  compensation does so for an applied request only.
- A capability that is deactivated while an activity runs does not stop it: the gate
  has read it once, and the remaining commands are carried out.
- With two workers in one worktree a commit can contain a path that another
  activity staged, and a report can name another's commit (`GitWriteWave`): the
  checks of the executor and the command that relies on them are separate git
  processes. That the reported branches stay is proved.
- An exception of the gate, when the state or the revision cannot be read, rejects
  the wave (`execution-runtime.ts`, line 335): the caller is not told which
  activities of it have succeeded, though their commits stay.
- `git diff --cached --name-only` detects renames and prints their new name only. An
  activity that stages a directory and declares the new name commits the removal
  of the old one, which it has not declared. The test of the executor
  (`local-git-write-executor.test.mjs`, line 165) shows that a directory which
  stages an undeclared file is refused, for files that are not renamed.
- A release promotes one request. Where two providers share an endpoint it can free
  two limits at once, and a request that fits waits until the next release; one
  that needs its provider and the shared endpoint may find either taken each time
  and wait for ever while others come.
- A secret whose receipt turns out to be invalid, or is rejected by its scope, after
  the sink has taken it is known to nobody and survives the drain. The drain's
  own evidence, and its test, speak of tracked receipts.
- A rollback ignores the failure of its own commands: an activity that is
  reported as failed may leave its branch, with its commit, behind.
- An append that was cut off and continued by another makes the log, and the
  journal, unreadable for good. `IndexAgreesWithLog` and `OneHistory` speak of an
  import and a read that succeed.
- A worktree or temporary file that an allocation left behind is never handed
  out and never removed; its workspace id can be used for nothing else.
- A half-open circuit lets every request through, and a dispatcher of routines
  keeps no record of what it dispatched.

## 8. Not modelled

Every part of the repository that keeps state which more than one step can see is
modelled. That is a small share of its lines: the rest validates records,
computes pure functions of one argument, translates formats, or presents. Such
code has no behaviour in time for a specification to describe, and a definition
of it would repeat it line by line.

What the modelled parts leave out or assume:

- The authority server's HTTP parsing, CORS, CSRF, body limits and response
  texts, which come before or after all state changes; clients that
  name a generation which no server has shown yet; the policy and revision
  fields of approvals, constants of a process. Hashes and canonical JSON, here
  and elsewhere, are the identity of what they cover.
- After a power loss the store may use a generation twice for different
  payloads, so `ReplacesWhatWasRead` and `ImplementsRegister` are stated and proved
  without power losses; no document of the repository promises otherwise.
- `ActiveIsAudited` is stated for one server: with two, a compensating write
  can meet the other's, and the code answers that compensation failed.
- `PortableResume` has one clock. The code compares expiry with the local clock
  of the machine that claims and allows for no skew. Left out are a push that
  takes effect after its command has timed out, several projects and work items,
  the event bundle (a file of the manifest's commit), and the planning, secret
  checks and read model that follow a resume and change neither branch.
- `RunLease`: the store that keeps the lease record is the caller's; reading,
  deciding and storing are assumed atomic, as is one reconciler at a time. All
  leases have one time to live. That the checkpoint is marked unsafe before the
  effect is begun is what `semantic-checkpoint.ts` demands of its caller.
- `Bulkhead`, `RuntimeDrain`: an activity waits for its injection before it ends,
  and whoever cancelled a request in the queue gives its permit back when it is
  promoted. `EveryRequestServed` is for requests whose endpoint no other provider
  uses, or that name none; section 7 says what may happen to the others.
- `WorkspaceBackend`: git refuses to add a worktree at a path that exists. A
  process that dies while allocating is reported as blocked. Snapshots, the file
  executor and the read-only command executor read a worktree, or write one file
  of it, and share nothing else.
- `GitWriteWave`: which pairs of paths git takes for a rename is a constant, since its
  similarity of contents is outside the model. The other executors (infrastructure, release,
  incident) are one awaited adapter call behind the same gate.
- `TelemetryReadModel`: timestamps are in one format, as the code compares them as
  text; columns that copy a field of an event, queries and the bundle format are
  left out.

Components without a module:

| Component | Why |
|---|---|
| Governance policies, full-auto quorum and debate, context and token economy | pure functions of their arguments; nothing is kept between two calls |
| Startup preflight, deadlines, change budgets, project schedule plan | the same; nothing but tests calls the schedule plan, and its selection enters `WorkspaceBackend` as the set of items to allocate for |
| Routine dispatch and connectors | validated and handed to an adapter, once per call; nothing is kept |
| Evidence, checkpoint and replay records, lineage records, phase packages | immutable values with hashes and validators |
| Model bindings and catalog, enterprise directory | validated records; their durable state is a payload of the configuration store |
| Provider adapters, web dashboard, v2 compatibility | HTTP, presentation and translation: pure I/O |
| Command-line tools | arguments and reports over the components above; `portable-resume` and the decision queue are modelled as components of their own |
