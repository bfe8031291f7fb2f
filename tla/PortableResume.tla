----------------------------- MODULE PortableResume -----------------------------
(***************************************************************************)
(* Moving a project between machines through a git remote: the checkpoint  *)
(* and resume commands of tools/project/portable-resume.mjs, for one       *)
(* project with one active work item.                                      *)
(*                                                                         *)
(* The remote holds two branches.  Every commit of the state branch carries*)
(* a resume manifest, every commit of the ownership branch a lease; a      *)
(* commit is pushed with --force-with-lease on the head it was built on    *)
(* and has that head as parent, so a branch is the sequence of what was    *)
(* pushed to it and its head is the length of that sequence (0: no branch).*)
(*                                                                         *)
(* A process runs one command at a time, as a sequence of git commands     *)
(* that interleave with those of other processes.  A git command that      *)
(* fails or times out, a reconciliation that is not READY, a read-back that*)
(* differs and the death of the process all end the command, and so do the *)
(* conflicts: Abort stands for those that no guard decides, a push whose   *)
(* acknowledgement is lost (the push, then Abort) included.                *)
(***************************************************************************)
EXTENDS Integers, Sequences

CONSTANTS Process,       \* actors that run commands; each has its own lease id
          Clone,         \* git object databases (the worktrees of a clone share one)
          CloneOf,       \* CloneOf[p]: the one p runs in
          Ttl,           \* the values of --ttl-ms
          NoLease,       \* stands for null
          MaxClock,      \* bound on time
          MaxGeneration, \* bound on the generations of prepared manifests
          MaxManifests,  \* bound on the commits of the state branch
          MaxLeases      \* bound on the commits of the ownership branch

VARIABLES clock,      \* the time all machines agree on
          manifests,  \* the state branch
          leases,     \* the ownership branch
          cache,      \* cache[c]: the commit that the ownership cache ref of c names
          pc,         \* pc[p]: the next git command of p
          cmd,        \* cmd[p]: the command p runs, with what it has read
          told        \* told[p]: the lease that p was last told is its own, 0 if none

vars   == <<clock, manifests, leases, cache, pc, cmd, told>>
remote == <<manifests, leases>>

Kinds     == {"checkpoint", "handoff", "claim", "renew", "inspect"}
Manifests == [generation : 1..MaxGeneration, by : Process]
Leases    == [leaseId : Process, generation : Nat \ {0}, acquiredAt : Nat, expiresAt : Nat,
              releasedAt : Nat, lastCheckpointGeneration : Nat,
              state : {"ACTIVE", "RELEASED"}]

ASSUME ResumeAssumption ==
    /\ CloneOf \in [Process -> Clone]
    /\ Ttl \subseteq Nat \ {0}
    /\ {MaxClock, MaxGeneration, MaxManifests, MaxLeases} \subseteq Nat
    /\ NoLease \notin Leases

(* generation is that of the prepared manifest (checkpoint, handoff) or of  *)
(* the manifest read (claim); base, revision and wrote are commits.        *)
Commands == [kind : Kinds \cup {"none"}, now : Nat, ttl : Nat, generation : Nat,
             base : Nat, revision : Nat, next : Leases \cup {NoLease}, wrote : Nat]
NoCommand == [kind |-> "none", now |-> 0, ttl |-> 0, generation |-> 0,
              base |-> 0, revision |-> 0, next |-> NoLease, wrote |-> 0]

Steps == {"idle", "manifest", "manifestHead", "manifestPush", "manifestVerify",
          "head", "fetch", "show", "push"}

(* Every variable has its type, and a lease expires after it was acquired.  *)
TypeOK ==
    /\ clock \in Nat
    /\ manifests \in Seq(Manifests)
    /\ leases \in Seq(Leases)
    /\ \A i \in 1..Len(leases) : leases[i].acquiredAt < leases[i].expiresAt
    /\ cache \in [Clone -> 0..Len(leases)]
    /\ pc \in [Process -> Steps]
    /\ cmd \in [Process -> Commands]
    /\ told \in [Process -> 0..Len(leases)]

Init ==
    /\ clock = 0
    /\ manifests = <<>>
    /\ leases = <<>>
    /\ cache = [c \in Clone |-> 0]
    /\ pc = [p \in Process |-> "idle"]
    /\ cmd = [p \in Process |-> NoCommand]
    /\ told = [p \in Process |-> 0]

---------------------------------------------------------------------------------
(* The lease functions of packages/orchestration.                          *)

(* A lease that is neither released nor expired at time t.                  *)
portableOwnershipLeaseIsActive(lease, t) ==
    lease.state = "ACTIVE" /\ t < lease.expiresAt

(* A bug: a lease may be acquired whether it is live or not.                *)
acquirableLive(c, existing) ==
    \/ existing = NoLease
    \/ /\ c.generation >= existing.lastCheckpointGeneration
       /\ existing.state = "RELEASED" => c.now >= existing.releasedAt

(* Refused are a checkpoint older than the last owner's, a release that is  *)
(* still to come and, as BLOCKED_ACTIVE, a live lease.                      *)
acquirable(c, existing) ==
    \/ existing = NoLease
    \/ /\ c.generation >= existing.lastCheckpointGeneration
       /\ existing.state = "RELEASED" => c.now >= existing.releasedAt
       /\ ~portableOwnershipLeaseIsActive(existing, c.now)

(* Bugs: the generation of the last owner is kept; ttlMs is left out.       *)
acquireSameGeneration(p, c, existing) ==
    [leaseId |-> p,
     generation |-> IF existing = NoLease THEN 1 ELSE existing.generation,
     acquiredAt |-> c.now, expiresAt |-> c.now + c.ttl, releasedAt |-> 0,
     lastCheckpointGeneration |-> c.generation, state |-> "ACTIVE"]
acquireWithoutTtl(p, c, existing) ==
    [leaseId |-> p,
     generation |-> IF existing = NoLease THEN 1 ELSE existing.generation + 1,
     acquiredAt |-> c.now, expiresAt |-> c.now, releasedAt |-> 0,
     lastCheckpointGeneration |-> c.generation, state |-> "ACTIVE"]

acquirePortableOwnershipLease(p, c, existing) ==
    [leaseId |-> p,
     generation |-> IF existing = NoLease THEN 1 ELSE existing.generation + 1,
     acquiredAt |-> c.now, expiresAt |-> c.now + c.ttl, releasedAt |-> 0,
     lastCheckpointGeneration |-> c.generation, state |-> "ACTIVE"]

renewable(p, c, existing) ==
    /\ existing # NoLease
    /\ existing.leaseId = p
    /\ portableOwnershipLeaseIsActive(existing, c.now)
    /\ c.now >= existing.acquiredAt
    /\ c.now + c.ttl > existing.expiresAt

renewPortableOwnershipLease(c, existing) ==
    [existing EXCEPT !.expiresAt = c.now + c.ttl]

releasable(p, c, existing) ==
    /\ existing # NoLease
    /\ existing.leaseId = p
    /\ existing.state = "ACTIVE"
    /\ c.now >= existing.acquiredAt

releasePortableOwnershipLease(c, existing) ==
    [existing EXCEPT !.state = "RELEASED", !.releasedAt = c.now]

(* The lease that the command of p may publish over the one it has read.    *)
Successors(p, c, existing) ==
    {l \in {acquirePortableOwnershipLease(p, c, existing)} :
         c.kind = "claim" /\ acquirable(c, existing)}
    \cup {renewPortableOwnershipLease(c, l) : l \in {l \in {existing} :
              c.kind = "renew" /\ renewable(p, c, l)}}
    \cup {releasePortableOwnershipLease(c, l) : l \in {l \in {existing} :
              c.kind = "handoff" /\ releasable(p, c, l)}}

---------------------------------------------------------------------------------
(* Commands start and end.                                                 *)

(* A bug: a handoff releases the lease without its checkpoint.              *)
StartWithoutCheckpoint(p, kind, ttl, generation) ==
    /\ pc[p] = "idle"
    /\ pc' = [pc EXCEPT ![p] = IF kind \in {"renew", "handoff"} THEN "head" ELSE "manifest"]
    /\ cmd' = [cmd EXCEPT ![p] = [NoCommand EXCEPT !.kind = kind, !.now = clock,
                                                   !.ttl = ttl, !.generation = generation]]
    /\ UNCHANGED <<clock, remote, cache>>

Start(p, kind, ttl, generation) ==
    /\ pc[p] = "idle"
    /\ pc' = [pc EXCEPT ![p] = IF kind = "renew" THEN "head" ELSE "manifest"]
    /\ cmd' = [cmd EXCEPT ![p] = [NoCommand EXCEPT !.kind = kind, !.now = clock,
                                                   !.ttl = ttl, !.generation = generation]]
    /\ UNCHANGED <<clock, remote, cache>>

(* checkpoint: the owner goes on working; with --handoff it has stopped.    *)
StartCheckpoint(p, generation) ==
    Start(p, "checkpoint", 0, generation) /\ UNCHANGED told
StartHandoff(p, generation) ==
    Start(p, "handoff", 0, generation) /\ told' = [told EXCEPT ![p] = 0]

(* resume, without and with --claim, is asked by one that does not know.    *)
StartInspect(p) ==
    Start(p, "inspect", 0, 0) /\ told' = [told EXCEPT ![p] = 0]
StartClaim(p, ttl) ==
    Start(p, "claim", ttl, 0) /\ told' = [told EXCEPT ![p] = 0]

StartRenew(p, ttl) ==
    Start(p, "renew", ttl, 0) /\ UNCHANGED told

End(p) ==
    /\ pc' = [pc EXCEPT ![p] = "idle"]
    /\ cmd' = [cmd EXCEPT ![p] = NoCommand]

Go(p, step) == pc' = [pc EXCEPT ![p] = step]

Abort(p) ==
    /\ pc[p] # "idle"
    /\ End(p)
    /\ UNCHANGED <<clock, remote, cache, told>>

---------------------------------------------------------------------------------
(* GitResumeStore.  getLatest is one step: its fetch takes the branch as it*)
(* is, not the head listed before, and the branch is never removed.        *)

Generation(i) == IF i = 0 THEN 0 ELSE manifests[i].generation

(* evaluateResumeManifestCas, with the generation before the candidate's as *)
(* the expected one.                                                       *)
Accepts(i, candidate) == candidate = Generation(i) + 1

ReadManifest(p) ==
    /\ pc[p] = "manifest"
    /\ LET latest == Len(manifests) IN
       \/ /\ cmd[p].kind \in {"checkpoint", "handoff"}
          /\ Accepts(latest, cmd[p].generation)
          /\ cmd' = [cmd EXCEPT ![p].base = latest]
          /\ Go(p, "manifestHead")
       \/ /\ cmd[p].kind \in {"checkpoint", "handoff"}
          /\ ~Accepts(latest, cmd[p].generation)
          /\ End(p)
       \/ /\ cmd[p].kind \in {"claim", "inspect"}
          /\ latest # 0
          /\ cmd' = [cmd EXCEPT ![p].generation = Generation(latest)]
          /\ Go(p, "head")
       \/ /\ cmd[p].kind \in {"claim", "inspect"}
          /\ latest = 0
          /\ End(p)
    /\ UNCHANGED <<clock, remote, cache, told>>

(* publishCas lists the head once more and builds the commit on that one.   *)
(* All it compares is whether there was a manifest.                        *)
ReadManifestHead(p) ==
    /\ pc[p] = "manifestHead"
    /\ LET head == Len(manifests) IN
       \/ /\ (cmd[p].base = 0) <=> (head = 0)
          /\ cmd' = [cmd EXCEPT ![p].base = head]
          /\ Go(p, "manifestPush")
       \/ /\ ~((cmd[p].base = 0) <=> (head = 0))
          /\ End(p)
    /\ UNCHANGED <<clock, remote, cache, told>>

PushManifest(p) ==
    /\ pc[p] = "manifestPush"
    /\ \/ /\ Len(manifests) = cmd[p].base
          /\ Len(manifests) < MaxManifests
          /\ manifests' = Append(manifests, [generation |-> cmd[p].generation, by |-> p])
          /\ Go(p, "manifestVerify")
          /\ UNCHANGED cmd
       \/ /\ Len(manifests) # cmd[p].base
          /\ End(p)
          /\ UNCHANGED manifests
    /\ UNCHANGED <<clock, leases, cache, told>>

(* The read-back: a checkpoint is done, a handoff goes on to the lease.     *)
VerifyManifest(p) ==
    /\ pc[p] = "manifestVerify"
    /\ \/ /\ cmd[p].kind = "handoff"
          /\ Len(manifests) = cmd[p].base + 1
          /\ Go(p, "head")
          /\ UNCHANGED cmd
       \/ /\ cmd[p].kind = "checkpoint" \/ Len(manifests) # cmd[p].base + 1
          /\ End(p)
    /\ UNCHANGED <<clock, remote, cache, told>>

---------------------------------------------------------------------------------
(* GitPortableOwnershipStore.  getLatest lists the head, fetches that very *)
(* commit into the cache ref of the clone and shows what the ref names.    *)

ReadOwnershipHead(p) ==
    /\ pc[p] = "head"
    /\ cmd' = [cmd EXCEPT ![p].revision = Len(leases)]
    /\ Go(p, IF leases = <<>> THEN "show" ELSE "fetch")
    /\ UNCHANGED <<clock, remote, cache, told>>

Fetch(p) ==
    /\ pc[p] = "fetch"
    /\ cache' = [cache EXCEPT ![CloneOf[p]] = cmd[p].revision]
    /\ Go(p, "show")
    /\ UNCHANGED <<clock, remote, cmd, told>>

(* The commit whose lease p gets to see, and that lease.                    *)
Shown(p)    == IF cmd[p].revision = 0 THEN 0 ELSE cache[CloneOf[p]]
Existing(p) == IF Shown(p) = 0 THEN NoLease ELSE leases[Shown(p)]

(* The command decides about the lease it has read, with the time at which *)
(* it was started.                                                         *)
Decide(p) ==
    /\ pc[p] = "show" /\ cmd[p].wrote = 0
    /\ \/ \E l \in Successors(p, cmd[p], Existing(p)) :
             /\ cmd' = [cmd EXCEPT ![p].next = l]
             /\ Go(p, "push")
             /\ UNCHANGED told
       \/ /\ Successors(p, cmd[p], Existing(p)) = {}
          /\ End(p)
          /\ told' = IF /\ cmd[p].kind = "inspect"
                        /\ Existing(p) # NoLease
                        /\ portableOwnershipLeaseIsActive(Existing(p), cmd[p].now)
                        /\ Existing(p).leaseId = p
                     THEN [told EXCEPT ![p] = Shown(p)]
                     ELSE told
    /\ UNCHANGED <<clock, remote, cache>>

(* A bug: a push with --force.                                              *)
PushLeaseForced(p) ==
    /\ pc[p] = "push"
    /\ Len(leases) < MaxLeases
    /\ leases' = Append(leases, cmd[p].next)
    /\ cmd' = [cmd EXCEPT ![p].wrote = Len(leases'), ![p].next = NoLease]
    /\ Go(p, "head")
    /\ UNCHANGED <<clock, manifests, cache, told>>

(* publishCas: the head must still be the revision read, both when it is    *)
(* listed and when the push takes effect.  A head never comes back, so the *)
(* second test is the stronger one.                                        *)
PushLease(p) ==
    /\ pc[p] = "push"
    /\ \/ /\ Len(leases) = cmd[p].revision
          /\ Len(leases) < MaxLeases
          /\ leases' = Append(leases, cmd[p].next)
          /\ cmd' = [cmd EXCEPT ![p].wrote = Len(leases'), ![p].next = NoLease]
          /\ Go(p, "head")
       \/ /\ Len(leases) # cmd[p].revision
          /\ End(p)
          /\ UNCHANGED leases
    /\ UNCHANGED <<clock, manifests, cache, told>>

(* The read-back of what was published: only then is it an answer.          *)
VerifyLease(p) ==
    /\ pc[p] = "show" /\ cmd[p].wrote # 0
    /\ End(p)
    /\ told' = IF /\ cmd[p].kind \in {"claim", "renew"}
                  /\ cmd[p].revision = cmd[p].wrote
                  /\ Existing(p) = leases[cmd[p].wrote]
               THEN [told EXCEPT ![p] = cmd[p].wrote]
               ELSE told
    /\ UNCHANGED <<clock, remote, cache>>

---------------------------------------------------------------------------------
Tick ==
    /\ clock < MaxClock
    /\ clock' = clock + 1
    /\ UNCHANGED <<remote, cache, pc, cmd, told>>

Next ==
    \/ Tick
    \/ \E p \in Process :
          \/ \E g \in 1..MaxGeneration : StartCheckpoint(p, g)
          \/ \E g \in 1..MaxGeneration : StartHandoff(p, g)
          \/ \E t \in Ttl : StartClaim(p, t)
          \/ \E t \in Ttl : StartRenew(p, t)
          \/ StartInspect(p)
          \/ Abort(p)
          \/ ReadManifest(p)
          \/ ReadManifestHead(p)
          \/ PushManifest(p)
          \/ VerifyManifest(p)
          \/ ReadOwnershipHead(p)
          \/ Fetch(p)
          \/ Decide(p)
          \/ PushLease(p)
          \/ VerifyLease(p)

Spec == Init /\ [][Next]_vars

---------------------------------------------------------------------------------
(* Properties                                                              *)

Newest(s) == s[Len(s)]

(* A lease that is neither released nor expired is replaced by its own      *)
(* renewal or release only: acquirePortableOwnershipLease blocks, and what *)
(* the exact-revision push replaces is the lease that it has looked at.     *)
NoLiveTakeover ==
    [][leases # <<>> =>
          \/ ~portableOwnershipLeaseIsActive(Newest(leases), clock)
          \/ /\ Newest(leases').leaseId = Newest(leases).leaseId
             /\ Newest(leases').generation = Newest(leases).generation]_leases

(* A process that was told it may change the project, and whose lease has   *)
(* not expired, still owns the newest lease on the remote, whatever reads,  *)
(* aborted commands and lost acknowledgements came since.                   *)
HolderOwnsBranch ==
    \A p \in Process :
       told[p] # 0 /\ portableOwnershipLeaseIsActive(leases[told[p]], clock) =>
          Newest(leases).leaseId = p /\ Newest(leases).state = "ACTIVE"

(* The generation fences owners: along the ownership branch it never falls, *)
(* all leases of a generation are one owner's, each but the last of them is *)
(* active, and none shortens the one before.                                *)
GenerationFences ==
    \A i, j \in 1..Len(leases) : i < j =>
       \/ leases[i].generation < leases[j].generation
       \/ /\ leases[i].generation = leases[j].generation
          /\ leases[i].leaseId = leases[j].leaseId
          /\ leases[i].state = "ACTIVE"
          /\ leases[i].expiresAt <= leases[j].expiresAt

(* publishPreparedResumeHandoff gives a lease up only after its own         *)
(* checkpoint has become a commit of the state branch.                      *)
ReleaseFollowsCheckpoint ==
    [][leases' # leases => \A p \in Process :
          Newest(leases').state = "RELEASED" /\ Newest(leases').leaseId = p =>
             /\ cmd[p].base < Len(manifests)
             /\ manifests[cmd[p].base + 1] = [generation |-> cmd[p].generation, by |-> p]]_leases

(* Each checkpoint that is published carries the generation after that of   *)
(* the one it replaces: a stale writer is refused.                          *)
CheckpointsAdvance ==
    \A i \in 1..Len(manifests) : manifests[i].generation = i

(* Two processes that were both told to go on are never inside their leases *)
(* at the same time.                                                        *)
OneHolder ==
    \A p, q \in Process :
       /\ told[p] # 0 /\ portableOwnershipLeaseIsActive(leases[told[p]], clock)
       /\ told[q] # 0 /\ portableOwnershipLeaseIsActive(leases[told[q]], clock)
       => p = q

(* What the ownership branch is as a lease: the one it ends with, and those *)
(* who were told of a lease that has not run out.                          *)
Standing == IF leases = <<>> \/ Newest(leases).state = "RELEASED" THEN "OVER"
            ELSE IF clock < Newest(leases).expiresAt THEN "LIVE" ELSE "LAPSED"

Acting == {p \in Process : told[p] # 0 /\ portableOwnershipLeaseIsActive(leases[told[p]], clock)}

Ownership == INSTANCE FencedLease
             WITH Parties  <- Process,
                  NoParty  <- NoLease,
                  holder   <- IF leases = <<>> THEN NoLease ELSE Newest(leases).leaseId,
                  term     <- IF leases = <<>> THEN 0 ELSE Newest(leases).generation,
                  standing <- Standing,
                  acting   <- Acting

(* Reads of moving branches, exact-revision pushes and answers that get     *)
(* lost come to one lease with a fencing number: ownership passes to        *)
(* another only under a new generation and never while the lease is live,   *)
(* and only its owner goes on, and only while it is.                       *)
OwnershipIsFenced == Ownership!Spec
=================================================================================
