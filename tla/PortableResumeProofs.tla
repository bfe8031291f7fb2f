-------------------------- MODULE PortableResumeProofs --------------------------
(***************************************************************************)
(* Proofs about PortableResume, for any number of processes, any time and  *)
(* any number of commands.                                                 *)
(***************************************************************************)
EXTENDS PortableResume, TLAPS

---------------------------------------------------------------------------------
(* What a command may publish                                              *)

Publishing == {"claim", "renew", "handoff"}

(* Whatever lease a command publishes is its own, is well formed, and is a  *)
(* released one exactly when the command is a handoff.                     *)
LEMMA SuccessorIsOwn ==
    ASSUME NEW p \in Process, NEW c \in Commands, NEW e \in Leases \cup {NoLease},
           e # NoLease => e.acquiredAt < e.expiresAt,
           c.kind = "claim" => c.ttl > 0,
           NEW l \in Successors(p, c, e)
    PROVE  /\ l \in Leases
           /\ l.acquiredAt < l.expiresAt
           /\ l.leaseId = p
           /\ c.kind \in Publishing
           /\ l.state = "RELEASED" <=> c.kind = "handoff"
<1> USE ResumeAssumption DEF Publishing
<1>1. CASE c.kind = "claim" /\ l = acquirePortableOwnershipLease(p, c, e)
  BY <1>1 DEF acquirePortableOwnershipLease, Leases, Commands
<1>2. CASE c.kind = "renew" /\ renewable(p, c, e) /\ l = renewPortableOwnershipLease(c, e)
  BY <1>2 DEF renewPortableOwnershipLease, renewable, portableOwnershipLeaseIsActive,
              Leases, Commands
<1>3. CASE c.kind = "handoff" /\ releasable(p, c, e) /\ l = releasePortableOwnershipLease(c, e)
  BY <1>3 DEF releasePortableOwnershipLease, releasable, Leases, Commands
<1>4. QED
  BY <1>1, <1>2, <1>3 DEF Successors

(* What Append does to a branch.                                           *)
LEMMA Appended ==
    ASSUME NEW S, NEW s \in Seq(S), NEW e \in S
    PROVE  /\ Append(s, e) \in Seq(S)
           /\ Len(Append(s, e)) = Len(s) + 1
           /\ \A i \in 1..Len(s) : Append(s, e)[i] = s[i]
           /\ Append(s, e)[Len(s) + 1] = e
  OBVIOUS

---------------------------------------------------------------------------------
(* Types                                                                   *)

(* What a command c of p carries when its next step is s.                   *)
Carries(p, s, c) ==
    /\ c.kind \in {"claim", "renew"} => c.ttl > 0
    /\ c.kind \in {"checkpoint", "handoff"} => c.generation \in 1..MaxGeneration
    /\ s \in {"manifestHead", "manifestPush", "manifestVerify"} =>
          c.kind \in {"checkpoint", "handoff"}
    /\ s = "push" => /\ c.next \in Leases
                     /\ c.next.acquiredAt < c.next.expiresAt
                     /\ c.next.leaseId = p
                     /\ c.kind \in Publishing
                     /\ c.next.state = "RELEASED" <=> c.kind = "handoff"

(* The commits it has read or written exist.                               *)
CommitsExist(c) ==
    c.base <= Len(manifests) /\ c.revision <= Len(leases) /\ c.wrote <= Len(leases)

TypeInv ==
    /\ TypeOK
    /\ \A p \in Process : Carries(p, pc[p], cmd[p]) /\ CommitsExist(cmd[p])

(* The lease a process is shown is one of the branch.                       *)
LEMMA ExistingIsALease ==
    ASSUME TypeInv, NEW p \in Process
    PROVE  /\ Existing(p) \in Leases \cup {NoLease}
           /\ Existing(p) # NoLease => Existing(p).acquiredAt < Existing(p).expiresAt
           /\ Shown(p) \in 0..Len(leases)
<1>1. Shown(p) \in 0..Len(leases)
  BY ResumeAssumption DEF TypeInv, TypeOK, Shown
<1>2. QED
  BY <1>1 DEF Existing, TypeInv, TypeOK

(* A process without a command has nothing to carry.                       *)
LEMMA NoCommandCarries ==
    ASSUME NEW p \in Process
    PROVE  NoCommand \in Commands /\ Carries(p, "idle", NoCommand)
  BY DEF NoCommand, Commands, Carries

(* The type invariant holds at first ...                                   *)
LEMMA TypeInit == Init => TypeInv
<1> SUFFICES ASSUME Init PROVE TypeInv
  OBVIOUS
<1>1. TypeOK
  BY NoCommandCarries DEF Init, TypeOK, Steps
<1>2. ASSUME NEW p \in Process PROVE Carries(p, pc[p], cmd[p]) /\ CommitsExist(cmd[p])
  BY NoCommandCarries DEF Init, CommitsExist, NoCommand
<1>3. QED
  BY <1>1, <1>2 DEF TypeInv

(* Setting one number of a command.                                         *)
LEMMA CommandFields ==
    ASSUME NEW c \in Commands, NEW n \in Nat
    PROVE  /\ c.now \in Nat /\ c.ttl \in Nat /\ c.generation \in Nat /\ c.base \in Nat
           /\ c.revision \in Nat /\ c.wrote \in Nat
           /\ [c EXCEPT !.base = n] \in Commands
           /\ [c EXCEPT !.generation = n] \in Commands
           /\ [c EXCEPT !.revision = n] \in Commands
           /\ [c EXCEPT !.wrote = n, !.next = NoLease] \in Commands
  BY DEF Commands

(* A step of one process that leaves the branches alone or extends them.    *)
LEMMA StepOfOne ==
    ASSUME TypeInv, NEW p \in Process, NEW s \in Steps, NEW c \in Commands,
           pc' = [pc EXCEPT ![p] = s], cmd' = [cmd EXCEPT ![p] = c],
           Carries(p, s, c), UNCHANGED clock, c.base <= Len(manifests'),
           c.revision <= Len(leases'), c.wrote <= Len(leases'),
           manifests' \in Seq(Manifests), Len(manifests) <= Len(manifests'),
           leases' \in Seq(Leases), Len(leases) <= Len(leases'),
           \A i \in 1..Len(leases') : leases'[i].acquiredAt < leases'[i].expiresAt,
           cache' \in [Clone -> 0..Len(leases')], told' \in [Process -> 0..Len(leases')]
    PROVE  TypeInv'
<1>1. TypeOK'
  BY DEF TypeInv, TypeOK
<1>2. ASSUME NEW q \in Process
      PROVE  Carries(q, pc'[q], cmd'[q]) /\ CommitsExist(cmd[q])'
  <2>1. CASE q = p
    <3>1. pc'[q] = s /\ cmd'[q] = c
      BY <2>1 DEF TypeInv, TypeOK
    <3>2. QED
      BY <2>1, <3>1 DEF CommitsExist
  <2>2. CASE q # p
    <3>1. pc'[q] = pc[q] /\ cmd'[q] = cmd[q]
      BY <2>2 DEF TypeInv, TypeOK
    <3>2. /\ cmd[q].base \in Nat /\ cmd[q].revision \in Nat /\ cmd[q].wrote \in Nat
          /\ Len(manifests) \in Nat /\ Len(leases) \in Nat
      <4>1. cmd[q] \in Commands /\ manifests \in Seq(Manifests) /\ leases \in Seq(Leases)
        BY DEF TypeInv, TypeOK
      <4>2. cmd[q].base \in Nat /\ cmd[q].revision \in Nat /\ cmd[q].wrote \in Nat
        BY <4>1, CommandFields
      <4>3. QED
        BY <4>1, <4>2
    <3>3. /\ Len(manifests') \in Nat /\ Len(leases') \in Nat
          /\ Len(manifests) <= Len(manifests') /\ Len(leases) <= Len(leases')
      OBVIOUS
    <3>4. Carries(q, pc[q], cmd[q]) /\ CommitsExist(cmd[q])
      BY DEF TypeInv
    <3>5. /\ cmd[q].base <= Len(manifests')
          /\ cmd[q].revision <= Len(leases') /\ cmd[q].wrote <= Len(leases')
      BY <3>2, <3>3, <3>4, SMTT(60) DEF CommitsExist
    <3>6. CommitsExist(cmd[q])'
      BY <3>1, <3>5 DEF CommitsExist
    <3>7. QED
      BY <3>1, <3>4, <3>6
  <2>3. QED
    BY <2>1, <2>2
<1>3. QED
  BY <1>1, <1>2 DEF TypeInv

(* The same for a step that changes neither branch.                        *)
LEMMA LocalStep ==
    ASSUME TypeInv, NEW p \in Process, NEW s \in Steps, NEW c \in Commands,
           pc' = [pc EXCEPT ![p] = s], cmd' = [cmd EXCEPT ![p] = c],
           Carries(p, s, c), CommitsExist(c), UNCHANGED <<clock, remote>>,
           cache' \in [Clone -> 0..Len(leases)], told' \in [Process -> 0..Len(leases)]
    PROVE  TypeInv'
<1>1. manifests' = manifests /\ leases' = leases /\ clock' = clock
  BY DEF remote
<1>2. /\ c.base <= Len(manifests')
      /\ c.revision <= Len(leases') /\ c.wrote <= Len(leases')
  BY <1>1 DEF CommitsExist
<1>3. /\ manifests \in Seq(Manifests) /\ leases \in Seq(Leases)
      /\ \A i \in 1..Len(leases) : leases[i].acquiredAt < leases[i].expiresAt
      /\ Len(manifests) <= Len(manifests) /\ Len(leases) <= Len(leases)
  BY DEF TypeInv, TypeOK
<1>4. QED
  BY <1>1, <1>2, <1>3, StepOfOne

(* The end of a command.                                                    *)
LEMMA EndStep ==
    ASSUME TypeInv, NEW p \in Process, End(p), UNCHANGED <<clock, remote, cache>>,
           told' \in [Process -> 0..Len(leases)]
    PROVE  TypeInv'
<1>1. CommitsExist(NoCommand)
  BY DEF CommitsExist, NoCommand, TypeInv, TypeOK
<1>2. cache' \in [Clone -> 0..Len(leases)] /\ "idle" \in Steps
  BY DEF TypeInv, TypeOK, Steps
<1>3. QED
  BY <1>1, <1>2, NoCommandCarries, LocalStep DEF End

(* ... and every step of every process keeps it.                           *)
LEMMA TypeStep == TypeInv /\ [Next]_vars => TypeInv'
<1> SUFFICES ASSUME TypeInv, [Next]_vars PROVE TypeInv'
  OBVIOUS
<1>a. /\ cache \in [Clone -> 0..Len(leases)] /\ told \in [Process -> 0..Len(leases)]
      /\ clock \in Nat /\ manifests \in Seq(Manifests) /\ leases \in Seq(Leases)
      /\ cmd \in [Process -> Commands] /\ pc \in [Process -> Steps]
      /\ Len(leases) \in Nat /\ Len(manifests) \in Nat
  BY DEF TypeInv, TypeOK
<1>b. ASSUME NEW p \in Process
      PROVE  /\ cmd[p] \in Commands /\ Carries(p, pc[p], cmd[p])
             /\ CommitsExist(cmd[p])
             /\ cmd[p].base \in Nat /\ cmd[p].revision \in Nat /\ cmd[p].wrote \in Nat
  BY <1>a, CommandFields DEF TypeInv
<1>c. Len(leases) \in Nat /\ Len(manifests) \in Nat
  BY <1>a
<1>1. CASE Tick
  <2>1. TypeOK'
    BY <1>1, <1>a DEF Tick, remote, TypeInv, TypeOK
  <2>2. \A p \in Process : Carries(p, pc[p], cmd[p])' /\ CommitsExist(cmd[p])'
    BY <1>1 DEF Tick, remote, TypeInv, Carries, CommitsExist
  <2>3. QED
    BY <2>1, <2>2 DEF TypeInv
<1>2. ASSUME NEW p \in Process, NEW k \in Kinds, NEW t \in Nat, NEW g \in Nat,
             Start(p, k, t, g), told' = told \/ told' = [told EXCEPT ![p] = 0],
             k \in {"claim", "renew"} => t > 0,
             k \in {"checkpoint", "handoff"} => g \in 1..MaxGeneration
      PROVE  TypeInv'
  <2> DEFINE c == [NoCommand EXCEPT !.kind = k, !.now = clock, !.ttl = t, !.generation = g]
             s == IF k = "renew" THEN "head" ELSE "manifest"
  <2>1. c \in Commands /\ s \in Steps
    BY <1>a DEF NoCommand, Commands, Steps
  <2>2. Carries(p, s, c) /\ CommitsExist(c)
    BY <1>a, <1>2 DEF Carries, CommitsExist, NoCommand
  <2>3. told' \in [Process -> 0..Len(leases)]
    <3>1. 0 \in 0..Len(leases) /\ told \in [Process -> 0..Len(leases)]
      BY <1>a
    <3>2. QED
      BY <1>2, <3>1
  <2>4. QED
    BY <1>2, <1>a, <2>1, <2>2, <2>3, LocalStep DEF Start
<1>3. ASSUME NEW p \in Process, Abort(p) PROVE TypeInv'
  BY <1>3, <1>a, EndStep DEF Abort
<1>4. ASSUME NEW p \in Process, ReadManifest(p) PROVE TypeInv'
  <2>1. CASE End(p)
    BY <1>4, <2>1, <1>a, EndStep DEF ReadManifest
  <2>2. CASE /\ cmd[p].kind \in {"checkpoint", "handoff"}
             /\ cmd' = [cmd EXCEPT ![p].base = Len(manifests)] /\ Go(p, "manifestHead")
    <3> DEFINE c == [cmd[p] EXCEPT !.base = Len(manifests)]
    <3>1. c \in Commands /\ Carries(p, "manifestHead", c) /\ CommitsExist(c)
      <4>1. c \in Commands
        BY <1>b, <1>c, CommandFields
      <4>2. Carries(p, "manifestHead", c)
        BY <1>b, <2>2 DEF Carries, Commands
      <4>3. CommitsExist(c)
        BY <1>b, <1>c DEF Commands, CommitsExist
      <4>4. QED
        BY <4>1, <4>2, <4>3
    <3>2. cmd' = [cmd EXCEPT ![p] = c] /\ pc' = [pc EXCEPT ![p] = "manifestHead"]
      BY <2>2, <1>a DEF Go
    <3>3. QED
      BY <1>4, <1>a, <3>1, <3>2, LocalStep DEF ReadManifest, Steps
  <2>3. CASE /\ cmd[p].kind \in {"claim", "inspect"} /\ Len(manifests) # 0
             /\ cmd' = [cmd EXCEPT ![p].generation = Generation(Len(manifests))]
             /\ Go(p, "head")
    <3> DEFINE c == [cmd[p] EXCEPT !.generation = Generation(Len(manifests))]
    <3>1. Generation(Len(manifests)) \in Nat
      <4>1. manifests[Len(manifests)] \in Manifests
        BY <1>a, <2>3
      <4>2. QED
        BY <4>1, <2>3 DEF Generation, Manifests
    <3>2. c \in Commands /\ Carries(p, "head", c) /\ CommitsExist(c)
      <4>1. c \in Commands
        BY <1>b, <3>1, CommandFields
      <4>2. Carries(p, "head", c)
        BY <1>b, <2>3 DEF Carries, Commands
      <4>3. CommitsExist(c)
        BY <1>b DEF Commands, CommitsExist
      <4>4. QED
        BY <4>1, <4>2, <4>3
    <3>3. cmd' = [cmd EXCEPT ![p] = c] /\ pc' = [pc EXCEPT ![p] = "head"]
      BY <2>3, <1>a DEF Go
    <3>4. QED
      BY <1>4, <1>a, <3>2, <3>3, LocalStep DEF ReadManifest, Steps
  <2>4. QED
    BY <1>4, <2>1, <2>2, <2>3 DEF ReadManifest
<1>5. ASSUME NEW p \in Process, ReadManifestHead(p) PROVE TypeInv'
  <2>1. CASE End(p)
    BY <1>5, <2>1, <1>a, EndStep DEF ReadManifestHead
  <2>2. CASE cmd' = [cmd EXCEPT ![p].base = Len(manifests)] /\ Go(p, "manifestPush")
    <3> DEFINE c == [cmd[p] EXCEPT !.base = Len(manifests)]
    <3>1. c \in Commands /\ Carries(p, "manifestPush", c) /\ CommitsExist(c)
      <4>1. c \in Commands
        BY <1>b, <1>c, CommandFields
      <4>2. pc[p] = "manifestHead"
        BY <1>5 DEF ReadManifestHead
      <4>3. Carries(p, "manifestPush", c)
        BY <1>b, <4>2 DEF Carries, Commands
      <4>4. CommitsExist(c)
        BY <1>b, <1>c DEF Commands, CommitsExist
      <4>5. QED
        BY <4>1, <4>3, <4>4
    <3>2. cmd' = [cmd EXCEPT ![p] = c] /\ pc' = [pc EXCEPT ![p] = "manifestPush"]
      BY <2>2, <1>a DEF Go
    <3>3. QED
      BY <1>5, <1>a, <3>1, <3>2, LocalStep DEF ReadManifestHead, Steps
  <2>3. QED
    BY <1>5, <2>1, <2>2 DEF ReadManifestHead
<1>6. ASSUME NEW p \in Process, PushManifest(p) PROVE TypeInv'
  <2>1. CASE End(p) /\ UNCHANGED manifests
    BY <1>6, <2>1, <1>a, EndStep DEF PushManifest, remote
  <2>2. CASE /\ manifests' = Append(manifests, [generation |-> cmd[p].generation, by |-> p])
             /\ Go(p, "manifestVerify") /\ UNCHANGED cmd
    <3>1. [generation |-> cmd[p].generation, by |-> p] \in Manifests
      BY <1>6, <1>b DEF PushManifest, Manifests, Carries
    <3>2. manifests' \in Seq(Manifests) /\ Len(manifests') = Len(manifests) + 1
      BY <2>2, <3>1, <1>a, Appended
    <3>3. Carries(p, "manifestVerify", cmd[p])
      BY <1>b, <1>6 DEF Carries, PushManifest
    <3>4. leases' = leases /\ cache' = cache /\ told' = told /\ clock' = clock
      BY <1>6 DEF PushManifest
    <3>5. CommitsExist(cmd[p])'
      BY <1>a, <1>b, <2>2, <3>2, <3>4 DEF CommitsExist, Commands
    <3>6. /\ cmd' = [cmd EXCEPT ![p] = cmd[p]]
          /\ pc' = [pc EXCEPT ![p] = "manifestVerify"] /\ "manifestVerify" \in Steps
      BY <2>2, <1>a DEF Go, Steps
    <3>7. TypeOK'
      BY <3>2, <3>4, <3>6, <1>a DEF TypeInv, TypeOK
    <3>8. ASSUME NEW q \in Process
          PROVE  Carries(q, pc'[q], cmd'[q]) /\ CommitsExist(cmd[q])'
      <4>1. CommitsExist(cmd[q])'
        BY <1>a, <1>b, <2>2, <3>2, <3>4, SMTT(60) DEF CommitsExist, Commands
      <4>2. Carries(q, pc'[q], cmd'[q])
        BY <1>a, <1>b, <2>2, <3>3, <3>6
      <4>3. QED
        BY <4>1, <4>2
    <3>9. QED
      BY <3>7, <3>8 DEF TypeInv
  <2>3. QED
    BY <1>6, <2>1, <2>2 DEF PushManifest
<1>7. ASSUME NEW p \in Process, VerifyManifest(p) PROVE TypeInv'
  <2>1. CASE End(p)
    BY <1>7, <2>1, <1>a, EndStep DEF VerifyManifest
  <2>2. CASE Go(p, "head") /\ UNCHANGED cmd
    <3>1. Carries(p, "head", cmd[p]) /\ "head" \in Steps
      BY <1>b DEF Carries, Steps
    <3>2. cmd' = [cmd EXCEPT ![p] = cmd[p]] /\ pc' = [pc EXCEPT ![p] = "head"]
      BY <2>2, <1>a DEF Go
    <3>3. QED
      BY <1>7, <1>a, <1>b, <3>1, <3>2, LocalStep DEF VerifyManifest
  <2>3. QED
    BY <1>7, <2>1, <2>2 DEF VerifyManifest
<1>8. ASSUME NEW p \in Process, ReadOwnershipHead(p) PROVE TypeInv'
  <2> DEFINE c == [cmd[p] EXCEPT !.revision = Len(leases)]
             s == IF leases = <<>> THEN "show" ELSE "fetch"
  <2>1. c \in Commands /\ s \in Steps /\ Carries(p, s, c) /\ CommitsExist(c)
    <3>1. c \in Commands
      BY <1>b, <1>c, CommandFields
    <3>2. s \in Steps /\ Carries(p, s, c)
      BY <1>b DEF Carries, Commands, Steps
    <3>3. CommitsExist(c)
      BY <1>b, <1>c DEF Commands, CommitsExist
    <3>4. QED
      BY <3>1, <3>2, <3>3
  <2>2. cmd' = [cmd EXCEPT ![p] = c] /\ pc' = [pc EXCEPT ![p] = s]
    BY <1>8, <1>a DEF ReadOwnershipHead, Go
  <2>3. QED
    BY <1>8, <1>a, <2>1, <2>2, LocalStep DEF ReadOwnershipHead
<1>9. ASSUME NEW p \in Process, Fetch(p) PROVE TypeInv'
  <2>1. cache' \in [Clone -> 0..Len(leases)]
    <3>1. cmd[p].revision \in 0..Len(leases)
      BY <1>b, <1>c DEF CommitsExist
    <3>2. QED
      BY <1>9, <1>a, <3>1 DEF Fetch
  <2>2. Carries(p, "show", cmd[p]) /\ "show" \in Steps
    BY <1>b DEF Carries, Steps
  <2>3. cmd' = [cmd EXCEPT ![p] = cmd[p]] /\ pc' = [pc EXCEPT ![p] = "show"]
    BY <1>9, <1>a DEF Fetch, Go
  <2>4. QED
    BY <1>9, <1>a, <1>b, <2>1, <2>2, <2>3, LocalStep DEF Fetch
<1>10. ASSUME NEW p \in Process, Decide(p) PROVE TypeInv'
  <2>1. ASSUME NEW l \in Successors(p, cmd[p], Existing(p)),
               cmd' = [cmd EXCEPT ![p].next = l], Go(p, "push"), UNCHANGED told
        PROVE  TypeInv'
    <3> DEFINE c == [cmd[p] EXCEPT !.next = l]
    <3>1. /\ l \in Leases
          /\ l.acquiredAt < l.expiresAt
          /\ l.leaseId = p
          /\ cmd[p].kind \in Publishing
          /\ l.state = "RELEASED" <=> cmd[p].kind = "handoff"
      <4>1. cmd[p].kind = "claim" => cmd[p].ttl > 0
        BY <1>b DEF Carries
      <4>2. QED
        BY <4>1, <1>b, ExistingIsALease, SuccessorIsOwn
    <3>2. c \in Commands /\ CommitsExist(c)
      BY <1>b, <3>1 DEF Commands, CommitsExist
    <3>3. Carries(p, "push", c)
      BY <1>b, <3>1 DEF Commands, Carries
    <3>4. cmd' = [cmd EXCEPT ![p] = c] /\ pc' = [pc EXCEPT ![p] = "push"] /\ "push" \in Steps
      BY <2>1, <1>a DEF Go, Steps
    <3>5. QED
      BY <1>10, <1>a, <2>1, <3>2, <3>3, <3>4, LocalStep DEF Decide
  <2>2. CASE End(p) /\ (told' = told \/ told' = [told EXCEPT ![p] = Shown(p)])
    <3>1. told' \in [Process -> 0..Len(leases)]
      BY <2>2, <1>a, ExistingIsALease
    <3>2. QED
      BY <1>10, <2>2, <3>1, EndStep DEF Decide
  <2>3. QED
    BY <1>10, <2>1, <2>2 DEF Decide
<1>11. ASSUME NEW p \in Process, PushLease(p) PROVE TypeInv'
  <2>1. CASE End(p) /\ UNCHANGED leases
    BY <1>11, <2>1, <1>a, EndStep DEF PushLease, remote
  <2>2. CASE /\ leases' = Append(leases, cmd[p].next)
             /\ cmd' = [cmd EXCEPT ![p].wrote = Len(leases'), ![p].next = NoLease]
             /\ Go(p, "head")
    <3> DEFINE c == [cmd[p] EXCEPT !.wrote = Len(leases'), !.next = NoLease]
    <3>1. /\ cmd[p].next \in Leases
          /\ cmd[p].next.acquiredAt < cmd[p].next.expiresAt
      BY <1>11, <1>b DEF PushLease, Carries
    <3>2. /\ leases' \in Seq(Leases)
          /\ Len(leases') = Len(leases) + 1
          /\ \A i \in 1..Len(leases) : leases'[i] = leases[i]
          /\ leases'[Len(leases) + 1] = cmd[p].next
      BY <2>2, <3>1, <1>a, Appended
    <3>3. \A i \in 1..Len(leases') : leases'[i].acquiredAt < leases'[i].expiresAt
      <4>1. \A i \in 1..Len(leases) : leases[i].acquiredAt < leases[i].expiresAt
        BY DEF TypeInv, TypeOK
      <4>2. \A i \in 1..Len(leases') : i \in 1..Len(leases) \/ i = Len(leases) + 1
        BY <1>c, <3>2
      <4>3. QED
        BY <3>1, <3>2, <4>1, <4>2
    <3>4. c \in Commands
      <4>1. Len(leases') \in Nat
        BY <1>c, <3>2
      <4>2. QED
        BY <1>b, <4>1, CommandFields
    <3>5. Carries(p, "head", c)
      BY <1>b DEF Carries, Commands
    <3>6. manifests' = manifests /\ cache' = cache /\ told' = told /\ clock' = clock
      BY <1>11 DEF PushLease
    <3>7. c.base <= Len(manifests') /\ c.revision <= Len(leases') /\ c.wrote <= Len(leases')
      <4>1. c.base = cmd[p].base /\ c.revision = cmd[p].revision /\ c.wrote = Len(leases')
        BY <1>b DEF Commands
      <4>2. QED
        BY <1>b, <1>c, <3>2, <3>6, <4>1 DEF CommitsExist
    <3>8. cmd' = [cmd EXCEPT ![p] = c] /\ pc' = [pc EXCEPT ![p] = "head"] /\ "head" \in Steps
      BY <2>2, <1>a DEF Go, Steps
    <3>9. cache' \in [Clone -> 0..Len(leases')] /\ told' \in [Process -> 0..Len(leases')]
      BY <1>a, <3>2, <3>6
    <3>10. Len(manifests) <= Len(manifests') /\ Len(leases) <= Len(leases')
      BY <1>a, <3>2, <3>6
    <3>11. manifests' \in Seq(Manifests)
      BY <1>a, <3>6
    <3>12. QED
      BY <3>2, <3>3, <3>4, <3>5, <3>6, <3>7, <3>8, <3>9, <3>10, <3>11, StepOfOne
  <2>3. QED
    BY <1>11, <2>1, <2>2 DEF PushLease
<1>12. ASSUME NEW p \in Process, VerifyLease(p) PROVE TypeInv'
  <2>1. told' \in [Process -> 0..Len(leases)]
    BY <1>12, <1>a, <1>b DEF VerifyLease, CommitsExist, Commands
  <2>2. QED
    BY <1>12, <2>1, EndStep DEF VerifyLease
<1>13. CASE UNCHANGED vars
  BY <1>13 DEF vars, TypeInv, TypeOK, Carries, CommitsExist
<1>14. ASSUME NEW p \in Process,
              \/ \E g \in 1..MaxGeneration : StartCheckpoint(p, g)
              \/ \E g \in 1..MaxGeneration : StartHandoff(p, g)
              \/ \E t \in Ttl : StartClaim(p, t)
              \/ \E t \in Ttl : StartRenew(p, t)
              \/ StartInspect(p)
       PROVE  TypeInv'
  <2> USE ResumeAssumption DEF Kinds
  <2>a. 0 \in Nat /\ 1..MaxGeneration \subseteq Nat /\ \A t \in Ttl : t \in Nat /\ t > 0
    <3>1. Ttl \subseteq Nat \ {0} /\ MaxGeneration \in Nat
      OBVIOUS
    <3>2. QED
      BY <3>1
  <2>1. ASSUME NEW g \in 1..MaxGeneration, StartCheckpoint(p, g) PROVE TypeInv'
    BY <1>2, <2>a, <2>1 DEF StartCheckpoint
  <2>2. ASSUME NEW g \in 1..MaxGeneration, StartHandoff(p, g) PROVE TypeInv'
    BY <1>2, <2>a, <2>2 DEF StartHandoff
  <2>3. ASSUME NEW t \in Ttl, StartClaim(p, t) PROVE TypeInv'
    BY <1>2, <2>a, <2>3 DEF StartClaim
  <2>4. ASSUME NEW t \in Ttl, StartRenew(p, t) PROVE TypeInv'
    BY <1>2, <2>a, <2>4 DEF StartRenew
  <2>5. CASE StartInspect(p)
    BY <1>2, <2>a, <2>5 DEF StartInspect
  <2>6. QED
    BY <1>14, <2>1, <2>2, <2>3, <2>4, <2>5
<1>15. QED
  BY <1>1, <1>3, <1>4, <1>5, <1>6, <1>7, <1>8, <1>9, <1>10, <1>11, <1>12, <1>13, <1>14
  DEF Next

(* Every variable keeps its type: the commits a command builds on exist, and*)
(* a lease that is published expires after it was acquired.                *)
THEOREM TypeCorrect == Spec => []TypeOK
<1>1. TypeInv => TypeOK
  BY DEF TypeInv
<1>2. QED
  BY <1>1, TypeInit, TypeStep, PTL DEF Spec

---------------------------------------------------------------------------------
(* Who moves                                                               *)

StartStep(p) ==
    \/ \E g \in 1..MaxGeneration : StartCheckpoint(p, g)
    \/ \E g \in 1..MaxGeneration : StartHandoff(p, g)
    \/ \E t \in Ttl : StartClaim(p, t)
    \/ \E t \in Ttl : StartRenew(p, t)
    \/ StartInspect(p)

(* A command that starts has read nothing, and a handoff clears told.       *)
LEMMA Started ==
    ASSUME TypeInv, NEW p \in Process, StartStep(p)
    PROVE  /\ pc' = [pc EXCEPT ![p] = pc'[p]] /\ pc'[p] \in {"head", "manifest"}
           /\ cmd' = [cmd EXCEPT ![p] = cmd'[p]]
           /\ cmd'[p].now = clock /\ cmd'[p].revision = 0 /\ cmd'[p].wrote = 0
           /\ cmd'[p].kind = "handoff" => pc'[p] = "manifest"
           /\ told' = told \/ told' = [told EXCEPT ![p] = 0]
           /\ cmd'[p].kind = "handoff" => told'[p] = 0
           /\ UNCHANGED <<clock, remote, cache>>
<1>1. /\ cmd \in [Process -> Commands] /\ pc \in [Process -> Steps]
      /\ told \in [Process -> 0..Len(leases)]
  BY DEF TypeInv, TypeOK
<1>2. ASSUME NEW k \in Kinds, NEW t, NEW g, Start(p, k, t, g)
      PROVE  /\ pc' = [pc EXCEPT ![p] = pc'[p]] /\ pc'[p] \in {"head", "manifest"}
             /\ cmd' = [cmd EXCEPT ![p] = cmd'[p]]
             /\ cmd'[p].now = clock /\ cmd'[p].revision = 0 /\ cmd'[p].wrote = 0
             /\ cmd'[p].kind = k
             /\ k = "handoff" => pc'[p] = "manifest"
             /\ UNCHANGED <<clock, remote, cache>>
  BY <1>1, <1>2 DEF Start, NoCommand
<1>3. CASE \E g \in 1..MaxGeneration : StartCheckpoint(p, g)
  BY <1>2, <1>3 DEF StartCheckpoint, Kinds
<1>4. CASE \E g \in 1..MaxGeneration : StartHandoff(p, g)
  <2>1. told' = [told EXCEPT ![p] = 0]
    BY <1>4 DEF StartHandoff
  <2>2. told'[p] = 0
    BY <2>1, <1>1
  <2>3. QED
    BY <1>2, <1>4, <2>1, <2>2 DEF StartHandoff, Kinds
<1>5. CASE \E t \in Ttl : StartClaim(p, t)
  BY <1>2, <1>5 DEF StartClaim, Kinds
<1>6. CASE \E t \in Ttl : StartRenew(p, t)
  BY <1>2, <1>6 DEF StartRenew, Kinds
<1>7. CASE StartInspect(p)
  BY <1>2, <1>7 DEF StartInspect, Kinds
<1>8. QED
  BY <1>3, <1>4, <1>5, <1>6, <1>7 DEF StartStep

(* The ownership branch grows by one lease, that of the process that pushes.*)
Pushed(p) ==
    /\ PushLease(p)
    /\ leases' = Append(leases, cmd[p].next)
    /\ Len(leases) = cmd[p].revision
    /\ cmd' = [cmd EXCEPT ![p].wrote = Len(leases'), ![p].next = NoLease]
    /\ pc' = [pc EXCEPT ![p] = "head"]

(* The branch keeps the leases it had and ends with the one p carried.      *)
LEMMA PushedFacts ==
    ASSUME TypeInv, NEW p \in Process, Pushed(p)
    PROVE  /\ Len(leases) \in Nat /\ Len(leases') = Len(leases) + 1
           /\ \A i \in 1..Len(leases) : leases'[i] = leases[i] /\ leases[i] \in Leases
           /\ leases'[Len(leases) + 1] = cmd[p].next
           /\ Newest(leases') = cmd[p].next
           /\ cmd[p].next \in Leases /\ cmd[p].next.leaseId = p
           /\ cmd[p].kind \in Publishing
           /\ cmd[p].next.state = "RELEASED" <=> cmd[p].kind = "handoff"
<1>1. pc[p] = "push" /\ Carries(p, pc[p], cmd[p]) /\ leases \in Seq(Leases)
  BY DEF Pushed, PushLease, TypeInv, TypeOK
<1>2. /\ cmd[p].next \in Leases /\ cmd[p].next.leaseId = p /\ cmd[p].kind \in Publishing
      /\ cmd[p].next.state = "RELEASED" <=> cmd[p].kind = "handoff"
  BY <1>1 DEF Carries
<1>3. /\ Len(leases') = Len(leases) + 1
      /\ \A i \in 1..Len(leases) : leases'[i] = leases[i]
      /\ leases'[Len(leases) + 1] = cmd[p].next
  BY <1>1, <1>2, Appended DEF Pushed
<1>4. QED
  BY <1>1, <1>2, <1>3 DEF Newest

(* Nothing but such a push changes the ownership branch.                   *)
LEMMA OnlyPushes ==
    ASSUME TypeInv, [Next]_vars, leases' # leases
    PROVE  \E p \in Process : Pushed(p)
<1>1. ASSUME NEW p \in Process, PushLease(p) PROVE Pushed(p)
  BY <1>1 DEF PushLease, Pushed, Go
<1>2. PICK p \in Process : PushLease(p)
  BY DEF Next, vars, Tick, StartCheckpoint, StartHandoff, StartClaim, StartRenew,
         StartInspect, Start, Abort, ReadManifest, ReadManifestHead, PushManifest,
         VerifyManifest, ReadOwnershipHead, Fetch, Decide, VerifyLease, remote
<1>3. QED
  BY <1>1, <1>2

---------------------------------------------------------------------------------
(* A release follows its checkpoint                                        *)

(* The checkpoint of a command is a commit of the state branch.             *)
Published(p, c) ==
    /\ c.base < Len(manifests)
    /\ manifests[c.base + 1] = [generation |-> c.generation, by |-> p]

(* A command that has pushed its manifest, and a handoff that has gone on.  *)
HandoffInv ==
    \A p \in Process :
       \/ pc[p] = "manifestVerify"
       \/ cmd[p].kind = "handoff" /\ pc[p] \in {"head", "fetch", "show", "push"}
       => Published(p, cmd[p])

(* No step takes its checkpoint from a handoff that has gone on to release. *)
LEMMA HandoffStep == TypeInv /\ HandoffInv /\ [Next]_vars => HandoffInv'
<1> SUFFICES ASSUME TypeInv, HandoffInv, [Next]_vars, NEW q \in Process,
                    \/ pc'[q] = "manifestVerify"
                    \/ /\ cmd'[q].kind = "handoff"
                       /\ pc'[q] \in {"head", "fetch", "show", "push"}
             PROVE  Published(q, cmd[q])'
  BY DEF HandoffInv
<1>a. /\ cmd \in [Process -> Commands] /\ pc \in [Process -> Steps]
      /\ manifests \in Seq(Manifests) /\ Len(manifests) \in Nat
  BY DEF TypeInv, TypeOK
<1>b. cmd[q].base \in Nat /\ cmd[q].generation \in Nat /\ Carries(q, pc[q], cmd[q])
  BY <1>a DEF Commands, TypeInv
<1>c. ASSUME manifests' = manifests, cmd'[q].base = cmd[q].base,
             cmd'[q].generation = cmd[q].generation, Published(q, cmd[q])
      PROVE  Published(q, cmd[q])'
  BY <1>c DEF Published
<1>d. ASSUME pc'[q] = pc[q], cmd'[q] = cmd[q], manifests' = manifests
      PROVE  Published(q, cmd[q])'
  BY <1>c, <1>d DEF HandoffInv
<1>e. ASSUME NEW p \in Process, End(p), manifests' = manifests PROVE Published(q, cmd[q])'
  <2>1. CASE p = q
    BY <1>a, <1>e, <2>1 DEF End, NoCommand
  <2>2. CASE p # q
    BY <1>a, <1>d, <1>e, <2>2 DEF End
  <2>3. QED
    BY <2>1, <2>2
<1>f. ASSUME NEW p \in Process, NEW s, NEW c,
             pc' = [pc EXCEPT ![p] = s], cmd' = [cmd EXCEPT ![p] = c], manifests' = manifests,
             s = "manifestVerify" => pc[p] = "manifestVerify",
             c.kind = cmd[p].kind,
             c.kind = "handoff" /\ s \in {"head", "fetch", "show", "push"} =>
                /\ pc[p] \in {"manifestVerify", "head", "fetch", "show", "push"}
                /\ c.base = cmd[p].base /\ c.generation = cmd[p].generation,
             s # "manifestVerify"
      PROVE  Published(q, cmd[q])'
  <2>1. CASE p = q
    <3>1. pc'[q] = s /\ cmd'[q] = c
      BY <1>a, <1>f, <2>1
    <3>2. QED
      BY <1>c, <1>f, <2>1, <3>1 DEF HandoffInv
  <2>2. CASE p # q
    BY <1>a, <1>d, <1>f, <2>2
  <2>3. QED
    BY <2>1, <2>2
<1>1. CASE Tick \/ UNCHANGED vars
  BY <1>1, <1>d DEF Tick, vars, remote
<1>2. ASSUME NEW p \in Process, StartStep(p) PROVE Published(q, cmd[q])'
  <2>1. manifests' = manifests
    BY <1>2, Started DEF remote
  <2>2. CASE p = q
    BY <1>2, <2>2, Started
  <2>3. CASE p # q
    BY <1>2, <1>a, <1>d, <2>1, <2>3, Started
  <2>4. QED
    BY <2>2, <2>3
<1>3. ASSUME NEW p \in Process, Abort(p) \/ VerifyLease(p) PROVE Published(q, cmd[q])'
  BY <1>3, <1>e DEF Abort, VerifyLease, remote
<1>4. ASSUME NEW p \in Process, ReadManifest(p) PROVE Published(q, cmd[q])'
  <2>0. manifests' = manifests
    BY <1>4 DEF ReadManifest, remote
  <2>1. CASE End(p)
    BY <2>0, <2>1, <1>e
  <2>2. CASE cmd' = [cmd EXCEPT ![p].base = Len(manifests)] /\ Go(p, "manifestHead")
    BY <2>0, <2>2, <1>a, <1>d DEF Go
  <2>3. CASE /\ cmd[p].kind \in {"claim", "inspect"}
             /\ cmd' = [cmd EXCEPT ![p].generation = Generation(Len(manifests))]
             /\ Go(p, "head")
    <3>1. CASE p = q
      <4>1. cmd'[q].kind = cmd[q].kind /\ pc'[q] = "head"
        BY <1>a, <2>3, <3>1 DEF Go, Commands
      <4>2. QED
        BY <2>3, <3>1, <4>1
    <3>2. CASE p # q
      BY <1>a, <1>d, <2>0, <2>3, <3>2 DEF Go
    <3>3. QED
      BY <3>1, <3>2
  <2>4. QED
    BY <1>4, <2>1, <2>2, <2>3 DEF ReadManifest
<1>5. ASSUME NEW p \in Process, ReadManifestHead(p) PROVE Published(q, cmd[q])'
  <2>0. manifests' = manifests
    BY <1>5 DEF ReadManifestHead, remote
  <2>1. CASE End(p)
    BY <2>0, <2>1, <1>e
  <2>2. CASE cmd' = [cmd EXCEPT ![p].base = Len(manifests)] /\ Go(p, "manifestPush")
    BY <2>0, <2>2, <1>a, <1>d DEF Go
  <2>3. QED
    BY <1>5, <2>1, <2>2 DEF ReadManifestHead
<1>6. ASSUME NEW p \in Process, PushManifest(p) PROVE Published(q, cmd[q])'
  <2>1. CASE End(p) /\ UNCHANGED manifests
    BY <2>1, <1>e
  <2>2. CASE /\ Len(manifests) = cmd[p].base
             /\ manifests' = Append(manifests, [generation |-> cmd[p].generation, by |-> p])
             /\ Go(p, "manifestVerify") /\ UNCHANGED cmd
    <3>1. [generation |-> cmd[p].generation, by |-> p] \in Manifests
      BY <1>6 DEF PushManifest, Manifests, TypeInv, Carries
    <3>2. /\ Len(manifests') = Len(manifests) + 1
          /\ \A i \in 1..Len(manifests) : manifests'[i] = manifests[i]
          /\ manifests'[Len(manifests) + 1] = [generation |-> cmd[p].generation, by |-> p]
      BY <2>2, <3>1, <1>a, Appended
    <3>3. CASE p = q
      BY <1>a, <2>2, <3>2, <3>3 DEF Published
    <3>4. CASE p # q
      <4>1. pc'[q] = pc[q] /\ cmd'[q] = cmd[q]
        BY <1>a, <2>2, <3>4 DEF Go
      <4>2. Published(q, cmd[q])
        BY <4>1 DEF HandoffInv
      <4>3. cmd[q].base + 1 \in 1..Len(manifests)
        BY <1>a, <1>b, <4>2 DEF Published
      <4>4. QED
        BY <1>a, <1>b, <3>2, <4>1, <4>2, <4>3 DEF Published
    <3>5. QED
      BY <3>3, <3>4
  <2>3. QED
    BY <1>6, <2>1, <2>2 DEF PushManifest
<1>7. ASSUME NEW p \in Process, VerifyManifest(p) PROVE Published(q, cmd[q])'
  <2>0. manifests' = manifests /\ pc[p] = "manifestVerify"
    BY <1>7 DEF VerifyManifest, remote
  <2>1. CASE End(p)
    BY <2>0, <2>1, <1>e
  <2>2. CASE Go(p, "head") /\ UNCHANGED cmd
    <3>1. CASE p = q
      BY <1>c, <2>0, <2>2, <3>1 DEF HandoffInv
    <3>2. CASE p # q
      BY <1>a, <1>d, <2>0, <2>2, <3>2 DEF Go
    <3>3. QED
      BY <3>1, <3>2
  <2>3. QED
    BY <1>7, <2>1, <2>2 DEF VerifyManifest
<1>8. ASSUME NEW p \in Process, ReadOwnershipHead(p) PROVE Published(q, cmd[q])'
  <2> DEFINE c == [cmd[p] EXCEPT !.revision = Len(leases)]
             s == IF leases = <<>> THEN "show" ELSE "fetch"
  <2>1. cmd' = [cmd EXCEPT ![p] = c] /\ pc' = [pc EXCEPT ![p] = s] /\ manifests' = manifests
        /\ pc[p] = "head"
    BY <1>8, <1>a DEF ReadOwnershipHead, Go, remote
  <2>2. c.kind = cmd[p].kind /\ c.base = cmd[p].base /\ c.generation = cmd[p].generation
    BY <1>a DEF Commands
  <2>3. s # "manifestVerify"
    OBVIOUS
  <2> HIDE DEF c, s
  <2>4. QED
    BY <1>f, <2>1, <2>2, <2>3
<1>9. ASSUME NEW p \in Process, Fetch(p) PROVE Published(q, cmd[q])'
  <2>1. /\ cmd' = [cmd EXCEPT ![p] = cmd[p]] /\ pc' = [pc EXCEPT ![p] = "show"]
        /\ manifests' = manifests /\ pc[p] = "fetch"
    BY <1>9, <1>a DEF Fetch, Go, remote
  <2>2. QED
    BY <1>f, <2>1
<1>10. ASSUME NEW p \in Process, Decide(p) PROVE Published(q, cmd[q])'
  <2>0. manifests' = manifests /\ pc[p] = "show"
    BY <1>10 DEF Decide, remote
  <2>1. CASE End(p)
    BY <2>0, <2>1, <1>e
  <2>2. ASSUME NEW l, cmd' = [cmd EXCEPT ![p].next = l], Go(p, "push")
        PROVE  Published(q, cmd[q])'
    <3> DEFINE c == [cmd[p] EXCEPT !.next = l]
    <3>1. cmd' = [cmd EXCEPT ![p] = c] /\ pc' = [pc EXCEPT ![p] = "push"]
      BY <2>2, <1>a DEF Go
    <3>2. c.kind = cmd[p].kind /\ c.base = cmd[p].base /\ c.generation = cmd[p].generation
      BY <1>a DEF Commands
    <3> HIDE DEF c
    <3>3. QED
      BY <1>f, <2>0, <3>1, <3>2
  <2>3. QED
    BY <1>10, <2>1, <2>2 DEF Decide
<1>11. ASSUME NEW p \in Process, PushLease(p) PROVE Published(q, cmd[q])'
  <2>0. manifests' = manifests /\ pc[p] = "push"
    BY <1>11 DEF PushLease
  <2>1. CASE End(p)
    BY <2>0, <2>1, <1>e
  <2>2. CASE /\ cmd' = [cmd EXCEPT ![p].wrote = Len(leases'), ![p].next = NoLease]
             /\ Go(p, "head")
    <3>1. CASE p = q
      <4>1. /\ cmd'[q].kind = cmd[q].kind /\ cmd'[q].base = cmd[q].base
            /\ cmd'[q].generation = cmd[q].generation /\ pc'[q] = "head"
        BY <1>a, <2>2, <3>1 DEF Go, Commands
      <4>2. QED
        BY <1>c, <2>0, <3>1, <4>1 DEF HandoffInv
    <3>2. CASE p # q
      BY <1>a, <1>d, <2>0, <2>2, <3>2 DEF Go
    <3>3. QED
      BY <3>1, <3>2
  <2>3. QED
    BY <1>11, <2>1, <2>2 DEF PushLease
<1>12. QED
  BY <1>1, <1>2, <1>3, <1>4, <1>5, <1>6, <1>7, <1>8, <1>9, <1>10, <1>11
  DEF Next, StartStep

(* No handoff, under any interleaving, crash or lost acknowledgement, gives *)
(* a lease up before its own checkpoint is a commit of the state branch.    *)
THEOREM ReleasesFollowCheckpoints == Spec => ReleaseFollowsCheckpoint
<1>1. Init => TypeInv /\ HandoffInv
  BY TypeInit DEF Init, HandoffInv, NoCommand
<1>2. TypeInv /\ HandoffInv /\ [Next]_vars => (TypeInv /\ HandoffInv)'
  BY TypeStep, HandoffStep
<1>3. TypeInv /\ HandoffInv /\ [Next]_vars =>
        [leases' # leases => \A p \in Process :
           Newest(leases').state = "RELEASED" /\ Newest(leases').leaseId = p =>
             /\ cmd[p].base < Len(manifests)
             /\ manifests[cmd[p].base + 1] =
                   [generation |-> cmd[p].generation, by |-> p]]_leases
  <2> SUFFICES ASSUME TypeInv, HandoffInv, [Next]_vars, leases' # leases, NEW p \in Process,
                      Newest(leases').state = "RELEASED", Newest(leases').leaseId = p
               PROVE  Published(p, cmd[p])
    BY DEF Published
  <2>1. PICK r \in Process : Pushed(r)
    BY OnlyPushes
  <2>2. /\ Newest(leases') = cmd[r].next /\ cmd[r].next.leaseId = r
        /\ cmd[r].next.state = "RELEASED" <=> cmd[r].kind = "handoff"
    BY <2>1, PushedFacts
  <2>3. pc[r] = "push"
    BY <2>1 DEF Pushed, PushLease
  <2>4. r = p
    BY <2>2
  <2>5. cmd[r].kind = "handoff"
    BY <2>2
  <2>6. QED
    BY <2>3, <2>4, <2>5 DEF HandoffInv
<1>4. QED
  BY <1>1, <1>2, <1>3, PTL DEF Spec, ReleaseFollowsCheckpoint

---------------------------------------------------------------------------------
(* Owners, when no two processes share a clone                             *)

Distinct == \A p, q \in Process : CloneOf[p] = CloneOf[q] => p = q

(* The lease of commit i; there is none before the first.                  *)
At(i) == IF i = 0 THEN NoLease ELSE leases[i]

(* No lease of p from the i-th on is a released one.                        *)
NotReleasedFrom(p, i) ==
    \A k \in i..Len(leases) : ~(leases[k].state = "RELEASED" /\ leases[k].leaseId = p)

(* Lease i is one that p holds or has held and never gave up since.         *)
Keeps(p, i) == leases[i].leaseId = p /\ NotReleasedFrom(p, i)

(* What p has read, decided and been told is still so: its cache ref holds  *)
(* what it fetched, the lease it will publish succeeds the one it builds    *)
(* on, and the lease it was told of it still keeps.                         *)
Safe(p) ==
    /\ cmd[p].now <= clock
    /\ pc[p] = "show" /\ cmd[p].revision # 0 => cache[CloneOf[p]] = cmd[p].revision
    /\ pc[p] = "push" => cmd[p].next \in Successors(p, cmd[p], At(cmd[p].revision))
    /\ told[p] # 0 => Keeps(p, told[p])
    /\ cmd[p].kind = "handoff" => told[p] = 0
    /\ cmd[p].wrote # 0 /\ cmd[p].kind \in {"claim", "renew"} => Keeps(p, cmd[p].wrote)
    /\ cmd[p].kind = "inspect" /\ cmd[p].revision # 0 =>
          NotReleasedFrom(p, cmd[p].revision + 1)

(* Along the branch a lease ends by its release, by expiry, or goes on in   *)
(* those of the same owner.                                                *)
Succession ==
    \A i, j \in 1..Len(leases) : i < j =>
       \/ \E k \in i..j : leases[k].state = "RELEASED" /\ leases[k].leaseId = leases[i].leaseId
       \/ leases[i].expiresAt <= clock
       \/ leases[i].leaseId = leases[j].leaseId /\ leases[i].expiresAt <= leases[j].expiresAt

OwnerInv == (\A p \in Process : Safe(p)) /\ Succession /\ GenerationFences

(* What a published lease is to the one it replaces.                        *)
LEMMA SuccessorOfLease ==
    ASSUME NEW p \in Process, NEW c \in Commands, NEW e \in Leases,
           NEW l \in Successors(p, c, e)
    PROVE  \/ /\ ~portableOwnershipLeaseIsActive(e, c.now)
              /\ l.generation = e.generation + 1
              /\ l.state = "ACTIVE"
           \/ /\ e.state = "ACTIVE"
              /\ l.generation = e.generation
              /\ l.leaseId = e.leaseId
              /\ l.expiresAt >= e.expiresAt
<1> USE ResumeAssumption
<1>1. CASE /\ c.kind = "claim" /\ acquirable(c, e)
           /\ l = acquirePortableOwnershipLease(p, c, e)
  BY <1>1 DEF acquirePortableOwnershipLease, acquirable
<1>2. CASE renewable(p, c, e) /\ l = renewPortableOwnershipLease(c, e)
  BY <1>2 DEF renewPortableOwnershipLease, renewable, portableOwnershipLeaseIsActive,
              Leases, Commands
<1>3. CASE releasable(p, c, e) /\ l = releasePortableOwnershipLease(c, e)
  BY <1>3 DEF releasePortableOwnershipLease, releasable, Leases
<1>4. QED
  BY <1>1, <1>2, <1>3 DEF Successors

(* What a push does to the branch, beyond PushedFacts.                      *)
LEMMA PushedOver ==
    ASSUME TypeInv, OwnerInv, NEW p \in Process, Pushed(p), leases # <<>>
    PROVE  LET n == Len(leases)
               l == cmd[p].next
           IN  /\ n \in 1..n /\ leases[n] \in Leases
               /\ \/ /\ leases[n].state = "RELEASED" \/ leases[n].expiresAt <= clock
                     /\ l.generation = leases[n].generation + 1
                     /\ l.state = "ACTIVE"
                  \/ /\ leases[n].state = "ACTIVE"
                     /\ l.generation = leases[n].generation
                     /\ l.leaseId = leases[n].leaseId
                     /\ l.expiresAt >= leases[n].expiresAt
<1> DEFINE n == Len(leases)
<1>1. /\ leases \in Seq(Leases) /\ n \in 1..n /\ leases[n] \in Leases
      /\ cmd[p] \in Commands /\ clock \in Nat
  BY DEF TypeInv, TypeOK
<1>2. /\ cmd[p].next \in Successors(p, cmd[p], leases[n])
      /\ cmd[p].now <= clock /\ cmd[p].now \in Nat
  <2>1. pc[p] = "push" /\ cmd[p].revision = n
    BY DEF Pushed, PushLease
  <2>2. Safe(p)
    BY DEF OwnerInv
  <2>3. cmd[p].now \in Nat /\ n # 0
    BY <1>1 DEF Commands
  <2>4. QED
    BY <2>1, <2>2, <2>3 DEF Safe, At
<1>3. ~portableOwnershipLeaseIsActive(leases[n], cmd[p].now) =>
         leases[n].state = "RELEASED" \/ leases[n].expiresAt <= clock
  BY <1>1, <1>2, SMTT(60) DEF portableOwnershipLeaseIsActive, Leases
<1>4. QED
  BY <1>1, <1>2, <1>3, SuccessorOfLease

(* A push keeps the generations in order: it continues the last one, while  *)
(* that is active, or starts the next.                                     *)
LEMMA FencesStep ==
    ASSUME TypeInv, OwnerInv, NEW p \in Process, Pushed(p)
    PROVE  GenerationFences'
<1> DEFINE n == Len(leases)
           l == cmd[p].next
<1>1. /\ n \in Nat /\ Len(leases') = n + 1 /\ leases'[n + 1] = l
      /\ \A i \in 1..n : leases'[i] = leases[i] /\ leases[i] \in Leases
      /\ l \in Leases
  BY PushedFacts
<1>2. SUFFICES ASSUME NEW i \in 1..n + 1, NEW j \in 1..n + 1, i < j
               PROVE  \/ leases'[i].generation < leases'[j].generation
                      \/ /\ leases'[i].generation = leases'[j].generation
                         /\ leases'[i].leaseId = leases'[j].leaseId
                         /\ leases'[i].state = "ACTIVE"
                         /\ leases'[i].expiresAt <= leases'[j].expiresAt
  BY <1>1 DEF GenerationFences
<1>3. CASE j \in 1..n
  <2>1. i \in 1..n
    BY <1>1, <1>2, <1>3
  <2>2. QED
    BY <1>1, <1>2, <1>3, <2>1 DEF OwnerInv, GenerationFences
<1>4. CASE j = n + 1
  <2>1. i \in 1..n /\ leases # <<>>
    BY <1>1, <1>2, <1>4
  <2>2. \/ l.generation = leases[n].generation + 1
        \/ /\ leases[n].state = "ACTIVE"
           /\ l.generation = leases[n].generation
           /\ l.leaseId = leases[n].leaseId
           /\ l.expiresAt >= leases[n].expiresAt
    BY <2>1, PushedOver
  <2>3. n \in 1..n
    BY <1>1, <2>1
  <2>4. /\ leases[i].generation \in Nat /\ leases[n].generation \in Nat /\ l.generation \in Nat
        /\ leases[i].expiresAt \in Nat /\ leases[n].expiresAt \in Nat /\ l.expiresAt \in Nat
    BY <1>1, <2>1, <2>3 DEF Leases
  <2>5. CASE i = n
    BY <1>1, <1>4, <2>2, <2>3, <2>4, <2>5
  <2>6. CASE i # n
    <3>1. i < n
      BY <1>1, <2>1, <2>6
    <3>2. \/ leases[i].generation < leases[n].generation
          \/ /\ leases[i].generation = leases[n].generation
             /\ leases[i].leaseId = leases[n].leaseId
             /\ leases[i].state = "ACTIVE"
             /\ leases[i].expiresAt <= leases[n].expiresAt
      BY <2>1, <2>3, <3>1 DEF OwnerInv, GenerationFences
    <3>3. QED
      BY <1>1, <1>4, <2>1, <2>2, <2>4, <3>2, SMTT(60)
  <2>7. QED
    BY <2>5, <2>6
<1>5. QED
  BY <1>1, <1>2, <1>3, <1>4

(* A push keeps the succession: it continues the last lease, or that one    *)
(* has been released or has expired.                                       *)
LEMMA SuccessionStep ==
    ASSUME TypeInv, OwnerInv, NEW p \in Process, Pushed(p)
    PROVE  Succession'
<1> DEFINE n == Len(leases)
           l == cmd[p].next
           Released(s, i, j) == \E k \in i..j : /\ s[k].state = "RELEASED"
                                                /\ s[k].leaseId = s[i].leaseId
<1>1. /\ n \in Nat /\ Len(leases') = n + 1 /\ leases'[n + 1] = l
      /\ \A i \in 1..n : leases'[i] = leases[i] /\ leases[i] \in Leases
      /\ l \in Leases
  BY PushedFacts
<1>2. clock' = clock /\ clock \in Nat
  BY DEF Pushed, PushLease, TypeInv, TypeOK
<1>3. SUFFICES ASSUME NEW i \in 1..n + 1, NEW j \in 1..n + 1, i < j
               PROVE  \/ Released(leases', i, j)
                      \/ leases'[i].expiresAt <= clock
                      \/ /\ leases'[i].leaseId = leases'[j].leaseId
                         /\ leases'[i].expiresAt <= leases'[j].expiresAt
  BY <1>1, <1>2 DEF Succession
<1>4. CASE j \in 1..n
  <2>1. i \in 1..n /\ \A k \in i..j : k \in 1..n
    BY <1>1, <1>3, <1>4
  <2>2. \/ Released(leases, i, j)
        \/ leases[i].expiresAt <= clock
        \/ leases[i].leaseId = leases[j].leaseId /\ leases[i].expiresAt <= leases[j].expiresAt
    BY <1>3, <1>4, <2>1 DEF OwnerInv, Succession
  <2>3. Released(leases, i, j) => Released(leases', i, j)
    BY <1>1, <1>4, <2>1
  <2>4. QED
    BY <1>1, <1>4, <2>1, <2>2, <2>3
<1>5. CASE j = n + 1
  <2>1. i \in 1..n /\ n \in 1..n /\ leases # <<>> /\ i..n \subseteq i..j
        /\ i..n \subseteq 1..n /\ n \in i..n
    BY <1>1, <1>3, <1>5
  <2>2. \/ leases[n].state = "RELEASED" \/ leases[n].expiresAt <= clock
        \/ l.leaseId = leases[n].leaseId /\ l.expiresAt >= leases[n].expiresAt
    BY <2>1, PushedOver
  <2>3. /\ leases[i].expiresAt \in Nat /\ leases[n].expiresAt \in Nat /\ l.expiresAt \in Nat
        /\ leases[n].state \in {"ACTIVE", "RELEASED"}
    BY <1>1, <2>1 DEF Leases
  <2>4. Released(leases, i, n) => Released(leases', i, j)
    <3>1. \A k \in i..n : k \in i..j /\ leases'[k] = leases[k]
      BY <1>1, <2>1
    <3>2. leases'[i] = leases[i]
      BY <1>1, <2>1
    <3>3. QED
      BY <3>1, <3>2
  <2>5. \/ Released(leases, i, n)
        \/ leases[i].expiresAt <= clock
        \/ leases[i].leaseId = leases[n].leaseId /\ leases[i].expiresAt <= leases[n].expiresAt
    <3>1. CASE i = n
      BY <2>3, <3>1
    <3>2. CASE i # n
      <4>1. i < n
        BY <1>1, <2>1, <3>2
      <4>2. QED
        BY <2>1, <4>1 DEF OwnerInv, Succession
    <3>3. QED
      BY <3>1, <3>2
  <2>6. /\ leases[i].leaseId = leases[n].leaseId /\ leases[n].state = "RELEASED"
        => Released(leases, i, n)
    BY <2>1
  <2>7. leases'[i] = leases[i] /\ leases'[j] = l
    BY <1>1, <1>5, <2>1
  <2> HIDE DEF Released
  <2>8. QED
    BY <1>2, <2>2, <2>3, <2>4, <2>5, <2>6, <2>7, SMTT(60)
<1>6. QED
  BY <1>1, <1>3, <1>4, <1>5

(* A push takes nothing from a process that does not hand over by it.       *)
LEMMA NotReleasedKept ==
    ASSUME TypeInv, NEW r \in Process, Pushed(r), NEW q \in Process,
           r # q \/ cmd[r].kind # "handoff", NEW i \in Nat \ {0}, NotReleasedFrom(q, i)
    PROVE  NotReleasedFrom(q, i)'
<1> DEFINE n == Len(leases)
<1>1. /\ n \in Nat /\ Len(leases') = n + 1
      /\ \A k \in 1..n : leases'[k] = leases[k]
      /\ ~(leases'[n + 1].state = "RELEASED" /\ leases'[n + 1].leaseId = q)
  BY PushedFacts
<1>2. ASSUME NEW k \in i..n + 1
      PROVE  ~(leases'[k].state = "RELEASED" /\ leases'[k].leaseId = q)
  <2>1. (k \in i..n /\ k \in 1..n) \/ k = n + 1
    BY <1>1
  <2>2. QED
    BY <1>1, <2>1 DEF NotReleasedFrom
<1>3. QED
  BY <1>1, <1>2 DEF NotReleasedFrom

(* What is safe stays so when others move.                                  *)
LEMMA OthersStaySafe ==
    ASSUME TypeInv, OwnerInv, NEW q \in Process,
           cmd'[q] = cmd[q], pc'[q] = pc[q], told'[q] = told[q],
           cache'[CloneOf[q]] = cache[CloneOf[q]], clock <= clock', clock' \in Nat,
           leases' = leases \/ \E r \in Process : r # q /\ Pushed(r)
    PROVE  Safe(q)'
<1>1. /\ Safe(q)
      /\ cmd[q].now \in Nat /\ cmd[q].revision \in 0..Len(leases)
      /\ cmd[q].wrote \in 0..Len(leases) /\ told[q] \in 0..Len(leases)
      /\ clock \in Nat /\ Len(leases) \in Nat
  BY DEF OwnerInv, TypeInv, TypeOK, CommitsExist, Commands
<1>2. ASSUME NEW i \in Nat \ {0}, NotReleasedFrom(q, i)
      PROVE  NotReleasedFrom(q, i)'
  BY <1>2, NotReleasedKept DEF NotReleasedFrom
<1>3. \A i \in 1..Len(leases) : leases'[i] = leases[i]
  BY PushedFacts
<1>4. \A i \in 1..Len(leases) : Keeps(q, i) => Keeps(q, i)'
  BY <1>1, <1>2, <1>3 DEF Keeps
<1>5. At(cmd[q].revision)' = At(cmd[q].revision)
  BY <1>1, <1>3 DEF At
<1>6. cmd'[q].now <= clock'
  BY <1>1 DEF Safe
<1>7. cmd[q].kind = "inspect" /\ cmd[q].revision # 0 =>
         NotReleasedFrom(q, cmd[q].revision + 1)'
  BY <1>1, <1>2 DEF Safe
<1>8. QED
  BY <1>1, <1>4, <1>5, <1>6, <1>7 DEF Safe

(* A step of p that leaves the ownership branch alone.                      *)
LEMMA OwnerLocalStep ==
    ASSUME TypeInv, OwnerInv, NEW p \in Process,
           leases' = leases, clock' = clock, Safe(p)',
           \A q \in Process : q # p =>
              /\ cmd'[q] = cmd[q] /\ pc'[q] = pc[q] /\ told'[q] = told[q]
              /\ cache'[CloneOf[q]] = cache[CloneOf[q]]
    PROVE  OwnerInv'
<1>1. clock \in Nat /\ clock <= clock'
  BY DEF TypeInv, TypeOK
<1>2. \A q \in Process : Safe(q)'
  BY <1>1, OthersStaySafe
<1>3. Succession' /\ GenerationFences'
  BY DEF OwnerInv, Succession, GenerationFences
<1>4. QED
  BY <1>2, <1>3 DEF OwnerInv

(* The end of a command.                                                    *)
LEMMA OwnerEndStep ==
    ASSUME TypeInv, OwnerInv, NEW p \in Process, End(p), UNCHANGED <<clock, remote, cache>>,
           told' = [told EXCEPT ![p] = told'[p]], told'[p] # 0 => Keeps(p, told'[p])
    PROVE  OwnerInv'
<1>1. leases' = leases /\ clock' = clock /\ cache' = cache
  BY DEF remote
<1>2. /\ pc \in [Process -> Steps] /\ cmd \in [Process -> Commands] /\ clock \in Nat
      /\ told \in [Process -> 0..Len(leases)]
  BY DEF TypeInv, TypeOK
<1>3. pc'[p] = "idle" /\ cmd'[p] = NoCommand
  BY <1>2 DEF End
<1>4. told'[p] # 0 => Keeps(p, told[p])'
  BY <1>1 DEF Keeps, NotReleasedFrom
<1>5. /\ NoCommand.now <= clock /\ NoCommand.kind = "none" /\ NoCommand.wrote = 0
  BY <1>2 DEF NoCommand
<1>6. Safe(p)'
  BY <1>1, <1>3, <1>4, <1>5 DEF Safe
<1>7. QED
  BY <1>1, <1>2, <1>6, OwnerLocalStep DEF End

(* The next step of a command that is neither a read of leases nor a push.  *)
LEMMA OwnerGoStep ==
    ASSUME TypeInv, OwnerInv, NEW p \in Process, NEW s \in Steps \ {"show", "push"},
           NEW c \in Commands, pc' = [pc EXCEPT ![p] = s], cmd' = [cmd EXCEPT ![p] = c],
           UNCHANGED <<clock, remote, cache, told>>, c.now = cmd[p].now,
           c.kind = cmd[p].kind, c.revision = cmd[p].revision, c.wrote = cmd[p].wrote
    PROVE  OwnerInv'
<1>1. leases' = leases /\ clock' = clock /\ cache' = cache /\ told' = told
  BY DEF remote
<1>2. pc \in [Process -> Steps] /\ cmd \in [Process -> Commands]
  BY DEF TypeInv, TypeOK
<1>3. pc'[p] = s /\ cmd'[p] = c
  BY <1>2
<1>4. Safe(p)
  BY DEF OwnerInv
<1>5. Safe(p)'
  BY <1>1, <1>3, <1>4 DEF Safe, Keeps, NotReleasedFrom
<1>6. QED
  BY <1>1, <1>2, <1>5, OwnerLocalStep

(* A push.                                                                  *)
LEMMA OwnerPushStep ==
    ASSUME TypeInv, OwnerInv, NEW p \in Process, Pushed(p)
    PROVE  OwnerInv'
<1> DEFINE n == Len(leases)
           l == cmd[p].next
           c == [cmd[p] EXCEPT !.wrote = n + 1, !.next = NoLease]
<1>a. /\ pc \in [Process -> Steps] /\ cmd \in [Process -> Commands] /\ clock \in Nat
      /\ told \in [Process -> 0..n]
  BY DEF TypeInv, TypeOK
<1>b. /\ n \in Nat /\ Len(leases') = n + 1 /\ leases'[n + 1] = l
      /\ \A i \in 1..n : leases'[i] = leases[i]
      /\ l.leaseId = p /\ (l.state = "RELEASED" <=> cmd[p].kind = "handoff")
      /\ cmd[p].kind \in Publishing
  BY PushedFacts
<1>c. /\ cmd' = [cmd EXCEPT ![p] = c] /\ pc' = [pc EXCEPT ![p] = "head"]
      /\ clock' = clock /\ cache' = cache /\ told' = told
  BY <1>a, <1>b DEF Pushed, PushLease
<1>d. /\ c.now = cmd[p].now /\ c.kind = cmd[p].kind /\ c.wrote = n + 1
      /\ c.revision = cmd[p].revision
  BY <1>a DEF Commands
<1> HIDE DEF c
<1>1. Safe(p)'
  <2>1. pc'[p] = "head" /\ cmd'[p] = c /\ told'[p] = told[p]
    BY <1>a, <1>c
  <2>2. Safe(p)
    BY DEF OwnerInv
  <2>3. told[p] # 0 => Keeps(p, told[p])'
    <3> SUFFICES ASSUME told[p] # 0 PROVE Keeps(p, told[p])'
      OBVIOUS
    <3>1. told[p] \in 1..n /\ Keeps(p, told[p]) /\ cmd[p].kind # "handoff"
      BY <1>a, <1>b, <2>2 DEF Safe
    <3>2. NotReleasedFrom(p, told[p])'
      <4>1. told[p] \in Nat \ {0} /\ NotReleasedFrom(p, told[p])
        BY <3>1 DEF Keeps
      <4>2. \A i \in Nat \ {0} : NotReleasedFrom(p, i) =>
               \A k \in i..Len(leases') :
                  ~(leases'[k].state = "RELEASED" /\ leases'[k].leaseId = p)
        BY <3>1, NotReleasedKept DEF NotReleasedFrom
      <4>3. QED
        BY <1>c, <4>1, <4>2 DEF NotReleasedFrom
    <3>3. QED
      BY <1>b, <1>c, <3>1, <3>2 DEF Keeps
  <2>4. PICK m : m = n + 1
    OBVIOUS
  <2>5. cmd[p].kind # "handoff" => Keeps(p, m)'
    BY <1>b, <2>4 DEF Keeps, NotReleasedFrom
  <2>6. /\ cmd'[p].now <= clock' /\ cmd'[p].kind = cmd[p].kind /\ cmd'[p].wrote = m
        /\ cmd[p].kind # "inspect" /\ (cmd[p].kind = "handoff" => told'[p] = 0)
    BY <1>b, <1>c, <1>d, <2>1, <2>2, <2>4 DEF Safe, Publishing
  <2>7. cmd'[p].kind \in {"claim", "renew"} => Keeps(p, cmd[p].wrote)'
    BY <2>5, <2>6 DEF Keeps
  <2>8. told'[p] # 0 => Keeps(p, told[p])'
    BY <2>1, <2>3
  <2>9. QED
    BY <2>1, <2>6, <2>7, <2>8 DEF Safe
<1>2. \A q \in Process : q # p => Safe(q)'
  <2>1. clock <= clock' /\ clock' \in Nat
    BY <1>a, <1>c
  <2>2. QED
    BY <1>a, <1>c, <2>1, OthersStaySafe
<1>3. QED
  BY <1>1, <1>2, FencesStep, SuccessionStep DEF OwnerInv

(* Commands publish what their kind, time and lifetime say, whatever else   *)
(* they carry.                                                             *)
LEMMA SameSuccessors ==
    ASSUME NEW p, NEW c, NEW d, NEW e, d.kind = c.kind, d.now = c.now, d.ttl = c.ttl,
           d.generation = c.generation
    PROVE  Successors(p, c, e) = Successors(p, d, e)
<1>1. acquirable(c, e) <=> acquirable(d, e)
  BY DEF acquirable
<1>2. /\ acquirePortableOwnershipLease(p, c, e) = acquirePortableOwnershipLease(p, d, e)
      /\ renewPortableOwnershipLease(c, e) = renewPortableOwnershipLease(d, e)
      /\ releasePortableOwnershipLease(c, e) = releasePortableOwnershipLease(d, e)
  BY DEF acquirePortableOwnershipLease, renewPortableOwnershipLease,
         releasePortableOwnershipLease
<1>3. /\ renewable(p, c, e) <=> renewable(p, d, e)
      /\ releasable(p, c, e) <=> releasable(p, d, e)
  BY DEF renewable, releasable
<1>4. QED
  BY <1>1, <1>2, <1>3 DEF Successors

(* The decision of a command, on a lease that is the one it asked for.      *)
LEMMA OwnerDecideStep ==
    ASSUME TypeInv, OwnerInv, NEW p \in Process, Decide(p)
    PROVE  OwnerInv'
<1> DEFINE r == cmd[p].revision
<1>a. /\ pc \in [Process -> Steps] /\ cmd \in [Process -> Commands]
      /\ told \in [Process -> 0..Len(leases)] /\ Len(leases) \in Nat
      /\ leases \in Seq(Leases)
  BY DEF TypeInv, TypeOK
<1>b. leases' = leases /\ clock' = clock /\ cache' = cache /\ pc[p] = "show"
  BY DEF Decide, remote
<1>c. Safe(p) /\ r \in 0..Len(leases)
  BY <1>a DEF OwnerInv, TypeInv, CommitsExist, Commands
<1>d. Shown(p) = r /\ Existing(p) = At(r)
  BY <1>b, <1>c DEF Safe, Shown, Existing, At
<1>1. ASSUME NEW l \in Successors(p, cmd[p], Existing(p)),
             cmd' = [cmd EXCEPT ![p].next = l], Go(p, "push"), UNCHANGED told
      PROVE  OwnerInv'
  <2> DEFINE c == [cmd[p] EXCEPT !.next = l]
  <2>1. cmd' = [cmd EXCEPT ![p] = c] /\ pc' = [pc EXCEPT ![p] = "push"]
    BY <1>1, <1>a DEF Go
  <2>2. /\ c.kind = cmd[p].kind /\ c.now = cmd[p].now /\ c.ttl = cmd[p].ttl
        /\ c.generation = cmd[p].generation /\ c.revision = r /\ c.wrote = cmd[p].wrote
        /\ c.next = l
    BY <1>a DEF Commands
  <2>3. cmd'[p] = c /\ pc'[p] = "push"
    BY <1>a, <2>1
  <2> HIDE DEF c
  <2>4. l \in Successors(p, c, At(r))
    BY <1>1, <1>d, <2>2, SameSuccessors
  <2>5. At(cmd[p].revision)' = At(r)
    BY <1>b, <2>2, <2>3 DEF At
  <2>6. Safe(p)'
    BY <1>b, <1>c, <1>1, <2>2, <2>3, <2>4, <2>5 DEF Safe, Keeps, NotReleasedFrom
  <2>7. QED
    BY <1>a, <1>b, <1>1, <2>1, <2>6, OwnerLocalStep
<1>2. ASSUME End(p), UNCHANGED <<clock, remote, cache>>,
             told' = IF /\ cmd[p].kind = "inspect"
                        /\ Existing(p) # NoLease
                        /\ portableOwnershipLeaseIsActive(Existing(p), cmd[p].now)
                        /\ Existing(p).leaseId = p
                     THEN [told EXCEPT ![p] = Shown(p)]
                     ELSE told
      PROVE  OwnerInv'
  <2>1. CASE /\ cmd[p].kind = "inspect"
             /\ Existing(p) # NoLease
             /\ portableOwnershipLeaseIsActive(Existing(p), cmd[p].now)
             /\ Existing(p).leaseId = p
    <3>1. r # 0 /\ r \in 1..Len(leases) /\ Existing(p) = leases[r]
      BY <1>c, <1>d, <2>1 DEF At
    <3>2. leases[r].state = "ACTIVE" /\ leases[r].leaseId = p
      BY <2>1, <3>1 DEF portableOwnershipLeaseIsActive
    <3>3. NotReleasedFrom(p, r + 1)
      BY <1>c, <2>1, <3>1 DEF Safe
    <3>4. \A k \in r..Len(leases) : k = r \/ k \in r + 1..Len(leases)
      BY <1>a, <3>1
    <3>5. Keeps(p, r)
      BY <3>2, <3>3, <3>4 DEF Keeps, NotReleasedFrom
    <3>6. told' = [told EXCEPT ![p] = r] /\ told'[p] = r
      BY <1>2, <1>a, <1>d, <2>1
    <3>7. QED
      BY <1>2, <3>5, <3>6, OwnerEndStep
  <2>2. CASE told' = told
    <3>1. told[p] # 0 => Keeps(p, told[p])
      BY <1>c DEF Safe
    <3>2. told' = [told EXCEPT ![p] = told'[p]]
      BY <1>a, <2>2
    <3>3. QED
      BY <1>2, <2>2, <3>1, <3>2, OwnerEndStep
  <2>3. QED
    BY <1>2, <2>1, <2>2
<1>3. QED
  BY <1>1, <1>2 DEF Decide

(* The read-back tells p of the lease that it wrote.                        *)
LEMMA OwnerVerifyStep ==
    ASSUME TypeInv, OwnerInv, NEW p \in Process, VerifyLease(p)
    PROVE  OwnerInv'
<1>1. /\ told \in [Process -> 0..Len(leases)] /\ Safe(p)
      /\ End(p) /\ UNCHANGED <<clock, remote, cache>> /\ cmd[p].wrote # 0
  BY DEF TypeInv, TypeOK, OwnerInv, VerifyLease
<1>2. CASE /\ cmd[p].kind \in {"claim", "renew"}
           /\ told' = [told EXCEPT ![p] = cmd[p].wrote]
  <2>1. told'[p] = cmd[p].wrote /\ Keeps(p, cmd[p].wrote)
    BY <1>1, <1>2 DEF Safe
  <2>2. QED
    BY <1>1, <1>2, <2>1, OwnerEndStep
<1>3. CASE told' = told
  <2>1. told[p] # 0 => Keeps(p, told[p])
    BY <1>1 DEF Safe
  <2>2. told' = [told EXCEPT ![p] = told'[p]]
    BY <1>1, <1>3
  <2>3. QED
    BY <1>1, <1>3, <2>1, <2>2, OwnerEndStep
<1>4. QED
  BY <1>2, <1>3 DEF VerifyLease

(* The reads of the ownership branch: no other process uses the cache ref.  *)
LEMMA OwnerReadStep ==
    ASSUME Distinct, TypeInv, OwnerInv, NEW p \in Process,
           ReadOwnershipHead(p) \/ Fetch(p)
    PROVE  OwnerInv'
<1>a. /\ pc \in [Process -> Steps] /\ cmd \in [Process -> Commands]
      /\ cache \in [Clone -> 0..Len(leases)] /\ Len(leases) \in Nat /\ leases \in Seq(Leases)
      /\ CloneOf \in [Process -> Clone]
  BY ResumeAssumption DEF TypeInv, TypeOK
<1>b. leases' = leases /\ clock' = clock /\ told' = told /\ Safe(p)
  BY DEF ReadOwnershipHead, Fetch, remote, OwnerInv
<1>1. CASE ReadOwnershipHead(p)
  <2> DEFINE c == [cmd[p] EXCEPT !.revision = Len(leases)]
  <2>1. cmd' = [cmd EXCEPT ![p] = c] /\ cache' = cache
    BY <1>1, <1>a DEF ReadOwnershipHead
  <2>2. /\ cmd'[p].now = cmd[p].now /\ cmd'[p].kind = cmd[p].kind
        /\ cmd'[p].wrote = cmd[p].wrote /\ cmd'[p].revision = Len(leases)
    BY <1>a, <2>1 DEF Commands
  <2>3. pc' = [pc EXCEPT ![p] = pc'[p]] /\ pc'[p] # "push"
        /\ (leases # <<>> => pc'[p] # "show")
    BY <1>1, <1>a DEF ReadOwnershipHead, Go
  <2>4. NotReleasedFrom(p, cmd[p].revision + 1)'
    BY <1>a, <1>b, <2>2 DEF NotReleasedFrom
  <2>5. leases = <<>> => cmd'[p].revision = 0
    BY <2>2
  <2>6. Safe(p)'
    BY <1>b, <2>2, <2>3, <2>4, <2>5 DEF Safe, Keeps, NotReleasedFrom
  <2>7. QED
    BY <1>a, <1>b, <2>1, <2>3, <2>6, OwnerLocalStep
<1>2. CASE Fetch(p)
  <2>1. /\ cmd' = cmd /\ pc' = [pc EXCEPT ![p] = "show"]
        /\ cache' = [cache EXCEPT ![CloneOf[p]] = cmd[p].revision]
    BY <1>2 DEF Fetch, Go
  <2>2. pc'[p] = "show" /\ cache'[CloneOf[p]] = cmd[p].revision
    BY <1>a, <2>1
  <2>3. \A q \in Process : q # p => cache'[CloneOf[q]] = cache[CloneOf[q]]
    BY <1>a, <2>1 DEF Distinct
  <2>4. Safe(p)'
    BY <1>b, <2>1, <2>2 DEF Safe, Keeps, NotReleasedFrom
  <2>5. QED
    BY <1>a, <1>b, <2>1, <2>3, <2>4, OwnerLocalStep
<1>3. QED
  BY <1>1, <1>2

(* Time passes.                                                             *)
LEMMA OwnerTickStep ==
    ASSUME TypeInv, OwnerInv, Tick
    PROVE  OwnerInv'
<1>1. /\ leases' = leases /\ cache' = cache /\ pc' = pc /\ cmd' = cmd /\ told' = told
      /\ clock \in Nat /\ clock' = clock + 1 /\ leases \in Seq(Leases)
  BY DEF Tick, remote, TypeInv, TypeOK
<1>2. \A q \in Process : Safe(q)'
  BY <1>1, OthersStaySafe
<1>3. GenerationFences'
  BY <1>1 DEF OwnerInv, GenerationFences
<1>4. \A i \in 1..Len(leases) : leases[i].expiresAt \in Nat
  <2>1. \A i \in 1..Len(leases) : leases[i] \in Leases
    BY <1>1
  <2>2. \A l \in Leases : l.expiresAt \in Nat
    BY DEF Leases
  <2>3. QED
    BY <2>1, <2>2
<1>5. Succession'
  BY <1>1, <1>4 DEF OwnerInv, Succession
<1>6. QED
  BY <1>2, <1>3, <1>5 DEF OwnerInv

(* A command starts.                                                        *)
LEMMA OwnerStartStep ==
    ASSUME TypeInv, OwnerInv, NEW p \in Process, StartStep(p)
    PROVE  OwnerInv'
<1>1. /\ pc' = [pc EXCEPT ![p] = pc'[p]] /\ pc'[p] \in {"head", "manifest"}
      /\ cmd' = [cmd EXCEPT ![p] = cmd'[p]]
      /\ cmd'[p].now = clock /\ cmd'[p].revision = 0 /\ cmd'[p].wrote = 0
      /\ told' = told \/ told' = [told EXCEPT ![p] = 0]
      /\ cmd'[p].kind = "handoff" => told'[p] = 0
      /\ UNCHANGED <<clock, remote, cache>>
  BY Started
<1>2. /\ pc \in [Process -> Steps] /\ cmd \in [Process -> Commands] /\ clock \in Nat
      /\ told \in [Process -> 0..Len(leases)] /\ Safe(p)
      /\ leases' = leases /\ clock' = clock /\ cache' = cache
  BY <1>1 DEF TypeInv, TypeOK, OwnerInv, remote
<1>3. told'[p] # 0 => told'[p] = told[p]
  BY <1>1, <1>2
<1>4. told'[p] # 0 => Keeps(p, told[p])'
  BY <1>2, <1>3 DEF Safe, Keeps, NotReleasedFrom
<1>5. Safe(p)'
  BY <1>1, <1>2, <1>4 DEF Safe
<1>6. QED
  BY <1>1, <1>2, <1>5, OwnerLocalStep

(* Every step of every process keeps the owner invariant ...               *)
LEMMA OwnerStep == Distinct /\ TypeInv /\ OwnerInv /\ [Next]_vars => OwnerInv'
<1> SUFFICES ASSUME Distinct, TypeInv, OwnerInv, [Next]_vars PROVE OwnerInv'
  OBVIOUS
<1>a. /\ pc \in [Process -> Steps] /\ cmd \in [Process -> Commands]
      /\ told \in [Process -> 0..Len(leases)] /\ manifests \in Seq(Manifests)
      /\ Len(manifests) \in Nat
  BY DEF TypeInv, TypeOK
<1>b. \A p \in Process : Safe(p)
  BY DEF OwnerInv
<1>e. ASSUME NEW p \in Process, End(p), UNCHANGED <<clock, remote, cache, told>>
      PROVE  OwnerInv'
  <2>1. told' = [told EXCEPT ![p] = told'[p]] /\ (told'[p] # 0 => Keeps(p, told'[p]))
    BY <1>a, <1>b, <1>e DEF Safe
  <2>2. QED
    BY <1>e, <2>1, OwnerEndStep
<1>m. ASSUME NEW p \in Process, End(p), UNCHANGED <<clock, leases, cache, told>>
      PROVE  OwnerInv'
  <2>1. /\ pc'[p] = "idle" /\ cmd'[p] = NoCommand
        /\ \A q \in Process : q # p => pc'[q] = pc[q] /\ cmd'[q] = cmd[q]
    BY <1>a, <1>m DEF End
  <2>2. NoCommand.now = 0 /\ NoCommand.kind = "none" /\ NoCommand.wrote = 0
    BY DEF NoCommand
  <2>3. clock \in Nat
    BY DEF TypeInv, TypeOK
  <2>4. Safe(p)'
    BY <1>b, <1>m, <2>1, <2>2, <2>3 DEF Safe, Keeps, NotReleasedFrom
  <2>5. QED
    BY <1>m, <2>1, <2>4, OwnerLocalStep
<1>1. ASSUME NEW p \in Process, ReadManifest(p) PROVE OwnerInv'
  <2>1. CASE End(p)
    BY <1>1, <1>e, <2>1 DEF ReadManifest
  <2>2. CASE /\ cmd' = [cmd EXCEPT ![p].base = Len(manifests)]
             /\ Go(p, "manifestHead")
    <3> DEFINE c == [cmd[p] EXCEPT !.base = Len(manifests)]
    <3>1. /\ c \in Commands /\ c.now = cmd[p].now /\ c.kind = cmd[p].kind
          /\ c.revision = cmd[p].revision /\ c.wrote = cmd[p].wrote
      BY <1>a DEF Commands
    <3>2. cmd' = [cmd EXCEPT ![p] = c] /\ pc' = [pc EXCEPT ![p] = "manifestHead"]
      BY <1>a, <2>2 DEF Go
    <3> HIDE DEF c
    <3>3. QED
      BY <1>1, <3>1, <3>2, OwnerGoStep DEF ReadManifest, Steps
  <2>3. CASE /\ cmd' = [cmd EXCEPT ![p].generation = Generation(Len(manifests))]
             /\ Len(manifests) # 0
             /\ Go(p, "head")
    <3> DEFINE c == [cmd[p] EXCEPT !.generation = Generation(Len(manifests))]
    <3>1. Generation(Len(manifests)) \in Nat
      <4>1. manifests[Len(manifests)] \in Manifests
        BY <1>a, <2>3
      <4>2. QED
        BY <4>1, <2>3 DEF Generation, Manifests
    <3>2. /\ c \in Commands /\ c.now = cmd[p].now /\ c.kind = cmd[p].kind
          /\ c.revision = cmd[p].revision /\ c.wrote = cmd[p].wrote
      BY <1>a, <3>1 DEF Commands
    <3>3. cmd' = [cmd EXCEPT ![p] = c] /\ pc' = [pc EXCEPT ![p] = "head"]
      BY <1>a, <2>3 DEF Go
    <3> HIDE DEF c
    <3>4. QED
      BY <1>1, <3>2, <3>3, OwnerGoStep DEF ReadManifest, Steps
  <2>4. QED
    BY <1>1, <2>1, <2>2, <2>3 DEF ReadManifest
<1>2. ASSUME NEW p \in Process, ReadManifestHead(p) PROVE OwnerInv'
  <2>1. CASE End(p)
    BY <1>2, <1>e, <2>1 DEF ReadManifestHead
  <2>2. CASE cmd' = [cmd EXCEPT ![p].base = Len(manifests)] /\ Go(p, "manifestPush")
    <3> DEFINE c == [cmd[p] EXCEPT !.base = Len(manifests)]
    <3>1. /\ c \in Commands /\ c.now = cmd[p].now /\ c.kind = cmd[p].kind
          /\ c.revision = cmd[p].revision /\ c.wrote = cmd[p].wrote
      BY <1>a DEF Commands
    <3>2. cmd' = [cmd EXCEPT ![p] = c] /\ pc' = [pc EXCEPT ![p] = "manifestPush"]
      BY <1>a, <2>2 DEF Go
    <3> HIDE DEF c
    <3>3. QED
      BY <1>2, <3>1, <3>2, OwnerGoStep DEF ReadManifestHead, Steps
  <2>3. QED
    BY <1>2, <2>1, <2>2 DEF ReadManifestHead
<1>3. ASSUME NEW p \in Process, PushManifest(p) PROVE OwnerInv'
  <2>1. CASE End(p)
    BY <1>3, <1>m, <2>1 DEF PushManifest
  <2>2. CASE Go(p, "manifestVerify") /\ UNCHANGED cmd
    <3>1. /\ pc'[p] = "manifestVerify" /\ cmd' = cmd /\ leases' = leases
          /\ clock' = clock /\ cache' = cache /\ told' = told
          /\ \A q \in Process : q # p => pc'[q] = pc[q]
      BY <1>3, <1>a, <2>2 DEF Go, PushManifest
    <3>2. Safe(p)'
      BY <1>b, <3>1 DEF Safe, Keeps, NotReleasedFrom
    <3>3. QED
      BY <3>1, <3>2, OwnerLocalStep
  <2>3. QED
    BY <1>3, <2>1, <2>2 DEF PushManifest
<1>4. ASSUME NEW p \in Process, VerifyManifest(p) PROVE OwnerInv'
  <2>1. CASE End(p)
    BY <1>4, <1>e, <2>1 DEF VerifyManifest
  <2>2. CASE Go(p, "head") /\ UNCHANGED cmd
    <3>1. /\ cmd' = [cmd EXCEPT ![p] = cmd[p]] /\ pc' = [pc EXCEPT ![p] = "head"]
          /\ cmd[p] \in Commands
      BY <1>a, <2>2 DEF Go
    <3>2. QED
      BY <1>4, <3>1, OwnerGoStep DEF VerifyManifest, Steps
  <2>3. QED
    BY <1>4, <2>1, <2>2 DEF VerifyManifest
<1>5. ASSUME NEW p \in Process, PushLease(p) PROVE OwnerInv'
  <2>1. CASE End(p) /\ UNCHANGED leases
    BY <1>5, <1>m, <2>1 DEF PushLease
  <2>2. CASE Pushed(p)
    BY <2>2, OwnerPushStep
  <2>3. QED
    BY <1>5, <2>1, <2>2 DEF PushLease, Pushed, Go
<1>6. ASSUME NEW p \in Process, Abort(p) PROVE OwnerInv'
  BY <1>6, <1>e DEF Abort
<1>7. CASE UNCHANGED vars
  BY <1>7 DEF vars, OwnerInv, Safe, Keeps, NotReleasedFrom, At, Succession, GenerationFences
<1>8. QED
  BY <1>1, <1>2, <1>3, <1>4, <1>5, <1>6, <1>7, OwnerStartStep, OwnerReadStep,
     OwnerDecideStep, OwnerVerifyStep, OwnerTickStep DEF Next, StartStep

(* ... which holds at first.                                                *)
LEMMA OwnerInit == Init => OwnerInv
<1> SUFFICES ASSUME Init PROVE OwnerInv
  OBVIOUS
<1>1. leases = <<>> /\ clock = 0
  BY DEF Init
<1>2. ASSUME NEW p \in Process PROVE Safe(p)
  <2>1. pc[p] = "idle" /\ cmd[p] = NoCommand /\ told[p] = 0
    BY DEF Init
  <2>2. cmd[p].now = 0 /\ cmd[p].kind = "none" /\ cmd[p].wrote = 0
    BY <2>1 DEF NoCommand
  <2>3. QED
    BY <1>1, <2>1, <2>2 DEF Safe
<1>3. Succession /\ GenerationFences
  BY <1>1 DEF Succession, GenerationFences
<1>4. QED
  BY <1>2, <1>3 DEF OwnerInv

(* On machines that share no clone, for any number of processes, lifetimes, *)
(* commands and lost answers: a lease that is live on the remote is replaced*)
(* by its own renewal or release only.                                     *)
THEOREM LiveLeasesAreNotTakenOver == ASSUME Distinct PROVE Spec => NoLiveTakeover
<1>1. Init => TypeInv /\ OwnerInv
  BY TypeInit, OwnerInit
<1>2. TypeInv /\ OwnerInv /\ [Next]_vars => (TypeInv /\ OwnerInv)'
  BY TypeStep, OwnerStep
<1>3. TypeInv /\ OwnerInv /\ [Next]_vars =>
        [leases # <<>> =>
          \/ ~portableOwnershipLeaseIsActive(Newest(leases), clock)
          \/ /\ Newest(leases').leaseId = Newest(leases).leaseId
             /\ Newest(leases').generation = Newest(leases).generation]_leases
  <2> SUFFICES ASSUME TypeInv, OwnerInv, [Next]_vars, leases' # leases, leases # <<>>,
                      portableOwnershipLeaseIsActive(Newest(leases), clock)
               PROVE  /\ Newest(leases').leaseId = Newest(leases).leaseId
                      /\ Newest(leases').generation = Newest(leases).generation
    OBVIOUS
  <2>1. PICK p \in Process : Pushed(p)
    BY OnlyPushes
  <2>2. clock \in Nat /\ Newest(leases') = cmd[p].next /\ Newest(leases) = leases[Len(leases)]
    BY <2>1, PushedFacts DEF Newest, TypeInv, TypeOK
  <2>3. Newest(leases) \in Leases
    BY <2>1, <2>2, PushedOver
  <2>4. Newest(leases).state # "RELEASED" /\ ~(Newest(leases).expiresAt <= clock)
    BY <2>2, <2>3 DEF portableOwnershipLeaseIsActive, Leases
  <2>5. QED
    BY <2>1, <2>2, <2>4, PushedOver
<1>4. QED
  BY <1>1, <1>2, <1>3, PTL DEF Spec, NoLiveTakeover

(* On such machines the generation fences owners, whatever happens.         *)
THEOREM GenerationsFence == ASSUME Distinct PROVE Spec => []GenerationFences
<1>1. Init => TypeInv /\ OwnerInv
  BY TypeInit, OwnerInit
<1>2. TypeInv /\ OwnerInv /\ [Next]_vars => (TypeInv /\ OwnerInv)'
  BY TypeStep, OwnerStep
<1>3. OwnerInv => GenerationFences
  BY DEF OwnerInv
<1>4. QED
  BY <1>1, <1>2, <1>3, PTL DEF Spec

(* Whoever may go on by its own answer still owns the branch: its lease has *)
(* not expired and was not given up, so by Succession the newest is its own *)
(* and has not expired either.                                             *)
LEMMA HolderHasNewest ==
    ASSUME TypeInv, OwnerInv, NEW p \in Process, told[p] # 0,
           portableOwnershipLeaseIsActive(leases[told[p]], clock)
    PROVE  /\ leases # <<>>
           /\ Newest(leases).leaseId = p
           /\ Newest(leases).state = "ACTIVE"
           /\ clock < Newest(leases).expiresAt
<1> DEFINE i == told[p]
           n == Len(leases)
<1>1. i \in 1..n /\ n \in 1..n /\ leases \in Seq(Leases) /\ clock \in Nat
  BY DEF TypeInv, TypeOK
<1>2. leases[i] \in Leases /\ leases[n] \in Leases /\ Newest(leases) = leases[n]
  BY <1>1 DEF Newest
<1>3. leases[i].leaseId = p /\ NotReleasedFrom(p, i)
  BY DEF OwnerInv, Safe, Keeps
<1>4. ~(leases[i].expiresAt <= clock)
  <2>1. leases[i].expiresAt \in Nat /\ clock \in Nat
    BY <1>1, <1>2 DEF Leases
  <2>2. QED
    BY <2>1 DEF portableOwnershipLeaseIsActive
<1>5. leases[n].leaseId = p /\ leases[i].expiresAt <= leases[n].expiresAt
  <2>1. CASE i = n
    <3>1. leases[i].expiresAt \in Nat
      BY <1>2 DEF Leases
    <3>2. QED
      BY <1>3, <2>1, <3>1
  <2>2. CASE i # n
    <3>1. i < n
      BY <1>1, <2>2
    <3>2. ~\E k \in i..n : leases[k].state = "RELEASED" /\ leases[k].leaseId = leases[i].leaseId
      BY <1>3 DEF NotReleasedFrom
    <3>3. QED
      BY <1>1, <1>3, <1>4, <3>1, <3>2 DEF OwnerInv, Succession
  <2>3. QED
    BY <2>1, <2>2
<1>6. leases[n].state # "RELEASED"
  BY <1>1, <1>3, <1>5 DEF NotReleasedFrom
<1>7. /\ leases[n].state \in {"ACTIVE", "RELEASED"}
      /\ leases[i].expiresAt \in Nat /\ leases[n].expiresAt \in Nat
  BY <1>2 DEF Leases
<1>8. clock < leases[n].expiresAt
  BY <1>1, <1>4, <1>5, <1>7
<1>9. QED
  BY <1>1, <1>2, <1>5, <1>6, <1>7, <1>8

LEMMA HolderIsNewest == TypeInv /\ OwnerInv => HolderOwnsBranch
  BY HolderHasNewest DEF HolderOwnsBranch

(* On machines that share no clone, a process that was told it may go on,   *)
(* and whose lease has not expired, owns the newest lease on the remote.    *)
THEOREM HoldersOwnTheBranch == ASSUME Distinct PROVE Spec => []HolderOwnsBranch
<1>1. Init => TypeInv /\ OwnerInv
  BY TypeInit, OwnerInit
<1>2. TypeInv /\ OwnerInv /\ [Next]_vars => (TypeInv /\ OwnerInv)'
  BY TypeStep, OwnerStep
<1>3. QED
  BY <1>1, <1>2, HolderIsNewest, PTL DEF Spec

(* So no two processes go on at the same time: the claim that the commands  *)
(* make for themselves.                                                    *)
THEOREM OneHolderAtATime == ASSUME Distinct PROVE Spec => []OneHolder
<1>1. HolderOwnsBranch => OneHolder
  BY DEF HolderOwnsBranch, OneHolder
<1>2. QED
  BY <1>1, HoldersOwnTheBranch, PTL

---------------------------------------------------------------------------------
(* The ownership branch is a lease with a fencing number                   *)

(* Those who may go on are those who may act.                               *)
OnlyOwnerActs == Acting \subseteq Ownership!MayAct

LEMMA OwnerActs == TypeInv /\ OwnerInv => OnlyOwnerActs
<1> SUFFICES ASSUME TypeInv, OwnerInv, NEW p \in Acting PROVE p \in Ownership!MayAct
  BY DEF OnlyOwnerActs
<1>1. /\ leases # <<>> /\ Newest(leases).leaseId = p /\ Newest(leases).state = "ACTIVE"
      /\ clock < Newest(leases).expiresAt
  BY HolderHasNewest DEF Acting
<1>2. Standing = "LIVE"
  BY <1>1 DEF Standing
<1>3. QED
  BY <1>1, <1>2 DEF Ownership!MayAct

(* What is first pushed to the empty branch.                                *)
LEMMA PushedFirst ==
    ASSUME TypeInv, OwnerInv, NEW p \in Process, Pushed(p), leases = <<>>
    PROVE  cmd[p].next.generation = 1 /\ cmd[p].next.state = "ACTIVE"
<1>1. pc[p] = "push" /\ cmd[p].revision = 0 /\ Safe(p)
  BY DEF Pushed, PushLease, OwnerInv
<1>2. cmd[p].next \in Successors(p, cmd[p], NoLease)
  BY <1>1 DEF Safe, At
<1>3. cmd[p].next = acquirePortableOwnershipLease(p, cmd[p], NoLease)
  BY <1>2 DEF Successors, renewable, releasable
<1>4. QED
  BY <1>3 DEF acquirePortableOwnershipLease

(* Machines that share no clone, and read, decide and push in steps of      *)
(* their own, implement a lease with a fencing number.                     *)
THEOREM OwnershipIsFencedHolds == ASSUME Distinct PROVE Spec => OwnershipIsFenced
<1> DEFINE Holder == IF leases = <<>> THEN NoLease ELSE Newest(leases).leaseId
           Term == IF leases = <<>> THEN 0 ELSE Newest(leases).generation
<1>1. Init => TypeInv /\ OwnerInv
  BY TypeInit, OwnerInit
<1>2. TypeInv /\ OwnerInv /\ [Next]_vars => (TypeInv /\ OwnerInv)'
  BY TypeStep, OwnerStep
<1>3. Init => Ownership!Init
  BY DEF Init, Ownership!Init, Standing, Acting
<1>4. ASSUME TypeInv, OwnerInv, OnlyOwnerActs', [Next]_vars
      PROVE  [Ownership!Next]_Ownership!vars
  <2>1. Acting' \subseteq Ownership!MayAct'
    BY <1>4 DEF OnlyOwnerActs
  <2>2. CASE leases' = leases
    <3>1. Holder' = Holder /\ Term' = Term
      BY <2>2 DEF Newest
    <3>2. CASE Standing = "OVER"
      <4>1. Standing' = Standing
        BY <2>2, <3>2 DEF Standing, Newest
      <4>2. QED
        BY <2>1, <3>1, <4>1 DEF Ownership!Next
    <3>3. CASE Standing # "OVER"
      <4>1. Standing' \in {"LIVE", "LAPSED"}
        BY <2>2, <3>3 DEF Standing, Newest
      <4>2. QED
        BY <2>1, <3>1, <3>3, <4>1 DEF Ownership!Next, Ownership!LapseOrExtend
    <3>4. QED
      BY <3>2, <3>3
  <2>3. ASSUME NEW p \in Process, Pushed(p)
        PROVE  Ownership!Grant(p) \/ Ownership!LapseOrExtend \/ Ownership!GiveUp
    <3> DEFINE l == cmd[p].next
    <3>1. /\ leases' # <<>> /\ Newest(leases') = l
          /\ l.leaseId = p /\ l.state \in {"ACTIVE", "RELEASED"}
      BY <1>4, <2>3, PushedFacts DEF Leases
    <3>2. /\ Holder' = p /\ Term' = l.generation
          /\ l.state = "RELEASED" => Standing' = "OVER"
          /\ l.state = "ACTIVE" => Standing' \in {"LIVE", "LAPSED"}
      BY <3>1 DEF Standing
    <3>3. CASE leases = <<>>
      <4>1. Standing = "OVER" /\ Term = 0
        BY <3>3 DEF Standing
      <4>2. QED
        BY <1>4, <2>3, <3>2, <3>3, <4>1, PushedFirst DEF Ownership!Grant
    <3>4. CASE leases # <<>>
      <4> DEFINE last == Newest(leases)
      <4>1. /\ last \in Leases /\ clock \in Nat
            /\ \/ /\ last.state = "RELEASED" \/ last.expiresAt <= clock
                  /\ l.generation = last.generation + 1
                  /\ l.state = "ACTIVE"
               \/ /\ last.state = "ACTIVE"
                  /\ l.generation = last.generation
                  /\ l.leaseId = last.leaseId
        BY <1>4, <2>3, <3>4, PushedOver DEF Newest, TypeInv, TypeOK
      <4>2. Holder = last.leaseId /\ Term = last.generation
        BY <3>4
      <4>3. CASE /\ last.state = "RELEASED" \/ last.expiresAt <= clock
                 /\ l.generation = last.generation + 1
                 /\ l.state = "ACTIVE"
        <5>1. last.state = "RELEASED" \/ ~(clock < last.expiresAt)
          BY <4>1, <4>3 DEF Leases
        <5>2. Standing # "LIVE"
          BY <3>4, <5>1 DEF Standing
        <5>3. QED
          BY <3>2, <4>2, <4>3, <5>2 DEF Ownership!Grant
      <4>4. CASE /\ last.state = "ACTIVE"
                 /\ l.generation = last.generation
                 /\ l.leaseId = last.leaseId
        <5>1. Standing # "OVER" /\ Holder' = Holder /\ Term' = Term
          BY <3>1, <3>2, <3>4, <4>2, <4>4 DEF Standing
        <5>2. QED
          BY <3>1, <3>2, <5>1 DEF Ownership!LapseOrExtend, Ownership!GiveUp
      <4>5. QED
        BY <4>1, <4>3, <4>4
    <3>5. QED
      BY <3>3, <3>4
  <2>4. QED
    <3>1. CASE leases' # leases
      <4>1. PICK p \in Process : Pushed(p)
        BY <1>4, <3>1, OnlyPushes
      <4>2. QED
        BY <2>1, <2>3, <4>1 DEF Ownership!Next
    <3>2. QED
      BY <2>2, <3>1
<1>5. TypeInv /\ OwnerInv /\ OnlyOwnerActs' /\ [Next]_vars => [Ownership!Next]_Ownership!vars
  BY <1>4
<1>6. QED
  BY <1>1, <1>2, <1>3, <1>5, OwnerActs, PTL DEF Spec, OwnershipIsFenced, Ownership!Spec

=================================================================================
