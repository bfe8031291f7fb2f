----------------------- MODULE AtomicJsonConfigStoreProofs -----------------------
(***************************************************************************)
(* Proofs about AtomicJsonConfigStore, for any number of writers, payloads *)
(* and generations.                                                        *)
(***************************************************************************)
EXTENDS AtomicJsonConfigStore, TLAPS

---------------------------------------------------------------------------------
(* Types                                                                   *)

(* From the staged file to the answer WRITTEN, the payload of a write is    *)
(* one that was validated.                                                 *)
InWrite(w) == \/ pc[w] \in {"staged", "renamed", "synced"}
              \/ pc[w] = "closing" /\ outcome[w] = "WRITTEN"

StagedIsValid ==
    \A w \in Writers : InWrite(w) => request[w].payload \in ValidPayloads

(* A writer answers only what it has decided.                              *)
OutcomeDecided ==
    \A w \in Writers : pc[w] = "closing" => outcome[w] \in Replies

TypeInv == TypeOK /\ StagedIsValid /\ OutcomeDecided /\ file \in persistable

LEMMA TypeInvariant == Spec => []TypeInv
<1>1. Init => TypeInv
  <2> SUFFICES ASSUME Init PROVE TypeInv
    OBVIOUS
  <2>1. Absent \in Snapshots /\ NoRequest \in Requests
    BY DEF Absent, Snapshots, NoRequest, Requests
  <2>2. TypeOK
    BY <2>1 DEF Init, TypeOK, Inside, Replies
  <2>3. StagedIsValid /\ OutcomeDecided /\ file \in persistable
    BY DEF Init, StagedIsValid, InWrite, OutcomeDecided
  <2>4. QED
    BY <2>2, <2>3 DEF TypeInv
<1>2. TypeInv /\ [Next]_vars => TypeInv'
  <2> SUFFICES ASSUME TypeInv, [Next]_vars PROVE TypeInv'
    OBVIOUS
  <2> USE StoreAssumption
      DEF TypeInv, TypeOK, StagedIsValid, InWrite, OutcomeDecided, Snapshots, Absent,
          Requests, NoRequest, Inside, Replies, store
  <2>1. ASSUME NEW w \in Writers, Read(w) PROVE TypeInv'
    BY <2>1 DEF Read
  <2>2. ASSUME NEW w \in Writers, NEW v \in Payloads, Write(w, v) PROVE TypeInv'
    BY <2>2 DEF Write
  <2>3. ASSUME NEW w \in Writers, OpenLock(w) PROVE TypeInv'
    BY <2>3 DEF OpenLock
  <2>4. ASSUME NEW w \in Writers, RefuseLocked(w) PROVE TypeInv'
    BY <2>4 DEF RefuseLocked, Answer
  <2>5. ASSUME NEW w \in Writers, RefuseStale(w) PROVE TypeInv'
    BY <2>5 DEF RefuseStale, Leave
  <2>6. ASSUME NEW w \in Writers, RejectPayload(w) PROVE TypeInv'
    BY <2>6 DEF RejectPayload, Leave
  <2>7. ASSUME NEW w \in Writers, Stage(w) PROVE TypeInv'
    BY <2>7 DEF Stage
  <2>8. ASSUME NEW w \in Writers, Rename(w) PROVE TypeInv'
    BY <2>8 DEF Rename, Staged
  <2>9. ASSUME NEW w \in Writers, SyncDirectory(w) PROVE TypeInv'
    BY <2>9 DEF SyncDirectory
  <2>10. ASSUME NEW w \in Writers, ReadBack(w) PROVE TypeInv'
    BY <2>10 DEF ReadBack, Leave
  <2>11. ASSUME NEW w \in Writers, CloseLock(w) PROVE TypeInv'
    <3>1. outcome[w] \in Replies
      BY <2>11 DEF CloseLock
    <3>2. written' \subseteq [writer : Writers, snapshot : Snapshots]
      BY <2>11 DEF CloseLock, Staged
    <3>3. seen' \in [Writers -> Snapshots]
      BY <2>11 DEF CloseLock
    <3>4. answer' \in [Writers -> Replies \cup {"NONE", "LOST"}]
      BY <2>11, <3>1 DEF CloseLock, Answer
    <3>5. QED
      BY <2>11, <3>2, <3>3, <3>4, ZenonT(60) DEF CloseLock, Answer
  <2>12. ASSUME NEW w \in Writers, FaultStep(w) PROVE TypeInv'
    <3>1. CASE BodyFails(w)
      BY <3>1 DEF BodyFails, Leave
    <3>2. CASE OpenFails(w)
      BY <3>2 DEF OpenFails, Answer
    <3>3. CASE CloseFails(w)
      BY <3>3 DEF CloseFails, Answer
    <3>4. CASE Crash(w)
      BY <3>4 DEF Crash, Answer
    <3>5. QED
      BY <2>12, <3>1, <3>2, <3>3, <3>4 DEF FaultStep
  <2>13. CASE PowerLoss
    BY <2>13 DEF PowerLoss
  <2>14. CASE UNCHANGED vars
    BY <2>14 DEF vars
  <2>15. QED
    BY <2>1, <2>2, <2>3, <2>4, <2>5, <2>6, <2>7, <2>8, <2>9, <2>10, <2>11, <2>12,
       <2>13, <2>14 DEF Next, WriteStep
<1>3. QED
  BY <1>1, <1>2, PTL DEF Spec

(* Every value the variables take has its type: in particular only a       *)
(* payload that validatePayload accepted ever reaches the file.            *)
THEOREM TypeCorrect == Spec => []TypeOK
<1>1. TypeInv => TypeOK
  BY DEF TypeInv
<1>2. QED
  BY TypeInvariant, <1>1, PTL

---------------------------------------------------------------------------------
(* Mutual exclusion                                                        *)

(* A writer inside owns the lock file, which therefore exists.             *)
LockOwned == \A w \in Writers : pc[w] \in Inside => lockFile

LockInv == OneWriterInside /\ LockOwned

LEMMA LockStep == ASSUME TypeInv, LockInv, [Next]_vars PROVE LockInv'
<1> USE DEF TypeInv, TypeOK, LockInv, OneWriterInside, LockOwned, Inside, store
<1>1. ASSUME NEW w \in Writers, Read(w) PROVE LockInv'
  BY <1>1 DEF Read
<1>2. ASSUME NEW w \in Writers, NEW v \in Payloads, Write(w, v) PROVE LockInv'
  BY <1>2 DEF Write
<1>3. ASSUME NEW w \in Writers, OpenLock(w) PROVE LockInv'
  BY <1>3 DEF OpenLock
<1>4. ASSUME NEW w \in Writers, RefuseLocked(w) PROVE LockInv'
  BY <1>4 DEF RefuseLocked, Answer
<1>5. ASSUME NEW w \in Writers,
             RefuseStale(w) \/ RejectPayload(w) \/ Stage(w) \/ Rename(w)
                \/ SyncDirectory(w) \/ ReadBack(w)
      PROVE  LockInv'
  <2>1. /\ pc[w] \in Inside
        /\ \E l \in Inside : pc' = [pc EXCEPT ![w] = l]
        /\ lockFile' = lockFile
    BY <1>5 DEF RefuseStale, RejectPayload, Stage, Rename, SyncDirectory, ReadBack, Leave
  <2>2. QED
    BY <2>1
<1>6. ASSUME NEW w \in Writers, CloseLock(w) PROVE LockInv'
  BY <1>6 DEF CloseLock, Answer
<1>7. ASSUME NEW w \in Writers, FaultStep(w) PROVE LockInv'
  <2>1. /\ lockFile' = lockFile
        /\ \/ pc[w] \in Inside /\ pc' = [pc EXCEPT ![w] = "closing"]
           \/ pc' = [pc EXCEPT ![w] = "idle"]
    BY <1>7 DEF FaultStep, OpenFails, BodyFails, CloseFails, Crash, Answer, Leave
  <2>2. QED
    BY <2>1
<1>8. CASE PowerLoss
  BY <1>8 DEF PowerLoss
<1>9. CASE UNCHANGED vars
  BY <1>9 DEF vars
<1>10. QED
  BY <1>1, <1>2, <1>3, <1>4, <1>5, <1>6, <1>7, <1>8, <1>9 DEF Next, WriteStep

(* Two writers are never both between taking the lock file and removing it *)
(* (write(), lines 62-114), for any number of them and any of the faults.  *)
THEOREM MutualExclusion == Spec => []OneWriterInside
<1>1. Init => LockInv
  BY DEF Init, LockInv, OneWriterInside, LockOwned, Inside
<1>2. TypeInv /\ LockInv /\ [Next]_vars => LockInv'
  BY LockStep
<1>3. LockInv => OneWriterInside
  BY DEF LockInv
<1>4. QED
  BY <1>1, <1>2, <1>3, TypeInvariant, PTL DEF Spec

---------------------------------------------------------------------------------
(* What a write in progress knows of the file                              *)

(* Its target holds what it wrote.                                         *)
Installed(w) == \/ pc[w] \in {"renamed", "synced"}
                \/ pc[w] = "closing" /\ outcome[w] = "WRITTEN"

(* The generation that the caller read is the one it expects; until the    *)
(* rename it is the file's, and from there on the file is what was staged. *)
InFlight ==
    \A w \in Writers :
        /\ pc[w] \in {"opening", "locked", "staged"} =>
              request[w].expected = seen[w].generation
        /\ pc[w] = "staged" => file.generation = request[w].expected
        /\ Installed(w) => file = Staged(w)

FileInv == TypeInv /\ LockInv /\ InFlight

LEMMA InFlightStep == ASSUME FileInv, [Next]_vars PROVE InFlight'
<1> USE DEF FileInv, TypeInv, TypeOK, Requests, Snapshots, InFlight, Installed, Staged, store
<1>1. ASSUME NEW w \in Writers, Read(w) PROVE InFlight'
  BY <1>1 DEF Read
<1>2. ASSUME NEW w \in Writers, NEW v \in Payloads, Write(w, v) PROVE InFlight'
  BY <1>2 DEF Write
<1>3. ASSUME NEW w \in Writers, OpenLock(w) PROVE InFlight'
  BY <1>3 DEF OpenLock
<1>4. ASSUME NEW w \in Writers, RefuseLocked(w) PROVE InFlight'
  BY <1>4 DEF RefuseLocked, Answer
<1>5. ASSUME NEW w \in Writers, RefuseStale(w) PROVE InFlight'
  BY <1>5 DEF RefuseStale, Leave
<1>6. ASSUME NEW w \in Writers, RejectPayload(w) PROVE InFlight'
  BY <1>6 DEF RejectPayload, Leave
<1>7. ASSUME NEW w \in Writers, Stage(w) PROVE InFlight'
  BY <1>7 DEF Stage
<1>8. ASSUME NEW w \in Writers, Rename(w) PROVE InFlight'
  <2>1. \A u \in Writers \ {w} : pc[u] \notin Inside
    BY <1>8 DEF Rename, LockInv, OneWriterInside, Inside
  <2>2. QED
    BY <1>8, <2>1 DEF Rename, Inside
<1>9. ASSUME NEW w \in Writers, SyncDirectory(w) PROVE InFlight'
  BY <1>9 DEF SyncDirectory
<1>10. ASSUME NEW w \in Writers, ReadBack(w) PROVE InFlight'
  BY <1>10 DEF ReadBack, Leave
<1>11. ASSUME NEW w \in Writers, CloseLock(w) PROVE InFlight'
  BY <1>11 DEF CloseLock, Answer
<1>12. ASSUME NEW w \in Writers, BodyFails(w) PROVE InFlight'
  BY <1>12 DEF BodyFails, Leave
<1>13. ASSUME NEW w \in Writers, OpenFails(w) \/ CloseFails(w) \/ Crash(w)
       PROVE InFlight'
  <2>1. UNCHANGED <<file, seen>> /\ \E a \in {"ERROR", "LOST"} : Answer(w, a)
    BY <1>13 DEF OpenFails, CloseFails, Crash
  <2>2. QED
    BY <2>1 DEF Answer
<1>14. CASE PowerLoss
  BY <1>14 DEF PowerLoss
<1>15. CASE UNCHANGED vars
  BY <1>15 DEF vars
<1>16. QED
  BY <1>1, <1>2, <1>3, <1>4, <1>5, <1>6, <1>7, <1>8, <1>9, <1>10, <1>11, <1>12, <1>13,
     <1>14, <1>15 DEF Next, WriteStep, FaultStep

LEMMA FileInvariant == Spec => []FileInv
<1>1. Init => LockInv
  BY DEF Init, LockInv, OneWriterInside, LockOwned, Inside
<1>2. Init => InFlight
  BY DEF Init, InFlight, Installed
<1>3. TypeInv /\ LockInv /\ InFlight /\ [Next]_vars => LockInv' /\ InFlight'
  BY LockStep, InFlightStep DEF FileInv
<1>4. TypeInv /\ LockInv /\ InFlight => FileInv
  BY DEF FileInv
<1>5. QED
  BY <1>1, <1>2, <1>3, <1>4, TypeInvariant, PTL DEF Spec

(* The target changes only at a rename and in a power loss, and a writer   *)
(* comes to "renamed" only by its own rename.                              *)
LEMMA RenamesOnly ==
    ASSUME TypeInv, [Next]_vars
    PROVE  /\ file' # file => PowerLoss \/ \E w \in Writers : Rename(w)
           /\ \A w \in Writers :
                 pc[w] = "staged" /\ pc'[w] = "renamed" => Rename(w)
<1>1. ASSUME NEW u \in Writers,
             \/ Read(u) \/ \E v \in Payloads : Write(u, v)
             \/ OpenLock(u) \/ RefuseLocked(u) \/ RefuseStale(u) \/ RejectPayload(u)
             \/ Stage(u) \/ SyncDirectory(u) \/ ReadBack(u) \/ CloseLock(u) \/ FaultStep(u)
      PROVE  /\ file' = file
             /\ \A w \in Writers : ~(pc[w] = "staged" /\ pc'[w] = "renamed")
  <2>1. /\ file' = file
        /\ \E l \in {"idle", "opening", "locked", "staged", "synced", "closing"} :
              pc' = pc \/ pc' = [pc EXCEPT ![u] = l]
    BY <1>1 DEF Read, Write, OpenLock, RefuseLocked, RefuseStale, RejectPayload, Stage,
       SyncDirectory, ReadBack, CloseLock, FaultStep, OpenFails, BodyFails, CloseFails,
       Crash, Answer, Leave, store
  <2>2. QED
    BY <2>1 DEF TypeInv, TypeOK
<1>2. ASSUME NEW u \in Writers, Rename(u)
      PROVE  \A w \in Writers : pc[w] = "staged" /\ pc'[w] = "renamed" => Rename(w)
  BY <1>2 DEF Rename, TypeInv, TypeOK
<1>3. ASSUME PowerLoss
      PROVE  \A w \in Writers : ~(pc[w] = "staged" /\ pc'[w] = "renamed")
  BY <1>3 DEF PowerLoss
<1>4. ASSUME UNCHANGED vars
      PROVE  /\ file' = file
             /\ \A w \in Writers : ~(pc[w] = "staged" /\ pc'[w] = "renamed")
  BY <1>4 DEF vars
<1>5. QED
  BY <1>1, <1>2, <1>3, <1>4 DEF Next, WriteStep

(* The comparison of what was read back with what was written (lines       *)
(* 96-103) never fails a write that did nothing wrong: the lock keeps      *)
(* every other writer away from the target.                                *)
THEOREM ReadBackAgrees ==
    Spec => [][\A w \in Writers : ReadBack(w) => outcome'[w] = "WRITTEN"]_vars
<1>1. ASSUME FileInv, NEW w \in Writers, ReadBack(w) PROVE outcome'[w] = "WRITTEN"
  <2>1. file = Staged(w)
    BY <1>1 DEF ReadBack, FileInv, InFlight, Installed
  <2>2. QED
    BY <1>1, <2>1 DEF ReadBack, Leave, FileInv, TypeInv, TypeOK
<1>2. FileInv => [\A w \in Writers : ReadBack(w) => outcome'[w] = "WRITTEN"]_vars
  BY <1>1
<1>3. QED
  BY <1>2, FileInvariant, PTL

---------------------------------------------------------------------------------
(* A lock file that nobody owns                                            *)

(* No step of a writer touches a lock file that it found, or the target    *)
(* behind it.                                                              *)
LEMMA OrphanStep ==
    ASSUME TypeInv, [Next]_vars, Orphaned, ~PowerLoss
    PROVE  Orphaned' /\ file' = file
<1> USE DEF TypeInv, TypeOK, Orphaned, Inside, store
<1>1. ASSUME NEW w \in Writers, Read(w) PROVE Orphaned' /\ file' = file
  BY <1>1 DEF Read
<1>2. ASSUME NEW w \in Writers, NEW v \in Payloads, Write(w, v)
      PROVE  Orphaned' /\ file' = file
  BY <1>2 DEF Write
<1>3. ASSUME NEW w \in Writers, OpenLock(w) PROVE FALSE
  BY <1>3 DEF OpenLock
<1>4. ASSUME NEW w \in Writers,
             \/ RefuseStale(w) \/ RejectPayload(w) \/ Stage(w) \/ Rename(w)
             \/ SyncDirectory(w) \/ ReadBack(w) \/ CloseLock(w) \/ BodyFails(w)
             \/ CloseFails(w)
      PROVE  FALSE
  BY <1>4 DEF RefuseStale, RejectPayload, Stage, Rename, SyncDirectory, ReadBack,
     CloseLock, BodyFails, CloseFails
<1>5. ASSUME NEW w \in Writers, RefuseLocked(w) \/ OpenFails(w) \/ Crash(w)
      PROVE  Orphaned' /\ file' = file
  <2>1. UNCHANGED <<file, lockFile>> /\ pc' = [pc EXCEPT ![w] = "idle"]
    BY <1>5 DEF RefuseLocked, OpenFails, Crash, Answer
  <2>2. QED
    BY <2>1
<1>6. CASE UNCHANGED vars
  BY <1>6 DEF vars
<1>7. QED
  BY <1>1, <1>2, <1>3, <1>4, <1>5, <1>6 DEF Next, WriteStep, FaultStep

(* A lock file that its writer left behind is never removed and freezes    *)
(* the configuration (lines 64-76): of all that can happen, only a power   *)
(* loss may take it away.                                                  *)
THEOREM OrphansFreeze ==
    Spec => [][Orphaned /\ ~PowerLoss => Orphaned' /\ file' = file]_vars
<1>1. TypeInv /\ [Next]_vars => [Orphaned /\ ~PowerLoss => Orphaned' /\ file' = file]_vars
  BY OrphanStep
<1>2. QED
  BY <1>1, TypeInvariant, PTL DEF Spec

(* While no machine loses power, for ever.                                 *)
THEOREM OrphansFreezeForGood ==
    ASSUME "power" \notin Faults PROVE Spec => OrphanFreezesStore
<1>1. TypeInv /\ [Next]_vars => [Orphaned => Orphaned' /\ file' = file]_vars
  BY OrphanStep DEF PowerLoss
<1>2. QED
  BY <1>1, TypeInvariant, PTL DEF Spec, OrphanFreezesStore

---------------------------------------------------------------------------------
(* What readers see                                                        *)

(* A caller knows the present configuration or an older generation.        *)
SeenBehind ==
    \A w \in Writers :
        /\ seen[w].generation <= file.generation
        /\ seen[w].generation = file.generation => seen[w] = file

LEMMA SeenStep ==
    ASSUME FileInv, SeenBehind, [Next]_vars, "power" \notin Faults PROVE SeenBehind'
<1> USE DEF SeenBehind, FileInv, TypeInv, TypeOK, Snapshots
<1>1. ASSUME NEW w \in Writers, Rename(w) PROVE SeenBehind'
  <2>1. file' = [generation |-> file.generation + 1, payload |-> request[w].payload]
    BY <1>1 DEF Rename, Staged, InFlight
  <2>2. UNCHANGED seen /\ file'.generation = file.generation + 1
    BY <1>1, <2>1 DEF Rename
  <2>3. QED
    BY <2>2
<1>2. ASSUME file' = file, NEW w \in Writers,
             UNCHANGED seen \/ seen' = [seen EXCEPT ![w] = file]
      PROVE  SeenBehind'
  BY <1>2
<1>3. ~PowerLoss
  BY DEF PowerLoss
<1>4. CASE UNCHANGED vars
  BY <1>4 DEF vars
<1>5. ASSUME NEW w \in Writers,
             \/ Read(w) \/ \E v \in Payloads : Write(w, v)
             \/ OpenLock(w) \/ RefuseLocked(w) \/ RefuseStale(w) \/ RejectPayload(w)
             \/ Stage(w) \/ SyncDirectory(w) \/ ReadBack(w) \/ CloseLock(w) \/ FaultStep(w)
      PROVE  file' = file /\ (UNCHANGED seen \/ seen' = [seen EXCEPT ![w] = file])
  BY <1>5 DEF Read, Write, OpenLock, RefuseLocked, RefuseStale, RejectPayload, Stage,
     SyncDirectory, ReadBack, CloseLock, FaultStep, OpenFails, BodyFails, CloseFails,
     Crash, store
<1>6. QED
  BY <1>1, <1>2, <1>3, <1>4, <1>5 DEF Next, WriteStep

(* No lost update (lines 78-95 and 135): without a power loss, a rename    *)
(* replaces exactly the snapshot that its caller had read.                 *)
THEOREM NoLostUpdate ==
    ASSUME "power" \notin Faults PROVE Spec => ReplacesWhatWasRead
<1>1. Init => SeenBehind
  BY DEF Init, SeenBehind, Absent
<1>2. FileInv /\ SeenBehind /\ [Next]_vars => SeenBehind'
  BY SeenStep
<1>3. FileInv /\ SeenBehind /\ [Next]_vars =>
         [\A w \in Writers : pc[w] = "staged" /\ pc'[w] = "renamed" => file = seen[w]]_vars
  BY RenamesOnly DEF FileInv, InFlight, SeenBehind
<1>4. QED
  BY <1>1, <1>2, <1>3, FileInvariant, PTL DEF Spec, ReplacesWhatWasRead

---------------------------------------------------------------------------------
(* Acknowledged writes                                                     *)

(* Between the fsync of the directory and the answer WRITTEN nothing but   *)
(* the new snapshot can come back after a power loss, and until the answer *)
(* no write was acknowledged for its generation.                           *)
Synced ==
    \A w \in Writers :
        /\ pc[w] = "synced" \/ (pc[w] = "closing" /\ outcome[w] = "WRITTEN") =>
              persistable = {file}
        /\ Installed(w) =>
              \A b \in written : b.snapshot.generation < Staged(w).generation

AckInv == Synced /\ AckedIsDurable /\ OneAckPerGeneration

LEMMA AckStep ==
    ASSUME FileInv, AckInv, [Next]_vars, "nosync" \notin Faults PROVE AckInv'
<1> USE DEF FileInv, TypeInv, TypeOK, Requests, Snapshots, AckInv, Installed, Staged, store
<1>1. ASSUME UNCHANGED <<file, persistable, request, written>>,
             \A w \in Writers :
                \/ pc'[w] = pc[w] /\ outcome'[w] = outcome[w]
                \/ pc'[w] \in {"idle", "opening", "locked", "staged"}
                \/ pc'[w] = "closing" /\ outcome'[w] # "WRITTEN"
                \/ pc[w] = "synced" /\ pc'[w] = "closing"
      PROVE  AckInv'
  BY <1>1 DEF Synced, AckedIsDurable, OneAckPerGeneration
<1>2. ASSUME UNCHANGED <<file, persistable, written>>,
             NEW w \in Writers, NEW r \in Requests, request' = [request EXCEPT ![w] = r],
             NEW l \in {"idle", "opening"}, pc' = [pc EXCEPT ![w] = l],
             \A u \in Writers \ {w} : outcome'[u] = outcome[u]
      PROVE  AckInv'
  <2>1. ~Installed(w)' /\ pc'[w] # "synced"
    BY <1>2
  <2>2. ASSUME NEW u \in Writers \ {w}
        PROVE  pc'[u] = pc[u] /\ outcome'[u] = outcome[u] /\ Staged(u)' = Staged(u)
    BY <1>2, <2>2
  <2>3. Synced'
    BY <1>2, <2>1, <2>2 DEF Synced
  <2>4. QED
    BY <1>2, <2>3 DEF AckedIsDurable, OneAckPerGeneration
<1>3. ASSUME NEW w \in Writers,
             \/ Read(w) \/ OpenLock(w) \/ RefuseStale(w) \/ RejectPayload(w)
             \/ Stage(w) \/ ReadBack(w) \/ BodyFails(w)
      PROVE  AckInv'
  BY <1>1, <1>3, ZenonT(60) DEF Read, OpenLock, RefuseStale, RejectPayload, Stage,
     ReadBack, BodyFails, Leave
<1>4. ASSUME NEW w \in Writers, NEW v \in Payloads, Write(w, v) PROVE AckInv'
  BY <1>2, <1>4 DEF Write
<1>5. ASSUME NEW w \in Writers,
             RefuseLocked(w) \/ OpenFails(w) \/ CloseFails(w) \/ Crash(w)
      PROVE  AckInv'
  <2>1. NoRequest \in Requests
    BY DEF NoRequest
  <2>2. UNCHANGED <<file, persistable, written>>
    BY <1>5 DEF RefuseLocked, OpenFails, CloseFails, Crash
  <2>3. /\ request' = [request EXCEPT ![w] = NoRequest]
        /\ pc' = [pc EXCEPT ![w] = "idle"]
        /\ outcome' = [outcome EXCEPT ![w] = "NONE"]
    BY <1>5 DEF RefuseLocked, OpenFails, CloseFails, Crash, Answer
  <2>4. \A u \in Writers \ {w} : outcome'[u] = outcome[u]
    BY <2>3
  <2>5. QED
    BY <1>2, <2>1, <2>2, <2>3, <2>4
<1>6. ASSUME NEW w \in Writers, Rename(w) PROVE AckInv'
  <2>1. /\ \A u \in Writers \ {w} : pc[u] \notin Inside
        /\ Staged(w).generation = file.generation + 1
        /\ \A b \in written : b.snapshot.generation < Staged(w).generation
    BY <1>6 DEF Rename, LockInv, OneWriterInside, Inside, InFlight, AckedIsDurable
  <2>2. Synced'
    BY <1>6, <2>1 DEF Rename, Inside, Synced
  <2>3. AckedIsDurable'
    BY <1>6, <2>1 DEF Rename, AckedIsDurable
  <2>4. QED
    BY <1>6, <2>2, <2>3 DEF Rename, OneAckPerGeneration
<1>7. ASSUME NEW w \in Writers, SyncDirectory(w) PROVE AckInv'
  BY <1>7 DEF SyncDirectory, Synced, AckedIsDurable, OneAckPerGeneration
<1>8. ASSUME NEW w \in Writers, CloseLock(w) PROVE AckInv'
  <2>1. \A u \in Writers \ {w} : pc[u] \notin Inside
    BY <1>8 DEF CloseLock, LockInv, OneWriterInside, Inside
  <2>2. Synced'
    BY <1>8, <2>1 DEF CloseLock, Answer, Inside, Synced
  <2>3. CASE outcome[w] # "WRITTEN"
    BY <1>8, <2>2, <2>3 DEF CloseLock, AckedIsDurable, OneAckPerGeneration
  <2>4. CASE outcome[w] = "WRITTEN"
    <3>1. /\ written' = written \cup {[writer |-> w, snapshot |-> file]}
          /\ persistable' = {file}
          /\ \A b \in written : b.snapshot.generation < file.generation
      BY <1>8, <2>4 DEF CloseLock, Synced, InFlight
    <3>2. AckedIsDurable'
      BY <3>1 DEF AckedIsDurable
    <3>3. OneAckPerGeneration'
      BY <3>1 DEF OneAckPerGeneration
    <3>4. QED
      BY <2>2, <3>2, <3>3
  <2>5. QED
    BY <2>3, <2>4
<1>9. CASE PowerLoss
  BY <1>9 DEF PowerLoss, Synced, AckedIsDurable, OneAckPerGeneration
<1>10. CASE UNCHANGED vars
  BY <1>10 DEF vars, Synced, AckedIsDurable, OneAckPerGeneration
<1>11. QED
  BY <1>3, <1>4, <1>5, <1>6, <1>7, <1>8, <1>9, <1>10 DEF Next, WriteStep, FaultStep

LEMMA AckInvariant == ASSUME "nosync" \notin Faults PROVE Spec => []AckInv
<1>1. Init => AckInv
  BY DEF Init, AckInv, Synced, Installed, AckedIsDurable, OneAckPerGeneration
<1>2. FileInv /\ AckInv /\ [Next]_vars => AckInv'
  BY AckStep
<1>3. QED
  BY <1>1, <1>2, FileInvariant, PTL DEF Spec

(* On a file system that syncs directories, an acknowledged write is never *)
(* taken back by a power loss (lines 126-136).                             *)
THEOREM AcknowledgedIsDurable ==
    ASSUME "nosync" \notin Faults PROVE Spec => []AckedIsDurable
<1>1. AckInv => AckedIsDurable
  BY DEF AckInv
<1>2. QED
  BY <1>1, AckInvariant, PTL

(* On such a file system, no two writes are acknowledged for a generation, *)
(* whatever crashes, failing calls and power losses there are.             *)
THEOREM AcknowledgedOnce ==
    ASSUME "nosync" \notin Faults PROVE Spec => []OneAckPerGeneration
<1>1. AckInv => OneAckPerGeneration
  BY DEF AckInv
<1>2. QED
  BY <1>1, AckInvariant, PTL

---------------------------------------------------------------------------------
(* The store implements ConfigRegister                                     *)

(* What a write has come to, at each of its steps.                         *)
EffectMatches ==
    \A w \in Writers :
        /\ pc[w] = "idle" => request[w] = NoRequest /\ effect[w] = "none"
        /\ pc[w] \in {"opening", "locked", "staged"} => effect[w] = "none"
        /\ Installed(w) => effect[w] = "installed"
        /\ pc[w] = "closing" => \/ outcome[w] = "WRITTEN"
                                \/ outcome[w] = "ERROR"
                                \/ outcome[w] = "GENERATION_CONFLICT" /\ effect[w] = "stale"

LEMMA EffectStep == ASSUME FileInv, EffectMatches, [Next]_vars PROVE EffectMatches'
<1> USE DEF FileInv, TypeInv, TypeOK, EffectMatches, Installed, store
<1>1. ASSUME NEW w \in Writers, Read(w) PROVE EffectMatches'
  BY <1>1 DEF Read
<1>2. ASSUME NEW w \in Writers, NEW v \in Payloads, Write(w, v) PROVE EffectMatches'
  BY <1>2 DEF Write
<1>3. ASSUME NEW w \in Writers, OpenLock(w) \/ Stage(w) PROVE EffectMatches'
  <2>1. PICK l \in {"locked", "staged"} : pc' = [pc EXCEPT ![w] = l]
    BY <1>3 DEF OpenLock, Stage
  <2>2. /\ pc[w] \in {"opening", "locked"}
        /\ request' = request /\ outcome' = outcome /\ effect' = effect
    BY <1>3 DEF OpenLock, Stage
  <2>3. /\ pc'[w] = l /\ effect'[w] = "none"
        /\ \A u \in Writers : u # w => pc'[u] = pc[u]
    BY <2>1, <2>2
  <2>4. QED
    BY <2>1, <2>2, <2>3
<1>4. ASSUME NEW w \in Writers, RefuseStale(w) \/ RejectPayload(w) \/ BodyFails(w)
      PROVE  EffectMatches'
  BY <1>4 DEF RefuseStale, RejectPayload, BodyFails, Leave
<1>5. ASSUME NEW w \in Writers, Rename(w) \/ SyncDirectory(w) PROVE EffectMatches'
  BY <1>5 DEF Rename, SyncDirectory
<1>6. ASSUME NEW w \in Writers, ReadBack(w) PROVE EffectMatches'
  BY <1>6 DEF ReadBack, Leave
<1>7. ASSUME NEW w \in Writers,
             RefuseLocked(w) \/ CloseLock(w) \/ OpenFails(w) \/ CloseFails(w) \/ Crash(w)
      PROVE  EffectMatches'
  <2>1. /\ pc' = [pc EXCEPT ![w] = "idle"]
        /\ request' = [request EXCEPT ![w] = NoRequest]
        /\ outcome' = [outcome EXCEPT ![w] = "NONE"]
        /\ effect' = [effect EXCEPT ![w] = "none"]
    BY <1>7 DEF RefuseLocked, CloseLock, OpenFails, CloseFails, Crash, Answer
  <2>2. QED
    BY <2>1
<1>8. CASE PowerLoss
  BY <1>8 DEF PowerLoss
<1>9. CASE UNCHANGED vars
  BY <1>9 DEF vars
<1>10. QED
  BY <1>1, <1>2, <1>3, <1>4, <1>5, <1>6, <1>7, <1>8, <1>9 DEF Next, WriteStep, FaultStep

(* The phase of the abstract call of w.                                    *)
LEMMA RegisterPhase ==
    ASSUME TypeInv, NEW w \in Writers
    PROVE  /\ RegisterCall[w].phase = (IF pc[w] = "idle" THEN "idle"
                                       ELSE IF effect[w] = "none" THEN "open" ELSE effect[w])
           /\ RegisterCall[w].expected = request[w].expected
           /\ RegisterCall[w].payload = request[w].payload
  BY DEF RegisterCall

LEMMA AnswerReturns ==
    ASSUME TypeInv, NEW w \in Writers, NEW a, Answer(w, a), UNCHANGED file,
           a \in Register!Truthful(RegisterCall[w].phase)
    PROVE  Register!Return(w)
<1>1. RegisterCall' = [RegisterCall EXCEPT ![w] = Register!NoCall]
  BY DEF RegisterCall, Answer, NoRequest, Register!NoCall, TypeInv, TypeOK
<1>2. answer' = [answer EXCEPT ![w] = a]
  BY DEF Answer
<1>3. QED
  BY <1>1, <1>2 DEF Register!Return

LEMMA RegisterStep ==
    ASSUME FileInv, EffectMatches, [Next]_vars, "power" \notin Faults
    PROVE  [Register!Next]_(Register!vars)
<1> USE StoreAssumption DEF FileInv, TypeInv, TypeOK
<1> DEFINE Stutters == UNCHANGED <<file, RegisterCall, answer>>
<1>1. ASSUME NEW w \in Writers,
             \/ Read(w) \/ OpenLock(w) \/ RejectPayload(w) \/ Stage(w)
             \/ SyncDirectory(w) \/ ReadBack(w) \/ BodyFails(w)
      PROVE  Stutters
  <2>1. /\ UNCHANGED <<file, request, effect, answer>>
        /\ pc' = pc \/ (pc[w] # "idle" /\ \E l \in Inside : pc' = [pc EXCEPT ![w] = l])
    BY <1>1 DEF Read, OpenLock, RejectPayload, Stage, SyncDirectory, ReadBack, BodyFails,
       Leave, store, Inside
  <2>2. \A u \in Writers : (pc'[u] = "idle") <=> (pc[u] = "idle")
    BY <2>1 DEF Inside
  <2>3. QED
    BY <2>1, <2>2 DEF RegisterCall
<1>2. ASSUME NEW w \in Writers, NEW v \in Payloads, Write(w, v)
      PROVE  \E g \in 0 .. MaxGeneration : Register!Call(w, g, v)
  <2>1. seen[w].generation \in 0 .. MaxGeneration
    BY <1>2 DEF Write, Snapshots
  <2>2. RegisterCall[w].phase = "idle"
    BY <1>2, RegisterPhase DEF Write
  <2>3. RegisterCall' = [RegisterCall EXCEPT ![w] =
            [phase |-> "open", expected |-> seen[w].generation, payload |-> v]]
    BY <1>2 DEF Write, RegisterCall, EffectMatches
  <2>4. QED
    BY <1>2, <2>1, <2>2, <2>3 DEF Write, store, Register!Call
<1>3. ASSUME NEW w \in Writers, RefuseStale(w) PROVE Register!Refuse(w)
  <2>1. RegisterCall[w].phase = "open" /\ RegisterCall[w].expected # file.generation
    BY <1>3, RegisterPhase DEF RefuseStale, EffectMatches
  <2>2. RegisterCall' = [RegisterCall EXCEPT ![w].phase = "stale"]
    BY <1>3 DEF RefuseStale, Leave, RegisterCall
  <2>3. QED
    BY <1>3, <2>1, <2>2 DEF RefuseStale, store, Register!Refuse
<1>4. ASSUME NEW w \in Writers, Rename(w) PROVE Register!Install(w)
  <2>1. RegisterCall[w].phase = "open" /\ RegisterCall[w].expected = file.generation
    BY <1>4, RegisterPhase DEF Rename, EffectMatches, InFlight
  <2>2. RegisterCall' = [RegisterCall EXCEPT ![w].phase = "installed"]
    BY <1>4 DEF Rename, RegisterCall
  <2>3. file' = [generation |-> file.generation + 1, payload |-> RegisterCall[w].payload]
    BY <1>4, <2>1, RegisterPhase DEF Rename, Staged
  <2>4. QED
    BY <1>4, <2>1, <2>2, <2>3 DEF Rename, Register!Install
<1>5. ASSUME NEW w \in Writers,
             RefuseLocked(w) \/ CloseLock(w) \/ OpenFails(w) \/ CloseFails(w) \/ Crash(w)
      PROVE  Register!Return(w)
  <2>1. UNCHANGED file
    BY <1>5 DEF RefuseLocked, CloseLock, OpenFails, CloseFails, Crash, store
  <2>2. RegisterCall[w].phase \in {"open", "installed", "stale"}
    BY <1>5, RegisterPhase
    DEF RefuseLocked, CloseLock, OpenFails, CloseFails, Crash
  <2>3. {"ERROR", "LOST"} \subseteq Register!Truthful(RegisterCall[w].phase)
    BY <2>2 DEF Register!Truthful
  <2>4. CASE RefuseLocked(w)
    <3>1. RegisterCall[w].phase = "open"
      BY <2>4, RegisterPhase DEF RefuseLocked, EffectMatches
    <3>2. QED
      BY <2>1, <2>4, <3>1, AnswerReturns DEF RefuseLocked, Register!Truthful
  <2>5. CASE CloseLock(w)
    <3>1. outcome[w] \in Register!Truthful(RegisterCall[w].phase)
      BY <2>3, <2>5, RegisterPhase
      DEF CloseLock, EffectMatches, Installed, Register!Truthful
    <3>2. QED
      BY <2>1, <2>5, <3>1, AnswerReturns DEF CloseLock
  <2>6. CASE OpenFails(w) \/ CloseFails(w) \/ Crash(w)
    BY <2>1, <2>3, <2>6, AnswerReturns DEF OpenFails, CloseFails, Crash
  <2>7. QED
    BY <1>5, <2>4, <2>5, <2>6
<1>6. CASE UNCHANGED vars
  BY <1>6 DEF vars, RegisterCall, Register!vars
<1>7. ~PowerLoss
  BY DEF PowerLoss
<1>8. QED
  BY <1>1, <1>2, <1>3, <1>4, <1>5, <1>6, <1>7
  DEF Next, WriteStep, FaultStep, Register!Next, Register!vars

(* Without a power loss, the lock file, the staged file and the rename     *)
(* together behave as one generation-checked register (lines 58-115).      *)
THEOREM StoreImplementsRegister ==
    ASSUME "power" \notin Faults PROVE Spec => ImplementsRegister
<1>1. Init => EffectMatches
  BY DEF Init, EffectMatches, Installed
<1>2. Init => Register!Init
  BY DEF Init, Register!Init, RegisterCall, Register!NoCall, NoRequest, Absent,
     Register!Absent
<1>3. FileInv /\ EffectMatches /\ [Next]_vars => EffectMatches'
  BY EffectStep
<1>4. FileInv /\ EffectMatches /\ [Next]_vars => [Register!Next]_(Register!vars)
  BY RegisterStep
<1>5. QED
  BY <1>1, <1>2, <1>3, <1>4, FileInvariant, PTL DEF Spec, ImplementsRegister, Register!Spec
=================================================================================
