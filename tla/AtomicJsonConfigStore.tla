-------------------------- MODULE AtomicJsonConfigStore --------------------------
(***************************************************************************)
(* The JSON configuration store of packages/persistence: one file that     *)
(* several processes replace under a lock file, each replacement naming    *)
(* the generation it expects to replace.                                   *)
(*                                                                         *)
(* write() runs without an await, so inside one process calls never        *)
(* overlap; the actors here are processes, and what interleaves are their  *)
(* file system calls: create the lock file exclusively, read and compare,  *)
(* stage a temporary file, rename it over the target, fsync the directory, *)
(* read back, remove the lock file.                                        *)
(***************************************************************************)
EXTENDS Naturals, FiniteSets

CONSTANTS Writers,         \* processes that share the file
          Payloads,        \* configurations a caller may try to write
          ValidPayloads,   \* those that validatePayload accepts
          NoPayload,       \* stands for "the file does not exist"
          Faults,          \* which faults happen: subset of AllFaults
          MaxGeneration    \* bound on the generations that are written

AllFaults == {"io",     \* a file system call of write()'s body throws
              "unlink", \* the removal of the lock file throws
              "crash",  \* the process dies between two of them
              "power",  \* the machine does
              "nosync"} \* the file system ignores the fsync of a directory

ASSUME StoreAssumption ==
    /\ ValidPayloads \subseteq Payloads
    /\ NoPayload \notin Payloads
    /\ Faults \subseteq AllFaults
    /\ MaxGeneration \in Nat

VARIABLES file,         \* the snapshot that a reader of the target file gets
          persistable,  \* snapshots that the target may hold after a power loss
          lockFile,     \* whether the .lock file exists
          lockPersistable, \* whether it may exist after a power loss
          pc,           \* pc[w]: the next file system call of w's write
          request,      \* request[w]: the arguments of w's write
          outcome,      \* outcome[w]: what w's write is about to answer
          answer,       \* answer[w]: what the last write of w answered
          seen,         \* seen[w]: the snapshot that w's caller last read
          effect,       \* effect[w]: what w's write has come to (history)
          written       \* the answers WRITTEN so far (history)

store == <<file, persistable, lockFile, lockPersistable>>
vars  == <<file, persistable, lockFile, lockPersistable,
           pc, request, outcome, answer, seen, effect, written>>

Snapshots == [generation : Nat, payload : ValidPayloads \cup {NoPayload}]
Absent    == [generation |-> 0, payload |-> NoPayload]
Requests  == [expected : Nat, payload : Payloads \cup {NoPayload}]
NoRequest == [expected |-> 0, payload |-> NoPayload]

(* "opening" is before the lock file is created; from "locked" to "closing" *)
(* the writer is inside try ... finally and owns the lock file.             *)
Inside   == {"locked", "staged", "renamed", "synced", "closing"}
Replies  == {"WRITTEN", "GENERATION_CONFLICT", "WRITER_CONFLICT", "ERROR"}

TypeOK ==
    /\ file \in Snapshots
    /\ persistable \subseteq Snapshots
    /\ lockFile \in BOOLEAN
    /\ lockPersistable \subseteq BOOLEAN
    /\ pc \in [Writers -> {"idle", "opening"} \cup Inside]
    /\ request \in [Writers -> Requests]
    /\ outcome \in [Writers -> Replies \cup {"NONE"}]
    /\ answer \in [Writers -> Replies \cup {"NONE", "LOST"}]
    /\ seen \in [Writers -> Snapshots]
    /\ effect \in [Writers -> {"none", "installed", "stale"}]
    /\ written \subseteq [writer : Writers, snapshot : Snapshots]

Init ==
    /\ file = Absent
    /\ persistable = {Absent}
    /\ lockFile = FALSE
    /\ lockPersistable = {FALSE}
    /\ pc = [w \in Writers |-> "idle"]
    /\ request = [w \in Writers |-> NoRequest]
    /\ outcome = [w \in Writers |-> "NONE"]
    /\ answer = [w \in Writers |-> "NONE"]
    /\ seen = [w \in Writers |-> Absent]
    /\ effect = [w \in Writers |-> "none"]
    /\ written = {}

---------------------------------------------------------------------------------
(* read(): null when the file does not exist, else a validated snapshot.   *)
(* The rename is atomic, so a reader never finds half a file.              *)
Read(w) ==
    /\ pc[w] = "idle"
    /\ seen' = [seen EXCEPT ![w] = file]
    /\ UNCHANGED <<store, pc, request, outcome, answer, effect, written>>

(* A caller writes on top of what it last read, which may be long ago.     *)
Write(w, v) ==
    /\ pc[w] = "idle"
    /\ seen[w].generation < MaxGeneration
    /\ pc' = [pc EXCEPT ![w] = "opening"]
    /\ request' = [request EXCEPT ![w] = [expected |-> seen[w].generation, payload |-> v]]
    /\ UNCHANGED <<store, outcome, answer, seen, effect, written>>

(* The call of w ends with this answer; write() is idle again.             *)
Answer(w, a) ==
    /\ pc' = [pc EXCEPT ![w] = "idle"]
    /\ request' = [request EXCEPT ![w] = NoRequest]
    /\ outcome' = [outcome EXCEPT ![w] = "NONE"]
    /\ effect' = [effect EXCEPT ![w] = "none"]
    /\ answer' = [answer EXCEPT ![w] = a]

(* A bug: the lock file is opened without 'x', or taken over when it is    *)
(* already there.                                                          *)
OpenLockShared(w) ==
    /\ pc[w] = "opening"
    /\ lockFile' = TRUE
    /\ lockPersistable' = lockPersistable \cup {TRUE}
    /\ pc' = [pc EXCEPT ![w] = "locked"]
    /\ UNCHANGED <<file, persistable, request, outcome, answer, seen, effect, written>>

(* openSync(lockPath, 'wx'): creates the lock file or fails with EEXIST.   *)
OpenLock(w) ==
    /\ pc[w] = "opening"
    /\ ~lockFile
    /\ lockFile' = TRUE
    /\ lockPersistable' = lockPersistable \cup {TRUE}
    /\ pc' = [pc EXCEPT ![w] = "locked"]
    /\ UNCHANGED <<file, persistable, request, outcome, answer, seen, effect, written>>

(* Bugs: the held lock is answered as a conflict of generations, or waited *)
(* for.                                                                    *)
RefuseLockedAsStale(w) ==
    /\ pc[w] = "opening"
    /\ lockFile
    /\ Answer(w, "GENERATION_CONFLICT")
    /\ UNCHANGED <<store, seen, written>>

RefuseLockedWaits(w) == pc[w] = "opening" /\ lockFile /\ UNCHANGED vars

RefuseLocked(w) ==
    /\ pc[w] = "opening"
    /\ lockFile
    /\ Answer(w, "WRITER_CONFLICT")
    /\ UNCHANGED <<store, seen, written>>

(* The body is left through finally with this result.                      *)
Leave(w, result) ==
    /\ pc' = [pc EXCEPT ![w] = "closing"]
    /\ outcome' = [outcome EXCEPT ![w] = result]

RefuseStale(w) ==
    /\ pc[w] = "locked"
    /\ file.generation # request[w].expected
    /\ Leave(w, "GENERATION_CONFLICT")
    /\ effect' = [effect EXCEPT ![w] = "stale"]
    /\ UNCHANGED <<store, request, answer, seen, written>>

(* validatePayload throws on the payload of the request.                   *)
RejectPayload(w) ==
    /\ pc[w] = "locked"
    /\ file.generation = request[w].expected
    /\ request[w].payload \notin ValidPayloads
    /\ Leave(w, "ERROR")
    /\ UNCHANGED <<store, request, answer, seen, effect, written>>

(* Bugs: the generations are not compared; the payload is not validated.   *)
StageAnyGeneration(w) ==
    /\ pc[w] = "locked"
    /\ request[w].payload \in ValidPayloads
    /\ pc' = [pc EXCEPT ![w] = "staged"]
    /\ UNCHANGED <<store, request, outcome, answer, seen, effect, written>>

StageUnvalidated(w) ==
    /\ pc[w] = "locked"
    /\ file.generation = request[w].expected
    /\ pc' = [pc EXCEPT ![w] = "staged"]
    /\ UNCHANGED <<store, request, outcome, answer, seen, effect, written>>

(* buildSnapshot, then the temporary file written, fsynced and verified.   *)
Stage(w) ==
    /\ pc[w] = "locked"
    /\ file.generation = request[w].expected
    /\ request[w].payload \in ValidPayloads
    /\ pc' = [pc EXCEPT ![w] = "staged"]
    /\ UNCHANGED <<store, request, outcome, answer, seen, effect, written>>

Staged(w) == [generation |-> request[w].expected + 1, payload |-> request[w].payload]

Rename(w) ==
    /\ pc[w] = "staged"
    /\ file' = Staged(w)
    /\ persistable' = persistable \cup {Staged(w)}
    /\ pc' = [pc EXCEPT ![w] = "renamed"]
    /\ effect' = [effect EXCEPT ![w] = "installed"]
    /\ UNCHANGED <<lockFile, lockPersistable, request, outcome, answer, seen, written>>

(* A bug: the directory is not synced.                                     *)
SyncDirectorySkipped(w) ==
    /\ pc[w] = "renamed"
    /\ pc' = [pc EXCEPT ![w] = "synced"]
    /\ UNCHANGED <<store, request, outcome, answer, seen, effect, written>>

(* fsync of the directory: its present entries survive a power loss, unless *)
(* the file system does not support it, an error that the code swallows.   *)
SyncDirectory(w) ==
    /\ pc[w] = "renamed"
    /\ IF "nosync" \in Faults
       THEN UNCHANGED <<persistable, lockPersistable>>
       ELSE /\ persistable' = {file}
            /\ lockPersistable' = {lockFile}
    /\ pc' = [pc EXCEPT ![w] = "synced"]
    /\ UNCHANGED <<file, lockFile, request, outcome, answer, seen, effect, written>>

ReadBack(w) ==
    /\ pc[w] = "synced"
    /\ Leave(w, IF file = Staged(w) THEN "WRITTEN" ELSE "ERROR")
    /\ UNCHANGED <<store, request, answer, seen, effect, written>>

(* finally: close the descriptor and remove the lock file.  The answers    *)
(* WRITTEN and GENERATION_CONFLICT hand the caller the current snapshot.   *)
CloseLock(w) ==
    /\ pc[w] = "closing"
    /\ lockFile' = FALSE
    /\ lockPersistable' = lockPersistable \cup {FALSE}
    /\ Answer(w, outcome[w])
    /\ IF outcome[w] = "WRITTEN"
       THEN written' = written \cup {[writer |-> w, snapshot |-> Staged(w)]}
       ELSE UNCHANGED written
    /\ IF outcome[w] \in {"WRITTEN", "GENERATION_CONFLICT"}
       THEN seen' = [seen EXCEPT ![w] = file]
       ELSE UNCHANGED seen
    /\ UNCHANGED <<file, persistable>>

---------------------------------------------------------------------------------
(* A file system call throws.  Before the lock is taken nothing is undone; *)
(* in the body the lock file is removed by finally, whether or not the     *)
(* target has been replaced; in finally itself the lock file stays.        *)
OpenFails(w) ==
    /\ "io" \in Faults
    /\ pc[w] = "opening"
    /\ Answer(w, "ERROR")
    /\ UNCHANGED <<store, seen, written>>

BodyFails(w) ==
    /\ "io" \in Faults
    /\ pc[w] \in Inside \ {"closing"}
    /\ Leave(w, "ERROR")
    /\ UNCHANGED <<store, request, answer, seen, effect, written>>

CloseFails(w) ==
    /\ "unlink" \in Faults
    /\ pc[w] = "closing"
    /\ Answer(w, "ERROR")
    /\ UNCHANGED <<store, seen, written>>

(* The process dies: finally does not run.                                 *)
Crash(w) ==
    /\ "crash" \in Faults
    /\ pc[w] # "idle"
    /\ Answer(w, "LOST")
    /\ UNCHANGED <<store, seen, written>>

(* The machine dies: every call in progress is lost, and the directory     *)
(* comes back with any entries written since its last fsync, or without.   *)
PowerLoss ==
    /\ "power" \in Faults
    /\ file' \in persistable
    /\ lockFile' \in lockPersistable
    /\ persistable' = {file'}
    /\ lockPersistable' = {lockFile'}
    /\ pc' = [w \in Writers |-> "idle"]
    /\ request' = [w \in Writers |-> NoRequest]
    /\ outcome' = [w \in Writers |-> "NONE"]
    /\ effect' = [w \in Writers |-> "none"]
    /\ answer' = [w \in Writers |-> IF pc[w] = "idle" THEN answer[w] ELSE "LOST"]
    /\ UNCHANGED <<seen, written>>

---------------------------------------------------------------------------------
WriteStep(w) == \/ OpenLock(w) \/ RefuseLocked(w) \/ RefuseStale(w)
                \/ RejectPayload(w) \/ Stage(w) \/ Rename(w)
                \/ SyncDirectory(w) \/ ReadBack(w) \/ CloseLock(w)

FaultStep(w) == OpenFails(w) \/ BodyFails(w) \/ CloseFails(w) \/ Crash(w)

Next == \/ \E w \in Writers : \/ Read(w)
                              \/ \E v \in Payloads : Write(w, v)
                              \/ WriteStep(w)
                              \/ FaultStep(w)
        \/ PowerLoss

Spec == Init /\ [][Next]_vars

(* A write that has begun runs to its end: write() never waits.            *)
Fairness == \A w \in Writers : WF_vars(WriteStep(w))

FairSpec == Spec /\ Fairness

---------------------------------------------------------------------------------
(* Properties                                                              *)

(* Two writers are never both between taking the lock file and removing    *)
(* it, whatever crashes, failing calls and power losses there are: write() *)
(* gives up at once when the lock file exists (lines 64-76).               *)
OneWriterInside ==
    \A u, w \in Writers : pc[u] \in Inside /\ pc[w] \in Inside => u = w

(* At most one write is ever acknowledged for a generation: of two callers *)
(* that both read generation g and write, at most one is told WRITTEN.     *)
OneAckPerGeneration ==
    \A a, b \in written : a.snapshot.generation = b.snapshot.generation => a = b

(* An acknowledged write is never taken back.  Whatever the file may hold  *)
(* after a power loss has at least the generation that a caller was told   *)
(* WRITTEN for, and for that same generation it is that caller's payload   *)
(* (the fsync of the temporary file and of the directory, lines 126-136).  *)
AckedIsDurable ==
    \A a \in written, s \in persistable :
        /\ s.generation >= a.snapshot.generation
        /\ s.generation = a.snapshot.generation => s = a.snapshot

(* No lost update: a rename replaces exactly the snapshot that its caller  *)
(* had read, payload included, though only the generations are compared.   *)
ReplacesWhatWasRead ==
    [][\A w \in Writers : pc[w] = "staged" /\ pc'[w] = "renamed" => file = seen[w]]_vars

(* Nobody owns the lock file any more.                                     *)
Orphaned == lockFile /\ \A w \in Writers : pc[w] \notin Inside

(* The lock file carries no owner and no age, so one that outlives its     *)
(* writer stays, and the configuration behind it never changes again.      *)
OrphanFreezesStore == [][Orphaned => Orphaned' /\ file' = file]_vars

(* Every write is answered, or its process dies: write() never waits for   *)
(* the lock file, so writers cannot wait for one another, and the lock is  *)
(* free again each time unless its writer died or failed to remove it.     *)
EveryWriteAnswered == \A w \in Writers : pc[w] = "opening" ~> pc[w] = "idle"

---------------------------------------------------------------------------------
(* Refinement: the file is the register; a write takes effect at its       *)
(* rename, or is found stale where the generations are compared.           *)
RegisterCall == [w \in Writers |->
    [phase    |-> IF pc[w] = "idle" THEN "idle"
                  ELSE IF effect[w] = "none" THEN "open" ELSE effect[w],
     expected |-> request[w].expected,
     payload  |-> request[w].payload]]

Register == INSTANCE ConfigRegister WITH
                Generations <- 0 .. MaxGeneration,
                register    <- file,
                call        <- RegisterCall

(* The store implements the register: a reply WRITTEN means that the write *)
(* has taken effect exactly once, on the generation it named; a conflict   *)
(* means that it has not and never will; only an exception leaves it open. *)
ImplementsRegister == Register!Spec
=================================================================================
