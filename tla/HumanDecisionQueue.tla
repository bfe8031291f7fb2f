---------------------------- MODULE HumanDecisionQueue ----------------------------
(***************************************************************************)
(* The queue of the decisions that wait for a person, and the answers that *)
(* were given.  Several processes park and resolve decisions: each reads   *)
(* the generation, later compares it with the file and decides, and writes *)
(* by the generation-checked configuration store (its promise, module      *)
(* ConfigRegister, which module AtomicJsonConfigStore implements).  An     *)
(* exception of the store tells the caller nothing; it starts again.       *)
(***************************************************************************)
EXTENDS Naturals

CONSTANTS Clients,        \* processes that work on the queue
          Decisions,      \* ids of decisions
          Choices,        \* answers a person may give
          MaxRevision,    \* revisions the project goes through (bound)
          MaxGeneration   \* writes of the queue (bound)

ASSUME HumanDecisionQueueAssumption == MaxRevision \in Nat /\ MaxGeneration \in Nat

VARIABLES queue,          \* the queue file: a generation and what it holds
          write,          \* write[c]: the write that c has in progress
          answer,         \* answer[c]: how the last one was answered
          desk,           \* desk[c]: what c has read and what it is doing
          revision,       \* the current revision of the project
          acknowledged    \* what the callers were told is done (history)

queueVars == <<queue, write, answer, desk, revision, acknowledged>>

Entries     == [decision : Decisions, revision : 0..MaxRevision]
Responses   == [decision : Decisions, choice : Choices]
QueueStates == [entries : SUBSET Entries, responses : SUBSET Responses]
EmptyQueue  == [entries |-> {}, responses |-> {}]

Store == INSTANCE ConfigRegister
            WITH Writers <- Clients, Payloads <- QueueStates, Generations <- Nat,
                 NoPayload <- EmptyQueue, register <- queue, call <- write

Idle == [op |-> "IDLE"]
Read == [op : {"READ"}, generation : Nat, revision : 0..MaxRevision]
Park == [op : {"QUEUED"}, decision : Decisions]
Resolve == [op : {"RESOLVED"}, decision : Decisions, choice : Choices]

QueueInit == /\ Store!Init
             /\ desk = [c \in Clients |-> Idle]
             /\ revision = 0
             /\ acknowledged = {}

(* The generation and the context of the project, read before the call.    *)
ReadHumanDecisionQueue(c) ==
    /\ desk[c] = Idle
    /\ queue.generation < MaxGeneration
    /\ desk' = [desk EXCEPT ![c] = [op |-> "READ", generation |-> queue.generation,
                                    revision |-> revision]]
    /\ UNCHANGED <<queue, write, answer, revision, acknowledged>>

(* A conflict, an invalid or stale response, an exception: nothing is      *)
(* written and the caller starts again.                                    *)
GiveUp(c) ==
    /\ desk[c].op = "READ"
    /\ desk' = [desk EXCEPT ![c] = Idle]
    /\ UNCHANGED <<queue, write, answer, revision, acknowledged>>

Parked(d)   == \E e \in queue.payload.entries : e.decision = d
Answered(d) == \E r \in queue.payload.responses : r.decision = d

(* A decision that is parked already changes nothing, one that is answered *)
(* already is an error.                                                    *)
EnqueueHumanDecision(c, d) ==
    /\ desk[c].op = "READ"
    /\ desk[c].generation = queue.generation
    /\ ~Answered(d)
    /\ ~Parked(d)
    /\ Store!Call(c, desk[c].generation,
                  [queue.payload EXCEPT !.entries = @ \cup {[decision |-> d,
                                                             revision |-> desk[c].revision]}])
    /\ desk' = [desk EXCEPT ![c] = [op |-> "QUEUED", decision |-> d]]
    /\ UNCHANGED <<revision, acknowledged>>

(* RESUME_READY: the person answers for the revision of the entry, and the *)
(* context the caller has read is of that revision.                        *)
EvaluateHumanDecisionResume(e, contextRevision) == e.revision = contextRevision

ResolveHumanDecision(c, e, choice) ==
    /\ desk[c].op = "READ"
    /\ desk[c].generation = queue.generation
    /\ e \in queue.payload.entries
    /\ EvaluateHumanDecisionResume(e, desk[c].revision)
    /\ Store!Call(c, desk[c].generation,
                  [entries   |-> {f \in queue.payload.entries : f.decision # e.decision},
                   responses |-> queue.payload.responses \cup
                                    {[decision |-> e.decision, choice |-> choice]}])
    /\ desk' = [desk EXCEPT ![c] = [op |-> "RESOLVED", decision |-> e.decision,
                                    choice |-> choice]]
    /\ UNCHANGED <<revision, acknowledged>>

StoreStep(c) == /\ Store!Install(c) \/ Store!Refuse(c)
                /\ UNCHANGED <<desk, revision, acknowledged>>

(* A bug: takes an exception for a write that was done.                    *)
ReturnResultHopeful(c) ==
    /\ write[c].phase # "idle"
    /\ Store!Return(c)
    /\ desk' = [desk EXCEPT ![c] = Idle]
    /\ acknowledged' = IF answer'[c] \in {"WRITTEN", "ERROR"} THEN acknowledged \cup {desk[c]}
                                                              ELSE acknowledged
    /\ UNCHANGED revision

(* The store answers.  Only WRITTEN is reported as done.                   *)
ReturnResult(c) ==
    /\ write[c].phase # "idle"
    /\ Store!Return(c)
    /\ desk' = [desk EXCEPT ![c] = Idle]
    /\ acknowledged' = IF answer'[c] = "WRITTEN" THEN acknowledged \cup {desk[c]}
                                                 ELSE acknowledged
    /\ UNCHANGED revision

MoveRevision == /\ revision < MaxRevision
                /\ revision' = revision + 1
                /\ UNCHANGED <<queue, write, answer, desk, acknowledged>>

QueueNext ==
    \/ MoveRevision
    \/ \E c \in Clients :
          \/ ReadHumanDecisionQueue(c)
          \/ GiveUp(c)
          \/ \E d \in Decisions : EnqueueHumanDecision(c, d)
          \/ \E e \in queue.payload.entries, choice \in Choices :
                ResolveHumanDecision(c, e, choice)
          \/ StoreStep(c)
          \/ ReturnResult(c)

QueueSpec == QueueInit /\ [][QueueNext]_queueVars
-----------------------------------------------------------------------------
QueueTypeOK ==
    /\ queue \in [generation : Nat, payload : QueueStates]
    /\ write \in [Clients -> [phase : Store!Phases, expected : Nat, payload : QueueStates]]
    /\ desk \in [Clients -> {Idle} \cup Read \cup Park \cup Resolve]
    /\ revision \in 0..MaxRevision
    /\ acknowledged \subseteq Park \cup Resolve

(* What a caller was told is done stays done, whatever the other processes *)
(* write: a queued decision waits until its answer is stored, the answer   *)
(* that was reported is the one that is kept, and no decision is answered  *)
(* twice or answered and still waiting.                                    *)
AcknowledgedIsKept ==
    /\ \A a \in acknowledged :
          IF a.op = "QUEUED" THEN Parked(a.decision) \/ Answered(a.decision)
          ELSE [decision |-> a.decision, choice |-> a.choice] \in queue.payload.responses
    /\ \A r, s \in queue.payload.responses : r.decision = s.decision => r = s
    /\ \A r \in queue.payload.responses : ~Parked(r.decision)
=================================================================================
