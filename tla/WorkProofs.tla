-------------------------------- MODULE WorkProofs --------------------------------
(***************************************************************************)
(* The queue of human decisions, for any number of processes, decisions    *)
(* and revisions; the commits that one worker makes in a workspace, for    *)
(* any number of activities; and the states of the nodes of a workflow,    *)
(* for any finite graph without cycles.                                    *)
(***************************************************************************)
EXTENDS HumanDecisionQueue, GitWriteWave, WorkflowEngine, FiniteSetTheorems,
        WellFoundedInduction, TLAPS

(* What a file of the queue must hold once a was reported as done.         *)
Done(a, file) ==
    IF a.op = "QUEUED" THEN \/ \E e \in file.entries : e.decision = a.decision
                            \/ \E r \in file.responses : r.decision = a.decision
    ELSE [decision |-> a.decision, choice |-> a.choice] \in file.responses

(* No decision is answered twice, or answered and still waiting.           *)
Sound(file) == /\ \A r, s \in file.responses : r.decision = s.decision => r = s
               /\ \A r \in file.responses, e \in file.entries : r.decision # e.decision

(* Replacing a file by another takes nothing back.                         *)
Carries(old, new) == \A a \in Park \cup Resolve : Done(a, old) => Done(a, new)

(* A write that can still take effect carries the file it was made from,   *)
(* which is the current one; one that has taken effect is done.            *)
Promise(c) ==
    /\ write[c].phase = "idle" <=> desk[c] \in {Idle} \cup Read
    /\ write[c].phase # "idle" => desk[c] \in Park \cup Resolve
    /\ write[c].phase = "open" =>
          /\ write[c].expected <= queue.generation
          /\ write[c].expected = queue.generation =>
                /\ Sound(write[c].payload)
                /\ Carries(queue.payload, write[c].payload)
                /\ Done(desk[c], write[c].payload)
    /\ write[c].phase = "installed" => Done(desk[c], queue.payload)

AnswersKnown == DOMAIN answer = Clients

QueueInv == /\ QueueTypeOK
            /\ \A c \in Clients : Promise(c)
            /\ \A a \in acknowledged : Done(a, queue.payload)
            /\ Sound(queue.payload)

LEMMA OpsDiffer ==
    /\ \A a \in Park : a.op = "QUEUED"
    /\ \A a \in Resolve : a.op = "RESOLVED"
    /\ \A a \in Read : a.op = "READ"
    /\ Idle.op = "IDLE"
  BY DEF Park, Resolve, Read, Idle

LEMMA QueueInitially == QueueInit => QueueInv
<1> SUFFICES ASSUME QueueInit PROVE QueueInv
  OBVIOUS
<1>1. /\ queue = [generation |-> 0, payload |-> EmptyQueue]
      /\ write = [c \in Clients |-> Store!NoCall]
      /\ desk = [c \in Clients |-> Idle] /\ revision = 0 /\ acknowledged = {}
  BY DEF QueueInit, Store!Init, Store!Absent
<1>2. EmptyQueue \in QueueStates /\ Sound(EmptyQueue)
  BY DEF EmptyQueue, QueueStates, Sound
<1>3. Store!NoCall \in [phase : Store!Phases, expected : Nat, payload : QueueStates]
  BY <1>2 DEF Store!NoCall, Store!Phases
<1>4. QueueTypeOK
  BY <1>1, <1>2, <1>3, HumanDecisionQueueAssumption DEF QueueTypeOK
<1>5. ASSUME NEW c \in Clients PROVE Promise(c)
  BY <1>1 DEF Promise, Store!NoCall
<1>6. QED
  BY <1>1, <1>2, <1>4, <1>5 DEF QueueInv

(* The two files that are ever written carry the one they are made from.   *)
LEMMA ParkCarries ==
    ASSUME NEW old \in QueueStates, Sound(old), NEW d \in Decisions, NEW n,
           \A r \in old.responses : r.decision # d
    PROVE  LET new == [old EXCEPT !.entries = @ \cup {[decision |-> d, revision |-> n]}]
           IN  /\ Sound(new)
               /\ Carries(old, new)
               /\ Done([op |-> "QUEUED", decision |-> d], new)
<1> DEFINE entry == [decision |-> d, revision |-> n]
           new   == [old EXCEPT !.entries = @ \cup {entry}]
<1>1. new.entries = old.entries \cup {entry} /\ new.responses = old.responses
  BY DEF QueueStates
<1> HIDE DEF new
<1>2. Sound(new)
  BY <1>1 DEF Sound
<1>3. Done([op |-> "QUEUED", decision |-> d], new)
  <2>1. entry \in new.entries /\ entry.decision = d
    BY <1>1
  <2>2. QED
    BY <2>1 DEF Done
<1>4. ASSUME NEW a \in Park \cup Resolve, Done(a, old) PROVE Done(a, new)
  BY <1>1, <1>4 DEF Done
<1>5. QED
  BY <1>2, <1>3, <1>4 DEF Carries, new

LEMMA ResolveCarries ==
    ASSUME NEW old \in QueueStates, Sound(old), NEW e \in old.entries, NEW choice \in Choices
    PROVE  LET new == [entries   |-> {f \in old.entries : f.decision # e.decision},
                       responses |-> old.responses \cup
                                        {[decision |-> e.decision, choice |-> choice]}]
           IN  /\ Sound(new)
               /\ Carries(old, new)
               /\ Done([op |-> "RESOLVED", decision |-> e.decision, choice |-> choice], new)
<1> DEFINE new == [entries   |-> {f \in old.entries : f.decision # e.decision},
                   responses |-> old.responses \cup
                                    {[decision |-> e.decision, choice |-> choice]}]
<1>1. Sound(new)
  BY DEF Sound
<1>2. Done([op |-> "RESOLVED", decision |-> e.decision, choice |-> choice], new)
  BY DEF Done
<1>3. ASSUME NEW a \in Park, Done(a, old) PROVE Done(a, new)
  BY <1>3, OpsDiffer DEF Done
<1>4. ASSUME NEW a \in Resolve, Done(a, old) PROVE Done(a, new)
  BY <1>4, OpsDiffer DEF Done
<1>5. QED
  BY <1>1, <1>2, <1>3, <1>4 DEF Carries

(* A caller that starts to write: the promise of its call holds, and those *)
(* of the others are not touched.                                          *)
LEMMA CallStep ==
    ASSUME QueueInv, NEW c \in Clients, NEW new \in QueueStates, NEW what \in Park \cup Resolve,
           desk[c].op = "READ", desk[c].generation = queue.generation,
           Store!Call(c, desk[c].generation, new),
           desk' = [desk EXCEPT ![c] = what], UNCHANGED <<revision, acknowledged>>,
           Sound(new), Carries(queue.payload, new), Done(what, new)
    PROVE  QueueInv'
<1>1. /\ write' = [write EXCEPT ![c] = [phase |-> "open", expected |-> queue.generation,
                                        payload |-> new]]
      /\ queue' = queue
  BY DEF Store!Call
<1>2. queue.generation \in Nat
  BY DEF QueueInv, QueueTypeOK
<1>3. QueueTypeOK'
  <2>1. [phase |-> "open", expected |-> queue.generation, payload |-> new]
        \in [phase : Store!Phases, expected : Nat, payload : QueueStates]
    BY <1>2 DEF Store!Phases
  <2>2. write' \in [Clients -> [phase : Store!Phases, expected : Nat, payload : QueueStates]]
    BY <1>1, <2>1 DEF QueueInv, QueueTypeOK
  <2>3. desk' \in [Clients -> {Idle} \cup Read \cup Park \cup Resolve]
    BY DEF QueueInv, QueueTypeOK
  <2>4. QED
    BY <1>1, <2>2, <2>3 DEF QueueInv, QueueTypeOK
<1>4. Promise(c)'
  <2>1. /\ write'[c] = [phase |-> "open", expected |-> queue.generation, payload |-> new]
        /\ desk'[c] = what
    BY <1>1 DEF QueueInv, QueueTypeOK
  <2>2. what \notin {Idle} \cup Read
    BY OpsDiffer
  <2>3. QED
    BY <1>1, <1>2, <2>1, <2>2 DEF Promise
<1>5. ASSUME NEW u \in Clients, u # c PROVE Promise(u)'
  <2>1. write'[u] = write[u] /\ desk'[u] = desk[u] /\ Promise(u)
    BY <1>1, <1>5 DEF QueueInv, QueueTypeOK
  <2>2. QED
    BY <1>1, <2>1 DEF Promise
<1>6. QED
  BY <1>1, <1>3, <1>4, <1>5 DEF QueueInv

LEMMA EnqueueStep ==
    ASSUME QueueInv, NEW c \in Clients, NEW d \in Decisions, EnqueueHumanDecision(c, d)
    PROVE  QueueInv'
<1> DEFINE entry == [decision |-> d, revision |-> desk[c].revision]
           new   == [queue.payload EXCEPT !.entries = @ \cup {entry}]
           what  == [op |-> "QUEUED", decision |-> d]
<1>1. /\ desk[c].op = "READ" /\ desk[c].generation = queue.generation
      /\ Store!Call(c, desk[c].generation, new)
      /\ desk' = [desk EXCEPT ![c] = what] /\ UNCHANGED <<revision, acknowledged>>
      /\ \A r \in queue.payload.responses : r.decision # d
  BY DEF EnqueueHumanDecision, Answered
<1>2. queue.payload \in QueueStates /\ Sound(queue.payload)
  BY DEF QueueInv, QueueTypeOK
<1>3. Sound(new) /\ Carries(queue.payload, new) /\ Done(what, new)
  BY <1>1, <1>2, ParkCarries
<1>4. desk[c] \in Read
  BY <1>1, OpsDiffer DEF QueueInv, QueueTypeOK
<1>5. new \in QueueStates
  BY <1>2, <1>4 DEF QueueStates, Read, Entries
<1>6. what \in Park \cup Resolve
  BY DEF Park
<1> HIDE DEF new, what
<1>7. QED
  BY <1>1, <1>3, <1>5, <1>6, CallStep

LEMMA ResolveStep ==
    ASSUME QueueInv, NEW c \in Clients, NEW e \in queue.payload.entries,
           NEW choice \in Choices, ResolveHumanDecision(c, e, choice)
    PROVE  QueueInv'
<1> DEFINE new  == [entries   |-> {f \in queue.payload.entries : f.decision # e.decision},
                    responses |-> queue.payload.responses \cup
                                     {[decision |-> e.decision, choice |-> choice]}]
           what == [op |-> "RESOLVED", decision |-> e.decision, choice |-> choice]
<1>1. /\ desk[c].op = "READ" /\ desk[c].generation = queue.generation
      /\ Store!Call(c, desk[c].generation, new)
      /\ desk' = [desk EXCEPT ![c] = what] /\ UNCHANGED <<revision, acknowledged>>
  BY DEF ResolveHumanDecision
<1>2. queue.payload \in QueueStates /\ Sound(queue.payload)
  BY DEF QueueInv, QueueTypeOK
<1>3. Sound(new) /\ Carries(queue.payload, new) /\ Done(what, new)
  BY <1>2, ResolveCarries
<1>4. e.decision \in Decisions
  BY <1>2 DEF QueueStates, Entries
<1>5. new \in QueueStates
  BY <1>2, <1>4 DEF QueueStates, Responses
<1>6. what \in Park \cup Resolve
  BY <1>4 DEF Resolve
<1> HIDE DEF new, what
<1>7. QED
  BY <1>1, <1>3, <1>5, <1>6, CallStep

(* A write that takes effect makes every other open call stale, and takes  *)
(* back nothing that was done.                                             *)
LEMMA InstallStep ==
    ASSUME QueueInv, NEW c \in Clients, Store!Install(c),
           UNCHANGED <<desk, revision, acknowledged>>
    PROVE  QueueInv'
<1>1. /\ write[c].phase = "open" /\ write[c].expected = queue.generation
      /\ queue' = [generation |-> queue.generation + 1, payload |-> write[c].payload]
      /\ write' = [write EXCEPT ![c].phase = "installed"]
  BY DEF Store!Install
<1>2. /\ queue.generation \in Nat
      /\ write[c] \in [phase : Store!Phases, expected : Nat, payload : QueueStates]
  BY DEF QueueInv, QueueTypeOK
<1>3. /\ Sound(write[c].payload)
      /\ Carries(queue.payload, write[c].payload)
      /\ Done(desk[c], write[c].payload)
      /\ desk[c] \in Park \cup Resolve
  BY <1>1 DEF QueueInv, Promise
<1>4. QueueTypeOK'
  <2>1. queue' \in [generation : Nat, payload : QueueStates]
    BY <1>1, <1>2
  <2>2. write' \in [Clients -> [phase : Store!Phases, expected : Nat, payload : QueueStates]]
    BY <1>1, <1>2 DEF QueueInv, QueueTypeOK, Store!Phases
  <2>3. QED
    BY <2>1, <2>2 DEF QueueInv, QueueTypeOK
<1>5. Promise(c)'
  <2>1. write'[c].phase = "installed" /\ queue'.payload = write[c].payload /\ desk' = desk
    BY <1>1, <1>2 DEF QueueInv, QueueTypeOK
  <2>2. desk[c] \notin {Idle} \cup Read
    BY <1>3, OpsDiffer
  <2>3. QED
    BY <1>3, <2>1, <2>2 DEF Promise
<1>6. ASSUME NEW u \in Clients, u # c PROVE Promise(u)'
  <2>1. write'[u] = write[u] /\ desk'[u] = desk[u] /\ Promise(u)
    BY <1>1, <1>6 DEF QueueInv, QueueTypeOK
  <2>2. queue'.generation = queue.generation + 1 /\ queue'.payload = write[c].payload
    BY <1>1
  <2>3. write[u].expected \in Nat
    BY DEF QueueInv, QueueTypeOK
  <2>4. ASSUME write[u].phase = "open"
        PROVE  write[u].expected <= queue'.generation /\ write[u].expected # queue'.generation
    BY <1>2, <2>1, <2>2, <2>3, <2>4 DEF Promise
  <2>5. ASSUME write[u].phase = "installed" PROVE Done(desk[u], queue'.payload)
    BY <1>3, <2>1, <2>2, <2>5 DEF Promise, Carries
  <2>6. QED
    BY <2>1, <2>4, <2>5 DEF Promise
<1>7. \A a \in acknowledged' : Done(a, queue'.payload)
  BY <1>1, <1>3 DEF QueueInv, QueueTypeOK, Carries
<1>8. QED
  BY <1>1, <1>3, <1>4, <1>5, <1>6, <1>7 DEF QueueInv

LEMMA RefuseStep ==
    ASSUME QueueInv, NEW c \in Clients, Store!Refuse(c),
           UNCHANGED <<desk, revision, acknowledged>>
    PROVE  QueueInv'
<1>1. /\ write' = [write EXCEPT ![c].phase = "stale"]
      /\ queue' = queue /\ write[c].phase = "open"
  BY DEF Store!Refuse
<1>2. write[c] \in [phase : Store!Phases, expected : Nat, payload : QueueStates]
  BY DEF QueueInv, QueueTypeOK
<1>3. QueueTypeOK'
  BY <1>1, <1>2 DEF QueueInv, QueueTypeOK, Store!Phases
<1>4. ASSUME NEW u \in Clients PROVE Promise(u)'
  <2>1. CASE u = c
    <3>1. write'[c].phase = "stale"
      BY <1>1, <1>2 DEF QueueInv, QueueTypeOK
    <3>2. QED
      BY <1>1, <2>1, <3>1 DEF QueueInv, Promise
  <2>2. CASE u # c
    <3>1. write'[u] = write[u]
      BY <1>1, <2>2 DEF QueueInv, QueueTypeOK
    <3>2. QED
      BY <1>1, <3>1 DEF QueueInv, Promise
  <2>3. QED
    BY <2>1, <2>2
<1>5. QED
  BY <1>1, <1>3, <1>4 DEF QueueInv

(* WRITTEN is only ever answered to a write that has taken effect.         *)
LEMMA ReturnStep ==
    ASSUME QueueInv, AnswersKnown, NEW c \in Clients, ReturnResult(c)
    PROVE  QueueInv'
<1>1. /\ write' = [write EXCEPT ![c] = Store!NoCall]
      /\ queue' = queue /\ revision' = revision
      /\ desk' = [desk EXCEPT ![c] = Idle]
      /\ write[c].phase # "idle"
      /\ acknowledged' = acknowledged \/ acknowledged' = acknowledged \cup {desk[c]}
  BY DEF ReturnResult, Store!Return
<1>2. Store!NoCall \in [phase : Store!Phases, expected : Nat, payload : QueueStates]
  BY DEF Store!NoCall, Store!Phases, QueueStates, EmptyQueue
<1>3. desk[c] \in Park \cup Resolve
  BY <1>1 DEF QueueInv, Promise
<1>4. QueueTypeOK'
  <2>1. write' \in [Clients -> [phase : Store!Phases, expected : Nat, payload : QueueStates]]
    BY <1>1, <1>2 DEF QueueInv, QueueTypeOK
  <2>2. desk' \in [Clients -> {Idle} \cup Read \cup Park \cup Resolve]
    BY <1>1 DEF QueueInv, QueueTypeOK
  <2>3. acknowledged' \subseteq Park \cup Resolve
    BY <1>1, <1>3 DEF QueueInv, QueueTypeOK
  <2>4. QED
    BY <1>1, <2>1, <2>2, <2>3 DEF QueueInv, QueueTypeOK
<1>5. ASSUME NEW u \in Clients PROVE Promise(u)'
  <2>1. CASE u = c
    <3>1. write'[c] = Store!NoCall /\ desk'[c] = Idle
      BY <1>1 DEF QueueInv, QueueTypeOK
    <3>2. QED
      BY <2>1, <3>1 DEF Promise, Store!NoCall
  <2>2. CASE u # c
    <3>1. write'[u] = write[u] /\ desk'[u] = desk[u]
      BY <1>1, <2>2 DEF QueueInv, QueueTypeOK
    <3>2. QED
      BY <1>1, <3>1 DEF QueueInv, Promise
  <2>3. QED
    BY <2>1, <2>2
<1>6. acknowledged' # acknowledged => Done(desk[c], queue.payload)
  <2> SUFFICES ASSUME acknowledged' # acknowledged PROVE Done(desk[c], queue.payload)
    OBVIOUS
  <2>1. PICK a \in Store!Truthful(write[c].phase) : answer' = [answer EXCEPT ![c] = a]
    BY DEF ReturnResult, Store!Return
  <2>2. answer'[c] = "WRITTEN"
    BY DEF ReturnResult
  <2>3. "WRITTEN" \in Store!Truthful(write[c].phase)
    BY <2>1, <2>2 DEF AnswersKnown
  <2>4. write[c].phase = "installed"
    BY <2>3 DEF Store!Truthful
  <2>5. QED
    BY <2>4 DEF QueueInv, Promise
<1>7. \A a \in acknowledged' : Done(a, queue'.payload)
  BY <1>1, <1>6 DEF QueueInv
<1>8. QED
  BY <1>1, <1>4, <1>5, <1>7 DEF QueueInv

LEMMA ReadStep ==
    ASSUME QueueInv, NEW c \in Clients, NEW d \in {Idle} \cup Read,
           desk[c] \in {Idle} \cup Read, desk' = [desk EXCEPT ![c] = d],
           UNCHANGED <<queue, write, revision, acknowledged>>
    PROVE  QueueInv'
<1>1. QueueTypeOK'
  BY DEF QueueInv, QueueTypeOK
<1>2. ASSUME NEW u \in Clients PROVE Promise(u)'
  <2>1. CASE u = c
    <3>1. desk'[c] = d /\ write[c].phase = "idle"
      BY DEF QueueInv, QueueTypeOK, Promise
    <3>2. QED
      BY <2>1, <3>1 DEF Promise
  <2>2. CASE u # c
    <3>1. desk'[u] = desk[u]
      BY <2>2 DEF QueueInv, QueueTypeOK
    <3>2. QED
      BY <3>1 DEF QueueInv, Promise
  <2>3. QED
    BY <2>1, <2>2
<1>3. QED
  BY <1>1, <1>2 DEF QueueInv

LEMMA QueueStep ==
    ASSUME QueueInv, AnswersKnown, [QueueNext]_queueVars PROVE QueueInv'
<1>1. ASSUME MoveRevision PROVE QueueInv'
  <2>1. revision' \in 0..MaxRevision /\ UNCHANGED <<queue, write, answer, desk, acknowledged>>
    BY <1>1, HumanDecisionQueueAssumption DEF MoveRevision, QueueInv, QueueTypeOK
  <2>2. QED
    BY <2>1 DEF QueueInv, QueueTypeOK, Promise
<1>2. ASSUME NEW c \in Clients, ReadHumanDecisionQueue(c) PROVE QueueInv'
  <2> DEFINE read == [op |-> "READ", generation |-> queue.generation, revision |-> revision]
  <2>1. read \in Read
    BY DEF Read, QueueInv, QueueTypeOK
  <2>2. QED
    BY <1>2, <2>1, ReadStep DEF ReadHumanDecisionQueue
<1>3. ASSUME NEW c \in Clients, GiveUp(c) PROVE QueueInv'
  <2>1. desk[c] \in Read
    BY <1>3, OpsDiffer DEF GiveUp, QueueInv, QueueTypeOK
  <2>2. QED
    BY <1>3, <2>1, ReadStep DEF GiveUp
<1>4. ASSUME NEW c \in Clients, NEW d \in Decisions, EnqueueHumanDecision(c, d)
      PROVE  QueueInv'
  BY <1>4, EnqueueStep
<1>5. ASSUME NEW c \in Clients, NEW e \in queue.payload.entries, NEW choice \in Choices,
             ResolveHumanDecision(c, e, choice)
      PROVE  QueueInv'
  BY <1>5, ResolveStep
<1>6. ASSUME NEW c \in Clients, StoreStep(c) PROVE QueueInv'
  BY <1>6, InstallStep, RefuseStep DEF StoreStep
<1>7. ASSUME NEW c \in Clients, ReturnResult(c) PROVE QueueInv'
  BY <1>7, ReturnStep
<1>8. ASSUME UNCHANGED queueVars PROVE QueueInv'
  BY <1>8 DEF queueVars, QueueInv, QueueTypeOK, Promise
<1>9. QED
  BY <1>1, <1>2, <1>3, <1>4, <1>5, <1>6, <1>7, <1>8 DEF QueueNext

LEMMA AnswersStep ==
    ASSUME AnswersKnown, [QueueNext]_queueVars PROVE AnswersKnown'
<1>1. CASE UNCHANGED answer
  BY <1>1 DEF AnswersKnown
<1>2. ASSUME NEW c \in Clients, Store!Return(c) PROVE AnswersKnown'
  BY <1>2 DEF Store!Return, AnswersKnown
<1>3. UNCHANGED answer \/ \E c \in Clients : Store!Return(c)
  BY DEF QueueNext, MoveRevision, ReadHumanDecisionQueue, GiveUp, EnqueueHumanDecision,
         ResolveHumanDecision, StoreStep, ReturnResult, Store!Call, Store!Install,
         Store!Refuse, queueVars
<1>4. QED
  BY <1>1, <1>2, <1>3

LEMMA QueueInvariant == QueueSpec => []QueueInv
<1>1. QueueInit => QueueInv /\ AnswersKnown
  BY QueueInitially DEF QueueInit, Store!Init, AnswersKnown
<1>2. QueueInv /\ AnswersKnown /\ [QueueNext]_queueVars
      => QueueInv' /\ AnswersKnown'
  BY QueueStep, AnswersStep
<1>3. QED
  BY <1>1, <1>2, PTL DEF QueueSpec

(* A caller that was told of a write finds what it stands for in the file, *)
(* whoever writes after it.                                                *)
THEOREM AcknowledgedIsKeptHolds == QueueSpec => []AcknowledgedIsKept
<1>1. QueueInv => AcknowledgedIsKept
  <2> SUFFICES ASSUME QueueInv PROVE AcknowledgedIsKept
    OBVIOUS
  <2>1. \A a \in acknowledged : Done(a, queue.payload)
    BY DEF QueueInv
  <2>2. Sound(queue.payload)
    BY DEF QueueInv
  <2>3. QED
    BY <2>1, <2>2 DEF AcknowledgedIsKept, Done, Sound, Parked, Answered
<1>2. QED
  BY QueueInvariant, <1>1, PTL

(* No write of any process takes anything out of the queue, acknowledged   *)
(* or not: an answer stays as it was given, and a decision that waits goes *)
(* on waiting until it is answered.                                        *)
THEOREM QueueLosesNothing ==
    QueueSpec => [][/\ queue.payload.responses \subseteq queue'.payload.responses
                    /\ \A d \in Decisions : Parked(d) => Parked(d)' \/ Answered(d)']_queueVars
<1>1. ASSUME QueueInv, [QueueNext]_queueVars
      PROVE  queue' = queue \/ Carries(queue.payload, queue'.payload)
  <2>1. ASSUME NEW c \in Clients, Store!Install(c) PROVE Carries(queue.payload, queue'.payload)
    <3>1. /\ write[c].phase = "open" /\ write[c].expected = queue.generation
          /\ queue'.payload = write[c].payload
      BY <2>1 DEF Store!Install
    <3>2. QED
      BY <1>1, <3>1 DEF QueueInv, Promise
  <2>2. UNCHANGED queue \/ \E c \in Clients : Store!Install(c)
    BY <1>1 DEF QueueNext, MoveRevision, ReadHumanDecisionQueue, GiveUp, EnqueueHumanDecision,
           ResolveHumanDecision, StoreStep, ReturnResult, Store!Call, Store!Install,
           Store!Refuse, Store!Return, queueVars
  <2>3. QED
    BY <2>1, <2>2
<1>2. ASSUME QueueInv, Carries(queue.payload, queue'.payload)
      PROVE  /\ queue.payload.responses \subseteq queue'.payload.responses
             /\ \A d \in Decisions : Parked(d) => Parked(d)' \/ Answered(d)'
  <2>1. ASSUME NEW r \in queue.payload.responses PROVE r \in queue'.payload.responses
    <3> DEFINE a == [op |-> "RESOLVED", decision |-> r.decision, choice |-> r.choice]
    <3>1. r \in Responses
      BY <1>2 DEF QueueInv, QueueTypeOK, QueueStates
    <3>2. a \in Resolve /\ r = [decision |-> a.decision, choice |-> a.choice]
      BY <3>1 DEF Resolve, Responses
    <3>3. Done(a, queue.payload)
      BY <3>2 DEF Done
    <3>4. Done(a, queue'.payload)
      BY <1>2, <3>2, <3>3 DEF Carries
    <3>5. QED
      BY <3>2, <3>4 DEF Done
  <2>2. ASSUME NEW d \in Decisions, Parked(d) PROVE Parked(d)' \/ Answered(d)'
    <3> DEFINE a == [op |-> "QUEUED", decision |-> d]
    <3>1. a \in Park
      BY DEF Park
    <3>2. Done(a, queue.payload)
      BY <2>2 DEF Done, Parked
    <3>3. Done(a, queue'.payload)
      BY <1>2, <3>1, <3>2 DEF Carries
    <3>4. QED
      BY <3>3 DEF Done, Parked, Answered
  <2>3. QED
    BY <2>1, <2>2
<1>3. QueueInv /\ [QueueNext]_queueVars
      => [/\ queue.payload.responses \subseteq queue'.payload.responses
          /\ \A d \in Decisions : Parked(d) => Parked(d)' \/ Answered(d)']_queueVars
  BY <1>1, <1>2 DEF Parked, Answered
<1>4. QED
  BY QueueInvariant, <1>3, PTL DEF QueueSpec

(* The processes use the store only as it may be used: what happens to the *)
(* file is a behaviour of the register that the configuration store        *)
(* implements, so what holds of that store holds of the queue's file.      *)
THEOREM QueueUsesStore == QueueSpec => Store!Spec
<1>1. QueueInit => Store!Init
  BY DEF QueueInit
<1>2. ASSUME QueueInv, [QueueNext]_queueVars PROVE [Store!Next]_Store!vars
  <2>1. ASSUME NEW c \in Clients, NEW d \in Decisions, EnqueueHumanDecision(c, d)
        PROVE  Store!Next
    <3> DEFINE new == [queue.payload EXCEPT !.entries = @ \cup {[decision |-> d,
                                                     revision |-> desk[c].revision]}]
    <3>1. Store!Call(c, desk[c].generation, new) /\ desk[c].op = "READ"
      BY <2>1 DEF EnqueueHumanDecision
    <3>2. desk[c] \in Read
      BY <1>2, <3>1, OpsDiffer DEF QueueInv, QueueTypeOK
    <3>3. desk[c].generation \in Nat /\ desk[c].revision \in 0..MaxRevision
      BY <3>2 DEF Read
    <3>4. new \in QueueStates
      BY <1>2, <3>3 DEF QueueInv, QueueTypeOK, QueueStates, Entries
    <3> HIDE DEF new
    <3>5. QED
      BY <3>1, <3>3, <3>4 DEF Store!Next
  <2>2. ASSUME NEW c \in Clients, NEW e \in queue.payload.entries, NEW choice \in Choices,
               ResolveHumanDecision(c, e, choice)
        PROVE  Store!Next
    <3> DEFINE new == [entries   |-> {f \in queue.payload.entries : f.decision # e.decision},
                       responses |-> queue.payload.responses \cup
                                        {[decision |-> e.decision, choice |-> choice]}]
    <3>1. Store!Call(c, desk[c].generation, new) /\ desk[c].op = "READ"
      BY <2>2 DEF ResolveHumanDecision
    <3>2. desk[c] \in Read
      BY <1>2, <3>1, OpsDiffer DEF QueueInv, QueueTypeOK
    <3>3. desk[c].generation \in Nat
      BY <3>2 DEF Read
    <3>4. new \in QueueStates
      BY <1>2 DEF QueueInv, QueueTypeOK, QueueStates, Entries, Responses
    <3> HIDE DEF new
    <3>5. QED
      BY <3>1, <3>3, <3>4 DEF Store!Next
  <2>3. ASSUME NEW c \in Clients, StoreStep(c) \/ ReturnResult(c) PROVE Store!Next
    BY <2>3 DEF StoreStep, ReturnResult, Store!Next
  <2>4. ASSUME \/ MoveRevision
               \/ \E c \in Clients : ReadHumanDecisionQueue(c) \/ GiveUp(c)
               \/ UNCHANGED queueVars
        PROVE  UNCHANGED Store!vars
    BY <2>4 DEF MoveRevision, ReadHumanDecisionQueue, GiveUp, queueVars, Store!vars
  <2>5. QED
    BY <1>2, <2>1, <2>2, <2>3, <2>4 DEF QueueNext
<1>3. QueueInv /\ [QueueNext]_queueVars => [Store!Next]_Store!vars
  BY <1>2
<1>4. QED
  BY QueueInvariant, <1>1, <1>3, PTL DEF QueueSpec, Store!Spec

(* The queue, the calls and the desks keep their types.                    *)
THEOREM QueueTypeCorrect == QueueSpec => []QueueTypeOK
<1>1. QueueInv => QueueTypeOK
  BY DEF QueueInv
<1>2. QED
  BY QueueInvariant, <1>1, PTL
-----------------------------------------------------------------------------
(* Between the check of the workspace and the end of an activity.          *)
Writing == {"preStaged", "add", "staged", "switch", "commit", "revParse",
            "reset", "resetOnly", "detach", "deleteBranch"}

(* Those of its steps in which the commit may be there already.            *)
MayHaveCommitted == {"revParse", "reset", "detach", "deleteBranch"}

OneBusy == \A a, b \in Commits : a \in Busy /\ b \in Busy => a = b

(* The first success moves HEAD away from the exact revision for good, so  *)
(* nobody writes after it.                                                 *)
WritesBeforeSuccess ==
    /\ \A a \in Commits : step[a] # "done" => result[a].status = "NONE"
    /\ \A a, b \in Commits : Succeeded(a) => step[b] \notin Writing
    /\ \A a \in Commits : Succeeded(a) => head.revision # Detached

StandsAt(a) ==
    /\ step[a] \in Writing \ MayHaveCommitted => head.revision = Detached
    /\ step[a] = "deleteBranch" => \/ head = [branch |-> NoBranch, revision |-> Detached]
                                   \/ a \in leftBehind
    /\ step[a] \in {"switch", "commit"} =>
          result[a].paths = Printed(index) /\ result[a].paths \subseteq PathsOf[a]
    /\ step[a] = "commit" =>
          /\ head.branch = BranchOf[a]
          /\ [branch |-> BranchOf[a], revision |-> Detached] \in branches
    /\ step[a] = "revParse" =>
          /\ head.revision = a
          /\ [branch |-> BranchOf[a], revision |-> a] \in branches
          /\ Printed(contents[a]) = result[a].paths
          /\ result[a].paths \subseteq PathsOf[a]

Accounted(entry) ==
    \/ entry.revision = Detached
    \/ Succeeded(entry.revision)
    \/ entry.revision \in leftBehind
    \/ step[entry.revision] \in MayHaveCommitted /\ entry.branch = BranchOf[entry.revision]

Truthful(a) == /\ result[a].revision = a
               /\ [branch |-> BranchOf[a], revision |-> a] \in branches
               /\ Printed(contents[a]) = result[a].paths
               /\ result[a].paths \subseteq PathsOf[a]

GitInv == /\ GitTypeOK
          /\ OneBusy
          /\ WritesBeforeSuccess
          /\ \A a \in Commits : StandsAt(a)
          /\ \A entry \in branches : Accounted(entry)
          /\ \A a \in Commits : Succeeded(a) => Truthful(a)

LEMMA GitInitially == GitInit => GitInv
<1> SUFFICES ASSUME GitInit PROVE GitInv
  OBVIOUS
<1>1. \A a \in Commits : step[a] = "waiting" /\ result[a] = NoResult
  BY DEF GitInit
<1>2. GitTypeOK
  BY DEF GitInit, GitTypeOK, Steps, Statuses, NoResult, Revisions
<1>3. Busy = {} /\ branches = {}
  BY <1>1 DEF Busy, GitInit
<1> QED
  BY <1>1, <1>2, <1>3 DEF GitInv, OneBusy, WritesBeforeSuccess, StandsAt, Succeeded,
                          Writing, MayHaveCommitted, NoResult

(* With one worker, an activity starts only when all others wait or have   *)
(* ended.                                                                  *)
LEMMA StartsAlone ==
    ASSUME workers = 1, threw \subseteq Commits,
           Cardinality(Busy) < workers - Cardinality(threw)
    PROVE  Busy = {}
<1>1. IsFiniteSet(Busy) /\ IsFiniteSet(threw)
  BY GitWriteWaveAssumption, FS_Subset DEF Busy
<1>2. Cardinality(Busy) \in Nat /\ Cardinality(threw) \in Nat
  BY <1>1, FS_CardinalityType
<1>3. Cardinality(Busy) = 0
  BY <1>2
<1> QED
  BY <1>1, <1>3, FS_EmptySet

LEMMA GitTypes ==
    ASSUME GitTypeOK, [GitNext]_gitVars
    PROVE  GitTypeOK'
<1> USE GitWriteWaveAssumption DEF GitTypeOK, Steps, Statuses, Revisions, Wave
<1>1. CASE UNCHANGED gitVars
  BY <1>1 DEF gitVars
<1>2. CASE ToggleCapability
  BY <1>2 DEF ToggleCapability, Repository
<1>3. ASSUME NEW a \in Commits,
             \/ StartActivity(a) \/ AssertWorkspaceCurrent(a) \/ CheckIndexClean(a)
             \/ CheckStagedScope(a) \/ ReportCommit(a) \/ CommandFails(a)
      PROVE  GitTypeOK'
  <2>1. CASE StartActivity(a)
    BY <2>1 DEF StartActivity, Repository, Goto, Fail, Report
  <2>2. CASE AssertWorkspaceCurrent(a)
    BY <2>2 DEF AssertWorkspaceCurrent, Repository, Goto, Fail, Report
  <2>3. CASE CheckIndexClean(a)
    BY <2>3 DEF CheckIndexClean, Repository, Goto, Fail, Report
  <2>4. CASE CheckStagedScope(a)
    BY <2>4 DEF CheckStagedScope, Repository, Goto, Fail, Report
  <2>5. CASE ReportCommit(a)
    BY <2>5 DEF ReportCommit, Repository, Goto, Report
  <2>6. CASE CommandFails(a)
    BY <2>6 DEF CommandFails, Repository, Goto
  <2> QED
    BY <1>3, <2>1, <2>2, <2>3, <2>4, <2>5, <2>6
<1>4. ASSUME NEW a \in Commits,
             \/ StagePaths(a) \/ AddTimesOut(a)
             \/ SwitchToNewBranch(a) \/ SwitchTimesOut(a)
             \/ Commit(a) \/ CommitTimesOut(a)
      PROVE  GitTypeOK'
  <2>1. CASE StagePaths(a) \/ AddTimesOut(a)
    BY <2>1 DEF StagePaths, AddTimesOut, Goto
  <2>2. CASE SwitchToNewBranch(a) \/ SwitchTimesOut(a)
    BY <2>2 DEF SwitchToNewBranch, SwitchTimesOut, Goto
  <2>3. CASE Commit(a) \/ CommitTimesOut(a)
    <3>1. CommitIndex(a) /\ UNCHANGED <<Wave, result, leftBehind>>
          /\ (Goto(a, "revParse") \/ Goto(a, "reset"))
      BY <2>3 DEF Commit, CommitTimesOut
    <3>2. branches' \subseteq [branch : {BranchOf[b] : b \in Commits},
                              revision : Commits \cup {Detached}]
      BY <3>1 DEF CommitIndex
    <3> QED
      BY <3>1, <3>2 DEF CommitIndex, Goto
  <2> QED
    BY <1>4, <2>1, <2>2, <2>3
<1>5. ASSUME NEW a \in Commits,
             ResetIndex(a) \/ DetachHead(a) \/ DeleteBranch(a) \/ RollbackFails(a)
      PROVE  GitTypeOK'
  <2>1. CASE ResetIndex(a)
    BY <2>1 DEF ResetIndex, Goto, Fail, Report
  <2>2. CASE DetachHead(a)
    BY <2>2 DEF DetachHead, Goto
  <2>3. CASE DeleteBranch(a)
    <3>1. branches' \subseteq branches
      BY <2>3 DEF DeleteBranch
    <3> QED
      BY <2>3, <3>1 DEF DeleteBranch, Goto, Fail, Report
  <2>4. CASE RollbackFails(a)
    <3>1. UNCHANGED <<workers, capability, threw, changed, index, head, branches, contents>>
      BY <2>4 DEF RollbackFails, Repository
    <3>2. /\ step' \in [Commits -> Steps]
          /\ leftBehind' \subseteq Commits
      BY <2>4 DEF RollbackFails, Goto, Fail, Report
    <3>3. result' \in [Commits -> [status : Statuses, revision : Revisions,
                                   paths : SUBSET Paths]]
      BY <2>4 DEF RollbackFails, Fail, Report
    <3> QED
      BY <3>1, <3>2, <3>3
  <2> QED
    BY <1>5, <2>1, <2>2, <2>3, <2>4
<1> QED
  BY <1>1, <1>2, <1>3, <1>4, <1>5 DEF GitNext

(* Whoever writes is alone, before any success, and every branch that does *)
(* not name the exact revision is its own, or was left behind.             *)
LEMMA WriterIsAlone ==
    ASSUME GitInv, NEW a \in Commits, step[a] \in Writing
    PROVE  /\ \A b \in Commits : b # a => step[b] \in {"waiting", "done"}
           /\ \A b \in Commits : ~Succeeded(b)
           /\ result[a].status = "NONE"
           /\ \A entry \in branches :
                 \/ entry.revision = Detached
                 \/ entry.revision \in leftBehind
                 \/ /\ entry.revision = a
                    /\ step[a] \in MayHaveCommitted
                    /\ entry.branch = BranchOf[a]
<1>1. a \in Busy
  BY DEF Busy, Writing
<1>2. \A b \in Commits : b # a => step[b] \in {"waiting", "done"}
  BY <1>1 DEF GitInv, OneBusy, Busy
<1>3. \A b \in Commits : ~Succeeded(b)
  BY DEF GitInv, WritesBeforeSuccess
<1>4. result[a].status = "NONE"
  BY DEF GitInv, WritesBeforeSuccess, Writing
<1>5. ASSUME NEW entry \in branches,
             entry.revision # Detached, entry.revision \notin leftBehind
      PROVE  /\ entry.revision = a
             /\ step[a] \in MayHaveCommitted
             /\ entry.branch = BranchOf[a]
  <2>1. entry.revision \in Commits
    BY <1>5 DEF GitInv, GitTypeOK, Revisions
  <2>2. /\ step[entry.revision] \in MayHaveCommitted
        /\ entry.branch = BranchOf[entry.revision]
    BY <1>3, <1>5, <2>1 DEF GitInv, Accounted
  <2> QED
    BY <1>2, <2>1, <2>2 DEF MayHaveCommitted
<1> QED
  BY <1>2, <1>3, <1>4, <1>5

(* What every step of the one who writes keeps.                            *)
WriterStep(a) ==
    /\ \A b \in Commits : b # a => step'[b] = step[b] /\ result'[b] = result[b]
    /\ step'[a] \in Writing \cup {"done"}
    /\ step'[a] # "done" => result'[a].status = "NONE"
    /\ StandsAt(a)'
    /\ Succeeded(a)' => step'[a] = "done" /\ head'.revision # Detached /\ Truthful(a)'
    /\ leftBehind \subseteq leftBehind'
    /\ \A entry \in branches' :
          \/ entry.revision = Detached
          \/ entry.revision \in leftBehind'
          \/ /\ entry.revision = a
             /\ \/ Succeeded(a)'
                \/ step'[a] \in MayHaveCommitted /\ entry.branch = BranchOf[a]

LEMMA WriterKeeps ==
    ASSUME GitInv, GitTypeOK', NEW a \in Commits, step[a] \in Writing, WriterStep(a)
    PROVE  GitInv'
<1>1. \A b \in Commits : b # a => /\ step'[b] \in {"waiting", "done"}
                                  /\ ~Succeeded(b)'
  BY WriterIsAlone DEF WriterStep, Succeeded
<1>2. OneBusy'
  BY <1>1 DEF OneBusy, Busy
<1>3. WritesBeforeSuccess'
  <2>1. ASSUME NEW b \in Commits, step'[b] # "done"
        PROVE  result'[b].status = "NONE"
    <3>1. CASE b = a
      BY <2>1, <3>1 DEF WriterStep
    <3>2. CASE b # a
      BY <2>1, <3>2 DEF WriterStep, GitInv, WritesBeforeSuccess
    <3> QED
      BY <3>1, <3>2
  <2>2. ASSUME NEW b \in Commits, NEW c \in Commits, Succeeded(b)'
        PROVE  step'[c] \notin Writing /\ head'.revision # Detached
    <3>1. b = a /\ step'[a] = "done" /\ head'.revision # Detached
      BY <1>1, <2>2 DEF WriterStep
    <3> QED
      BY <1>1, <3>1 DEF Writing
  <2> QED
    BY <2>1, <2>2 DEF WritesBeforeSuccess
<1>4. ASSUME NEW b \in Commits
      PROVE  StandsAt(b)'
  BY <1>1 DEF WriterStep, StandsAt, Writing, MayHaveCommitted
<1>5. \A entry \in branches' : Accounted(entry)'
  BY DEF WriterStep, Accounted, Succeeded
<1>6. ASSUME NEW b \in Commits, Succeeded(b)'
      PROVE  Truthful(b)'
  BY <1>1, <1>6 DEF WriterStep
<1> QED
  BY <1>2, <1>3, <1>4, <1>5, <1>6 DEF GitInv

LEMMA ReadsWrite ==
    ASSUME GitInv, NEW a \in Commits,
           CheckIndexClean(a) \/ CheckStagedScope(a) \/ CommandFails(a)
    PROVE  step[a] \in Writing /\ WriterStep(a)
<1>1. step[a] \in Writing
  BY DEF CheckIndexClean, CheckStagedScope, CommandFails, Writing
<1>2. /\ \A entry \in branches :
            \/ entry.revision = Detached
            \/ entry.revision \in leftBehind
            \/ /\ entry.revision = a
               /\ step[a] \in MayHaveCommitted
               /\ entry.branch = BranchOf[a]
      /\ result[a].status = "NONE"
  BY <1>1, WriterIsAlone
<1>3. GitTypeOK /\ StandsAt(a)
  BY DEF GitInv
<1>4. CASE CheckIndexClean(a)
  BY <1>2, <1>3, <1>4 DEF CheckIndexClean, Goto, Fail, Report, Repository, WriterStep, GitTypeOK,
                          StandsAt, Succeeded, Writing, MayHaveCommitted
<1>5. CASE CheckStagedScope(a)
  BY <1>2, <1>3, <1>5 DEF CheckStagedScope, Goto, Fail, Report, Repository, WriterStep, GitTypeOK,
                          StandsAt, Succeeded, Writing, MayHaveCommitted
<1>6. CASE CommandFails(a)
  BY <1>2, <1>3, <1>6 DEF CommandFails, Goto, Repository, WriterStep, GitTypeOK,
                          StandsAt, Succeeded, Writing, MayHaveCommitted
<1> QED
  BY <1>1, <1>4, <1>5, <1>6

LEMMA StagesAndSwitchesWrite ==
    ASSUME GitInv, NEW a \in Commits,
           \/ StagePaths(a) \/ AddTimesOut(a)
           \/ SwitchToNewBranch(a) \/ SwitchTimesOut(a)
    PROVE  step[a] \in Writing /\ WriterStep(a)
<1>1. step[a] \in Writing \ MayHaveCommitted
  BY DEF StagePaths, AddTimesOut, SwitchToNewBranch, SwitchTimesOut, Writing, MayHaveCommitted
<1>2. /\ \A entry \in branches : entry.revision \in leftBehind \cup {Detached}
      /\ result[a].status = "NONE"
  BY <1>1, WriterIsAlone
<1>3. GitTypeOK /\ StandsAt(a) /\ head.revision = Detached
  BY <1>1 DEF GitInv, StandsAt
<1>4. CASE StagePaths(a) \/ AddTimesOut(a)
  BY <1>2, <1>3, <1>4 DEF StagePaths, AddTimesOut, Goto, WriterStep, GitTypeOK,
                          StandsAt, Succeeded, Writing, MayHaveCommitted
<1>5. CASE SwitchToNewBranch(a) \/ SwitchTimesOut(a)
  <2>1. /\ head' = [head EXCEPT !.branch = BranchOf[a]]
        /\ branches' = branches \cup {[branch |-> BranchOf[a], revision |-> head.revision]}
        /\ step' = [step EXCEPT ![a] = "commit"] \/ step' = [step EXCEPT ![a] = "resetOnly"]
        /\ UNCHANGED <<result, index, contents, leftBehind>> /\ step[a] = "switch"
    BY <1>5 DEF SwitchToNewBranch, SwitchTimesOut, Goto
  <2>2. head'.revision = Detached /\ head'.branch = BranchOf[a]
    BY <1>3, <2>1 DEF GitTypeOK
  <2>3. /\ [branch |-> BranchOf[a], revision |-> Detached] \in branches'
        /\ \A entry \in branches' : entry.revision \in leftBehind' \cup {Detached}
    BY <1>2, <1>3, <2>1
  <2>4. StandsAt(a)'
    BY <1>3, <2>1, <2>2, <2>3 DEF GitTypeOK, StandsAt, Writing, MayHaveCommitted
  <2> QED
    BY <1>2, <1>3, <2>1, <2>3, <2>4 DEF WriterStep, GitTypeOK, Succeeded, Writing
<1> QED
  BY <1>1, <1>4, <1>5

LEMMA CommitsWrite ==
    ASSUME GitInv, NEW a \in Commits, Commit(a) \/ CommitTimesOut(a)
    PROVE  step[a] \in Writing /\ WriterStep(a)
<1>1. step[a] = "commit" /\ step[a] \in Writing
  BY DEF Commit, CommitTimesOut, Writing
<1>2. /\ \A entry \in branches : entry.revision \in leftBehind \cup {Detached}
      /\ result[a].status = "NONE"
  BY <1>1, WriterIsAlone DEF MayHaveCommitted
<1>3. /\ GitTypeOK /\ head.branch = BranchOf[a]
      /\ [branch |-> BranchOf[a], revision |-> Detached] \in branches
      /\ result[a].paths = Printed(index) /\ result[a].paths \subseteq PathsOf[a]
  BY <1>1 DEF GitInv, StandsAt
<1>4. /\ CommitIndex(a) /\ UNCHANGED <<result, leftBehind>>
      /\ \/ step' = [step EXCEPT ![a] = "revParse"]
         \/ step' = [step EXCEPT ![a] = "reset"]
  BY DEF Commit, CommitTimesOut, Goto
<1>5. /\ head'.revision = a
      /\ Printed(contents'[a]) = result'[a].paths /\ result'[a].paths \subseteq PathsOf[a]
  BY <1>3, <1>4 DEF CommitIndex, GitTypeOK
<1>6. [branch |-> BranchOf[a], revision |-> a] \in branches'
  <2> DEFINE old == [branch |-> BranchOf[a], revision |-> Detached]
  <2>1. old \in branches /\ old.branch = head.branch
    BY <1>3
  <2>2. [old EXCEPT !.revision = a] = [branch |-> BranchOf[a], revision |-> a]
    OBVIOUS
  <2> QED
    BY <1>4, <2>1, <2>2 DEF CommitIndex
<1>7. ASSUME NEW entry \in branches'
      PROVE  \/ entry.revision \in leftBehind' \cup {Detached}
             \/ entry.revision = a /\ entry.branch = BranchOf[a]
  <2>1. PICK old \in branches :
          entry = IF old.branch = head.branch THEN [old EXCEPT !.revision = a] ELSE old
    BY <1>4 DEF CommitIndex
  <2>2. old \in [branch : {BranchOf[b] : b \in Commits}, revision : Revisions]
    BY <1>3 DEF GitTypeOK
  <2> QED
    BY <1>2, <1>3, <1>4, <2>1, <2>2
<1>8. StandsAt(a)'
  BY <1>3, <1>4, <1>5, <1>6 DEF GitTypeOK, StandsAt, Writing, MayHaveCommitted
<1>9. /\ \A b \in Commits : b # a => step'[b] = step[b] /\ result'[b] = result[b]
      /\ step'[a] \in Writing \cap MayHaveCommitted
      /\ result'[a].status = "NONE"
  BY <1>2, <1>3, <1>4 DEF GitTypeOK, Writing, MayHaveCommitted
<1> QED
  BY <1>1, <1>4, <1>7, <1>8, <1>9 DEF WriterStep, Succeeded

LEMMA ReportsWrite ==
    ASSUME GitInv, NEW a \in Commits, ReportCommit(a)
    PROVE  step[a] \in Writing /\ WriterStep(a)
<1>1. step[a] = "revParse" /\ step[a] \in Writing
  BY DEF ReportCommit, Writing
<1>2. \A entry \in branches : entry.revision \in leftBehind \cup {Detached, a}
  BY <1>1, WriterIsAlone
<1>3. /\ GitTypeOK /\ head.revision = a
      /\ [branch |-> BranchOf[a], revision |-> a] \in branches
      /\ Printed(contents[a]) = result[a].paths /\ result[a].paths \subseteq PathsOf[a]
  BY <1>1 DEF GitInv, StandsAt
<1>4. /\ result' = [result EXCEPT ![a] = [status |-> "SUCCEEDED", revision |-> a,
                                         paths |-> result[a].paths]]
      /\ step' = [step EXCEPT ![a] = "done"]
      /\ UNCHANGED <<index, head, branches, contents, leftBehind>>
  BY <1>3 DEF ReportCommit, Report, Goto, Repository
<1>5. step'[a] = "done" /\ Succeeded(a)' /\ Truthful(a)' /\ head'.revision # Detached
  BY <1>3, <1>4, GitWriteWaveAssumption DEF GitTypeOK, Succeeded, Truthful
<1>6. StandsAt(a)'
  BY <1>5 DEF StandsAt, Writing, MayHaveCommitted
<1>7. \A b \in Commits : b # a => step'[b] = step[b] /\ result'[b] = result[b]
  BY <1>3, <1>4 DEF GitTypeOK
<1>8. \A entry \in branches' : entry.revision \in leftBehind' \cup {Detached, a}
  BY <1>2, <1>4
<1> QED
  BY <1>1, <1>4, <1>5, <1>6, <1>7, <1>8 DEF WriterStep

LEMMA RollbacksWrite ==
    ASSUME GitInv, NEW a \in Commits,
           ResetIndex(a) \/ DetachHead(a) \/ DeleteBranch(a) \/ RollbackFails(a)
    PROVE  step[a] \in Writing /\ WriterStep(a)
<1>1. step[a] \in Writing
  BY DEF ResetIndex, DetachHead, DeleteBranch, RollbackFails, Writing
<1>2. /\ \A entry \in branches :
            \/ entry.revision = Detached
            \/ entry.revision \in leftBehind
            \/ /\ entry.revision = a
               /\ step[a] \in MayHaveCommitted
               /\ entry.branch = BranchOf[a]
      /\ result[a].status = "NONE"
  BY <1>1, WriterIsAlone
<1>3. GitTypeOK /\ StandsAt(a)
  BY DEF GitInv
<1>4. CASE ResetIndex(a)
  BY <1>2, <1>3, <1>4 DEF ResetIndex, Goto, Fail, Report, WriterStep, GitTypeOK,
                          StandsAt, Succeeded, Writing, MayHaveCommitted
<1>5. CASE DetachHead(a)
  BY <1>2, <1>3, <1>5 DEF DetachHead, Goto, WriterStep, GitTypeOK,
                          StandsAt, Succeeded, Writing, MayHaveCommitted
<1>6. CASE DeleteBranch(a)
  <2>1. \/ head.branch = NoBranch /\ BranchOf[a] # NoBranch
        \/ a \in leftBehind
    BY <1>3, <1>6, GitWriteWaveAssumption DEF DeleteBranch, StandsAt
  <2>2. \A entry \in branches' : entry.revision \in leftBehind' \cup {Detached}
    BY <1>2, <1>6, <2>1 DEF DeleteBranch
  <2>3. /\ step' = [step EXCEPT ![a] = "done"]
        /\ result' = [result EXCEPT ![a] = [status |-> "FAILED", revision |-> Detached,
                                           paths |-> {}]]
    BY <1>6 DEF DeleteBranch, Fail, Report, Goto
  <2>4. /\ \A b \in Commits : b # a => step'[b] = step[b] /\ result'[b] = result[b]
        /\ step'[a] = "done" /\ ~Succeeded(a)'
    BY <1>3, <2>3 DEF GitTypeOK, Succeeded
  <2>5. StandsAt(a)'
    BY <2>4 DEF StandsAt, Writing, MayHaveCommitted
  <2> QED
    BY <1>1, <1>6, <2>2, <2>4, <2>5 DEF WriterStep, DeleteBranch
<1>7. CASE RollbackFails(a)
  BY <1>2, <1>3, <1>7 DEF RollbackFails, Goto, Fail, Report, Repository, WriterStep, GitTypeOK,
                          StandsAt, Succeeded, Writing, MayHaveCommitted
<1> QED
  BY <1>1, <1>4, <1>5, <1>6, <1>7

(* The steps that are not the writer's: an activity starts, or checks the  *)
(* workspace before anything else.                                         *)
LEMMA StartKeeps ==
    ASSUME workers = 1, GitInv, GitTypeOK', NEW a \in Commits, StartActivity(a)
    PROVE  GitInv'
<1>1. Busy = {} /\ step[a] = "waiting"
  BY StartsAlone DEF StartActivity, GitInv, GitTypeOK
<1>2. \A b \in Commits : step[b] \in {"waiting", "done"}
  BY <1>1 DEF Busy
<1>3. /\ GitTypeOK /\ UNCHANGED <<index, head, branches, contents, leftBehind>>
      /\ \/ step' = [step EXCEPT ![a] = "current"] /\ UNCHANGED result
         \/ /\ step' = [step EXCEPT ![a] = "done"]
            /\ result' = [result EXCEPT ![a] = [status |-> "FAILED", revision |-> Detached,
                                               paths |-> {}]]
         \/ step' = [step EXCEPT ![a] = "done"] /\ UNCHANGED result
  BY DEF GitInv, StartActivity, Repository, Goto, Fail, Report
<1>4. result[a].status = "NONE"
  BY <1>1 DEF GitInv, WritesBeforeSuccess
<1>5. /\ \A b \in Commits : b # a => step'[b] = step[b] /\ result'[b] = result[b]
      /\ step'[a] \in {"current", "done"} /\ ~Succeeded(a)'
      /\ step'[a] = "current" => result'[a].status = "NONE"
  BY <1>3, <1>4 DEF GitTypeOK, Succeeded
<1>6. OneBusy'
  BY <1>2, <1>5 DEF OneBusy, Busy
<1>7. \A b \in Commits : step'[b] \notin Writing
  BY <1>2, <1>5 DEF Writing
<1>8. WritesBeforeSuccess'
  BY <1>3, <1>5, <1>7 DEF GitInv, WritesBeforeSuccess, Succeeded
<1>9. \A b \in Commits : StandsAt(b)'
  BY <1>7 DEF StandsAt, Writing, MayHaveCommitted
<1>10. \A entry \in branches' : Accounted(entry)'
  <2> SUFFICES ASSUME NEW entry \in branches,
                      entry.revision # Detached, entry.revision \notin leftBehind
               PROVE  Succeeded(entry.revision)'
    BY <1>3 DEF Accounted
  <2>1. entry.revision \in Commits
    BY <1>3 DEF GitTypeOK, Revisions
  <2>2. Succeeded(entry.revision) /\ entry.revision # a
    BY <1>2, <1>4, <2>1 DEF GitInv, Accounted, MayHaveCommitted, Succeeded
  <2> QED
    BY <1>5, <2>1, <2>2 DEF Succeeded
<1>11. ASSUME NEW b \in Commits, Succeeded(b)'
       PROVE  Truthful(b)'
  <2>1. b # a /\ Truthful(b)
    BY <1>5, <1>11 DEF GitInv, Succeeded
  <2> QED
    BY <1>3, <1>5, <2>1 DEF Truthful
<1> QED
  BY <1>6, <1>8, <1>9, <1>10, <1>11 DEF GitInv

LEMMA CheckKeeps ==
    ASSUME GitInv, GitTypeOK', NEW a \in Commits, AssertWorkspaceCurrent(a)
    PROVE  GitInv'
<1>1. step[a] = "current" /\ a \in Busy
  BY DEF AssertWorkspaceCurrent, Busy
<1>2. \A b \in Commits : b # a => step[b] \in {"waiting", "done"}
  BY <1>1 DEF GitInv, OneBusy, Busy
<1>3. /\ GitTypeOK /\ UNCHANGED <<index, head, branches, contents, leftBehind>>
      /\ \/ /\ head.revision = Detached
            /\ step' = [step EXCEPT ![a] = "preStaged"] /\ UNCHANGED result
         \/ /\ step' = [step EXCEPT ![a] = "done"]
            /\ result' = [result EXCEPT ![a] = [status |-> "FAILED", revision |-> Detached,
                                               paths |-> {}]]
  BY DEF GitInv, AssertWorkspaceCurrent, Repository, Goto, Fail, Report
<1>4. result[a].status = "NONE"
  BY <1>1 DEF GitInv, WritesBeforeSuccess
<1>5. /\ \A b \in Commits : b # a => step'[b] = step[b] /\ result'[b] = result[b]
      /\ step'[a] \in {"preStaged", "done"} /\ ~Succeeded(a)'
      /\ step'[a] = "preStaged" => result'[a].status = "NONE" /\ head.revision = Detached
  BY <1>3, <1>4 DEF GitTypeOK, Succeeded
<1>6. OneBusy'
  BY <1>2, <1>5 DEF OneBusy, Busy
<1>7. \A b \in Commits : b # a => step'[b] \notin Writing
  BY <1>2, <1>5 DEF Writing
<1>8. WritesBeforeSuccess'
  <2>1. \A b \in Commits : Succeeded(b)' => b # a /\ Succeeded(b) /\ head.revision # Detached
    BY <1>5 DEF GitInv, WritesBeforeSuccess, Succeeded
  <2>2. \A b, c \in Commits : Succeeded(b)' => step'[c] \notin Writing
    BY <1>5, <1>7, <2>1 DEF Writing
  <2>3. \A b \in Commits : step'[b] # "done" => result'[b].status = "NONE"
    BY <1>5 DEF GitInv, WritesBeforeSuccess
  <2> QED
    BY <1>3, <2>1, <2>2, <2>3 DEF WritesBeforeSuccess
<1>9. \A b \in Commits : StandsAt(b)'
  BY <1>3, <1>5, <1>7 DEF StandsAt, Writing, MayHaveCommitted
<1>10. \A entry \in branches' : Accounted(entry)'
  <2> SUFFICES ASSUME NEW entry \in branches,
                      entry.revision # Detached, entry.revision \notin leftBehind
               PROVE  Succeeded(entry.revision)'
    BY <1>3 DEF Accounted
  <2>1. entry.revision \in Commits
    BY <1>3 DEF GitTypeOK, Revisions
  <2>2. Succeeded(entry.revision) /\ entry.revision # a
    BY <1>1, <1>2, <1>4, <2>1 DEF GitInv, Accounted, MayHaveCommitted, Succeeded
  <2> QED
    BY <1>5, <2>1, <2>2 DEF Succeeded
<1>11. ASSUME NEW b \in Commits, Succeeded(b)'
       PROVE  Truthful(b)'
  <2>1. b # a /\ Truthful(b)
    BY <1>5, <1>11 DEF GitInv, Succeeded
  <2> QED
    BY <1>3, <1>5, <2>1 DEF Truthful
<1> QED
  BY <1>6, <1>8, <1>9, <1>10, <1>11 DEF GitInv

LEMMA UntouchedKeeps ==
    ASSUME GitInv, GitTypeOK',
           UNCHANGED <<step, result, changed, index, head, branches, contents, leftBehind>>
    PROVE  GitInv'
  BY DEF GitInv, OneBusy, Busy, WritesBeforeSuccess, StandsAt, Accounted, Succeeded, Truthful

LEMMA GitStep ==
    ASSUME workers = 1, GitInv, [GitNext]_gitVars
    PROVE  GitInv'
<1>1. GitTypeOK'
  BY GitTypes DEF GitInv
<1>2. CASE ToggleCapability \/ UNCHANGED gitVars
  BY <1>1, <1>2, UntouchedKeeps DEF ToggleCapability, Repository, gitVars
<1>3. ASSUME NEW a \in Commits, StartActivity(a) \/ AssertWorkspaceCurrent(a)
      PROVE  GitInv'
  BY <1>1, <1>3, StartKeeps, CheckKeeps
<1>4. ASSUME NEW a \in Commits,
             \/ CheckIndexClean(a) \/ CheckStagedScope(a) \/ CommandFails(a)
             \/ StagePaths(a) \/ AddTimesOut(a)
             \/ SwitchToNewBranch(a) \/ SwitchTimesOut(a)
             \/ Commit(a) \/ CommitTimesOut(a) \/ ReportCommit(a)
             \/ ResetIndex(a) \/ DetachHead(a) \/ DeleteBranch(a) \/ RollbackFails(a)
      PROVE  GitInv'
  <2>1. step[a] \in Writing /\ WriterStep(a)
    BY <1>4, ReadsWrite, StagesAndSwitchesWrite, CommitsWrite, ReportsWrite, RollbacksWrite
  <2> QED
    BY <1>1, <2>1, WriterKeeps
<1> QED
  BY <1>2, <1>3, <1>4 DEF GitNext

(* The variables of a wave keep their types, whatever MaxConcurrency is.   *)
THEOREM GitTypeCorrect == GitSpec => []GitTypeOK
<1>1. GitInit => GitTypeOK
  BY GitInitially DEF GitInv
<1> QED
  BY <1>1, GitTypes, PTL DEF GitSpec

(* However many workers share the worktree, each branch that an activity   *)
(* counts on is there, and is counted on by no other.                      *)
Owns(a) == \/ step[a] \in {"commit", "revParse", "reset", "detach", "deleteBranch"}
           \/ Succeeded(a)

BranchInv == /\ \A a \in Commits : step[a] # "done" => result[a].status = "NONE"
             /\ \A a \in Commits : Owns(a) => BranchExists(BranchOf[a])
             /\ \A a, b \in Commits :
                   Owns(a) /\ Owns(b) /\ BranchOf[a] = BranchOf[b] => a = b

(* What every step of a does to the branches: it keeps them, or makes its  *)
(* own, or gives its own up and deletes it.                                *)
BranchStep(a) ==
    /\ \A b \in Commits : b # a => step'[b] = step[b] /\ result'[b] = result[b]
    /\ step'[a] # "done" => result'[a].status = "NONE"
    /\ \A b \in Commits : BranchExists(BranchOf[b]) =>
          BranchExists(BranchOf[b])' \/ (BranchOf[b] = BranchOf[a] /\ Owns(a) /\ ~Owns(a)')
    /\ Owns(a)' => \/ Owns(a)
                   \/ ~BranchExists(BranchOf[a]) /\ BranchExists(BranchOf[a])'

LEMMA BranchStepKeeps ==
    ASSUME BranchInv, NEW a \in Commits, BranchStep(a)
    PROVE  BranchInv'
<1>1. \A b \in Commits : b # a => (Owns(b)' <=> Owns(b))
  BY DEF BranchStep, Owns, Succeeded
<1>2. \A b \in Commits : step'[b] # "done" => result'[b].status = "NONE"
  BY DEF BranchInv, BranchStep
<1>3. ASSUME NEW b \in Commits, Owns(b)'
      PROVE  BranchExists(BranchOf[b])'
  BY <1>1, <1>3 DEF BranchInv, BranchStep
<1>4. ASSUME NEW b \in Commits, NEW c \in Commits, Owns(b)', Owns(c)',
             BranchOf[b] = BranchOf[c]
      PROVE  b = c
  BY <1>1, <1>4 DEF BranchInv, BranchStep
<1> QED
  BY <1>2, <1>3, <1>4 DEF BranchInv

LEMMA KeepsBranches ==
    ASSUME GitTypeOK, BranchInv, NEW a \in Commits,
           \/ StartActivity(a) \/ AssertWorkspaceCurrent(a) \/ CheckIndexClean(a)
           \/ CheckStagedScope(a) \/ CommandFails(a) \/ StagePaths(a) \/ AddTimesOut(a)
           \/ ReportCommit(a) \/ ResetIndex(a) \/ DetachHead(a) \/ RollbackFails(a)
    PROVE  BranchStep(a)
<1>1. branches' = branches
  BY DEF StartActivity, AssertWorkspaceCurrent, CheckIndexClean, CheckStagedScope, CommandFails,
         StagePaths, AddTimesOut, ReportCommit, ResetIndex, DetachHead, RollbackFails, Repository
<1>2. \A b \in Commits : BranchExists(BranchOf[b]) => BranchExists(BranchOf[b])'
  BY <1>1 DEF BranchExists
<1>3. step[a] # "done" /\ result[a].status = "NONE"
  BY DEF BranchInv, StartActivity, AssertWorkspaceCurrent, CheckIndexClean, CheckStagedScope,
         CommandFails, StagePaths, AddTimesOut, ReportCommit, ResetIndex, DetachHead, RollbackFails
<1>4. CASE \/ StartActivity(a) \/ AssertWorkspaceCurrent(a) \/ CheckIndexClean(a)
           \/ CheckStagedScope(a)
  BY <1>2, <1>3, <1>4 DEF GitTypeOK, BranchStep, Owns, Succeeded, StartActivity,
     AssertWorkspaceCurrent, CheckIndexClean, CheckStagedScope, Goto, Fail, Report
<1>5. CASE \/ CommandFails(a) \/ StagePaths(a) \/ AddTimesOut(a) \/ ReportCommit(a)
  BY <1>2, <1>3, <1>5 DEF GitTypeOK, BranchStep, Owns, Succeeded, CommandFails, StagePaths,
     AddTimesOut, ReportCommit, Goto, Report
<1>6. CASE ResetIndex(a) \/ DetachHead(a) \/ RollbackFails(a)
  BY <1>2, <1>3, <1>6 DEF GitTypeOK, BranchStep, Owns, Succeeded, ResetIndex, DetachHead,
     RollbackFails, Goto, Fail, Report
<1> QED
  BY <1>4, <1>5, <1>6

LEMMA ChangesBranches ==
    ASSUME GitTypeOK, BranchInv, NEW a \in Commits,
           \/ SwitchToNewBranch(a) \/ SwitchTimesOut(a)
           \/ Commit(a) \/ CommitTimesOut(a) \/ DeleteBranch(a)
    PROVE  BranchStep(a)
<1>1. CASE SwitchToNewBranch(a) \/ SwitchTimesOut(a)
  <2>1. /\ ~BranchExists(BranchOf[a]) /\ step[a] = "switch" /\ UNCHANGED result
        /\ branches' = branches \cup {[branch |-> BranchOf[a], revision |-> head.revision]}
        /\ step' = [step EXCEPT ![a] = "commit"] \/ step' = [step EXCEPT ![a] = "resetOnly"]
    BY <1>1 DEF SwitchToNewBranch, SwitchTimesOut, Goto
  <2>2. /\ \A b \in Commits : BranchExists(BranchOf[b]) => BranchExists(BranchOf[b])'
        /\ BranchExists(BranchOf[a])'
    <3> DEFINE made == [branch |-> BranchOf[a], revision |-> head.revision]
    <3>1. made.branch = BranchOf[a] /\ made \in branches' /\ branches \subseteq branches'
      BY <2>1
    <3> HIDE DEF made
    <3> QED
      BY <3>1 DEF BranchExists
  <2>3. /\ \A b \in Commits : b # a => step'[b] = step[b]
        /\ result[a].status = "NONE"
    BY <2>1 DEF GitTypeOK, BranchInv
  <2> QED
    BY <2>1, <2>2, <2>3 DEF BranchStep
<1>2. CASE Commit(a) \/ CommitTimesOut(a)
  <2>1. /\ CommitIndex(a) /\ step[a] = "commit" /\ UNCHANGED result
        /\ step' = [step EXCEPT ![a] = "revParse"] \/ step' = [step EXCEPT ![a] = "reset"]
    BY <1>2 DEF Commit, CommitTimesOut, Goto
  <2>2. ASSUME NEW b \in Commits, BranchExists(BranchOf[b])
        PROVE  BranchExists(BranchOf[b])'
    <3>1. PICK entry \in branches : entry.branch = BranchOf[b]
      BY <2>2 DEF BranchExists
    <3>2. [entry EXCEPT !.revision = a].branch = entry.branch
      BY DEF GitTypeOK
    <3> QED
      BY <2>1, <3>1, <3>2 DEF CommitIndex, BranchExists
  <2>3. /\ \A b \in Commits : b # a => step'[b] = step[b]
        /\ result[a].status = "NONE"
    BY <2>1 DEF GitTypeOK, BranchInv
  <2> QED
    BY <2>1, <2>2, <2>3 DEF BranchStep, Owns
<1>3. CASE DeleteBranch(a)
  <2>1. /\ step[a] = "deleteBranch"
        /\ step' = [step EXCEPT ![a] = "done"]
        /\ result' = [result EXCEPT ![a] = [status |-> "FAILED", revision |-> Detached,
                                           paths |-> {}]]
        /\ \A entry \in branches : entry.branch # BranchOf[a] => entry \in branches'
    BY <1>3 DEF DeleteBranch, Fail, Report, Goto
  <2>2. \A b \in Commits : b # a => step'[b] = step[b] /\ result'[b] = result[b]
    BY <2>1 DEF GitTypeOK
  <2>3. Owns(a) /\ ~Owns(a)' /\ step'[a] = "done"
    BY <2>1 DEF GitTypeOK, Owns, Succeeded
  <2>4. \A b \in Commits : BranchExists(BranchOf[b]) /\ BranchOf[b] # BranchOf[a]
           => BranchExists(BranchOf[b])'
    BY <2>1 DEF BranchExists
  <2> QED
    BY <2>2, <2>3, <2>4 DEF BranchStep
<1> QED
  BY <1>1, <1>2, <1>3

LEMMA BranchesStep ==
    ASSUME GitTypeOK, BranchInv, [GitNext]_gitVars
    PROVE  BranchInv'
<1>1. CASE ToggleCapability \/ UNCHANGED gitVars
  <2>1. UNCHANGED <<step, result, branches>>
    BY <1>1 DEF ToggleCapability, Repository, gitVars
  <2> QED
    BY <2>1 DEF BranchInv, Owns, Succeeded, BranchExists
<1>2. ASSUME NEW a \in Commits,
             \/ StartActivity(a) \/ AssertWorkspaceCurrent(a) \/ CheckIndexClean(a)
             \/ StagePaths(a) \/ CheckStagedScope(a) \/ SwitchToNewBranch(a)
             \/ Commit(a) \/ ReportCommit(a)
             \/ CommandFails(a) \/ AddTimesOut(a) \/ CommitTimesOut(a) \/ SwitchTimesOut(a)
             \/ ResetIndex(a) \/ DetachHead(a) \/ DeleteBranch(a) \/ RollbackFails(a)
      PROVE  BranchInv'
  BY <1>2, KeepsBranches, ChangesBranches, BranchStepKeeps
<1> QED
  BY <1>1, <1>2 DEF GitNext

(* The number of workers of a wave does not change.                        *)
LEMMA WorkersStay == [GitNext]_gitVars => workers' = workers
  BY DEF GitNext, gitVars, ToggleCapability, StartActivity, AssertWorkspaceCurrent,
     CheckIndexClean, StagePaths, CheckStagedScope, SwitchToNewBranch, Commit, ReportCommit,
     CommandFails, AddTimesOut, CommitTimesOut, SwitchTimesOut, ResetIndex, DetachHead,
     DeleteBranch, RollbackFails, Wave

(* What a wave reports is what the repository holds, wherever its git      *)
(* commands fail or are killed after their effect or its gate throws: for  *)
(* any number of workers the branches that were reported stay, and for one *)
(* worker all of the report is true.                                       *)
THEOREM ReportsAreTrue == GitSpec => []ResultMatchesRepository
<1> DEFINE WaveInv == GitTypeOK /\ BranchInv /\ (workers = 1 => GitInv)
<1>1. GitInit => WaveInv
  BY GitInitially DEF GitInv, BranchInv, WritesBeforeSuccess, Owns, Succeeded, GitInit, NoResult
<1>2. WaveInv /\ [GitNext]_gitVars => WaveInv'
  BY GitTypes, BranchesStep, WorkersStay, GitStep
<1>3. WaveInv => ResultMatchesRepository
  <2>1. BranchInv => \A a \in Commits : Succeeded(a) => BranchExists(BranchOf[a])
    BY DEF BranchInv, Owns
  <2>2. GitInv => \A a \in Commits : Succeeded(a) => Truthful(a)
    BY DEF GitInv
  <2>3. ASSUME GitInv, Busy = {}, NEW entry \in branches,
               entry.revision # Detached, entry.revision \notin leftBehind
        PROVE  Succeeded(entry.revision)
    <3>1. entry.revision \in Commits
      BY <2>3 DEF GitInv, GitTypeOK, Revisions
    <3> QED
      BY <2>3, <3>1 DEF GitInv, Accounted, Busy, MayHaveCommitted
  <2> QED
    BY <2>1, <2>2, <2>3 DEF ResultMatchesRepository, Truthful
<1> HIDE DEF WaveInv
<1>4. QED
  BY <1>1, <1>2, <1>3, PTL DEF GitSpec

-----------------------------------------------------------------------------
(* The states of the nodes of a workflow                                   *)

(* What the pass makes of n when f is what it has made of the others.      *)
Outcome(n, f) ==
    LET parents == {f[m] : m \in Predecessors(n)}
    IN  IF nodeStates[n] # "PENDING" THEN nodeStates[n]
        ELSE IF parents \cap TerminalFailureStates # {} THEN "BLOCKED"
        ELSE IF parents = {"PASSED"} THEN "READY"
        ELSE "PENDING"

(* The pass has visited the nodes of S, and f is what it has made of them: *)
(* the predecessors of a visited node were visited before.                 *)
Visited(S, f) == /\ \A n \in S : Predecessors(n) \subseteq S
                 /\ f \in [Nodes -> WorkflowNodeStates]
                 /\ \A n \in S : f[n] = Outcome(n, f)

LEMMA OutcomeTyped ==
    ASSUME nodeStates \in [Nodes -> WorkflowNodeStates], NEW n \in Nodes, NEW f
    PROVE  Outcome(n, f) \in WorkflowNodeStates
  BY DEF Outcome, WorkflowNodeStates

LEMMA OutcomeDependsOnPredecessors ==
    ASSUME NEW n \in Nodes, NEW f, NEW g, \A m \in Predecessors(n) : f[m] = g[m]
    PROVE  Outcome(n, f) = Outcome(n, g)
<1>1. {f[m] : m \in Predecessors(n)} = {g[m] : m \in Predecessors(n)}
  OBVIOUS
<1>2. QED
  BY <1>1 DEF Outcome

(* A node all of whose predecessors were visited can be visited next.      *)
LEMMA VisitOneMore ==
    ASSUME nodeStates \in [Nodes -> WorkflowNodeStates],
           NEW S \in SUBSET Nodes, NEW f, Visited(S, f),
           NEW n \in Nodes \ S, Predecessors(n) \subseteq S
    PROVE  \E g : Visited(S \cup {n}, g)
<1> DEFINE g == [f EXCEPT ![n] = Outcome(n, f)]
<1>1. f \in [Nodes -> WorkflowNodeStates] /\ \A m \in S : Predecessors(m) \subseteq S
  BY DEF Visited
<1>2. g \in [Nodes -> WorkflowNodeStates]
  BY <1>1, OutcomeTyped
<1>3. g[n] = Outcome(n, f) /\ \A m \in S : g[m] = f[m]
  BY <1>1
<1> HIDE DEF g
<1>4. ASSUME NEW m \in S \cup {n} PROVE g[m] = Outcome(m, g)
  <2>1. Predecessors(m) \subseteq S /\ m \in Nodes
    BY <1>1
  <2>2. Outcome(m, f) = Outcome(m, g)
    BY <1>3, <2>1, OutcomeDependsOnPredecessors
  <2>3. CASE m \in S
    BY <1>3, <2>2, <2>3 DEF Visited
  <2>4. CASE m = n
    BY <1>3, <2>2, <2>4
  <2>5. QED
    BY <2>3, <2>4
<1>5. QED
  BY <1>1, <1>2, <1>4 DEF Visited

(* In a graph without cycles the pass visits every node: of the sets of    *)
(* nodes that can be visited, one with the fewest nodes left leaves none.  *)
LEMMA EveryNodeIsVisited ==
    ASSUME nodeStates \in [Nodes -> WorkflowNodeStates], Acyclic(edges)
    PROVE  \E f : Visited(Nodes, f)
<1> DEFINE Left(S) == Cardinality(Nodes \ S)
           places  == {k \in Nat : \E S \in SUBSET Nodes : k = Left(S) /\ \E f : Visited(S, f)}
<1>1. \A S \in SUBSET Nodes : IsFiniteSet(Nodes \ S) /\ Left(S) \in Nat
  BY FS_Subset, FS_CardinalityType, WorkflowEngineAssumption
<1>2. Visited({}, nodeStates)
  BY DEF Visited
<1>3. Left({}) \in places
  BY <1>1, <1>2
<1>4. PICK k \in places : \A j \in places : <<j, k>> \notin OpToRel(<, Nat)
  <2>1. places \subseteq Nat /\ places # {}
    BY <1>3
  <2> HIDE DEF places
  <2>2. QED
    BY <2>1, NatLessThanWellFounded, WFMin
<1>5. \A j \in places : ~(j < k)
  BY <1>4 DEF OpToRel
<1>6. PICK S \in SUBSET Nodes : k = Left(S) /\ \E f : Visited(S, f)
  OBVIOUS
<1>7. PICK f : Visited(S, f)
  BY <1>6
<1>8. SUFFICES ASSUME Nodes \ S # {} PROVE FALSE
  <2>1. CASE Nodes \ S = {}
    <3>1. S = Nodes
      BY <2>1
    <3>2. QED
      BY <1>7, <3>1
  <2>2. QED
    BY <2>1
<1>9. PICK n \in Nodes \ S : \A m \in Nodes \ S : <<m, n>> \notin edges
  BY <1>8 DEF Acyclic
<1>10. Predecessors(n) \subseteq S
  BY <1>9 DEF Predecessors
<1>11. \E g : Visited(S \cup {n}, g)
  BY <1>7, <1>10, VisitOneMore
<1>12. Left(S \cup {n}) = Left(S) - 1
  <2>1. Nodes \ (S \cup {n}) = (Nodes \ S) \ {n}
    OBVIOUS
  <2>2. IsFiniteSet(Nodes \ S) /\ n \in Nodes \ S
    BY <1>1
  <2>3. QED
    BY <2>1, <2>2, FS_RemoveElement
<1>13. S \cup {n} \in SUBSET Nodes
  OBVIOUS
<1>14. Left(S \cup {n}) \in places
  BY <1>1, <1>11, <1>13
<1>15. k \in Nat /\ Left(S \cup {n}) = k - 1
  BY <1>6, <1>12
<1> HIDE DEF places, Left
<1>16. Left(S \cup {n}) < k
  BY <1>15
<1>17. QED
  BY <1>5, <1>14, <1>16

(* The pass is defined on every workflow without cycles: what it makes of  *)
(* a node is what its rule makes of what the pass makes of the others.     *)
THEOREM PropagationIsDefined ==
    ASSUME WorkflowTypeOK, Acyclic(edges)
    PROVE  /\ PropagatedStates \in [Nodes -> WorkflowNodeStates]
           /\ \A n \in Nodes : PropagatedStates[n] = Outcome(n, PropagatedStates)
<1>1. PICK f : Visited(Nodes, f)
  BY EveryNodeIsVisited DEF WorkflowTypeOK
<1>2. f = [n \in Nodes |-> Outcome(n, f)]
  BY <1>1 DEF Visited
<1>3. PropagatedStates = CHOOSE g : g = [n \in Nodes |-> Outcome(n, g)]
  BY DEF PropagatedStates, Outcome
<1>4. PropagatedStates = [n \in Nodes |-> Outcome(n, PropagatedStates)]
  BY <1>2, <1>3
<1>5. \A n \in Nodes : PropagatedStates[n] = Outcome(n, PropagatedStates)
  BY <1>4
<1>6. \A n \in Nodes : PropagatedStates[n] \in WorkflowNodeStates
  BY <1>5, OutcomeTyped DEF WorkflowTypeOK
<1>7. QED
  BY <1>4, <1>5, <1>6

(* In whatever order a pass visits the nodes, if it sees what it has made  *)
(* of the predecessors of each it ends with the same states: the order     *)
(* that topologicalOrder chooses among the possible ones is immaterial.    *)
THEOREM AnyOrderPropagatesAlike ==
    ASSUME WorkflowTypeOK, Acyclic(edges), NEW f, Visited(Nodes, f)
    PROVE  f = PropagatedStates
<1> DEFINE apart == {n \in Nodes : f[n] # PropagatedStates[n]}
<1>1. /\ PropagatedStates \in [Nodes -> WorkflowNodeStates]
      /\ \A n \in Nodes : PropagatedStates[n] = Outcome(n, PropagatedStates)
  BY PropagationIsDefined
<1>2. SUFFICES ASSUME apart # {} PROVE FALSE
  BY <1>1 DEF Visited
<1>3. PICK n \in apart : \A m \in apart : <<m, n>> \notin edges
  BY <1>2 DEF Acyclic
<1>4. \A m \in Predecessors(n) : f[m] = PropagatedStates[m]
  BY <1>3 DEF Predecessors
<1>5. f[n] = PropagatedStates[n]
  BY <1>1, <1>4, OutcomeDependsOnPredecessors DEF Visited
<1>6. QED
  BY <1>5

(* What waits after the pass waits by the rule of the pass itself; that    *)
(* the pass is defined needs the graph to stay without cycles.             *)
WorkflowInv == WorkflowTypeOK /\ Acyclic(edges) /\ NothingLeftToPropagate

(* A new workflow waits for nothing that a pass would bring.               *)
LEMMA WorkflowInitially == WorkflowInit => WorkflowInv
<1> SUFFICES ASSUME WorkflowInit PROVE WorkflowInv
  OBVIOUS
<1>1. WorkflowTypeOK /\ Acyclic(edges)
  BY DEF WorkflowInit, WorkflowTypeOK, CreateInitialNodeStates, WorkflowNodeStates
<1>2. \A m \in Nodes : nodeStates[m] \in {"READY", "PENDING"}
  BY DEF WorkflowInit, CreateInitialNodeStates
<1>3. ASSUME NEW n \in Nodes, nodeStates[n] = "PENDING",
             NEW parents, parents = {nodeStates[m] : m \in Predecessors(n)}
      PROVE  parents \cap TerminalFailureStates = {} /\ parents # {"PASSED"}
  <2>1. parents \subseteq {"READY", "PENDING"}
    BY <1>2, <1>3 DEF Predecessors
  <2>2. QED
    BY <2>1 DEF TerminalFailureStates
<1>4. NothingLeftToPropagate
  BY <1>3 DEF NothingLeftToPropagate
<1>5. QED
  BY <1>1, <1>4 DEF WorkflowInv

LEMMA WorkflowStep == WorkflowInv /\ [WorkflowNext]_workflowVars => WorkflowInv'
<1> SUFFICES ASSUME WorkflowInv, [WorkflowNext]_workflowVars PROVE WorkflowInv'
  OBVIOUS
<1>1. ASSUME NEW n \in Nodes, NEW next \in WorkflowNodeStates, TransitionNodeState(n, next)
      PROVE  WorkflowInv'
  <2>1. WorkflowTypeOK' /\ Acyclic(edges)'
    BY <1>1 DEF TransitionNodeState, WorkflowInv, WorkflowTypeOK, Acyclic
  <2>2. NothingLeftToPropagate'
    BY <1>1 DEF TransitionNodeState, NothingLeftToPropagate
  <2>3. QED
    BY <2>1, <2>2 DEF WorkflowInv
<1>2. CASE PropagateWorkflowStates
  <2>1. nodeStates' = PropagatedStates /\ edges' = edges /\ propagated' = TRUE
    BY <1>2 DEF PropagateWorkflowStates
  <2>2. WorkflowTypeOK' /\ Acyclic(edges)'
    BY <2>1, PropagationIsDefined DEF WorkflowInv, WorkflowTypeOK, Acyclic
  <2>3. ASSUME NEW n \in Nodes, nodeStates'[n] = "PENDING",
               NEW parents, parents = {nodeStates'[m] : m \in Predecessors(n)}
        PROVE  parents \cap TerminalFailureStates = {} /\ parents # {"PASSED"}
    <3>1. PropagatedStates[n] = Outcome(n, PropagatedStates)
      BY PropagationIsDefined DEF WorkflowInv
    <3>2. parents = {PropagatedStates[m] : m \in Predecessors(n)}
      BY <2>1, <2>3
    <3>3. Outcome(n, PropagatedStates) = "PENDING"
      BY <2>1, <2>3, <3>1
    <3>4. QED
      BY <3>2, <3>3 DEF Outcome
  <2>4. \A n \in Nodes : Predecessors(n)' = Predecessors(n)
    BY <2>1 DEF Predecessors
  <2>5. NothingLeftToPropagate'
    BY <2>3, <2>4 DEF NothingLeftToPropagate
  <2>6. QED
    BY <2>2, <2>5 DEF WorkflowInv
<1>3. CASE UNCHANGED workflowVars
  BY <1>3 DEF workflowVars, WorkflowInv, WorkflowTypeOK, Acyclic, NothingLeftToPropagate,
              Predecessors
<1>4. QED
  BY <1>1, <1>2, <1>3 DEF WorkflowNext

LEMMA WorkflowInvariant == WorkflowSpec => []WorkflowInv
  BY WorkflowInitially, WorkflowStep, PTL DEF WorkflowSpec

(* The states of the nodes are the seven of the source, in every workflow  *)
(* of any number of nodes.                                                 *)
THEOREM WorkflowTypeCorrect == WorkflowSpec => []WorkflowTypeOK
<1>1. WorkflowInv => WorkflowTypeOK
  BY DEF WorkflowInv
<1>2. QED
  BY WorkflowInvariant, <1>1, PTL

(* One pass of propagateWorkflowStates is enough: after it no node waits   *)
(* that its predecessors would ready or block.                             *)
THEOREM NothingLeftToPropagateHolds == WorkflowSpec => []NothingLeftToPropagate
<1>1. WorkflowInv => NothingLeftToPropagate
  BY DEF WorkflowInv
<1>2. QED
  BY WorkflowInvariant, <1>1, PTL

(* A pass after a pass changes nothing, and no pass touches a node that    *)
(* does not wait.                                                          *)
THEOREM PropagationSettles ==
    WorkflowSpec => [][PropagateWorkflowStates =>
                          /\ propagated => nodeStates' = nodeStates
                          /\ \A n \in Nodes : nodeStates[n] # "PENDING" =>
                                nodeStates'[n] = nodeStates[n]]_workflowVars
<1>1. ASSUME WorkflowInv, PropagateWorkflowStates
      PROVE  /\ propagated => nodeStates' = nodeStates
             /\ \A n \in Nodes : nodeStates[n] # "PENDING" => nodeStates'[n] = nodeStates[n]
  <2>1. /\ nodeStates' = PropagatedStates
        /\ PropagatedStates \in [Nodes -> WorkflowNodeStates]
        /\ \A n \in Nodes : PropagatedStates[n] = Outcome(n, PropagatedStates)
    BY <1>1, PropagationIsDefined DEF PropagateWorkflowStates, WorkflowInv
  <2>2. ASSUME NEW n \in Nodes, nodeStates[n] # "PENDING"
        PROVE  PropagatedStates[n] = nodeStates[n]
    BY <2>1, <2>2 DEF Outcome
  <2>3. ASSUME propagated, nodeStates # PropagatedStates PROVE FALSE
    <3> DEFINE renewed == {n \in Nodes : PropagatedStates[n] # nodeStates[n]}
    <3>1. renewed # {}
      BY <1>1, <2>1, <2>3 DEF WorkflowInv, WorkflowTypeOK
    <3>2. PICK n \in renewed : \A m \in renewed : <<m, n>> \notin edges
      BY <1>1, <3>1 DEF WorkflowInv, Acyclic
    <3>3. \A m \in Predecessors(n) : PropagatedStates[m] = nodeStates[m]
      BY <3>2 DEF Predecessors
    <3>4. PropagatedStates[n] = Outcome(n, nodeStates)
      BY <2>1, <3>3, OutcomeDependsOnPredecessors
    <3>5. nodeStates[n] = "PENDING"
      BY <2>2
    <3>6. Outcome(n, nodeStates) = "PENDING"
      BY <1>1, <2>3, <3>5 DEF Outcome, WorkflowInv, NothingLeftToPropagate
    <3>7. QED
      BY <3>4, <3>5, <3>6
  <2>4. QED
    BY <2>1, <2>2, <2>3
<1>2. QED
  BY WorkflowInvariant, <1>1, PTL DEF WorkflowSpec
=================================================================================
