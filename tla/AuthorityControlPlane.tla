-------------------------- MODULE AuthorityControlPlane --------------------------
(***************************************************************************)
(* The authority control plane: the localhost server through which a human *)
(* requests, approves, activates and deactivates critical capabilities.    *)
(*                                                                         *)
(* The capability state is one file behind AtomicJsonConfigStore, so it is *)
(* a generation-checked register here (module ConfigRegister).  Every read *)
(* of the file and every write of it is an action of its own, since other  *)
(* servers may work on the same file in between.  Within one process a     *)
(* handler runs from the parsed request to its audit append without an     *)
(* await; then it waits for the audit log, whose appends are queued one    *)
(* behind the other, and other handlers run.  When the append fails, the   *)
(* handler compensates before anything else runs.  Approvals live in the   *)
(* memory of the process and are lost with it.                             *)
(***************************************************************************)
EXTENDS Integers, FiniteSets, Sequences

CONSTANTS Servers,        \* processes serving the same state file
          Capabilities,   \* the critical capabilities
          NoApproval,     \* "the coordinator holds no approval"
          NoCall,         \* "nothing runs in the process"
          Faults,         \* which faults happen: subset of AllFaults
          MaxPending,     \* bound on the requests a server handles at once
          MaxGeneration   \* bound: no request is taken from this generation on

AllFaults == {"audit",  \* an append to the audit log fails
              "crash",  \* a server dies between two steps
              "torn",   \* a server dies inside a write, or the write throws
              "io"}     \* a write throws while compensating

VARIABLES state,         \* the persisted [generation, requested, active]
          lockOrphaned,  \* a lock file that no process owns any more
          up,            \* the servers that are listening
          approvals,     \* approvals[s][c]: the generation s holds an approval for
          call,          \* call[s]: what runs in s between two awaits
          pending,       \* pending[s]: handled requests that await their audit
          audit,         \* the events on disk that concern the present state
          activatedFrom, \* the generation an active capability was activated
                         \* from (history)
          older          \* older[s]: what has been active without a break since
                         \* before s started (history)

history == <<activatedFrom, older>>
vars    == <<state, lockOrphaned, up, approvals, call, pending, audit,
             activatedFrom, older>>

Paths    == {"request", "approve", "activate", "deactivate"}
Outcomes == {"APPLIED", "APPROVED", "UNCHANGED", "CONFLICT", "BLOCKED"}
States   == [generation : Nat, requested : SUBSET Capabilities,
             active : SUBSET Capabilities]

(* The events of the audit log that grant something.  A handled request is *)
(* what it asked, how it ended, which of these events it appends, and, for *)
(* a request of a capability, whether it was requested before (the part of *)
(* previousSnapshot that compensation reads).                              *)
Events  == [path : {"approve", "activate"}, capability : Capabilities, generation : Nat]
Handled == [path : Paths, capability : Capabilities, outcome : Outcomes,
            events : SUBSET Events, previously : BOOLEAN]

(* One call of the coordinator or the activation service: why it is made,  *)
(* how far it is, what it asks and at which generation, whether the exact  *)
(* approval was found, and which capabilities a starting server has left.  *)
Calls == [purpose : {"handle", "compensate", "start"},
          step : {"verify", "decide", "write", "reread"},
          path : Paths, capability : Capabilities, want : BOOLEAN, expected : Nat,
          previously : BOOLEAN, verified : BOOLEAN, todo : SUBSET Capabilities]

ASSUME AuthorityAssumption ==
    /\ Faults \subseteq AllFaults
    /\ NoApproval \notin Nat
    /\ NoCall \notin Calls
    /\ MaxPending \in Nat
    /\ MaxGeneration \in Nat

TypeOK ==
    /\ state \in States
    /\ lockOrphaned \in BOOLEAN
    /\ up \subseteq Servers
    /\ approvals \in [Servers -> [Capabilities -> Nat \cup {NoApproval}]]
    /\ call \in [Servers -> Calls \cup {NoCall}]
    /\ pending \in [Servers -> Seq(Handled)]
    /\ audit \subseteq Events
    /\ activatedFrom \in [Capabilities -> Nat \cup {NoApproval}]
    /\ older \in [Servers -> SUBSET Capabilities]

NoApprovals == [c \in Capabilities |-> NoApproval]

(* Nothing requested, nothing active, no server started yet.               *)
Init ==
    /\ state = [generation |-> 0, requested |-> {}, active |-> {}]
    /\ lockOrphaned = FALSE
    /\ up = {}
    /\ approvals = [s \in Servers |-> NoApprovals]
    /\ call = [s \in Servers |-> NoCall]
    /\ pending = [s \in Servers |-> <<>>]
    /\ audit = {}
    /\ activatedFrom = NoApprovals
    /\ older = [s \in Servers |-> {}]

---------------------------------------------------------------------------------
(* The state file                                                          *)

At(s, step) == call[s] # NoCall /\ call[s].step = step

(* Another process may be inside its own write.                            *)
LockMayBeHeld(s) == lockOrphaned \/ \E t \in Servers \ {s} : At(t, "write")

(* A bug: the write keeps the generation.                                  *)
WrittenInPlace(requested, active) ==
    [generation |-> state.generation, requested |-> requested, active |-> active]

Written(requested, active) ==
    [generation |-> state.generation + 1, requested |-> requested, active |-> active]

(* updateCapability: the set with one capability put in or taken out.      *)
Updated(set, c, enabled) == IF enabled THEN set \cup {c} ELSE set \ {c}

(* An event of the log that still matters: the approval of the current     *)
(* state, or what made a capability active that is active now.             *)
Concerns(e) ==
    \/ e.path = "approve" /\ e.generation = state.generation
    \/ e.path = "approve" /\ e.generation = activatedFrom[e.capability]
    \/ e.path = "activate" /\ e.generation - 1 = activatedFrom[e.capability]

(* The books of a step that changes the state or the log: what the log     *)
(* gains, and the history.                                                 *)
Notes(events) ==
    /\ activatedFrom' = [c \in Capabilities |->
          IF c \notin state'.active THEN NoApproval
          ELSE IF c \in state.active THEN activatedFrom[c] ELSE state.generation]
    /\ older' = [s \in Servers |-> older[s] \cap state'.active]
    /\ audit' = {e \in audit \cup events : Concerns(e)'}

Unwritten == UNCHANGED <<state, lockOrphaned, audit, history>>

(* A process that dies leaves its memory and its unanswered requests; the  *)
(* audit event it was appending may have reached the disk.                 *)
Appending(s) == IF pending[s] = <<>> THEN {} ELSE Head(pending[s]).events

Dies(s) ==
    /\ up' = up \ {s}
    /\ approvals' = [approvals EXCEPT ![s] = NoApprovals]
    /\ call' = [call EXCEPT ![s] = NoCall]
    /\ pending' = [pending EXCEPT ![s] = <<>>]
    /\ Notes({}) \/ Notes(Appending(s))

---------------------------------------------------------------------------------
(* What a call asks for                                                    *)

(* setRequested: withdrawing a request also deactivates.  What is computed *)
(* from a read is what it would be at the write: a write that is applied   *)
(* finds the generation that was read.                                     *)
RequestedAfter(f) == IF f.path = "request"
                     THEN Updated(state.requested, f.capability, f.want)
                     ELSE state.requested

(* A bug: withdrawing a request leaves the capability active.              *)
ActiveAfterKept(f) ==
    CASE f.path = "activate"   -> Updated(state.active, f.capability, TRUE)
      [] f.path = "deactivate" -> Updated(state.active, f.capability, FALSE)
      [] OTHER                 -> state.active

ActiveAfter(f) ==
    CASE f.path = "activate" -> Updated(state.active, f.capability, TRUE)
      [] \/ f.path = "deactivate"
         \/ f.path = "request" /\ ~f.want -> Updated(state.active, f.capability, FALSE)
      [] OTHER -> state.active

ChangesNothing(f) == /\ RequestedAfter(f) = state.requested
                     /\ ActiveAfter(f) = state.active

(* approve and activate need the capability requested; activate needs the  *)
(* approval of exactly one state, which activateApproved has looked for.   *)
Blocked(f) ==
    \/ f.path \in {"approve", "activate"} /\ f.capability \notin state.requested
    \/ f.path = "activate" /\ ~f.verified

(* The grant that a handled request records in the audit log.              *)
Grants(f, outcome) ==
    CASE f.path = "activate" /\ outcome = "APPLIED" ->
            {[path |-> "activate", capability |-> f.capability, generation |-> f.expected + 1]}
      [] f.path = "approve" /\ outcome = "APPROVED" ->
            {[path |-> "approve", capability |-> f.capability, generation |-> f.expected]}
      [] OTHER -> {}

(* A bug: the store's own word for a stale generation is passed on.        *)
ConflictUntranslated == "GENERATION_CONFLICT"

Conflict == "CONFLICT"

(* A call ends.  A handled request queues its audit event for the log; a   *)
(* compensation is answered with an error whatever became of it; a start   *)
(* goes on, or fails closed.                                               *)
Ends(s, outcome) ==
    LET f == call[s] IN
    \/ /\ f.purpose = "handle"
       /\ pending' = [pending EXCEPT ![s] = Append(@,
             [path |-> f.path, capability |-> f.capability, outcome |-> outcome,
              events |-> Grants(f, outcome), previously |-> f.previously])]
       /\ call' = [call EXCEPT ![s] = NoCall]
    \/ /\ f.purpose = "compensate"
       /\ call' = [call EXCEPT ![s] = NoCall]
       /\ UNCHANGED pending
    \/ /\ f.purpose = "start"
       /\ call' = [call EXCEPT ![s] = IF outcome \in {"APPLIED", "UNCHANGED"}
                                      THEN [f EXCEPT !.step = "reread"] ELSE NoCall]
       /\ UNCHANGED pending

---------------------------------------------------------------------------------
(* The steps of a call                                                     *)

(* A parsed request arrives; the handler reads previousSnapshot.  A client *)
(* names a generation it was shown, the current one or an earlier one.     *)
Receive(s, path, c, want, g) ==
    /\ s \in up
    /\ call[s] = NoCall
    /\ Len(pending[s]) < MaxPending
    /\ state.generation < MaxGeneration
    /\ g \in 0 .. state.generation
    /\ want \/ path = "request"
    /\ call' = [call EXCEPT ![s] =
          [purpose |-> "handle", step |-> IF path = "activate" THEN "verify" ELSE "decide",
           path |-> path, capability |-> c, want |-> want, expected |-> g,
           previously |-> path = "request" /\ c \in state.requested,
           verified |-> FALSE, todo |-> {}]]
    /\ UNCHANGED <<up, approvals, pending>>
    /\ Unwritten

(* A bug: any approval of the capability will do, however old.             *)
ExactApprovalAny(s, c) == approvals[s][c] # NoApproval

(* activateApproved reads the state to see whether the approval it holds   *)
(* is for it, and only then calls activate, which reads the state again.   *)
ExactApproval(s, c) == approvals[s][c] = state.generation

VerifyApproval(s) ==
    /\ At(s, "verify")
    /\ call' = [call EXCEPT ![s].step = "decide",
                            ![s].verified = ExactApproval(s, call[s].capability)]
    /\ UNCHANGED <<up, approvals, pending>>
    /\ Unwritten

(* The read of setRequested, approve, activate and deactivate, and what    *)
(* they decide on it.  An approval is bound to the state that was read.    *)
Decide(s) ==
    /\ At(s, "decide")
    /\ Unwritten
    /\ UNCHANGED up
    /\ LET f == call[s] IN
       \/ f.expected # state.generation /\ Ends(s, Conflict) /\ UNCHANGED approvals
       \/ /\ f.expected = state.generation
          /\ Blocked(f)
          /\ Ends(s, "BLOCKED") /\ UNCHANGED approvals
       \/ /\ f.expected = state.generation /\ ~Blocked(f)
          /\ f.path = "approve"
          /\ approvals' = [approvals EXCEPT ![s][f.capability] = state.generation]
          /\ Ends(s, "APPROVED")
       \/ /\ f.expected = state.generation /\ ~Blocked(f)
          /\ f.path # "approve" /\ ChangesNothing(f)
          /\ Ends(s, "UNCHANGED") /\ UNCHANGED approvals
       \/ /\ f.expected = state.generation /\ ~Blocked(f)
          /\ f.path # "approve" /\ ~ChangesNothing(f)
          /\ call' = [call EXCEPT ![s].step = "write"]
          /\ UNCHANGED <<approvals, pending>>

(* writeState: the compare-and-set of the file.                            *)
Applies(s) ==
    /\ At(s, "write")
    /\ ~lockOrphaned
    /\ call[s].expected = state.generation
    /\ state' = Written(RequestedAfter(call[s]), ActiveAfter(call[s]))
    /\ Ends(s, "APPLIED")
    /\ UNCHANGED <<lockOrphaned, up, approvals>>
    /\ Notes({})

(* The generation has moved, or another process holds the lock.            *)
Refused(s) ==
    /\ At(s, "write")
    /\ call[s].expected # state.generation \/ LockMayBeHeld(s)
    /\ Ends(s, Conflict)
    /\ UNCHANGED <<up, approvals>>
    /\ Unwritten

WriteState(s) == Applies(s) \/ Refused(s)

(* The write is cut short before or after its rename, and its lock file    *)
(* may stay.                                                               *)
CutShort(s) ==
    /\ At(s, "write")
    /\ ~lockOrphaned
    /\ \/ UNCHANGED state
       \/ /\ call[s].expected = state.generation
          /\ state' = Written(RequestedAfter(call[s]), ActiveAfter(call[s]))
    /\ lockOrphaned' \in BOOLEAN

(* The process is killed in the write; an exception of the store is caught *)
(* neither by a handler nor at startup, and ends the process as well.      *)
DiesWriting(s) == "torn" \in Faults /\ CutShort(s) /\ Dies(s)

(* The handler catches an exception of the compensation and goes on.       *)
CompensationThrows(s) ==
    /\ "io" \in Faults
    /\ CutShort(s)
    /\ call[s].purpose = "compensate"
    /\ call' = [call EXCEPT ![s] = NoCall]
    /\ UNCHANGED <<up, approvals, pending>>
    /\ Notes({})

---------------------------------------------------------------------------------
(* The audit log answers                                                   *)

(* The event is on disk and the request is answered.                       *)
AuditSucceeds(s) ==
    /\ s \in up
    /\ call[s] = NoCall
    /\ pending[s] # <<>>
    /\ pending' = [pending EXCEPT ![s] = Tail(@)]
    /\ UNCHANGED <<state, lockOrphaned, up, approvals, call>>
    /\ Notes(Appending(s))

(* A bug: an audit failure asks for what was granted once more.            *)
CompensationRepeats(h) ==
    [purpose |-> "compensate", step |-> "decide", path |-> "request",
     capability |-> h.capability, want |-> TRUE, expected |-> state.generation,
     previously |-> FALSE, verified |-> FALSE, todo |-> {}]

(* compensateAuthorityAuditFailure, for whatever outcome the request had:  *)
(* deactivate, or restore the request, at the generation read first.       *)
Compensation(h) ==
    [purpose |-> "compensate", step |-> "decide",
     path |-> IF h.path = "activate" THEN "deactivate" ELSE "request",
     capability |-> h.capability, want |-> h.previously,
     expected |-> state.generation,
     previously |-> FALSE, verified |-> FALSE, todo |-> {}]

(* The append fails: before the line was written, or in its fsync or close.*)
(* The handler discards the approval, compensates, or has nothing to undo. *)
AuditFails(s) ==
    /\ "audit" \in Faults
    /\ s \in up
    /\ call[s] = NoCall
    /\ pending[s] # <<>>
    /\ pending' = [pending EXCEPT ![s] = Tail(@)]
    /\ UNCHANGED <<state, lockOrphaned, up>>
    /\ Notes({}) \/ Notes(Appending(s))
    /\ LET h == Head(pending[s]) IN
       \/ /\ h.path = "approve"
          /\ approvals' = [approvals EXCEPT ![s][h.capability] = NoApproval]
          /\ UNCHANGED call
       \/ h.path = "deactivate" /\ UNCHANGED <<call, approvals>>
       \/ /\ h.path \in {"activate", "request"}
          /\ call' = [call EXCEPT ![s] = Compensation(h)]
          /\ UNCHANGED approvals

---------------------------------------------------------------------------------
(* Restarts                                                                *)

(* A bug: a restarted server serves the state file as it finds it.         *)
NextToDeactivateSkipped(s, todo) ==
    up' = up \cup {s} /\ call' = [call EXCEPT ![s] = NoCall]

(* Startup deactivates what it found active, one call each, at the         *)
(* generation of its latest read, and listens when nothing is left.        *)
NextToDeactivate(s, todo) ==
    \/ /\ todo = {}
       /\ up' = up \cup {s}
       /\ call' = [call EXCEPT ![s] = NoCall]
    \/ /\ \E c \in todo :
             call' = [call EXCEPT ![s] =
                [purpose |-> "start", step |-> "decide", path |-> "deactivate",
                 capability |-> c, want |-> TRUE, expected |-> state.generation,
                 previously |-> FALSE, verified |-> FALSE, todo |-> todo \ {c}]]
       /\ UNCHANGED up

(* reconcileAuthorityStateOnStartup reads what is active.                  *)
Start(s) ==
    /\ s \notin up
    /\ call[s] = NoCall
    /\ NextToDeactivate(s, state.active)
    /\ older' = [older EXCEPT ![s] = state.active]
    /\ UNCHANGED <<state, lockOrphaned, approvals, pending, audit, activatedFrom>>

Reread(s) ==
    /\ At(s, "reread")
    /\ NextToDeactivate(s, call[s].todo)
    /\ UNCHANGED <<approvals, pending>>
    /\ Unwritten

Crash(s) ==
    /\ "crash" \in Faults
    /\ s \in up \/ call[s] # NoCall
    /\ UNCHANGED <<state, lockOrphaned>>
    /\ Dies(s)

---------------------------------------------------------------------------------
AuditAnswers(s) == AuditSucceeds(s) \/ AuditFails(s)

Next == \E s \in Servers :
    \/ Start(s) \/ Reread(s)
    \/ \E path \in Paths, c \in Capabilities, want \in BOOLEAN, g \in 0 .. state.generation :
           Receive(s, path, c, want, g)
    \/ VerifyApproval(s) \/ Decide(s) \/ WriteState(s)
    \/ AuditAnswers(s)
    \/ DiesWriting(s) \/ CompensationThrows(s) \/ Crash(s)

Spec == Init /\ [][Next]_vars

(* A server that is down is started again and again (by its operator or a  *)
(* supervisor), a process that runs goes on, the file system answers every *)
(* append, and not every attempt at the same step ends in a crash.         *)
Fairness == \A s \in Servers :
    /\ WF_vars(Start(s)) /\ WF_vars(Reread(s)) /\ WF_vars(VerifyApproval(s))
    /\ WF_vars(AuditAnswers(s))
    /\ SF_vars(Decide(s)) /\ SF_vars(WriteState(s))

FairSpec == Spec /\ Fairness
---------------------------------------------------------------------------------
(* Properties                                                              *)

(* No handler, compensation or restart ever asks the store for an active   *)
(* capability that is not requested, which its validator would refuse with *)
(* an exception and so end the process (authority-capability-state-store.ts).*)
ValidatorNeverRefuses == state.active \subseteq state.requested

(* An approval of the current generation was given in the current state:   *)
(* every way to change the state, compensation and restart included, makes *)
(* a new generation, so no approval outlives what the human saw.           *)
ApprovalMatchesItsState ==
    \A s \in Servers, c \in Capabilities :
        approvals[s][c] # NoApproval =>
            /\ approvals[s][c] <= state.generation
            /\ approvals[s][c] = state.generation => c \in state.requested

(* A capability becomes active only while a running server holds a human   *)
(* approval of exactly the state it is activated from, although that       *)
(* server read the state three times before it wrote and other servers     *)
(* write in between; no restart, compensation or cut write activates.      *)
ActivatesOnlyWhatWasApproved ==
    [][\A c \in state'.active \ state.active :
          \E s \in up : approvals[s][c] = state.generation]_vars

(* Restart safety: when a server listens, every capability that was active *)
(* when it started has been deactivated in between, whatever the other     *)
(* servers wrote meanwhile.                                                *)
ActiveSinceLastStart == \A s \in up : older[s] = {}

(* A record of the activation that made c active.                          *)
IsActivation(r, c) == /\ r.path = "activate" /\ r.capability = c
                      /\ r.generation - 1 = activatedFrom[c]

ActivationAudited(c) == \E e \in audit : IsActivation(e, c)

ActivationAwaited(c) ==
    \E s \in up : \E i \in DOMAIN pending[s] :
        \E e \in pending[s][i].events : IsActivation(e, c)

(* Its audit append failed and the compensating deactivation is under way. *)
ActivationCompensated(c) ==
    \E s \in up : /\ call[s] # NoCall /\ call[s].purpose = "compensate"
                  /\ call[s].path = "deactivate" /\ call[s].capability = c

(* With one server: while it runs, every active capability has its last    *)
(* activation in the audit log, or in a request that still awaits the log, *)
(* or is being deactivated because that failed.                            *)
ActiveIsAudited ==
    up # {} => \A c \in state.active :
        ActivationAudited(c) \/ ActivationAwaited(c) \/ ActivationCompensated(c)

(* An activation that is not in the audit log does not stay: the event is  *)
(* written, or compensation or the next restart deactivates, as long as no *)
(* lock file is left behind to keep either from writing.                   *)
UnauditedActivationEnds ==
    \A c \in Capabilities :
        (c \in state.active /\ ~ActivationAudited(c)) ~>
        (c \notin state.active \/ ActivationAudited(c) \/ lockOrphaned)

(* The restart and audit-failure safety that docs/ROADMAP.md line 170 and  *)
(* NFR-004 of docs/project/NON-FUNCTIONAL-REQUIREMENTS.md promise leaves   *)
(* no such exception: after a crash, too, the activation is recorded or    *)
(* ends.                                                                   *)
RestartRevokesUnaudited ==
    \A c \in Capabilities :
        (c \in state.active /\ ~ActivationAudited(c)) ~>
        (c \notin state.active \/ ActivationAudited(c))

(* The same of the approval behind an activation: with nothing left to be  *)
(* audited, an active capability has the approval that activated it in the *)
(* audit log.                                                              *)
ActiveHasAuditedApproval ==
    \A s \in up : pending[s] = <<>> /\ call[s] = NoCall =>
        \A c \in state.active : \E e \in audit :
            e.path = "approve" /\ e.capability = c /\ e.generation = activatedFrom[c]

=================================================================================
