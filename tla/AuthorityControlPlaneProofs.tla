----------------------- MODULE AuthorityControlPlaneProofs -----------------------
(***************************************************************************)
(* Proofs about AuthorityControlPlane, for any number of servers and any   *)
(* capabilities, without bounds on pending requests.                       *)
(***************************************************************************)
EXTENDS AuthorityControlPlane, SequenceTheorems, TLAPS

---------------------------------------------------------------------------------
(* Types                                                                   *)

(* Every step's effect on the typed books of the model: what Notes leaves. *)
LEMMA NotesTyped ==
    ASSUME TypeOK, state' \in States, NEW events \in SUBSET Events, Notes(events)
    PROVE  /\ activatedFrom' \in [Capabilities -> Nat \cup {NoApproval}]
           /\ older' \in [Servers -> SUBSET Capabilities]
           /\ audit' \subseteq Events
  BY DEF TypeOK, Notes, States

LEMMA AppendingTyped ==
    ASSUME TypeOK, NEW s \in Servers PROVE Appending(s) \in SUBSET Events
<1>1. CASE pending[s] = <<>>
  BY <1>1 DEF Appending
<1>2. CASE pending[s] # <<>>
  <2>1. Head(pending[s]) \in Handled
    BY <1>2 DEF TypeOK
  <2>2. QED
    BY <1>2, <2>1 DEF Appending, Handled
<1>3. QED
  BY <1>1, <1>2

LEMMA DiesTyped ==
    ASSUME TypeOK, NEW s \in Servers, Dies(s), state' \in States, lockOrphaned' \in BOOLEAN
    PROVE  TypeOK'
<1>1. /\ activatedFrom' \in [Capabilities -> Nat \cup {NoApproval}]
      /\ older' \in [Servers -> SUBSET Capabilities]
      /\ audit' \subseteq Events
  BY NotesTyped, AppendingTyped DEF Dies
<1>2. up' \subseteq Servers
  BY DEF Dies, TypeOK
<1>3. approvals' \in [Servers -> [Capabilities -> Nat \cup {NoApproval}]]
  BY DEF Dies, TypeOK, NoApprovals
<1>4. pending' \in [Servers -> Seq(Handled)]
  BY DEF Dies, TypeOK
<1>5. call' \in [Servers -> Calls \cup {NoCall}]
  BY DEF Dies, TypeOK
<1>6. QED
  BY <1>1, <1>2, <1>3, <1>4, <1>5 DEF TypeOK

(* A call that goes on, or one that begins, is a call.                     *)
LEMMA CallTyped ==
    ASSUME TypeOK, NEW s \in Servers, NEW f \in Calls \cup {NoCall},
           call' = [call EXCEPT ![s] = f]
    PROVE  /\ call' \in [Servers -> Calls \cup {NoCall}]
           /\ call'[s] = f
           /\ \A t \in Servers \ {s} : call'[t] = call[t]
  BY DEF TypeOK

LEMMA AtTyped ==
    ASSUME TypeOK, NEW s \in Servers, call[s] # NoCall
    PROVE  /\ call[s] \in Calls
           /\ RequestedAfter(call[s]) \in SUBSET Capabilities
           /\ ActiveAfter(call[s]) \in SUBSET Capabilities
           /\ Written(RequestedAfter(call[s]), ActiveAfter(call[s])) \in States
           /\ [call[s] EXCEPT !.step = "reread"] \in Calls
           /\ [call[s] EXCEPT !.step = "write"] \in Calls
<1>1. call[s] \in Calls
  BY DEF TypeOK
<1>2. /\ RequestedAfter(call[s]) \in SUBSET Capabilities
      /\ ActiveAfter(call[s]) \in SUBSET Capabilities
  BY <1>1 DEF RequestedAfter, ActiveAfter, Updated, TypeOK, States, Calls
<1>3. Written(RequestedAfter(call[s]), ActiveAfter(call[s])) \in States
  BY <1>2 DEF Written, TypeOK, States
<1>4. QED
  BY <1>1, <1>2, <1>3 DEF Calls

LEMMA GrantsTyped ==
    ASSUME NEW f \in Calls, NEW outcome PROVE Grants(f, outcome) \in SUBSET Events
  BY DEF Calls, Grants, Events

LEMMA EndsTyped ==
    ASSUME TypeOK, NEW s \in Servers, call[s] # NoCall, NEW outcome \in Outcomes,
           Ends(s, outcome)
    PROVE  /\ call' \in [Servers -> Calls \cup {NoCall}]
           /\ pending' \in [Servers -> Seq(Handled)]
<1> DEFINE f == call[s]
           h == [path |-> f.path, capability |-> f.capability, outcome |-> outcome,
                 events |-> Grants(f, outcome), previously |-> f.previously]
<1>1. f \in Calls /\ [f EXCEPT !.step = "reread"] \in Calls
  BY AtTyped
<1>2. call' \in [Servers -> Calls \cup {NoCall}]
  BY <1>1 DEF Ends, TypeOK
<1>3. h \in Handled
  BY <1>1, GrantsTyped DEF Handled, Calls
<1>4. pending' = pending \/ pending' = [pending EXCEPT ![s] = Append(@, h)]
  BY DEF Ends
<1>5. pending \in [Servers -> Seq(Handled)]
  BY DEF TypeOK
<1> HIDE DEF h
<1>6. pending' \in [Servers -> Seq(Handled)]
  BY <1>3, <1>4, <1>5
<1>7. QED
  BY <1>2, <1>6

LEMMA ReceiveTyped ==
    ASSUME TypeOK, NEW s \in Servers, NEW path \in Paths, NEW c \in Capabilities,
           NEW want \in BOOLEAN, NEW g \in 0 .. state.generation, Receive(s, path, c, want, g)
    PROVE  TypeOK'
<1> DEFINE f == [purpose |-> "handle", step |-> IF path = "activate" THEN "verify" ELSE "decide",
                 path |-> path, capability |-> c, want |-> want, expected |-> g,
                 previously |-> path = "request" /\ c \in state.requested,
                 verified |-> FALSE, todo |-> {}]
<1>1. (path = "request" /\ c \in state.requested) \in BOOLEAN /\ g \in Nat
  BY DEF TypeOK, States
<1>2. f \in Calls
  BY <1>1 DEF Calls
<1>3. call' = [call EXCEPT ![s] = f]
  BY DEF Receive
<1> HIDE DEF f
<1>4. call' \in [Servers -> Calls \cup {NoCall}]
  BY <1>2, <1>3, CallTyped
<1>5. QED
  BY <1>4 DEF Receive, Unwritten, history, TypeOK

LEMMA VerifyTyped ==
    ASSUME TypeOK, NEW s \in Servers, VerifyApproval(s)
    PROVE  /\ TypeOK'
           /\ call'[s] = [call[s] EXCEPT !.step = "decide",
                                         !.verified = ExactApproval(s, call[s].capability)]
           /\ \A t \in Servers \ {s} : call'[t] = call[t]
<1> DEFINE exact == ExactApproval(s, call[s].capability)
           f == [call[s] EXCEPT !.step = "decide", !.verified = exact]
<1>1. call[s] \in Calls
  BY AtTyped DEF VerifyApproval, At
<1>2. exact \in BOOLEAN
  BY DEF ExactApproval
<1>3. call' = [call EXCEPT ![s] = f]
  BY DEF VerifyApproval
<1> HIDE DEF exact
<1>4. f \in Calls
  BY <1>1, <1>2 DEF Calls
<1>5. /\ call' \in [Servers -> Calls \cup {NoCall}]
      /\ call'[s] = f
      /\ \A t \in Servers \ {s} : call'[t] = call[t]
  BY <1>3, <1>4, CallTyped
<1>6. TypeOK'
  BY <1>5 DEF VerifyApproval, Unwritten, history, TypeOK
<1>7. QED
  BY <1>5, <1>6 DEF exact

LEMMA DecideTyped == ASSUME TypeOK, NEW s \in Servers, Decide(s) PROVE TypeOK'
<1>1. call[s] # NoCall /\ call[s] \in Calls /\ [call[s] EXCEPT !.step = "write"] \in Calls
  BY AtTyped DEF Decide, At
<1>2. /\ call' \in [Servers -> Calls \cup {NoCall}]
      /\ pending' \in [Servers -> Seq(Handled)]
  <2>1. CASE \E outcome \in Outcomes : Ends(s, outcome)
    BY <1>1, <2>1, EndsTyped
  <2>2. CASE call' = [call EXCEPT ![s].step = "write"] /\ pending' = pending
    BY <1>1, <2>2 DEF TypeOK
  <2>3. QED
    BY <2>1, <2>2 DEF Decide, Outcomes, Conflict
<1>3. approvals' \in [Servers -> [Capabilities -> Nat \cup {NoApproval}]]
  <2>1. /\ approvals \in [Servers -> [Capabilities -> Nat \cup {NoApproval}]]
        /\ state.generation \in Nat /\ call[s].capability \in Capabilities
    BY <1>1 DEF TypeOK, States, Calls
  <2>2. \/ approvals' = approvals
        \/ approvals' = [approvals EXCEPT ![s][call[s].capability] = state.generation]
    BY DEF Decide
  <2>3. QED
    BY <2>1, <2>2
<1>4. QED
  BY <1>2, <1>3 DEF Decide, Unwritten, history, TypeOK

LEMMA WritesTyped ==
    ASSUME TypeOK, NEW s \in Servers,
           Applies(s) \/ Refused(s) \/ DiesWriting(s) \/ CompensationThrows(s)
    PROVE  TypeOK'
<1>1. /\ call[s] # NoCall
      /\ Written(RequestedAfter(call[s]), ActiveAfter(call[s])) \in States
  BY AtTyped DEF Applies, Refused, DiesWriting, CompensationThrows, CutShort, At
<1>2. CASE Applies(s)
  <2>1. state' \in States
    BY <1>1, <1>2 DEF Applies
  <2>2. /\ call' \in [Servers -> Calls \cup {NoCall}]
        /\ pending' \in [Servers -> Seq(Handled)]
    BY <1>1, <1>2, EndsTyped DEF Applies, Outcomes
  <2>3. QED
    BY <1>2, <2>1, <2>2, NotesTyped, {} \in SUBSET Events DEF Applies, TypeOK
<1>3. CASE Refused(s)
  <2>1. /\ call' \in [Servers -> Calls \cup {NoCall}]
        /\ pending' \in [Servers -> Seq(Handled)]
    BY <1>1, <1>3, EndsTyped DEF Refused, Outcomes, Conflict
  <2>2. QED
    BY <1>3, <2>1 DEF Refused, Unwritten, history, TypeOK
<1>4. ASSUME CutShort(s) PROVE state' \in States /\ lockOrphaned' \in BOOLEAN
  BY <1>1, <1>4 DEF CutShort, TypeOK
<1>5. CASE DiesWriting(s)
  BY <1>4, <1>5, DiesTyped DEF DiesWriting
<1>6. CASE CompensationThrows(s)
  <2>1. call' \in [Servers -> Calls \cup {NoCall}]
    BY <1>6 DEF CompensationThrows, TypeOK
  <2>2. QED
    BY <1>4, <1>6, <2>1, NotesTyped, {} \in SUBSET Events DEF CompensationThrows, TypeOK
<1>7. QED
  BY <1>2, <1>3, <1>5, <1>6

LEMMA CompensationTyped ==
    ASSUME TypeOK, NEW h \in Handled PROVE Compensation(h) \in Calls
  BY DEF TypeOK, States, Handled, Compensation, Calls, Paths

LEMMA AuditAnswersTyped == ASSUME TypeOK, NEW s \in Servers, AuditAnswers(s) PROVE TypeOK'
<1>1. Head(pending[s]) \in Handled /\ pending' \in [Servers -> Seq(Handled)]
  <2>1. pending[s] # <<>> /\ pending' = [pending EXCEPT ![s] = Tail(@)]
    BY DEF AuditAnswers, AuditSucceeds, AuditFails
  <2>2. pending \in [Servers -> Seq(Handled)]
    BY DEF TypeOK
  <2>3. QED
    BY <2>1, <2>2
<1>2. /\ state' \in States
      /\ UNCHANGED <<up, lockOrphaned>>
  BY DEF AuditAnswers, AuditSucceeds, AuditFails, TypeOK
<1>3. /\ activatedFrom' \in [Capabilities -> Nat \cup {NoApproval}]
      /\ older' \in [Servers -> SUBSET Capabilities]
      /\ audit' \subseteq Events
  BY <1>2, NotesTyped, AppendingTyped, {} \in SUBSET Events
  DEF AuditAnswers, AuditSucceeds, AuditFails
<1>4. /\ approvals' \in [Servers -> [Capabilities -> Nat \cup {NoApproval}]]
      /\ call' \in [Servers -> Calls \cup {NoCall}]
  <2>1. CASE AuditSucceeds(s)
    BY <2>1 DEF AuditSucceeds, TypeOK
  <2>2. CASE AuditFails(s)
    <3>1. Compensation(Head(pending[s])) \in Calls
      BY <1>1, CompensationTyped
    <3>2. call' \in [Servers -> Calls \cup {NoCall}]
      BY <2>2, <3>1 DEF AuditFails, TypeOK
    <3>3. Head(pending[s]).capability \in Capabilities
      BY <1>1 DEF Handled
    <3>4. \/ approvals' = approvals
          \/ approvals' = [approvals EXCEPT ![s][Head(pending[s]).capability] = NoApproval]
      BY <2>2 DEF AuditFails
    <3>5. approvals' \in [Servers -> [Capabilities -> Nat \cup {NoApproval}]]
      <4>1. approvals \in [Servers -> [Capabilities -> Nat \cup {NoApproval}]]
        BY DEF TypeOK
      <4>2. QED
        BY <3>3, <3>4, <4>1
    <3>6. QED
      BY <3>2, <3>5
  <2>3. QED
    BY <2>1, <2>2 DEF AuditAnswers
<1>5. QED
  BY <1>1, <1>2, <1>3, <1>4 DEF TypeOK

(* What a start does next is a call for one of the capabilities left, or   *)
(* nothing any more.                                                       *)
LEMMA NextToDeactivateTyped ==
    ASSUME TypeOK, NEW s \in Servers, NEW todo \in SUBSET Capabilities,
           NextToDeactivate(s, todo)
    PROVE  /\ call' \in [Servers -> Calls \cup {NoCall}]
           /\ up' \subseteq Servers
           /\ \A t \in Servers \ {s} : call'[t] = call[t] /\ (t \in up' <=> t \in up)
           /\ \/ todo = {} /\ s \in up' /\ call'[s] = NoCall
              \/ \E c \in todo :
                    /\ call'[s] = [purpose |-> "start", step |-> "decide",
                                   path |-> "deactivate", capability |-> c, want |-> TRUE,
                                   expected |-> state.generation, previously |-> FALSE,
                                   verified |-> FALSE, todo |-> todo \ {c}]
                    /\ up' = up
<1>1. CASE todo = {} /\ up' = up \cup {s} /\ call' = [call EXCEPT ![s] = NoCall]
  BY <1>1 DEF TypeOK
<1>2. ASSUME NEW c \in todo, up' = up,
             call' = [call EXCEPT ![s] =
                [purpose |-> "start", step |-> "decide", path |-> "deactivate",
                 capability |-> c, want |-> TRUE, expected |-> state.generation,
                 previously |-> FALSE, verified |-> FALSE, todo |-> todo \ {c}]]
      PROVE  /\ call' \in [Servers -> Calls \cup {NoCall}]
             /\ call'[s] = [purpose |-> "start", step |-> "decide",
                            path |-> "deactivate", capability |-> c, want |-> TRUE,
                            expected |-> state.generation, previously |-> FALSE,
                            verified |-> FALSE, todo |-> todo \ {c}]
             /\ \A t \in Servers \ {s} : call'[t] = call[t]
  <2> DEFINE f == [purpose |-> "start", step |-> "decide", path |-> "deactivate",
                   capability |-> c, want |-> TRUE, expected |-> state.generation,
                   previously |-> FALSE, verified |-> FALSE, todo |-> todo \ {c}]
  <2>1. f \in Calls
    BY DEF Calls, Paths, TypeOK, States
  <2>2. call' = [call EXCEPT ![s] = f]
    BY <1>2
  <2> HIDE DEF f
  <2>3. call' \in [Servers -> Calls \cup {NoCall}] /\ call'[s] = f
        /\ \A t \in Servers \ {s} : call'[t] = call[t]
    BY <2>1, <2>2, CallTyped
  <2>4. QED
    BY <2>3 DEF f
<1>3. QED
  BY <1>1, <1>2 DEF NextToDeactivate, TypeOK

LEMMA StartTyped == ASSUME TypeOK, NEW s \in Servers, Start(s) \/ Reread(s) PROVE TypeOK'
<1>1. CASE Start(s)
  <2>1. call' \in [Servers -> Calls \cup {NoCall}] /\ up' \subseteq Servers
    BY <1>1, NextToDeactivateTyped DEF Start, TypeOK, States
  <2>2. QED
    BY <1>1, <2>1 DEF Start, TypeOK, States
<1>2. CASE Reread(s)
  <2>1. call[s].todo \in SUBSET Capabilities
    BY <1>2, AtTyped DEF Reread, At, Calls
  <2>2. call' \in [Servers -> Calls \cup {NoCall}] /\ up' \subseteq Servers
    BY <1>2, <2>1, NextToDeactivateTyped DEF Reread
  <2>3. QED
    BY <1>2, <2>2 DEF Reread, Unwritten, history, TypeOK
<1>3. QED
  BY <1>1, <1>2

LEMMA TypeStep == ASSUME TypeOK, [Next]_vars PROVE TypeOK'
<1>1. ASSUME NEW s \in Servers, Crash(s) PROVE TypeOK'
  <2>1. state' \in States /\ lockOrphaned' \in BOOLEAN
    BY <1>1 DEF Crash, TypeOK
  <2>2. QED
    BY <1>1, <2>1, DiesTyped DEF Crash
<1>2. CASE UNCHANGED vars
  BY <1>2 DEF vars, TypeOK
<1>3. QED
  BY <1>1, <1>2, StartTyped, ReceiveTyped, VerifyTyped, DecideTyped, WritesTyped,
     AuditAnswersTyped
  DEF Next, WriteState

(* Every value the variables take has its type; in particular what is in   *)
(* the log and in the queue are events and requests of the right shape.    *)
THEOREM TypeCorrect == Spec => []TypeOK
<1>1. Init => TypeOK
  <2> SUFFICES ASSUME Init PROVE TypeOK
    OBVIOUS
  <2>1. state \in States
    BY DEF Init, States
  <2>2. NoApprovals \in [Capabilities -> Nat \cup {NoApproval}]
    BY DEF NoApprovals
  <2>3. <<>> \in Seq(Handled)
    OBVIOUS
  <2>4. QED
    BY <2>1, <2>2, <2>3 DEF Init, TypeOK
<1>2. QED
  BY <1>1, TypeStep, PTL DEF Spec

---------------------------------------------------------------------------------
(* What the calls in progress have seen                                    *)

(* A call names no later generation than the current one.  What is written *)
(* on behalf of a capability was computed from the state it was read in.   *)
(* An activation that was verified has an approval of a state at least as  *)
(* late as the generation it names; only requests of clients activate.     *)
CallOK(s) ==
    call[s] # NoCall =>
        /\ call[s].expected <= state.generation
        /\ call[s].purpose = "handle" => s \in up
        /\ call[s].purpose # "handle" => call[s].path \in {"request", "deactivate"}
        /\ call[s].purpose = "start" => call[s].path = "deactivate"
        /\ call[s].step = "reread" => call[s].purpose = "start"
        /\ call[s].path = "activate" /\ call[s].verified /\ call[s].step # "verify" =>
              /\ approvals[s][call[s].capability] \in Nat
              /\ call[s].expected <= approvals[s][call[s].capability]
        /\ call[s].step = "write" =>
              /\ call[s].path # "approve"
              /\ call[s].path = "activate" => call[s].verified
              /\ call[s].path = "activate" /\ call[s].expected = state.generation =>
                    call[s].capability \in state.requested

CallsOK == \A s \in Servers : CallOK(s)

AuthorityInv == CallsOK /\ ValidatorNeverRefuses /\ ApprovalMatchesItsState

(* The state file only moves in the write of a call that names its         *)
(* generation.                                                             *)
ByWrite(s) ==
    /\ At(s, "write")
    /\ call[s].expected = state.generation
    /\ state' = Written(RequestedAfter(call[s]), ActiveAfter(call[s]))

LEMMA StateMoves ==
    ASSUME TypeOK, [Next]_vars
    PROVE  state' = state \/ \E s \in Servers : ByWrite(s)
  BY DEF Next, vars, Start, Reread, Receive, VerifyApproval, Decide, WriteState, Applies,
     Refused, AuditAnswers, AuditSucceeds, AuditFails, DiesWriting, CompensationThrows,
     CutShort, Crash, Unwritten, ByWrite

(* A write makes the next generation; it keeps what is active requested    *)
(* and activates only what an approval of the current state is held for.   *)
LEMMA WriteMoves ==
    ASSUME TypeOK, AuthorityInv, NEW s \in Servers, ByWrite(s)
    PROVE  /\ state'.generation = state.generation + 1
           /\ ValidatorNeverRefuses'
           /\ \A c \in state'.active \ state.active : s \in up /\ ExactApproval(s, c)
<1> DEFINE f == call[s]
<1>1. f \in Calls /\ CallOK(s) /\ f # NoCall /\ f.step = "write"
  BY AtTyped DEF ByWrite, At, AuthorityInv, CallsOK
<1>2. /\ state'.generation = state.generation + 1
      /\ state'.requested = RequestedAfter(f) /\ state'.active = ActiveAfter(f)
  BY DEF ByWrite, Written
<1>3. /\ state.generation \in Nat
      /\ approvals \in [Servers -> [Capabilities -> Nat \cup {NoApproval}]]
      /\ f.capability \in Capabilities /\ f.expected \in Nat /\ f.path \in Paths
  BY <1>1 DEF TypeOK, States, Calls
<1>4. CASE f.path = "activate"
  <2>1. /\ f.verified /\ f.expected = state.generation /\ f.capability \in state.requested
        /\ approvals[s][f.capability] \in Nat
        /\ f.expected <= approvals[s][f.capability]
    BY <1>1, <1>4 DEF CallOK, ByWrite
  <2>2. approvals[s][f.capability] <= state.generation
    BY <1>3, <2>1, AuthorityAssumption DEF AuthorityInv, ApprovalMatchesItsState
  <2>3. ExactApproval(s, f.capability)
    BY <1>3, <2>1, <2>2 DEF ExactApproval
  <2>4. s \in up
    BY <1>1, <1>4 DEF CallOK
  <2>5. /\ state'.active = state.active \cup {f.capability}
        /\ state'.requested = state.requested
    BY <1>2, <1>4 DEF RequestedAfter, ActiveAfter, Updated
  <2>6. QED
    BY <1>2, <2>1, <2>3, <2>4, <2>5 DEF AuthorityInv, ValidatorNeverRefuses
<1>5. CASE f.path # "activate"
  <2>1. state'.active \subseteq state.active
    BY <1>2, <1>5 DEF ActiveAfter, Updated
  <2>2. ActiveAfter(f) \subseteq RequestedAfter(f)
    BY <1>5 DEF AuthorityInv, ValidatorNeverRefuses, RequestedAfter, ActiveAfter, Updated
  <2>3. QED
    BY <1>2, <2>1, <2>2 DEF ValidatorNeverRefuses
<1>6. QED
  BY <1>4, <1>5

(* In every step the state stays, or a later generation of it is written.  *)
LEMMA Generations ==
    ASSUME TypeOK, AuthorityInv, [Next]_vars
    PROVE  /\ state.generation \in Nat /\ state'.generation \in Nat
           /\ state' = state \/ state'.generation > state.generation
  BY TypeStep, StateMoves, WriteMoves DEF TypeOK, States

---------------------------------------------------------------------------------
(* Approvals                                                               *)

(* An approval is kept, forgotten, or given in the current state for a     *)
(* capability that is requested in it.                                     *)
ApprovalsMove ==
    \A s \in Servers, c \in Capabilities :
        \/ approvals'[s][c] \in {approvals[s][c], NoApproval}
        \/ /\ approvals'[s][c] = state.generation
           /\ c \in state.requested
           /\ state' = state

LEMMA StepApprovals == ASSUME TypeOK, [Next]_vars PROVE ApprovalsMove
<1>0. approvals \in [Servers -> [Capabilities -> Nat \cup {NoApproval}]]
  BY DEF TypeOK
<1>1. ASSUME approvals' = approvals PROVE ApprovalsMove
  BY <1>1 DEF ApprovalsMove
<1>2. ASSUME NEW s \in Servers, Dies(s) PROVE ApprovalsMove
  BY <1>0, <1>2 DEF Dies, ApprovalsMove, NoApprovals
<1>3. ASSUME NEW s \in Servers, Decide(s) PROVE ApprovalsMove
  <2> DEFINE f == call[s]
  <2>1. f \in Calls /\ f.capability \in Capabilities
    BY <1>3, AtTyped DEF Decide, At, Calls
  <2>2. CASE /\ f.path = "approve" /\ ~Blocked(f)
             /\ approvals' = [approvals EXCEPT ![s][f.capability] = state.generation]
    <3>1. f.capability \in state.requested /\ state' = state
      BY <1>3, <2>2 DEF Blocked, Decide, Unwritten
    <3>2. QED
      BY <1>0, <2>1, <2>2, <3>1 DEF ApprovalsMove
  <2>3. QED
    BY <1>1, <1>3, <2>2 DEF Decide
<1>4. ASSUME NEW s \in Servers, AuditFails(s) PROVE ApprovalsMove
  <2>1. \/ approvals' = approvals
        \/ approvals' = [approvals EXCEPT ![s][Head(pending[s]).capability] = NoApproval]
    BY <1>4 DEF AuditFails
  <2>2. QED
    BY <1>0, <2>1 DEF ApprovalsMove
<1>5. QED
  BY <1>1, <1>2, <1>3, <1>4
  DEF Next, vars, Start, Reread, Receive, VerifyApproval, WriteState, Applies, Refused,
      AuditAnswers, AuditSucceeds, DiesWriting, CompensationThrows, Crash

---------------------------------------------------------------------------------
(* The invariant                                                           *)

(* A call that the step is not about sees a later generation at most.      *)
LEMMA OtherCalls ==
    ASSUME TypeOK, AuthorityInv, [Next]_vars, NEW s \in Servers,
           call'[s] = call[s], approvals'[s] = approvals[s], s \in up => s \in up'
    PROVE  CallOK(s)'
<1>1. CASE call[s] = NoCall
  BY <1>1 DEF CallOK
<1>2. CASE call[s] # NoCall
  <2>1. CallOK(s) /\ call[s].expected \in Nat
    BY <1>2, AtTyped DEF AuthorityInv, CallsOK, Calls
  <2>2. QED
    BY <1>2, <2>1, Generations DEF CallOK
<1>3. QED
  BY <1>1, <1>2

(* A call that ends leaves nothing, or a start that reads again.           *)
LEMMA EndedCalls ==
    ASSUME TypeOK, AuthorityInv, [Next]_vars, NEW s \in Servers, call[s] # NoCall,
           NEW outcome, Ends(s, outcome), s \in up => s \in up'
    PROVE  CallOK(s)' /\ \A t \in Servers \ {s} : call'[t] = call[t]
<1>1. call[s] \in Calls /\ CallOK(s) /\ [call[s] EXCEPT !.step = "reread"] \in Calls
  BY AtTyped DEF AuthorityInv, CallsOK
<1>2. \A t \in Servers \ {s} : call'[t] = call[t]
  BY DEF Ends, TypeOK
<1>3. call'[s] = NoCall \/ (call[s].purpose = "start" /\ call'[s] = [call[s] EXCEPT !.step = "reread"])
  BY DEF Ends, TypeOK
<1>4. CASE call[s].purpose = "start" /\ call'[s] = [call[s] EXCEPT !.step = "reread"]
  <2>1. /\ call'[s].expected = call[s].expected /\ call'[s].purpose = "start"
        /\ call'[s].path = call[s].path /\ call'[s].step = "reread"
        /\ call[s].expected \in Nat
    BY <1>1, <1>4 DEF Calls
  <2>2. call[s].expected <= state.generation /\ call[s].path = "deactivate"
    BY <1>1, <1>4 DEF CallOK
  <2>3. call[s].expected <= state'.generation
    BY <2>1, <2>2, Generations
  <2>4. CallOK(s)'
    BY <2>1, <2>2, <2>3 DEF CallOK
  <2>5. QED
    BY <1>2, <2>4
<1>5. CASE call'[s] = NoCall
  BY <1>2, <1>5 DEF CallOK
<1>6. QED
  BY <1>3, <1>4, <1>5

LEMMA BegunCall ==
    ASSUME TypeOK, AuthorityInv, [Next]_vars, NEW s \in Servers, NEW f,
           call'[s] = f, f.expected \in 0 .. state.generation, f.step \in {"verify", "decide"},
           f.step = "decide" => f.path # "activate",
           \/ f.purpose = "handle" /\ s \in up'
           \/ f.purpose = "compensate" /\ f.path \in {"request", "deactivate"}
           \/ f.purpose = "start" /\ f.path = "deactivate"
    PROVE  CallOK(s)'
<1>1. f.expected <= state'.generation
  BY Generations
<1>2. QED
  BY <1>1 DEF CallOK

(* An activation that is decided upon was verified against a state no      *)
(* earlier than the one it names, since a client names one it was shown.   *)
LEMMA VerifiedCall ==
    ASSUME TypeOK, AuthorityInv, [Next]_vars, NEW s \in Servers, VerifyApproval(s)
    PROVE  CallOK(s)'
<1> DEFINE f == call[s]
<1>1. f \in Calls /\ CallOK(s) /\ f # NoCall /\ f.step = "verify"
  BY AtTyped DEF VerifyApproval, At, AuthorityInv, CallsOK
<1>2. call'[s] = [f EXCEPT !.step = "decide", !.verified = ExactApproval(s, f.capability)]
  BY VerifyTyped
<1>3. /\ call'[s].expected = f.expected /\ call'[s].purpose = f.purpose
      /\ call'[s].path = f.path /\ call'[s].step = "decide"
      /\ call'[s].capability = f.capability
      /\ call'[s].verified = ExactApproval(s, f.capability)
      /\ f.expected \in Nat /\ f.expected <= state.generation
  BY <1>1, <1>2 DEF Calls, CallOK
<1>4. UNCHANGED <<up, approvals, state>>
  BY DEF VerifyApproval, Unwritten
<1>5. state.generation \in Nat
  BY DEF TypeOK, States
<1>6. QED
  BY <1>1, <1>3, <1>4, <1>5 DEF CallOK, ExactApproval

LEMMA DecidedCall ==
    ASSUME TypeOK, AuthorityInv, [Next]_vars, NEW s \in Servers, Decide(s)
    PROVE  CallOK(s)' /\ \A t \in Servers \ {s} : call'[t] = call[t]
<1> DEFINE f == call[s]
<1>1. f \in Calls /\ CallOK(s) /\ f # NoCall /\ f.step = "decide"
  BY AtTyped DEF Decide, At, AuthorityInv, CallsOK
<1>2. UNCHANGED <<up, state>>
  BY DEF Decide, Unwritten
<1>3. CASE \E outcome : Ends(s, outcome)
  BY <1>1, <1>2, <1>3, EndedCalls
<1>4. CASE /\ ~Blocked(f) /\ f.path # "approve"
           /\ call' = [call EXCEPT ![s].step = "write"] /\ approvals' = approvals
  <2>1. /\ call'[s] = [f EXCEPT !.step = "write"]
        /\ \A t \in Servers \ {s} : call'[t] = call[t]
    BY <1>4 DEF TypeOK
  <2>2. /\ call'[s].expected = f.expected /\ call'[s].purpose = f.purpose
        /\ call'[s].path = f.path /\ call'[s].step = "write"
        /\ call'[s].capability = f.capability /\ call'[s].verified = f.verified
    BY <1>1, <2>1 DEF Calls
  <2>3. f.path = "activate" => f.verified /\ f.capability \in state.requested
    BY <1>4 DEF Blocked
  <2>4. CallOK(s)'
    BY <1>1, <1>2, <1>4, <2>2, <2>3 DEF CallOK
  <2>5. QED
    BY <2>1, <2>4
<1>5. QED
  BY <1>3, <1>4 DEF Decide

LEMMA CallsStep == ASSUME TypeOK, AuthorityInv, [Next]_vars PROVE CallsOK'
<1>0. state.generation \in Nat
  BY DEF TypeOK, States
<1>1. ASSUME NEW s \in Servers, CallOK(s)',
             \A t \in Servers \ {s} : /\ call'[t] = call[t] /\ approvals'[t] = approvals[t]
                                      /\ t \in up => t \in up'
      PROVE  CallsOK'
  BY <1>1, OtherCalls DEF CallsOK
<1>2. ASSUME NEW s \in Servers, Dies(s) PROVE CallsOK'
  <2>1. call'[s] = NoCall
    BY <1>2 DEF Dies, TypeOK
  <2>2. \A t \in Servers \ {s} : /\ call'[t] = call[t] /\ approvals'[t] = approvals[t]
                                 /\ t \in up => t \in up'
    BY <1>2 DEF Dies, TypeOK
  <2>3. QED
    BY <1>1, <2>1, <2>2 DEF CallOK
<1>3. ASSUME NEW s \in Servers, NEW todo \in SUBSET Capabilities, NextToDeactivate(s, todo),
             UNCHANGED <<approvals, state>>
      PROVE  CallsOK'
  <2>1. \A t \in Servers \ {s} : call'[t] = call[t] /\ (t \in up' <=> t \in up)
    BY <1>3, NextToDeactivateTyped
  <2>2. CallOK(s)'
    <3>1. CASE call'[s] = NoCall
      BY <3>1 DEF CallOK
    <3>2. CASE \E c \in todo :
                  call'[s] = [purpose |-> "start", step |-> "decide",
                              path |-> "deactivate", capability |-> c, want |-> TRUE,
                              expected |-> state.generation, previously |-> FALSE,
                              verified |-> FALSE, todo |-> todo \ {c}]
      BY <1>0, <3>2, BegunCall
    <3>3. QED
      BY <1>3, <3>1, <3>2, NextToDeactivateTyped
  <2>3. QED
    BY <1>1, <1>3, <2>1, <2>2
<1>4. ASSUME NEW s \in Servers, Start(s) \/ Reread(s) PROVE CallsOK'
  <2>1. Reread(s) => call[s].todo \in SUBSET Capabilities
    BY AtTyped DEF Reread, At, Calls
  <2>2. state.active \in SUBSET Capabilities
    BY DEF TypeOK, States
  <2>3. QED
    BY <1>3, <1>4, <2>1, <2>2 DEF Start, Reread, Unwritten
<1>5. ASSUME NEW s \in Servers, NEW path \in Paths, NEW c \in Capabilities,
             NEW want \in BOOLEAN, NEW g \in 0 .. state.generation, Receive(s, path, c, want, g)
      PROVE  CallsOK'
  <2> DEFINE f == [purpose |-> "handle",
                   step |-> IF path = "activate" THEN "verify" ELSE "decide",
                   path |-> path, capability |-> c, want |-> want, expected |-> g,
                   previously |-> path = "request" /\ c \in state.requested,
                   verified |-> FALSE, todo |-> {}]
  <2>1. call'[s] = f /\ \A t \in Servers \ {s} : call'[t] = call[t]
    BY <1>5 DEF Receive, TypeOK
  <2>2. s \in up' /\ UNCHANGED <<up, approvals>>
    BY <1>5 DEF Receive
  <2>3. CallOK(s)'
    BY <2>1, <2>2, BegunCall
  <2>4. QED
    BY <1>1, <2>1, <2>2, <2>3
<1>6. ASSUME NEW s \in Servers, VerifyApproval(s) PROVE CallsOK'
  BY <1>1, <1>6, VerifyTyped, VerifiedCall DEF VerifyApproval
<1>7. ASSUME NEW s \in Servers, Decide(s) PROVE CallsOK'
  <2>1. \A t \in Servers \ {s} : approvals'[t] = approvals[t]
    BY <1>7 DEF Decide, TypeOK
  <2>2. UNCHANGED up
    BY <1>7 DEF Decide
  <2>3. QED
    BY <1>1, <1>7, <2>1, <2>2, DecidedCall
<1>8. ASSUME NEW s \in Servers, WriteState(s) PROVE CallsOK'
  <2>1. /\ call[s] # NoCall /\ \E outcome : Ends(s, outcome)
        /\ UNCHANGED <<up, approvals>>
    BY <1>8 DEF WriteState, Applies, Refused, At
  <2>2. CallOK(s)' /\ \A t \in Servers \ {s} : call'[t] = call[t]
    BY <2>1, EndedCalls
  <2>3. QED
    BY <1>1, <2>1, <2>2
<1>9. ASSUME NEW s \in Servers, AuditAnswers(s) PROVE CallsOK'
  <2>1. /\ UNCHANGED up
        /\ \A t \in Servers \ {s} : approvals'[t] = approvals[t] /\ call'[t] = call[t]
    BY <1>9 DEF AuditAnswers, AuditSucceeds, AuditFails, TypeOK
  <2>2. call[s] = NoCall
    BY <1>9 DEF AuditAnswers, AuditSucceeds, AuditFails
  <2>3. CallOK(s)'
    <3>1. CASE call' = call
      BY <2>2, <3>1 DEF CallOK
    <3>2. CASE call' = [call EXCEPT ![s] = Compensation(Head(pending[s]))]
      <4>1. call'[s] = Compensation(Head(pending[s]))
        BY <3>2 DEF TypeOK
      <4>2. QED
        BY <1>0, <4>1, BegunCall DEF Compensation
    <3>3. QED
      BY <1>9, <3>1, <3>2 DEF AuditAnswers, AuditSucceeds, AuditFails
  <2>4. QED
    BY <1>1, <2>1, <2>3
<1>10. ASSUME NEW s \in Servers, CompensationThrows(s) PROVE CallsOK'
  <2>1. /\ call'[s] = NoCall /\ UNCHANGED <<up, approvals>>
        /\ \A t \in Servers \ {s} : call'[t] = call[t]
    BY <1>10 DEF CompensationThrows, TypeOK
  <2>2. QED
    BY <1>1, <2>1 DEF CallOK
<1>11. CASE UNCHANGED vars
  BY <1>11 DEF vars, AuthorityInv, CallsOK, CallOK
<1>12. QED
  BY <1>2, <1>4, <1>5, <1>6, <1>7, <1>8, <1>9, <1>10, <1>11
  DEF Next, DiesWriting, Crash

LEMMA InvStep == ASSUME TypeOK, AuthorityInv, [Next]_vars PROVE AuthorityInv'
<1>1. ValidatorNeverRefuses'
  <2>1. CASE state' = state
    BY <2>1 DEF AuthorityInv, ValidatorNeverRefuses
  <2>2. QED
    BY <2>1, StateMoves, WriteMoves
<1>2. ApprovalMatchesItsState'
  <2> SUFFICES ASSUME NEW s \in Servers, NEW c \in Capabilities,
                      approvals'[s][c] # NoApproval
               PROVE  /\ approvals'[s][c] <= state'.generation
                      /\ approvals'[s][c] = state'.generation => c \in state'.requested
    BY DEF ApprovalMatchesItsState
  <2>1. /\ state.generation \in Nat /\ state'.generation \in Nat
        /\ state' = state \/ state'.generation > state.generation
    BY Generations
  <2>3. approvals[s][c] \in Nat \cup {NoApproval}
    BY DEF TypeOK
  <2>4. CASE approvals'[s][c] = approvals[s][c]
    BY <2>1, <2>3, <2>4 DEF AuthorityInv, ApprovalMatchesItsState
  <2>5. CASE /\ approvals'[s][c] = state.generation
             /\ c \in state.requested
             /\ state' = state
    BY <2>1, <2>5
  <2>6. QED
    BY <2>4, <2>5, StepApprovals DEF ApprovalsMove
<1>3. QED
  BY <1>1, <1>2, CallsStep DEF AuthorityInv

LEMMA InvInit == Init => AuthorityInv
  BY DEF Init, AuthorityInv, CallsOK, CallOK, ValidatorNeverRefuses,
     ApprovalMatchesItsState, NoApprovals

LEMMA InvHolds == Spec => [](TypeOK /\ AuthorityInv)
<1>1. Init => AuthorityInv
  BY InvInit
<1>2. TypeOK /\ AuthorityInv /\ [Next]_vars => AuthorityInv'
  BY InvStep
<1>3. QED
  BY <1>1, <1>2, TypeCorrect, PTL DEF Spec

(* The store's validator (authority-capability-state-store.ts) never meets *)
(* an active capability that is not requested.                             *)
THEOREM ValidStates == Spec => []ValidatorNeverRefuses
<1>1. AuthorityInv => ValidatorNeverRefuses
  BY DEF AuthorityInv
<1>2. QED
  BY <1>1, InvHolds, PTL

(* No approval outlives the state the human saw (approval.ts, lines 76-147):*)
(* every write, compensation and restart makes a generation it is not for. *)
THEOREM ApprovalsAreExact == Spec => []ApprovalMatchesItsState
<1>1. AuthorityInv => ApprovalMatchesItsState
  BY DEF AuthorityInv
<1>2. QED
  BY <1>1, InvHolds, PTL

(* Only a human approval of exactly the current state, held by a running   *)
(* server, makes a capability active, though the approval is looked up at  *)
(* one read (approval.ts, line 153), the state checked at another          *)
(* (activation.ts, line 84) and written later still, with writes of any    *)
(* number of other servers in between.                                     *)
THEOREM ApprovedActivation == Spec => ActivatesOnlyWhatWasApproved
<1>1. TypeOK /\ AuthorityInv /\ [Next]_vars =>
        [\A c \in state'.active \ state.active :
            \E s \in up : approvals[s][c] = state.generation]_vars
  BY StateMoves, WriteMoves DEF ExactApproval
<1>2. QED
  BY <1>1, InvHolds, PTL DEF Spec, ActivatesOnlyWhatWasApproved

---------------------------------------------------------------------------------
(* Restarts                                                                *)

(* What a starting server has not dealt with yet.                          *)
Left(s) == IF call[s].step = "reread" THEN call[s].todo
           ELSE call[s].todo \cup {call[s].capability}

OlderOK(s) ==
    /\ older[s] \subseteq state.active
    /\ s \in up => older[s] = {}
    /\ call[s] # NoCall /\ call[s].purpose = "start" => older[s] \subseteq Left(s)

OlderInv == \A s \in Servers : OlderOK(s)

BooksKept == \/ state' = state /\ older' = older
             \/ \E events : Notes(events)

(* A step whose books are kept loses what it deactivates.                  *)
LEMMA OlderKept ==
    ASSUME TypeOK, OlderInv, NEW s \in Servers, BooksKept
    PROVE  /\ older'[s] \subseteq state'.active
           /\ older'[s] \subseteq older[s]
           /\ call'[s] = call[s] /\ (s \in up' => s \in up) => OlderOK(s)'
<1>1. /\ older'[s] \subseteq state'.active
      /\ older'[s] \subseteq older[s]
  <2>1. CASE state' = state /\ older' = older
    BY <2>1 DEF OlderInv, OlderOK
  <2>2. CASE \E events : Notes(events)
    BY <2>2 DEF Notes
  <2>3. QED
    BY <2>1, <2>2 DEF BooksKept
<1>2. OlderOK(s)
  BY DEF OlderInv
<1>3. QED
  BY <1>1, <1>2 DEF OlderOK, Left

(* The step of one server that begins, ends or goes on with no start.      *)
LEMMA OlderOther ==
    ASSUME TypeOK, OlderInv, BooksKept, NEW s \in Servers, up' \subseteq up,
           \A t \in Servers \ {s} : call'[t] = call[t],
           \/ call'[s] = NoCall \/ call'[s].purpose # "start"
           \/ call[s] # NoCall /\ call'[s].purpose = call[s].purpose /\ Left(s)' = Left(s)
    PROVE  OlderInv'
<1>1. ASSUME NEW t \in Servers, t # s PROVE OlderOK(t)'
  <2>1. call'[t] = call[t] /\ (t \in up' => t \in up)
    BY <1>1
  <2>2. QED
    BY <2>1, OlderKept
<1>2. OlderOK(s)'
  <2>1. older'[s] \subseteq state'.active /\ older'[s] \subseteq older[s]
    BY OlderKept
  <2>2. OlderOK(s)
    BY DEF OlderInv
  <2>3. s \in up' => older'[s] = {}
    BY <2>1, <2>2 DEF OlderOK
  <2>4. ASSUME call'[s] # NoCall, call'[s].purpose = "start" PROVE older'[s] \subseteq Left(s)'
    <3>1. older[s] \subseteq Left(s) /\ Left(s)' = Left(s)
      BY <2>2, <2>4 DEF OlderOK
    <3>2. QED
      BY <2>1, <3>1
  <2>5. QED
    BY <2>1, <2>3, <2>4 DEF OlderOK
<1>3. QED
  BY <1>1, <1>2 DEF OlderInv

(* A call that ends well in a start has found, or made, its capability     *)
(* inactive.                                                               *)
LEMMA OlderEnds ==
    ASSUME TypeOK, AuthorityInv, OlderInv, NEW s \in Servers, call[s] # NoCall,
           NEW outcome, Ends(s, outcome), UNCHANGED up,
           BooksKept,
           outcome \in {"APPLIED", "UNCHANGED"} /\ call[s].purpose = "start" =>
               call[s].capability \notin state'.active
    PROVE  OlderInv'
<1>1. call[s] \in Calls /\ OlderOK(s)
  BY AtTyped DEF OlderInv
<1>2. \A t \in Servers \ {s} : call'[t] = call[t]
  BY DEF Ends, TypeOK
<1>3. \A t \in Servers \ {s} : OlderOK(t)'
  BY <1>2, OlderKept
<1>4. /\ older'[s] \subseteq state'.active /\ older'[s] \subseteq older[s]
      /\ s \in up' => older'[s] = {}
  BY <1>1, OlderKept DEF OlderOK
<1>5. CASE call'[s] = NoCall
  BY <1>3, <1>4, <1>5 DEF OlderInv, OlderOK
<1>6. CASE /\ call[s].purpose = "start" /\ outcome \in {"APPLIED", "UNCHANGED"}
           /\ call'[s] = [call[s] EXCEPT !.step = "reread"]
  <2>1. call'[s].step = "reread" /\ call'[s].todo = call[s].todo
    BY <1>1, <1>6 DEF Calls
  <2>2. older[s] \subseteq call[s].todo \cup {call[s].capability}
    BY <1>1, <1>6 DEF OlderOK, Left
  <2>3. older'[s] \subseteq Left(s)'
    BY <1>4, <1>6, <2>1, <2>2 DEF Left
  <2>4. OlderOK(s)'
    BY <1>4, <2>3 DEF OlderOK
  <2>5. QED
    BY <1>3, <2>4 DEF OlderInv
<1>7. QED
  BY <1>5, <1>6 DEF Ends, TypeOK

LEMMA OlderStarts ==
    ASSUME TypeOK, AuthorityInv, OlderInv, NEW s \in Servers, Start(s) \/ Reread(s)
    PROVE  OlderInv'
<1> DEFINE todo == IF call[s] = NoCall THEN state.active ELSE call[s].todo
<1>1. /\ todo \in SUBSET Capabilities /\ NextToDeactivate(s, todo) /\ state' = state
      /\ older'[s] \subseteq todo /\ older'[s] \subseteq state.active
      /\ \A t \in Servers \ {s} : older'[t] = older[t]
  <2>1. CASE Start(s)
    BY <2>1 DEF Start, TypeOK, States
  <2>2. CASE Reread(s)
    <3>1. call[s] # NoCall /\ call[s] \in Calls /\ call[s].step = "reread"
      BY <2>2, AtTyped DEF Reread, At
    <3>2. call[s].purpose = "start" /\ OlderOK(s)
      BY <3>1 DEF AuthorityInv, CallsOK, CallOK, OlderInv
    <3>3. older[s] \subseteq call[s].todo /\ older[s] \subseteq state.active
      BY <3>1, <3>2 DEF OlderOK, Left
    <3>4. call[s].todo \in SUBSET Capabilities
      BY <3>1 DEF Calls
    <3>5. QED
      BY <2>2, <3>1, <3>3, <3>4 DEF Reread, Unwritten, history
  <2>3. QED
    BY <2>1, <2>2
<1>2. /\ \A t \in Servers \ {s} : call'[t] = call[t] /\ (t \in up' <=> t \in up)
      /\ \/ todo = {} /\ s \in up' /\ call'[s] = NoCall
         \/ /\ up' = up /\ call'[s].purpose = "start" /\ call'[s].step = "decide"
            /\ todo \subseteq call'[s].todo \cup {call'[s].capability}
  <2> HIDE DEF todo
  <2>1. todo \in SUBSET Capabilities /\ NextToDeactivate(s, todo)
    BY <1>1
  <2>2. /\ \A t \in Servers \ {s} : call'[t] = call[t] /\ (t \in up' <=> t \in up)
        /\ \/ todo = {} /\ s \in up' /\ call'[s] = NoCall
           \/ \E c \in todo :
                 /\ call'[s] = [purpose |-> "start", step |-> "decide",
                                path |-> "deactivate", capability |-> c, want |-> TRUE,
                                expected |-> state.generation, previously |-> FALSE,
                                verified |-> FALSE, todo |-> todo \ {c}]
                 /\ up' = up
    BY <2>1, NextToDeactivateTyped
  <2>3. ASSUME NEW c \in todo,
               call'[s] = [purpose |-> "start", step |-> "decide",
                           path |-> "deactivate", capability |-> c, want |-> TRUE,
                           expected |-> state.generation, previously |-> FALSE,
                           verified |-> FALSE, todo |-> todo \ {c}]
        PROVE  /\ call'[s].purpose = "start" /\ call'[s].step = "decide"
               /\ todo \subseteq call'[s].todo \cup {call'[s].capability}
    BY <2>3
  <2>4. QED
    BY <2>2, <2>3
<1>3. ASSUME NEW t \in Servers \ {s} PROVE OlderOK(t)'
  BY <1>1, <1>2, <1>3 DEF OlderInv, OlderOK, Left
<1>4. s \in up => older'[s] = {}
  <2>1. CASE Start(s)
    BY <2>1 DEF Start
  <2>2. CASE Reread(s)
    BY <2>2 DEF Reread, Unwritten, history, OlderInv, OlderOK
  <2>3. QED
    BY <2>1, <2>2
<1>5. OlderOK(s)'
  BY <1>1, <1>2, <1>4 DEF OlderOK, Left
<1>6. QED
  BY <1>3, <1>5 DEF OlderInv

LEMMA OlderDecides ==
    ASSUME TypeOK, AuthorityInv, OlderInv, NEW s \in Servers, Decide(s)
    PROVE  OlderInv'
<1> DEFINE f == call[s]
<1>1. f # NoCall /\ f \in Calls /\ f.step = "decide" /\ CallOK(s)
  BY AtTyped DEF Decide, At, AuthorityInv, CallsOK
<1>2. state' = state /\ older' = older /\ UNCHANGED up /\ BooksKept
  BY DEF Decide, Unwritten, history, BooksKept
<1>3. ASSUME NEW outcome, Ends(s, outcome), outcome # "APPLIED",
             outcome = "UNCHANGED" => ChangesNothing(f)
      PROVE  OlderInv'
  <2>1. CASE outcome = "UNCHANGED" /\ f.purpose = "start"
    <3>1. f.path = "deactivate"
      BY <1>1, <2>1 DEF CallOK
    <3>2. f.capability \notin state.active
      BY <1>3, <2>1, <3>1 DEF ChangesNothing, ActiveAfter, Updated
    <3>3. QED
      BY <1>1, <1>2, <1>3, <2>1, <3>2, OlderEnds
  <2>2. QED
    BY <1>1, <1>2, <1>3, <2>1, OlderEnds
<1>4. CASE call' = [call EXCEPT ![s].step = "write"]
  <2>1. call'[s] = [f EXCEPT !.step = "write"] /\ \A t \in Servers \ {s} : call'[t] = call[t]
    BY <1>4 DEF TypeOK
  <2>2. /\ call'[s].purpose = f.purpose /\ call'[s].todo = f.todo /\ call'[s].step = "write"
        /\ call'[s].capability = f.capability
    BY <1>1, <2>1 DEF Calls
  <2>3. OlderOK(s)'
    BY <1>1, <1>2, <2>2 DEF OlderInv, OlderOK, Left
  <2>4. \A t \in Servers \ {s} : OlderOK(t)'
    BY <1>2, <2>1, OlderKept
  <2>5. QED
    BY <2>3, <2>4 DEF OlderInv
<1>5. QED
  BY <1>3, <1>4 DEF Decide, Conflict

LEMMA OlderWrites ==
    ASSUME TypeOK, AuthorityInv, OlderInv, NEW s \in Servers, WriteState(s)
    PROVE  OlderInv'
<1>1. call[s] # NoCall /\ call[s] \in Calls /\ CallOK(s)
  BY AtTyped DEF WriteState, Applies, Refused, At, AuthorityInv, CallsOK
<1>2. CASE Applies(s)
  <2>1. call[s].purpose = "start" => call[s].capability \notin state'.active
    BY <1>1, <1>2 DEF Applies, Written, CallOK, ActiveAfter, Updated
  <2>2. Ends(s, "APPLIED") /\ UNCHANGED up /\ BooksKept
    BY <1>2 DEF Applies, BooksKept
  <2>3. QED
    BY <1>1, <2>1, <2>2, OlderEnds
<1>3. CASE Refused(s)
  <2>1. Ends(s, "CONFLICT") /\ UNCHANGED up /\ BooksKept
    BY <1>3 DEF Refused, Conflict, Unwritten, history, BooksKept
  <2>2. QED
    BY <1>1, <2>1, OlderEnds
<1>4. QED
  BY <1>2, <1>3 DEF WriteState

LEMMA OlderStep == ASSUME TypeOK, AuthorityInv, OlderInv, [Next]_vars PROVE OlderInv'
<1>2. ASSUME NEW s \in Servers, Dies(s) PROVE OlderInv'
  <2>1. /\ call'[s] = NoCall /\ \A t \in Servers \ {s} : call'[t] = call[t]
        /\ up' \subseteq up /\ BooksKept
    BY <1>2 DEF Dies, TypeOK, BooksKept
  <2>2. QED
    BY <2>1, OlderOther
<1>3. ASSUME NEW s \in Servers, NEW path, NEW c, NEW want, NEW g, Receive(s, path, c, want, g)
      PROVE  OlderInv'
  <2>1. /\ call'[s].purpose = "handle" /\ \A t \in Servers \ {s} : call'[t] = call[t]
        /\ up' \subseteq up /\ BooksKept
    BY <1>3 DEF BooksKept, Receive, Unwritten, history, TypeOK
  <2>2. QED
    BY <2>1, OlderOther
<1>4. ASSUME NEW s \in Servers, VerifyApproval(s) PROVE OlderInv'
  <2>1. call[s] # NoCall /\ call[s] \in Calls /\ call[s].step = "verify"
    BY <1>4, AtTyped DEF VerifyApproval, At
  <2>2. /\ call'[s].purpose = call[s].purpose /\ call'[s].step = "decide"
        /\ call'[s].todo = call[s].todo /\ call'[s].capability = call[s].capability
        /\ \A t \in Servers \ {s} : call'[t] = call[t]
    BY <1>4, <2>1, VerifyTyped DEF Calls
  <2>3. up' \subseteq up /\ BooksKept
    BY <1>4 DEF BooksKept, VerifyApproval, Unwritten, history
  <2>4. Left(s)' = Left(s)
    BY <2>1, <2>2 DEF Left
  <2>5. QED
    BY <2>1, <2>2, <2>3, <2>4, OlderOther
<1>5. ASSUME NEW s \in Servers, AuditAnswers(s) PROVE OlderInv'
  <2>1. /\ call[s] = NoCall
        /\ \/ call' = call
           \/ call' = [call EXCEPT ![s] = Compensation(Head(pending[s]))]
        /\ up' \subseteq up /\ BooksKept
    BY <1>5 DEF BooksKept, AuditAnswers, AuditSucceeds, AuditFails
  <2>2. /\ call'[s] = NoCall \/ call'[s].purpose = "compensate"
        /\ \A t \in Servers \ {s} : call'[t] = call[t]
    BY <2>1 DEF Compensation, TypeOK
  <2>3. QED
    BY <2>1, <2>2, OlderOther
<1>6. ASSUME NEW s \in Servers, CompensationThrows(s) PROVE OlderInv'
  <2>1. /\ call'[s] = NoCall /\ \A t \in Servers \ {s} : call'[t] = call[t]
        /\ up' \subseteq up /\ BooksKept
    BY <1>6 DEF BooksKept, CompensationThrows, TypeOK
  <2>2. QED
    BY <2>1, OlderOther
<1>7. CASE UNCHANGED vars
  BY <1>7 DEF vars, OlderInv, OlderOK, Left
<1>8. QED
  BY <1>2, <1>3, <1>4, <1>5, <1>6, <1>7, OlderStarts, OlderDecides, OlderWrites
  DEF Next, DiesWriting, Crash

(* When a server listens, nothing has been active without a break since    *)
(* before it started: its startup, one read and one write for each         *)
(* capability (safety.ts, lines 42-61), has deactivated it, for any number *)
(* of servers that write in between.                                       *)
THEOREM RestartDeactivates == Spec => []ActiveSinceLastStart
<1>1. Init => OlderInv
  BY DEF Init, OlderInv, OlderOK
<1>2. TypeOK /\ AuthorityInv /\ OlderInv /\ [Next]_vars => OlderInv'
  BY OlderStep
<1>3. TypeOK /\ OlderInv => ActiveSinceLastStart
  BY DEF TypeOK, OlderInv, OlderOK, ActiveSinceLastStart
<1>4. QED
  BY <1>1, <1>2, <1>3, InvHolds, PTL DEF Spec

---------------------------------------------------------------------------------
(* One server: what is active is audited, or is about to be                *)

(* The event that a handled request appends is about that request.         *)
EventsOfTheirRequest ==
    \A s \in Servers : \A i \in DOMAIN pending[s] : \A e \in pending[s][i].events :
        e.path = pending[s][i].path /\ e.capability = pending[s][i].capability

(* Nobody else writes: a compensation names the current generation, and a  *)
(* starting server still has to deactivate all that is active.             *)
Alone ==
    \A s \in Servers : call[s] # NoCall =>
        /\ call[s].purpose = "compensate" => s \in up /\ call[s].expected = state.generation
        /\ call[s].purpose = "start" => s \notin up /\ state.active \subseteq older[s]

(* A running server behind an orphaned lock file has nothing active: it    *)
(* could not have started otherwise, and cannot activate any more.         *)
OrphanedIsInactive == lockOrphaned /\ up # {} => state.active = {}

AuditInv == EventsOfTheirRequest /\ Alone /\ OrphanedIsInactive /\ ActiveIsAudited

(* A step keeps the record of an activation that it does not end.          *)
LEMMA NotesKeep ==
    ASSUME TypeOK, NEW events, Notes(events), NEW c \in state.active, c \in state'.active
    PROVE  /\ activatedFrom'[c] = activatedFrom[c]
           /\ \A e \in audit \cup events : IsActivation(e, c) => ActivationAudited(c)'
<1>1. c \in Capabilities
  BY DEF TypeOK, States
<1>2. activatedFrom'[c] = activatedFrom[c]
  BY <1>1 DEF Notes
<1>3. ASSUME NEW e \in audit \cup events, IsActivation(e, c) PROVE ActivationAudited(c)'
  <2>1. IsActivation(e, c)' /\ Concerns(e)'
    BY <1>2, <1>3 DEF IsActivation, Concerns
  <2>2. QED
    BY <2>1 DEF Notes, ActivationAudited
<1>4. QED
  BY <1>2, <1>3

(* The first of two awaited requests is the one that is answered; the      *)
(* others stay in their order.                                             *)
LEMMA TailKeeps ==
    ASSUME TypeOK, NEW s \in Servers, pending[s] # <<>>,
           pending' = [pending EXCEPT ![s] = Tail(@)]
    PROVE  /\ \A i \in DOMAIN pending[s] :
                 \/ i = 1 /\ pending[s][i] = Head(pending[s])
                 \/ i - 1 \in DOMAIN pending'[s] /\ pending'[s][i - 1] = pending[s][i]
           /\ \A i \in DOMAIN pending'[s] :
                 i + 1 \in DOMAIN pending[s] /\ pending'[s][i] = pending[s][i + 1]
<1>1. pending[s] \in Seq(Handled) /\ pending'[s] = Tail(pending[s])
  BY DEF TypeOK
<1>2. /\ Len(pending[s]) \in Nat /\ DOMAIN pending[s] = 1 .. Len(pending[s])
      /\ DOMAIN pending'[s] = 1 .. Len(pending'[s])
      /\ Len(pending'[s]) = Len(pending[s]) - 1
      /\ \A i \in 1 .. Len(pending'[s]) : pending'[s][i] = pending[s][i + 1]
  BY <1>1, HeadTailProperties, LenProperties
<1>3. Head(pending[s]) = pending[s][1]
  BY <1>1
<1>4. ASSUME NEW i \in 1 .. Len(pending[s])
      PROVE  i = 1 \/ (i - 1 \in 1 .. Len(pending'[s]) /\ pending'[s][i - 1] = pending[s][i])
  <2>1. i # 1 => i - 1 \in 1 .. Len(pending'[s]) /\ (i - 1) + 1 = i
    BY <1>2, <1>4
  <2>2. QED
    BY <1>2, <2>1
<1>5. \A i \in 1 .. Len(pending'[s]) : i + 1 \in 1 .. Len(pending[s])
  BY <1>2
<1>6. QED
  BY <1>2, <1>3, <1>4, <1>5

LEMMA TailEvents ==
    ASSUME TypeOK, EventsOfTheirRequest, NEW s \in Servers, pending[s] # <<>>,
           pending' = [pending EXCEPT ![s] = Tail(@)]
    PROVE  EventsOfTheirRequest'
<1> SUFFICES ASSUME NEW u \in Servers, NEW i \in DOMAIN pending'[u],
                    NEW e \in pending'[u][i].events
             PROVE  e.path = pending'[u][i].path /\ e.capability = pending'[u][i].capability
  BY DEF EventsOfTheirRequest
<1>1. CASE u = s
  <2>1. i + 1 \in DOMAIN pending[s] /\ pending'[s][i] = pending[s][i + 1]
    BY <1>1, TailKeeps
  <2>2. QED
    BY <1>1, <2>1 DEF EventsOfTheirRequest
<1>2. CASE u # s
  BY <1>2 DEF EventsOfTheirRequest, TypeOK
<1>3. QED
  BY <1>1, <1>2

LEMMA EndsEvents ==
    ASSUME TypeOK, EventsOfTheirRequest, NEW s \in Servers, call[s] # NoCall,
           NEW outcome, Ends(s, outcome)
    PROVE  /\ EventsOfTheirRequest'
           /\ \A i \in DOMAIN pending[s] :
                 i \in DOMAIN pending'[s] /\ pending'[s][i] = pending[s][i]
           /\ call[s].purpose = "handle" =>
                 \E i \in DOMAIN pending'[s] : pending'[s][i].events = Grants(call[s], outcome)
<1> DEFINE f == call[s]
           h == [path |-> f.path, capability |-> f.capability, outcome |-> outcome,
                 events |-> Grants(f, outcome), previously |-> f.previously]
<1>1. CASE pending' = pending /\ f.purpose # "handle"
  BY <1>1 DEF EventsOfTheirRequest
<1>2. CASE pending' = [pending EXCEPT ![s] = Append(@, h)]
  <2>1. pending[s] \in Seq(Handled) /\ pending'[s] = Append(pending[s], h)
        /\ \A u \in Servers \ {s} : pending'[u] = pending[u]
    BY <1>2 DEF TypeOK
  <2>2. /\ h.events = Grants(f, outcome)
        /\ \A e \in h.events : e.path = h.path /\ e.capability = h.capability
    BY DEF Grants
  <2> HIDE DEF h
  <2>3. /\ DOMAIN pending'[s] = DOMAIN pending[s] \cup {Len(pending[s]) + 1}
        /\ pending'[s][Len(pending[s]) + 1] = h
        /\ \A i \in DOMAIN pending[s] : pending'[s][i] = pending[s][i]
    BY <2>1
  <2>4. ASSUME NEW u \in Servers, NEW i \in DOMAIN pending'[u], NEW e \in pending'[u][i].events
        PROVE  e.path = pending'[u][i].path /\ e.capability = pending'[u][i].capability
    <3>1. CASE u = s /\ i = Len(pending[s]) + 1
      BY <2>2, <2>3, <2>4, <3>1
    <3>2. CASE u = s /\ i \in DOMAIN pending[s]
      BY <2>3, <2>4, <3>2 DEF EventsOfTheirRequest
    <3>3. CASE u # s
      BY <2>1, <2>4, <3>3 DEF EventsOfTheirRequest
    <3>4. QED
      BY <2>3, <2>4, <3>1, <3>2, <3>3
  <2>5. EventsOfTheirRequest'
    BY <2>4 DEF EventsOfTheirRequest
  <2>6. QED
    BY <2>2, <2>3, <2>5
<1>3. QED
  BY <1>1, <1>2 DEF Ends

(* What was awaited, and what is being compensated, stays so unless the    *)
(* step is about it.                                                       *)
LEMMA AwaitedStays ==
    ASSUME TypeOK, NEW s \in Servers, Servers = {s}, UNCHANGED up,
           \A i \in DOMAIN pending[s] :
              i \in DOMAIN pending'[s] /\ pending'[s][i] = pending[s][i],
           NEW d, activatedFrom'[d] = activatedFrom[d], ActivationAwaited(d)
    PROVE  ActivationAwaited(d)'
<1>1. s \in up
  BY DEF ActivationAwaited, TypeOK
<1>2. PICK i \in DOMAIN pending[s] : \E e \in pending[s][i].events : IsActivation(e, d)
  BY DEF ActivationAwaited, TypeOK
<1>3. i \in DOMAIN pending'[s] /\ pending'[s][i] = pending[s][i]
  OBVIOUS
<1>4. QED
  BY <1>1, <1>2, <1>3 DEF ActivationAwaited, IsActivation

(* A step that neither writes nor takes a request from the queue.          *)
LEMMA UnwrittenAudit ==
    ASSUME TypeOK, AuditInv, NEW s \in Servers, Servers = {s}, Unwritten, UNCHANGED up,
           \A i \in DOMAIN pending[s] :
              i \in DOMAIN pending'[s] /\ pending'[s][i] = pending[s][i],
           \A c \in state.active : ActivationCompensated(c) => ActivationCompensated(c)'
    PROVE  OrphanedIsInactive' /\ ActiveIsAudited'
<1>1. OrphanedIsInactive'
  BY DEF AuditInv, OrphanedIsInactive, Unwritten
<1>2. ASSUME NEW d \in state.active, up # {}
      PROVE  ActivationAudited(d)' \/ ActivationAwaited(d)' \/ ActivationCompensated(d)'
  <2>1. CASE ActivationAudited(d)
    BY <2>1 DEF ActivationAudited, IsActivation, Unwritten, history
  <2>2. CASE ActivationAwaited(d)
    BY <2>2, AwaitedStays DEF Unwritten, history
  <2>3. CASE ActivationCompensated(d)
    BY <2>3
  <2>4. QED
    BY <1>2, <2>1, <2>2, <2>3 DEF AuditInv, ActiveIsAudited
<1>3. QED
  BY <1>1, <1>2 DEF ActiveIsAudited, Unwritten

LEMMA DiesAudit ==
    ASSUME TypeOK, AuditInv, NEW s \in Servers, Servers = {s}, Dies(s)
    PROVE  AuditInv'
<1>1. up' = {} /\ pending'[s] = <<>> /\ call'[s] = NoCall
  BY DEF Dies, TypeOK
<1>2. QED
  BY <1>1 DEF AuditInv, EventsOfTheirRequest, Alone, OrphanedIsInactive, ActiveIsAudited

(* A call that ends is no compensation and no start that has begun.        *)
LEMMA EndsAlone ==
    ASSUME TypeOK, Alone, NEW s \in Servers, Servers = {s}, call[s] # NoCall,
           NEW outcome, Ends(s, outcome), UNCHANGED up,
           call[s].purpose = "start" => state'.active \subseteq older'[s]
    PROVE  Alone'
<1>1. call[s] \in Calls
  BY AtTyped
<1>2. call'[s] = NoCall \/ (call[s].purpose = "start" /\ call'[s] = [call[s] EXCEPT !.step = "reread"])
  BY DEF Ends, TypeOK
<1>3. CASE call[s].purpose = "start" /\ call'[s] = [call[s] EXCEPT !.step = "reread"]
  <2>1. call'[s].purpose = "start"
    BY <1>1, <1>3 DEF Calls
  <2>2. QED
    BY <1>3, <2>1 DEF Alone
<1>4. QED
  BY <1>2, <1>3 DEF Alone

LEMMA DecideAudit ==
    ASSUME TypeOK, AuthorityInv, AuditInv, NEW s \in Servers, Servers = {s}, Decide(s)
    PROVE  AuditInv'
<1> DEFINE f == call[s]
<1>1. f # NoCall /\ f \in Calls /\ f.step = "decide" /\ CallOK(s)
  BY AtTyped DEF Decide, At, AuthorityInv, CallsOK
<1>2. Unwritten /\ UNCHANGED <<up, state, older>>
  BY DEF Decide, Unwritten, history
<1>3. ASSUME NEW outcome, Ends(s, outcome),
             \/ outcome = "CONFLICT" /\ f.expected # state.generation
             \/ outcome \in {"BLOCKED"} /\ Blocked(f)
             \/ outcome \in {"APPROVED"} /\ f.path = "approve"
             \/ outcome \in {"UNCHANGED"} /\ ChangesNothing(f)
      PROVE  AuditInv'
  <2>1. ASSUME NEW c \in state.active, ActivationCompensated(c) PROVE FALSE
    <3>1. f.purpose = "compensate" /\ f.path = "deactivate" /\ f.capability = c
      BY <2>1 DEF ActivationCompensated, TypeOK
    <3>2. f.expected = state.generation
      BY <1>1, <3>1 DEF AuditInv, Alone
    <3>3. ~Blocked(f) /\ ~ChangesNothing(f)
      BY <2>1, <3>1 DEF Blocked, ChangesNothing, ActiveAfter, Updated
    <3>4. QED
      BY <1>3, <3>1, <3>2, <3>3
  <2>2. /\ EventsOfTheirRequest'
        /\ \A i \in DOMAIN pending[s] :
              i \in DOMAIN pending'[s] /\ pending'[s][i] = pending[s][i]
    BY <1>1, <1>3, EndsEvents DEF AuditInv
  <2>3. Alone'
    BY <1>1, <1>2, <1>3, EndsAlone DEF AuditInv, Alone
  <2>4. OrphanedIsInactive' /\ ActiveIsAudited'
    BY <1>2, <2>1, <2>2, UnwrittenAudit
  <2>5. QED
    BY <2>2, <2>3, <2>4 DEF AuditInv
<1>4. CASE call' = [call EXCEPT ![s].step = "write"] /\ UNCHANGED pending
  <2>1. call'[s] = [f EXCEPT !.step = "write"]
    BY <1>4 DEF TypeOK
  <2>2. /\ call'[s].purpose = f.purpose /\ call'[s].path = f.path
        /\ call'[s].capability = f.capability /\ call'[s].expected = f.expected
    BY <1>1, <2>1 DEF Calls
  <2>3. EventsOfTheirRequest' /\ Alone'
    BY <1>1, <1>2, <1>4, <2>2 DEF AuditInv, EventsOfTheirRequest, Alone
  <2>4. call'[s] # NoCall
    BY <1>1, <2>1, AuthorityAssumption DEF Calls
  <2>5. \A c \in state.active : ActivationCompensated(c) => ActivationCompensated(c)'
    BY <1>2, <2>2, <2>4 DEF ActivationCompensated, TypeOK
  <2>6. OrphanedIsInactive' /\ ActiveIsAudited'
    BY <1>2, <1>4, <2>5, UnwrittenAudit
  <2>7. QED
    BY <2>3, <2>6 DEF AuditInv
<1>5. QED
  BY <1>3, <1>4 DEF Decide, Conflict

LEMMA AppliesAudit ==
    ASSUME TypeOK, AuthorityInv, OlderInv, AuditInv, NEW s \in Servers, Servers = {s},
           Applies(s)
    PROVE  AuditInv'
<1> DEFINE f == call[s]
<1>1. f # NoCall /\ f \in Calls /\ f.step = "write" /\ CallOK(s) /\ f.capability \in Capabilities
  BY AtTyped DEF Applies, At, AuthorityInv, CallsOK, Calls
<1>2. /\ Ends(s, "APPLIED") /\ Notes({}) /\ UNCHANGED <<lockOrphaned, up>>
      /\ f.expected = state.generation /\ ~lockOrphaned
      /\ state'.active = ActiveAfter(f)
  BY DEF Applies, Written
<1>3. /\ EventsOfTheirRequest'
      /\ \A i \in DOMAIN pending[s] :
            i \in DOMAIN pending'[s] /\ pending'[s][i] = pending[s][i]
      /\ f.purpose = "handle" =>
            \E i \in DOMAIN pending'[s] : pending'[s][i].events = Grants(f, "APPLIED")
  BY <1>1, <1>2, EndsEvents DEF AuditInv
<1>4. Alone'
  <2>1. f.purpose = "start" => state'.active \subseteq state.active /\ state.active \subseteq older[s]
    BY <1>1, <1>2 DEF CallOK, ActiveAfter, Updated, AuditInv, Alone
  <2>2. f.purpose = "start" => state'.active \subseteq older'[s]
    BY <1>2, <2>1 DEF Notes
  <2>3. QED
    BY <1>1, <1>2, <2>2, EndsAlone DEF AuditInv
<1>5. OrphanedIsInactive'
  BY <1>2 DEF OrphanedIsInactive
<1>6. ASSUME NEW d \in state'.active, up # {}
      PROVE  ActivationAudited(d)' \/ ActivationAwaited(d)'
  <2>1. d \in Capabilities /\ s \in up /\ state.generation \in Nat
    BY <1>1, <1>2, <1>6, AtTyped DEF TypeOK, States
  <2>2. CASE d \in state.active
    <3>1. activatedFrom'[d] = activatedFrom[d]
      BY <1>2, <1>6, <2>2, NotesKeep
    <3>2. CASE ActivationAudited(d)
      BY <1>2, <1>6, <2>2, <3>2, NotesKeep DEF ActivationAudited
    <3>3. CASE ActivationAwaited(d)
      BY <1>2, <1>3, <3>1, <3>3, AwaitedStays
    <3>4. CASE ActivationCompensated(d)
      <4>1. f.path = "deactivate" /\ f.capability = d
        BY <3>4 DEF ActivationCompensated, TypeOK
      <4>2. QED
        BY <1>2, <1>6, <4>1 DEF ActiveAfter, Updated
    <3>5. QED
      BY <1>6, <2>2, <3>2, <3>3, <3>4 DEF AuditInv, ActiveIsAudited
  <2>3. CASE d \notin state.active
    <3>1. f.path = "activate" /\ f.capability = d
      BY <1>2, <1>6, <2>3 DEF ActiveAfter, Updated
    <3>2. f.purpose = "handle"
      BY <1>1, <3>1 DEF CallOK, Calls
    <3>3. activatedFrom'[d] = state.generation
      BY <1>2, <1>6, <2>1, <2>3 DEF Notes
    <3> DEFINE e == [path |-> "activate", capability |-> d, generation |-> state.generation + 1]
    <3>4. PICK i \in DOMAIN pending'[s] : e \in pending'[s][i].events
      BY <1>2, <1>3, <3>1, <3>2 DEF Grants
    <3>5. e.path = "activate" /\ e.capability = d /\ e.generation - 1 = state.generation
      BY <2>1
    <3>6. QED
      BY <1>2, <2>1, <3>3, <3>4, <3>5 DEF ActivationAwaited, IsActivation
  <2>4. QED
    BY <2>2, <2>3
<1>7. QED
  BY <1>2, <1>3, <1>4, <1>5, <1>6 DEF AuditInv, ActiveIsAudited

LEMMA RefusedAudit ==
    ASSUME TypeOK, AuthorityInv, AuditInv, NEW s \in Servers, Servers = {s}, Refused(s)
    PROVE  AuditInv'
<1> DEFINE f == call[s]
<1>1. f # NoCall /\ f \in Calls
  BY AtTyped DEF Refused, At
<1>2. /\ Ends(s, "CONFLICT") /\ Unwritten /\ UNCHANGED <<up, state, older>>
      /\ f.expected # state.generation \/ lockOrphaned
  BY DEF Refused, Conflict, LockMayBeHeld, Unwritten, history
<1>3. /\ EventsOfTheirRequest'
      /\ \A i \in DOMAIN pending[s] :
            i \in DOMAIN pending'[s] /\ pending'[s][i] = pending[s][i]
  BY <1>1, <1>2, EndsEvents DEF AuditInv
<1>4. Alone'
  BY <1>1, <1>2, EndsAlone DEF AuditInv, Alone
<1>5. ASSUME NEW c \in state.active, ActivationCompensated(c) PROVE FALSE
  <2>1. f.purpose = "compensate" /\ s \in up
    BY <1>5 DEF ActivationCompensated, TypeOK
  <2>2. f.expected = state.generation
    BY <1>1, <2>1 DEF AuditInv, Alone
  <2>3. QED
    BY <1>2, <1>5, <2>1, <2>2 DEF AuditInv, OrphanedIsInactive
<1>6. OrphanedIsInactive' /\ ActiveIsAudited'
  BY <1>2, <1>3, <1>5, UnwrittenAudit
<1>7. QED
  BY <1>3, <1>4, <1>6 DEF AuditInv

(* The audit of a request is answered: what was awaited behind it stays,   *)
(* and what it held itself is in the log or is compensated.                *)
LEMMA AnsweredAudit ==
    ASSUME TypeOK, AuditInv, NEW s \in Servers, Servers = {s}, AuditAnswers(s)
    PROVE  AuditInv'
<1>1. /\ s \in up /\ call[s] = NoCall /\ pending[s] # <<>>
      /\ pending' = [pending EXCEPT ![s] = Tail(@)]
      /\ UNCHANGED <<state, lockOrphaned, up>>
      /\ \E events : Notes(events)
  BY DEF AuditAnswers, AuditSucceeds, AuditFails
<1>2. EventsOfTheirRequest' /\ OrphanedIsInactive'
  BY <1>1, TailEvents DEF AuditInv, OrphanedIsInactive
<1>3. Head(pending[s]) \in Handled /\ Head(pending[s]) = pending[s][1] /\ 1 \in DOMAIN pending[s]
  <2>1. pending[s] \in Seq(Handled) /\ pending[s] # <<>>
    BY <1>1 DEF TypeOK
  <2>2. QED
    BY <2>1
<1>4. call'[s] = NoCall \/ call'[s] = Compensation(Head(pending[s]))
  BY <1>1 DEF AuditAnswers, AuditSucceeds, AuditFails, TypeOK
<1>5. Alone'
  BY <1>1, <1>4 DEF Alone, Compensation
<1>6. ASSUME NEW c \in state.active, NEW e \in Appending(s), IsActivation(e, c)
      PROVE  ActivationAudited(c)' \/ ActivationCompensated(c)'
  <2>1. e \in Head(pending[s]).events
    BY <1>1, <1>6 DEF Appending
  <2>2. Head(pending[s]).path = "activate" /\ Head(pending[s]).capability = c
    BY <1>3, <1>6, <2>1 DEF AuditInv, EventsOfTheirRequest, IsActivation
  <2>3. CASE AuditSucceeds(s)
    <3>1. Notes(Appending(s)) /\ c \in state'.active
      BY <1>6, <2>3 DEF AuditSucceeds
    <3>2. QED
      BY <1>6, <3>1, NotesKeep
  <2>4. CASE AuditFails(s)
    <3>1. call'[s] = Compensation(Head(pending[s]))
      BY <2>2, <2>4 DEF AuditFails, TypeOK
    <3>2. call'[s] # NoCall
      BY <1>3, <3>1, CompensationTyped, AuthorityAssumption
    <3>3. /\ call'[s].purpose = "compensate" /\ call'[s].path = "deactivate"
          /\ call'[s].capability = c
      BY <2>2, <3>1 DEF Compensation
    <3>4. QED
      BY <1>1, <3>2, <3>3 DEF ActivationCompensated
  <2>5. QED
    BY <2>3, <2>4 DEF AuditAnswers
<1>7. ASSUME NEW c \in state'.active
      PROVE  ActivationAudited(c)' \/ ActivationAwaited(c)' \/ ActivationCompensated(c)'
  <2>1. /\ c \in state.active /\ activatedFrom'[c] = activatedFrom[c]
        /\ \A e \in audit : IsActivation(e, c) => ActivationAudited(c)'
    BY <1>1, <1>7, NotesKeep
  <2>2. CASE ActivationAudited(c)
    BY <2>1, <2>2 DEF ActivationAudited
  <2>3. CASE ActivationAwaited(c)
    <3>1. PICK i \in DOMAIN pending[s] : \E e \in pending[s][i].events : IsActivation(e, c)
      BY <2>3 DEF ActivationAwaited, TypeOK
    <3>2. PICK e \in pending[s][i].events : IsActivation(e, c)
      BY <3>1
    <3>3. CASE pending[s][i] = Head(pending[s])
      <4>1. e \in Appending(s)
        BY <1>1, <3>2, <3>3 DEF Appending
      <4>2. QED
        BY <1>6, <2>1, <3>2, <4>1
    <3>4. CASE i - 1 \in DOMAIN pending'[s] /\ pending'[s][i - 1] = pending[s][i]
      BY <1>1, <2>1, <3>2, <3>4 DEF ActivationAwaited, IsActivation
    <3>5. QED
      BY <1>1, <3>3, <3>4, TailKeeps
  <2>4. ~ActivationCompensated(c)
    BY <1>1 DEF ActivationCompensated, TypeOK
  <2>5. QED
    BY <1>1, <2>1, <2>2, <2>3, <2>4 DEF AuditInv, ActiveIsAudited
<1>8. QED
  BY <1>2, <1>5, <1>7 DEF AuditInv, ActiveIsAudited

LEMMA StartsAudit ==
    ASSUME TypeOK, AuthorityInv, OlderInv, AuditInv, NEW s \in Servers, Servers = {s},
           Start(s) \/ Reread(s)
    PROVE  AuditInv'
<1> DEFINE todo == IF call[s] = NoCall THEN state.active ELSE call[s].todo
<1>1. /\ todo \in SUBSET Capabilities /\ NextToDeactivate(s, todo)
      /\ UNCHANGED <<state, lockOrphaned, pending>>
      /\ up = {} /\ state.active \subseteq older'[s] /\ state.active \subseteq todo
  <2>1. CASE Start(s)
    BY <2>1 DEF Start, TypeOK, States
  <2>2. CASE Reread(s)
    <3>1. call[s] # NoCall /\ call[s] \in Calls /\ call[s].step = "reread"
      BY <2>2, AtTyped DEF Reread, At
    <3>2. call[s].purpose = "start" /\ OlderOK(s)
      BY <3>1 DEF AuthorityInv, CallsOK, CallOK, OlderInv
    <3>3. /\ older[s] \subseteq call[s].todo /\ s \notin up
          /\ state.active \subseteq older[s]
      BY <3>1, <3>2 DEF OlderOK, Left, AuditInv, Alone
    <3>4. call[s].todo \in SUBSET Capabilities
      BY <3>1 DEF Calls
    <3>5. QED
      BY <2>2, <3>1, <3>3, <3>4 DEF Reread, Unwritten, history, TypeOK
  <2>3. QED
    BY <2>1, <2>2
<1>2. \/ todo = {} /\ s \in up' /\ call'[s] = NoCall
      \/ up' = up /\ call'[s].purpose = "start"
  <2> HIDE DEF todo
  <2>1. todo \in SUBSET Capabilities /\ NextToDeactivate(s, todo)
    BY <1>1
  <2>2. \/ todo = {} /\ s \in up' /\ call'[s] = NoCall
        \/ \E c \in todo :
              /\ call'[s] = [purpose |-> "start", step |-> "decide",
                             path |-> "deactivate", capability |-> c, want |-> TRUE,
                             expected |-> state.generation, previously |-> FALSE,
                             verified |-> FALSE, todo |-> todo \ {c}]
              /\ up' = up
    BY <2>1, NextToDeactivateTyped
  <2>3. ASSUME NEW c \in todo,
               call'[s] = [purpose |-> "start", step |-> "decide",
                           path |-> "deactivate", capability |-> c, want |-> TRUE,
                           expected |-> state.generation, previously |-> FALSE,
                           verified |-> FALSE, todo |-> todo \ {c}]
        PROVE  call'[s].purpose = "start"
    BY <2>3
  <2>4. QED
    BY <2>2, <2>3
<1>3. EventsOfTheirRequest'
  BY <1>1 DEF AuditInv, EventsOfTheirRequest
<1>4. CASE todo = {} /\ call'[s] = NoCall
  <2>1. state'.active = {}
    BY <1>1, <1>4
  <2>2. QED
    BY <1>3, <1>4, <2>1 DEF AuditInv, Alone, OrphanedIsInactive, ActiveIsAudited
<1>5. CASE up' = {} /\ call'[s].purpose = "start"
  BY <1>1, <1>3, <1>5 DEF AuditInv, Alone, OrphanedIsInactive, ActiveIsAudited
<1>6. QED
  BY <1>1, <1>2, <1>4, <1>5

LEMMA OtherAudit ==
    ASSUME TypeOK, AuthorityInv, AuditInv, NEW s \in Servers, Servers = {s},
           \/ VerifyApproval(s)
           \/ \E path \in Paths, c \in Capabilities, want \in BOOLEAN,
                 g \in 0 .. state.generation : Receive(s, path, c, want, g)
    PROVE  AuditInv'
<1>1. Unwritten /\ UNCHANGED <<up, pending, state, lockOrphaned, older>>
  BY DEF VerifyApproval, Receive, Unwritten, history
<1>2. EventsOfTheirRequest'
  BY <1>1 DEF AuditInv, EventsOfTheirRequest
<1>3. CASE VerifyApproval(s)
  <2>1. call[s] # NoCall /\ call[s] \in Calls
    BY <1>3, AtTyped DEF VerifyApproval, At
  <2>2. /\ call'[s].purpose = call[s].purpose /\ call'[s].path = call[s].path
        /\ call'[s].capability = call[s].capability /\ call'[s].expected = call[s].expected
    BY <1>3, <2>1, VerifyTyped DEF Calls
  <2>3. call'[s] # NoCall
    <3>1. call'[s] = [call[s] EXCEPT !.step = "decide",
                                     !.verified = ExactApproval(s, call[s].capability)]
      BY <1>3, VerifyTyped
    <3>2. ExactApproval(s, call[s].capability) \in BOOLEAN
      BY DEF ExactApproval
    <3>3. call'[s] \in Calls
      BY <2>1, <3>1, <3>2 DEF Calls
    <3>4. QED
      BY <3>3, AuthorityAssumption
  <2>4. Alone'
    BY <1>1, <2>1, <2>2 DEF AuditInv, Alone
  <2>5. \A c \in state.active : ActivationCompensated(c) => ActivationCompensated(c)'
    BY <1>1, <2>2, <2>3 DEF ActivationCompensated, TypeOK
  <2>6. QED
    BY <1>1, <1>2, <2>4, <2>5, UnwrittenAudit DEF AuditInv
<1>4. CASE call[s] = NoCall /\ call'[s].purpose = "handle"
  <2>1. Alone'
    BY <1>4 DEF Alone
  <2>2. \A c \in state.active : ~ActivationCompensated(c)
    BY <1>4 DEF ActivationCompensated, TypeOK
  <2>3. QED
    BY <1>1, <1>2, <2>1, <2>2, UnwrittenAudit DEF AuditInv
<1>5. QED
  BY <1>3, <1>4 DEF Receive, TypeOK

(* While the only server of a state file runs, every active capability has *)
(* its activation in the audit log, or in a request that awaits the log, or*)
(* its compensation is under way (authority-server.mjs, lines 174-214), if *)
(* compensating writes do not throw.                                       *)
THEOREM ActiveCapabilitiesAreAudited ==
    ASSUME NEW s, Servers = {s}, "io" \notin Faults PROVE Spec => []ActiveIsAudited
<1>1. s \in Servers
  OBVIOUS
<1>2. Init => OlderInv /\ AuditInv
  BY DEF Init, OlderInv, OlderOK, AuditInv, EventsOfTheirRequest, Alone,
     OrphanedIsInactive, ActiveIsAudited
<1>3. ASSUME TypeOK, AuthorityInv, OlderInv, AuditInv, [Next]_vars PROVE AuditInv'
  <2>1. CASE UNCHANGED vars
    BY <1>3, <2>1
    DEF vars, AuditInv, EventsOfTheirRequest, Alone, OrphanedIsInactive, ActiveIsAudited,
        ActivationAudited, ActivationAwaited, ActivationCompensated, IsActivation
  <2>2. CASE DiesWriting(s) \/ Crash(s)
    BY <1>1, <1>3, <2>2, DiesAudit DEF DiesWriting, Crash
  <2>3. ~CompensationThrows(s)
    BY DEF CompensationThrows
  <2>4. QED
    BY <1>1, <1>3, <2>1, <2>2, <2>3, StartsAudit, OtherAudit, DecideAudit, AppliesAudit,
       RefusedAudit, AnsweredAudit
    DEF Next, WriteState
<1>4. TypeOK /\ AuthorityInv /\ OlderInv /\ [Next]_vars => OlderInv'
  BY OlderStep
<1>5. AuditInv => ActiveIsAudited
  BY DEF AuditInv
<1>6. QED
  BY <1>2, <1>3, <1>4, <1>5, InvHolds, PTL DEF Spec
=================================================================================
