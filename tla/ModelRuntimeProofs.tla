---------------------------- MODULE ModelRuntimeProofs ----------------------------
(***************************************************************************)
(* What the circuit breaker of a provider and the failover of a role keep, *)
(* for every threshold, every set of retry-after hints, every plan and any *)
(* number of failures and approvals.                                       *)
(***************************************************************************)
EXTENDS ProviderCircuit, BindingFailover, WellFoundedInduction, TLAPS

(* The circuit breaker                                                     *)

(* A closed circuit is below its threshold and owes nobody a pause; an     *)
(* open one waits at least as long as any provider has asked for; a        *)
(* half-open one has waited.                                               *)
CircuitInv ==
    /\ CircuitTypeOK
    /\ circuit = "CLOSED" => failures < FailureThreshold /\ window = 0 /\ demanded = 0
    /\ circuit = "OPEN" => demanded <= window
    /\ circuit = "HALF_OPEN" => window = 0 /\ demanded = 0

LEMMA LongerIsUpperBound ==
    ASSUME NEW a \in Nat, NEW b \in Nat
    PROVE  Longer(a, b) \in Nat /\ Longer(a, b) >= a /\ Longer(a, b) >= b
  BY DEF Longer

LEMMA CircuitInitially == CircuitInit => CircuitInv
  BY ProviderCircuitAssumption
  DEF CircuitInit, CircuitInv, CircuitTypeOK, CircuitStates

(* The three ways in which a failure counts, each from its own state.      *)
LEMMA FailureStep ==
    ASSUME CircuitInv, NEW retryAfter \in RetryAfters, RecordFailure(retryAfter)
    PROVE  CircuitInv'
<1> USE ProviderCircuitAssumption DEF CircuitInv, CircuitTypeOK, CircuitStates
<1>1. inFlight' \in 0..MaxInFlight
  BY DEF RecordFailure
<1>2. /\ retryAfter \in Nat
      /\ EffectiveOpenDuration(retryAfter) \in Nat
      /\ EffectiveOpenDuration(retryAfter) >= retryAfter
  BY LongerIsUpperBound DEF EffectiveOpenDuration
<1>3. /\ Longer(demanded, retryAfter) \in Nat
      /\ Longer(window, EffectiveOpenDuration(retryAfter)) \in Nat
  BY <1>2, LongerIsUpperBound
<1>4. CASE circuit = "HALF_OPEN"
  <2>1. Open(retryAfter) /\ UNCHANGED failures
    BY <1>4 DEF RecordFailure
  <2>2. Longer(demanded, retryAfter) <= EffectiveOpenDuration(retryAfter)
    BY <1>2, <1>4 DEF Longer
  <2>3. QED
    BY <1>1, <1>2, <1>3, <2>1, <2>2 DEF Open
<1>5. CASE circuit = "OPEN"
  <2>1. ExtendWindow(retryAfter)
    BY <1>5 DEF RecordFailure
  <2>2. Longer(demanded, retryAfter) <= Longer(window, EffectiveOpenDuration(retryAfter))
    BY <1>2, <1>5 DEF Longer
  <2>3. QED
    BY <1>1, <1>3, <1>5, <2>1, <2>2 DEF ExtendWindow
<1>6. CASE circuit = "CLOSED"
  <2>1. CountFailure(retryAfter)
    BY <1>6 DEF RecordFailure
  <2>2. Longer(demanded, retryAfter) <= EffectiveOpenDuration(retryAfter)
    BY <1>2, <1>6 DEF Longer
  <2>3. QED
    BY <1>1, <1>2, <1>3, <1>6, <2>1, <2>2 DEF CountFailure, Open
<1>7. QED
  BY <1>4, <1>5, <1>6

LEMMA CircuitStep == ASSUME CircuitInv, [CircuitNext]_circuitVars PROVE CircuitInv'
<1> USE ProviderCircuitAssumption DEF CircuitInv, CircuitTypeOK, CircuitStates
<1>1. ASSUME BeforeRequest PROVE CircuitInv'
  BY <1>1 DEF BeforeRequest
<1>2. ASSUME RecordSuccess PROVE CircuitInv'
  BY <1>2 DEF RecordSuccess
<1>3. ASSUME NEW retryAfter \in RetryAfters, RecordFailure(retryAfter) PROVE CircuitInv'
  BY <1>3, FailureStep
<1>4. ASSUME CircuitTick PROVE CircuitInv'
  BY <1>4 DEF CircuitTick, CountDown
<1>5. ASSUME UNCHANGED circuitVars PROVE CircuitInv'
  BY <1>5 DEF circuitVars
<1>6. QED
  BY <1>1, <1>2, <1>3, <1>4, <1>5 DEF CircuitNext

LEMMA CircuitInvariant == CircuitSpec => []CircuitInv
<1>1. CircuitInv /\ [CircuitNext]_circuitVars => CircuitInv'
  BY CircuitStep
<1>2. QED
  BY CircuitInitially, <1>1, PTL DEF CircuitSpec

(* The circuit keeps its type; in particular the count of failures never   *)
(* passes the threshold.                                                   *)
THEOREM CircuitTypeCorrect == CircuitSpec => []CircuitTypeOK
<1>1. CircuitInv => CircuitTypeOK
  BY DEF CircuitInv
<1>2. QED
  BY CircuitInvariant, <1>1, PTL

(* No probe goes out before every retry-after hint met since the circuit   *)
(* opened has run out, whatever the order in which answers come in.        *)
THEOREM ProbeRespectsRetryAfterHolds == CircuitSpec => []ProbeRespectsRetryAfter
<1>1. CircuitInv => ProbeRespectsRetryAfter
  BY DEF CircuitInv, ProbeRespectsRetryAfter
<1>2. QED
  BY CircuitInvariant, <1>1, PTL
-----------------------------------------------------------------------------
(* The failover of a role                                                  *)

LEMMA PlanFacts ==
    /\ \A i \in DOMAIN Plan : i \in Nat /\ i >= 1 /\ Plan[i] \in Bindings
    /\ 1 \in DOMAIN Plan
    /\ Preferred \in Bindings
<1>1. PICK n \in Nat : DOMAIN Plan = 1..n
  BY BindingFailoverAssumption
<1>2. n # 0
  BY <1>1, BindingFailoverAssumption
<1>3. QED
  BY <1>1, <1>2 DEF Bindings, Preferred

LEMMA PositionFacts ==
    ASSUME NEW b \in Bindings
    PROVE  Position(b) \in DOMAIN Plan /\ Plan[Position(b)] = b
  BY DEF Position, Bindings

(* A nonempty set of places has an earliest one.                           *)
LEMMA EarliestIsAmong ==
    ASSUME NEW places \in SUBSET Nat, places # {}
    PROVE  Earliest(places) \in places
<1>1. PICK i \in places : \A j \in places : <<j, i>> \notin OpToRel(<, Nat)
  BY NatLessThanWellFounded, WFMin
<1>2. \A j \in places : ~(j < i)
  BY <1>1 DEF OpToRel
<1>3. \A j \in places : i <= j
  BY <1>2
<1>4. QED
  BY <1>3 DEF Earliest

LEMMA CandidateFacts ==
    ASSUME NEW available, NEW all, NEW i \in Candidates(available, all),
           activeBinding \in Bindings
    PROVE  /\ i \in DOMAIN Plan
           /\ i > 1
           /\ ~IsBlockedByCooldown(all, Plan[i])
  BY PlanFacts, PositionFacts DEF Candidates

LEMMA FailoverInitially == FailoverInit => FailoverTypeOK
  BY PlanFacts, BindingFailoverAssumption DEF FailoverInit, FailoverTypeOK

LEMMA NewCooldownFacts ==
    ASSUME FailoverTypeOK, observations < MaxObservations, NEW scope \in Scopes
    PROVE  UpsertCooldown([binding |-> activeBinding, scope |-> scope,
                           observedAt |-> observations + 1]) \subseteq Cooldowns
<1>1. observations + 1 \in 1..MaxObservations
  BY BindingFailoverAssumption DEF FailoverTypeOK
<1>2. [binding |-> activeBinding, scope |-> scope, observedAt |-> observations + 1]
      \in Cooldowns
  BY <1>1 DEF FailoverTypeOK, Cooldowns
<1>3. QED
  BY <1>2 DEF UpsertCooldown, FailoverTypeOK

(* A failure keeps the role where it is or moves it to a binding that is   *)
(* free under the cooldowns of the next state, and never to the preferred  *)
(* one.                                                                    *)
LEMMA FailureMoves ==
    ASSUME FailoverTypeOK, NEW scope \in Scopes, NEW available \in SUBSET Bindings,
           RecordActiveBindingFailure(scope, available)
    PROVE  /\ FailoverTypeOK'
           /\ activeBinding' # activeBinding
              => ~IsBlockedByCooldown(cooldowns', activeBinding') /\ activeBinding' # Preferred
<1> DEFINE next   == UpsertCooldown([binding |-> activeBinding, scope |-> scope,
                                     observedAt |-> observations + 1])
           places == Candidates(available, next)
<1>1. /\ cooldowns' = next
      /\ activeBinding' = IF places = {} THEN activeBinding ELSE Plan[Earliest(places)]
      /\ observations < MaxObservations
      /\ observations' = observations + 1
      /\ UNCHANGED <<returnPolicy, approvals>>
  BY DEF RecordActiveBindingFailure
<1>2. next \subseteq Cooldowns
  BY <1>1, NewCooldownFacts
<1> HIDE DEF next, places
<1>3. places # {} => /\ Plan[Earliest(places)] \in Bindings
                     /\ Plan[Earliest(places)] # Preferred
                     /\ ~IsBlockedByCooldown(next, Plan[Earliest(places)])
  <2> SUFFICES ASSUME places # {}
               PROVE  /\ Plan[Earliest(places)] \in Bindings
                      /\ Plan[Earliest(places)] # Preferred
                      /\ ~IsBlockedByCooldown(next, Plan[Earliest(places)])
    OBVIOUS
  <2>1. places \in SUBSET Nat
    BY PlanFacts DEF places, Candidates
  <2>2. Earliest(places) \in Candidates(available, next)
    BY <2>1, EarliestIsAmong DEF places
  <2>3. /\ Earliest(places) \in DOMAIN Plan /\ Earliest(places) > 1
        /\ ~IsBlockedByCooldown(next, Plan[Earliest(places)])
    BY <2>2, CandidateFacts DEF FailoverTypeOK
  <2>4. Plan[Earliest(places)] # Plan[1]
    BY <2>3, PlanFacts, BindingFailoverAssumption
  <2>5. QED
    BY <2>3, <2>4, PlanFacts DEF Preferred
<1>4. observations' \in 0..MaxObservations
  BY <1>1, BindingFailoverAssumption DEF FailoverTypeOK
<1>5. QED
  BY <1>1, <1>2, <1>3, <1>4 DEF FailoverTypeOK

LEMMA OutageStep ==
    ASSUME FailoverTypeOK, NEW b \in Bindings, ObserveOutage(b)
    PROVE  FailoverTypeOK'
<1>1. observations + 1 \in 1..MaxObservations
  BY BindingFailoverAssumption DEF FailoverTypeOK, ObserveOutage
<1>2. ASSUME NEW c \in cooldowns
      PROVE  c \in Cooldowns /\ [c EXCEPT !.observedAt = observations + 1] \in Cooldowns
  BY <1>1 DEF FailoverTypeOK, Cooldowns
<1>3. cooldowns' \subseteq Cooldowns
  BY <1>2 DEF ObserveOutage
<1>4. QED
  BY <1>1, <1>3 DEF FailoverTypeOK, ObserveOutage

LEMMA FailoverStep ==
    ASSUME FailoverTypeOK, [FailoverNext]_failoverVars PROVE FailoverTypeOK'
<1>1. ASSUME NEW scope \in Scopes, NEW available \in SUBSET Bindings,
             RecordActiveBindingFailure(scope, available)
      PROVE  FailoverTypeOK'
  BY <1>1, FailureMoves
<1>2. ASSUME NEW b \in Bindings, ObserveRecovery(b) PROVE FailoverTypeOK'
  BY <1>2 DEF FailoverTypeOK, ObserveRecovery
<1>3. ASSUME NEW b \in Bindings, ObserveOutage(b) PROVE FailoverTypeOK'
  BY <1>3, OutageStep
<1>4. ASSUME NEW decision \in {"APPROVE", "DENY"}, CreateReturnApproval(decision)
      PROVE  FailoverTypeOK'
  BY <1>4 DEF FailoverTypeOK, CreateReturnApproval, Approvals
<1>5. ASSUME EvaluatePreferredReturn PROVE FailoverTypeOK'
  BY <1>5, PlanFacts DEF FailoverTypeOK, EvaluatePreferredReturn
<1>6. ASSUME UNCHANGED failoverVars PROVE FailoverTypeOK'
  BY <1>6 DEF FailoverTypeOK, failoverVars
<1>7. QED
  BY <1>1, <1>2, <1>3, <1>4, <1>5, <1>6 DEF FailoverNext

(* The role always uses a binding of its plan, and its cooldowns are of    *)
(* bindings of the plan.                                                   *)
THEOREM FailoverTypeCorrect == FailoverSpec => []FailoverTypeOK
<1>1. FailoverTypeOK /\ [FailoverNext]_failoverVars => FailoverTypeOK'
  BY FailoverStep
<1>2. QED
  BY FailoverInitially, <1>1, PTL DEF FailoverSpec

(* Only a failure and a return move the role.                              *)
LEMMA WhoMoves ==
    ASSUME [FailoverNext]_failoverVars, activeBinding' # activeBinding
    PROVE  \/ \E scope \in Scopes, available \in SUBSET Bindings :
                 RecordActiveBindingFailure(scope, available)
           \/ EvaluatePreferredReturn
  BY DEF FailoverNext, failoverVars, ObserveRecovery, ObserveOutage, CreateReturnApproval

(* Neither a failure nor a return makes a binding active that is on        *)
(* cooldown after the step.                                                *)
THEOREM NeverSelectCoolingHolds == FailoverSpec => NeverSelectCooling
<1> DEFINE Selects == activeBinding' # activeBinding
                      => ~IsBlockedByCooldown(cooldowns', activeBinding')
<1>1. FailoverTypeOK /\ [FailoverNext]_failoverVars => [Selects]_failoverVars
  <2> SUFFICES ASSUME FailoverTypeOK, [FailoverNext]_failoverVars,
                      activeBinding' # activeBinding
               PROVE  ~IsBlockedByCooldown(cooldowns', activeBinding')
    OBVIOUS
  <2>1. CASE EvaluatePreferredReturn
    BY <2>1 DEF EvaluatePreferredReturn
  <2>2. ASSUME NEW scope \in Scopes, NEW available \in SUBSET Bindings,
               RecordActiveBindingFailure(scope, available)
        PROVE  ~IsBlockedByCooldown(cooldowns', activeBinding')
    BY <2>2, FailureMoves
  <2>3. QED
    BY <2>1, <2>2, WhoMoves
<1>2. QED
  BY FailoverTypeCorrect, <1>1, PTL DEF FailoverSpec, NeverSelectCooling

(* A role that asks before it returns does so only with an approval of the *)
(* very state it returns from, given when the preferred binding was free.  *)
THEOREM ApprovedAfterRecoveryHolds == FailoverSpec => ApprovedAfterRecovery
<1> DEFINE Approved ==
             /\ returnPolicy = "ASK_BEFORE_RETURN"
             /\ activeBinding # Preferred /\ activeBinding' = Preferred
             => \E a \in approvals : /\ a.decision = "APPROVE"
                                     /\ a.active = activeBinding
                                     /\ ~IsBlockedByCooldown(a.cooldowns, Preferred)
<1>1. FailoverTypeOK /\ [FailoverNext]_failoverVars => [Approved]_failoverVars
  <2> SUFFICES ASSUME FailoverTypeOK, [FailoverNext]_failoverVars,
                      returnPolicy = "ASK_BEFORE_RETURN",
                      activeBinding # Preferred, activeBinding' = Preferred
               PROVE  \E a \in approvals : /\ a.decision = "APPROVE"
                                           /\ a.active = activeBinding
                                           /\ ~IsBlockedByCooldown(a.cooldowns, Preferred)
    OBVIOUS
  <2>1. EvaluatePreferredReturn
    BY WhoMoves, FailureMoves
  <2>2. MayReturn /\ ~IsBlockedByCooldown(cooldowns, Preferred)
    BY <2>1 DEF EvaluatePreferredReturn
  <2>3. PICK a \in approvals : ValidReturnApproval(a) /\ a.decision = "APPROVE"
    BY <2>2 DEF MayReturn
  <2>4. a.active = activeBinding /\ a.cooldowns = cooldowns
    BY <2>3 DEF ValidReturnApproval, StateHash
  <2>5. QED
    BY <2>2, <2>3, <2>4
<1>2. QED
  BY FailoverTypeCorrect, <1>1, PTL DEF FailoverSpec, ApprovedAfterRecovery
===================================================================================
