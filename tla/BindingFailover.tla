------------------------------ MODULE BindingFailover ------------------------------
(***************************************************************************)
(* The bindings of one role: a preferred one and its ordered fallbacks.    *)
(* Availability failures put bindings or whole providers on cooldown and   *)
(* move the role down the plan; recovery observations take cooldowns away, *)
(* and the role returns to the preferred binding by its policy, where      *)
(* asked for with an approval that is bound to the hash of the state.      *)
(*                                                                         *)
(* A cooldown ends by an observation only, never by the clock, so the time *)
(* of the next check is left out; the time at which a cooldown was         *)
(* observed stays, because the hash of the state covers it.                *)
(***************************************************************************)
EXTENDS Integers, FiniteSets, Sequences

CONSTANTS Plan,              \* the bindings in the order of the plan
          HostOf,            \* HostOf[b]: the provider that serves b
          ReturnPolicies,    \* the return policies to consider
          MaxObservations,   \* observations that may change the state (bound)
          MaxApprovals       \* return decisions that are ever given (bound)

Bindings  == {Plan[i] : i \in DOMAIN Plan}
Preferred == Plan[1]

ASSUME BindingFailoverAssumption ==
    /\ Plan \in Seq(Bindings) /\ Plan # <<>>
    /\ \A i, j \in DOMAIN Plan : Plan[i] = Plan[j] => i = j
    /\ ReturnPolicies \subseteq {"STAY_ON_FALLBACK", "ASK_BEFORE_RETURN", "AUTO_RETURN"}
    /\ MaxObservations \in Nat
    /\ MaxApprovals \in Nat

VARIABLES activeBinding,   \* the binding the role uses
          cooldowns,       \* the cooldowns of bindings and providers
          returnPolicy,    \* the policy of the plan
          observations,    \* observations so far; the time of the next one
          approvals        \* the return decisions that were ever given

failoverVars == <<activeBinding, cooldowns, returnPolicy, observations, approvals>>

Scopes    == {"BINDING", "PROVIDER"}
Cooldowns == [binding : Bindings, scope : Scopes, observedAt : 1..MaxObservations]
Approvals == [active : Bindings, cooldowns : SUBSET Cooldowns,
              decision : {"APPROVE", "DENY"}]

FailoverInit == /\ activeBinding = Preferred
                /\ cooldowns = {}
                /\ returnPolicy \in ReturnPolicies
                /\ observations = 0
                /\ approvals = {}

Position(b) == CHOOSE i \in DOMAIN Plan : Plan[i] = b

CooldownApplies(c, b) == IF c.scope = "PROVIDER" THEN HostOf[c.binding] = HostOf[b]
                                                 ELSE c.binding = b

IsBlockedByCooldown(all, b) == \E c \in all : CooldownApplies(c, b)

(* A new cooldown replaces those of its binding or of its whole provider.  *)
UpsertCooldown(c) ==
    {old \in cooldowns : IF c.scope = "PROVIDER" THEN HostOf[old.binding] # HostOf[c.binding]
                                                 ELSE old.binding # c.binding} \cup {c}

(* A bug: looks at the cooldowns from before the failure.                  *)
CandidatesBeforeFailure(available, all) ==
    {i \in DOMAIN Plan : /\ i > Position(activeBinding)
                         /\ Plan[i] \in available
                         /\ ~IsBlockedByCooldown(cooldowns, Plan[i])}

(* The fallbacks after the active binding that could take over.            *)
Candidates(available, all) ==
    {i \in DOMAIN Plan : /\ i > Position(activeBinding)
                         /\ Plan[i] \in available
                         /\ ~IsBlockedByCooldown(all, Plan[i])}

Earliest(places) == CHOOSE i \in places : \A j \in places : i <= j

(* Quota and rate limits are failures of the binding, the others of its    *)
(* provider; the failure is charged to the binding that is active now.     *)
RecordActiveBindingFailure(scope, available) ==
    /\ observations < MaxObservations
    /\ observations' = observations + 1
    /\ LET next   == UpsertCooldown([binding |-> activeBinding, scope |-> scope,
                                     observedAt |-> observations + 1])
           places == Candidates(available, next)
       IN  /\ cooldowns' = next
           /\ activeBinding' = IF places = {} THEN activeBinding
                               ELSE Plan[Earliest(places)]
    /\ UNCHANGED <<returnPolicy, approvals>>

(* A bug: a recovered binding does not vouch for its provider.             *)
ObserveRecoveryOfBinding(b) ==
    /\ cooldowns' = {c \in cooldowns : ~(c.scope = "BINDING" /\ c.binding = b)}
    /\ UNCHANGED <<activeBinding, returnPolicy, observations, approvals>>

(* A binding answers again: all cooldowns that block it are gone.          *)
ObserveRecovery(b) ==
    /\ cooldowns' = {c \in cooldowns : ~CooldownApplies(c, b)}
    /\ UNCHANGED <<activeBinding, returnPolicy, observations, approvals>>

(* It does not: the cooldowns that block it are checked again later.       *)
ObserveOutage(b) ==
    /\ IsBlockedByCooldown(cooldowns, b)
    /\ observations < MaxObservations
    /\ observations' = observations + 1
    /\ cooldowns' = {IF CooldownApplies(c, b)
                     THEN [c EXCEPT !.observedAt = observations + 1] ELSE c : c \in cooldowns}
    /\ UNCHANGED <<activeBinding, returnPolicy, approvals>>

(* A bug: the hash does not cover the cooldowns.                           *)
StateHashOfBinding(active, all) == active

(* What the hash of the state covers, as far as it changes.                *)
StateHash(active, all) == <<active, all>>

CreateReturnApproval(decision) ==
    /\ activeBinding # Preferred
    /\ Cardinality(approvals) < MaxApprovals
    /\ approvals' = approvals \cup {[active |-> activeBinding, cooldowns |-> cooldowns,
                                     decision |-> decision]}
    /\ UNCHANGED <<activeBinding, cooldowns, returnPolicy, observations>>

(* An approval that does not fit the state is refused with an exception.   *)
ValidReturnApproval(a) ==
    StateHash(a.active, a.cooldowns) = StateHash(activeBinding, cooldowns)

MayReturn == CASE returnPolicy = "STAY_ON_FALLBACK"  -> FALSE
               [] returnPolicy = "AUTO_RETURN"       -> TRUE
               [] returnPolicy = "ASK_BEFORE_RETURN" ->
                    \E a \in approvals : /\ ValidReturnApproval(a)
                                         /\ a.decision = "APPROVE"

EvaluatePreferredReturn ==
    /\ activeBinding # Preferred
    /\ ~IsBlockedByCooldown(cooldowns, Preferred)
    /\ MayReturn
    /\ activeBinding' = Preferred
    /\ UNCHANGED <<cooldowns, returnPolicy, observations, approvals>>

FailoverNext ==
    \/ \E scope \in Scopes, available \in SUBSET Bindings :
          RecordActiveBindingFailure(scope, available)
    \/ \E b \in Bindings : ObserveRecovery(b) \/ ObserveOutage(b)
    \/ \E decision \in {"APPROVE", "DENY"} : CreateReturnApproval(decision)
    \/ EvaluatePreferredReturn

FailoverSpec == FailoverInit /\ [][FailoverNext]_failoverVars

(* Cooldowns that are due are checked by way of the binding they were      *)
(* recorded for, in the end with success, and the return is evaluated.     *)
FailoverFairness ==
    /\ WF_failoverVars(EvaluatePreferredReturn)
    /\ \A b \in Bindings :
          WF_failoverVars((\E c \in cooldowns : c.binding = b) /\ ObserveRecovery(b))
-----------------------------------------------------------------------------
FailoverTypeOK == /\ activeBinding \in Bindings
                  /\ cooldowns \subseteq Cooldowns
                  /\ returnPolicy \in ReturnPolicies
                  /\ observations \in 0..MaxObservations
                  /\ approvals \subseteq Approvals

(* No binding becomes active that is on cooldown itself or through another *)
(* binding of its provider, the cooldown of the very failure that moves    *)
(* the role included.                                                      *)
NeverSelectCooling ==
    [][activeBinding' # activeBinding
       => ~IsBlockedByCooldown(cooldowns', activeBinding')]_failoverVars

(* Where the policy asks, the role returns only with an approval that was  *)
(* given after the preferred binding had recovered: an approval of an      *)
(* earlier state does not outlive a failure that came in between.          *)
ApprovedAfterRecovery ==
    [][/\ returnPolicy = "ASK_BEFORE_RETURN"
       /\ activeBinding # Preferred /\ activeBinding' = Preferred
       => \E a \in approvals : /\ a.decision = "APPROVE"
                               /\ a.active = activeBinding
                               /\ ~IsBlockedByCooldown(a.cooldowns, Preferred)]_failoverVars

(* With automatic return the preferred binding is used again once the      *)
(* failures stop: every cooldown that blocks it is checked by way of the   *)
(* binding it was recorded for, be that a fallback of the same provider.   *)
ReturnsAfterOutage ==
    returnPolicy = "AUTO_RETURN" => <>[](activeBinding = Preferred)
=================================================================================
