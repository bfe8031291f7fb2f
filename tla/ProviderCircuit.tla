----------------------------- MODULE ProviderCircuit -----------------------------
(***************************************************************************)
(* The circuit breaker of one provider.  Requests are sent and answered at *)
(* different times, so an answer meets whatever state the circuit is in by *)
(* then: an old failure a circuit that is open, half open or closed again. *)
(* The window until the next probe is counted down instead of being        *)
(* compared with a clock.                                                  *)
(***************************************************************************)
EXTENDS Integers

CONSTANTS FailureThreshold,   \* failures in a row that open the circuit
          OpenDuration,       \* ticks for which it opens at least
          RetryAfters,        \* the hints a provider may give; 0 is none
          MaxInFlight         \* requests on their way (bounds the model)

ASSUME ProviderCircuitAssumption ==
    /\ FailureThreshold \in Nat \ {0}
    /\ OpenDuration \in Nat \ {0}
    /\ RetryAfters \subseteq Nat
    /\ 0 \in RetryAfters
    /\ MaxInFlight \in Nat

VARIABLES circuit,    \* the state of the circuit
          failures,   \* availability failures in a row
          window,     \* ticks until the next probe may be sent
          inFlight,   \* requests that are not answered yet
          demanded    \* ticks for which the provider has asked to be left alone
                      \* since the circuit opened (history)

circuitVars == <<circuit, failures, window, inFlight, demanded>>

CircuitStates == {"CLOSED", "OPEN", "HALF_OPEN"}

Longer(a, b) == IF a > b THEN a ELSE b

EffectiveOpenDuration(retryAfter) == Longer(OpenDuration, retryAfter)

CircuitInit == /\ circuit = "CLOSED"
               /\ failures = 0
               /\ window = 0
               /\ inFlight = 0
               /\ demanded = 0

(* An open circuit lets nothing through before its window has passed; a    *)
(* half-open one lets everything through.                                  *)
BeforeRequest ==
    /\ inFlight < MaxInFlight
    /\ circuit = "OPEN" => window = 0
    /\ circuit' = IF circuit = "OPEN" THEN "HALF_OPEN" ELSE circuit
    /\ inFlight' = inFlight + 1
    /\ UNCHANGED <<failures, window, demanded>>

(* A bug: closes without forgetting the failures.                          *)
RecordSuccessKeepsCount ==
    /\ inFlight > 0
    /\ inFlight' = inFlight - 1
    /\ circuit' = "CLOSED"
    /\ UNCHANGED failures
    /\ window' = 0
    /\ demanded' = 0

(* An answer, and every failure that is not one of availability.           *)
RecordSuccess ==
    /\ inFlight > 0
    /\ inFlight' = inFlight - 1
    /\ circuit' = "CLOSED"
    /\ failures' = 0
    /\ window' = 0
    /\ demanded' = 0

Open(retryAfter) == /\ circuit' = "OPEN"
                    /\ window' = EffectiveOpenDuration(retryAfter)
                    /\ demanded' = Longer(demanded, retryAfter)

(* A bug: the last failure to come in sets the window.                     *)
ReplaceWindow(retryAfter) ==
    /\ window' = EffectiveOpenDuration(retryAfter)
    /\ demanded' = Longer(demanded, retryAfter)
    /\ UNCHANGED <<circuit, failures>>

(* A failure that comes in late never shortens the window.                 *)
ExtendWindow(retryAfter) ==
    /\ window' = Longer(window, EffectiveOpenDuration(retryAfter))
    /\ demanded' = Longer(demanded, retryAfter)
    /\ UNCHANGED <<circuit, failures>>

CountFailure(retryAfter) ==
    /\ failures' = failures + 1
    /\ IF failures + 1 < FailureThreshold
       THEN UNCHANGED <<circuit, window, demanded>>
       ELSE Open(retryAfter)

RecordFailure(retryAfter) ==
    /\ inFlight > 0
    /\ inFlight' = inFlight - 1
    /\ CASE circuit = "HALF_OPEN" -> Open(retryAfter) /\ UNCHANGED failures
         [] circuit = "OPEN"      -> ExtendWindow(retryAfter)
         [] circuit = "CLOSED"    -> CountFailure(retryAfter)

CountDown(ticks) == IF ticks > 0 THEN ticks - 1 ELSE 0

CircuitTick == /\ window > 0
               /\ window' = CountDown(window)
               /\ demanded' = CountDown(demanded)
               /\ UNCHANGED <<circuit, failures, inFlight>>

CircuitNext == \/ BeforeRequest
               \/ RecordSuccess
               \/ \E retryAfter \in RetryAfters : RecordFailure(retryAfter)
               \/ CircuitTick

CircuitSpec == CircuitInit /\ [][CircuitNext]_circuitVars
-----------------------------------------------------------------------------
CircuitTypeOK == /\ circuit \in CircuitStates
                 /\ failures \in 0..FailureThreshold
                 /\ window \in Nat
                 /\ inFlight \in 0..MaxInFlight
                 /\ demanded \in Nat

(* A circuit that opened lets no probe through before the last of the      *)
(* retry-after hints it has met since has run out, in whatever order the   *)
(* failures of requests sent earlier come in.                              *)
ProbeRespectsRetryAfter == circuit = "HALF_OPEN" => demanded = 0
=================================================================================
