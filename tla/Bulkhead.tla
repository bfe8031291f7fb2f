-------------------------------- MODULE Bulkhead --------------------------------
(***************************************************************************)
(* The bulkhead in front of the model providers: permits under a global, a *)
(* per-provider and a per-endpoint limit, and a bounded queue of requests  *)
(* that wait for one.  Nothing looks at the queue except the release of a  *)
(* permit, which promotes the first request that fits, and only that one.  *)
(* A permit carries the attributes of its request, so the request names    *)
(* both.                                                                   *)
(***************************************************************************)
EXTENDS Integers, FiniteSets, Sequences

CONSTANTS Requests,              \* requests; one may ask again when it is done
          ProviderOf,            \* ProviderOf[r]: the provider r calls
          EndpointOf,            \* EndpointOf[r]: the endpoint r calls
          NoEndpoint,            \* a request that names no endpoint
          MaxGlobalActive,
          MaxPerProviderActive,
          MaxPerEndpointActive,
          MaxQueued

ASSUME BulkheadAssumption ==
    /\ IsFiniteSet(Requests)
    /\ MaxGlobalActive \in Nat \ {0}
    /\ MaxPerProviderActive \in Nat \ {0}
    /\ MaxPerEndpointActive \in Nat \ {0}
    /\ MaxQueued \in Nat

VARIABLES active,   \* the requests that hold a permit
          queued    \* the requests that wait for one, oldest first

bulkheadVars == <<active, queued>>

Waiting == {queued[i] : i \in DOMAIN queued}

SameProvider(permits, r) == {p \in permits : ProviderOf[p] = ProviderOf[r]}
SameEndpoint(permits, r) == {p \in permits : EndpointOf[p] = EndpointOf[r]}

HasCapacity(permits, r) ==
    /\ Cardinality(permits) < MaxGlobalActive
    /\ Cardinality(SameProvider(permits, r)) < MaxPerProviderActive
    /\ EndpointOf[r] # NoEndpoint
       => Cardinality(SameEndpoint(permits, r)) < MaxPerEndpointActive

BulkheadInit == active = {} /\ queued = <<>>

(* A request is known to the snapshot as long as it holds a permit or      *)
(* waits for one: a second one under its id is an error.                   *)
Known(r) == r \in active \/ r \in Waiting

AcquirePermit(r) ==
    /\ ~Known(r)
    /\ HasCapacity(active, r)
    /\ active' = active \cup {r}
    /\ UNCHANGED queued

(* A full queue rejects, which changes nothing.                            *)
EnqueueRequest(r) ==
    /\ ~Known(r)
    /\ ~HasCapacity(active, r)
    /\ Len(queued) < MaxQueued
    /\ queued' = Append(queued, r)
    /\ UNCHANGED active

(* A bug: the permit that is being given back still counts.                *)
PromotableBefore(permits) == {i \in DOMAIN queued : HasCapacity(active, queued[i])}

Promotable(permits) == {i \in DOMAIN queued : HasCapacity(permits, queued[i])}

(* A bug: the youngest request first.                                      *)
LastOf(places) == CHOOSE i \in places : \A j \in places : i >= j

FirstOf(places) == CHOOSE i \in places : \A j \in places : i <= j

Without(i) == [j \in 1..Len(queued) - 1 |-> IF j < i THEN queued[j] ELSE queued[j + 1]]

(* The end of a permit, whatever the outcome of its request was.           *)
ReleasePermit(p) ==
    /\ p \in active
    /\ LET left   == active \ {p}
           places == Promotable(left)
       IN  IF places = {}
           THEN active' = left /\ UNCHANGED queued
           ELSE /\ active' = left \cup {queued[FirstOf(places)]}
                /\ queued' = Without(FirstOf(places))

BulkheadNext == \E r \in Requests : \/ AcquirePermit(r)
                                    \/ EnqueueRequest(r)
                                    \/ ReleasePermit(r)

BulkheadSpec == BulkheadInit /\ [][BulkheadNext]_bulkheadVars
-----------------------------------------------------------------------------
BulkheadTypeOK == /\ active \subseteq Requests
                  /\ queued \in Seq(Requests)
                  /\ Len(queued) <= MaxQueued
                  /\ \A i, j \in DOMAIN queued : queued[i] = queued[j] => i = j
                  /\ active \cap Waiting = {}

WithinLimits ==
    /\ Cardinality(active) <= MaxGlobalActive
    /\ \A r \in active :
          /\ Cardinality(SameProvider(active, r)) <= MaxPerProviderActive
          /\ EndpointOf[r] # NoEndpoint
             => Cardinality(SameEndpoint(active, r)) <= MaxPerEndpointActive

(* The limits are kept, an endpoint counts whichever provider uses it, and  *)
(* who waits can be reached: nothing but a release ever looks at the queue, *)
(* so while anybody waits there has to be a permit out whose release will.  *)
WaitsOnlyForRelease == /\ WithinLimits
                       /\ Waiting # {} => active # {}

(* Nobody of another provider calls the endpoint of r.                     *)
OwnEndpoint(r) ==
    EndpointOf[r] # NoEndpoint
    => \A s \in Requests : EndpointOf[s] = EndpointOf[r] => ProviderOf[s] = ProviderOf[r]

(* A request that waits is served, even where a release frees two limits   *)
(* and promotes one request only: no release passes by all that it frees,  *)
(* and no stream of younger requests overtakes it forever.  One that needs *)
(* its provider and an endpoint that others use, too, may find the one or  *)
(* the other taken each time.                                              *)
EveryRequestServed == \A r \in Requests : OwnEndpoint(r) => (r \in Waiting ~> r \in active)
=================================================================================
