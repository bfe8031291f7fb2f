---------------------------- MODULE RuntimeDrainProofs ----------------------------
(***************************************************************************)
(* The bulkhead, for every set of requests and all limits; the drain of a  *)
(* runtime, for every tree of activities, any number of receipts and any   *)
(* number of revocation passes; and the runtime that is composed of these, *)
(* of the lease and of the workspaces.                                     *)
(***************************************************************************)
EXTENDS RuntimePlatform, RunLeaseProofs, FiniteSetTheorems, SequenceTheorems,
        WellFoundedInduction, TLAPS

(* Counting permits                                                        *)

LEMMA PermitsAreFinite ==
    ASSUME NEW P \in SUBSET Requests
    PROVE  IsFiniteSet(P) /\ Cardinality(P) \in Nat
  BY BulkheadAssumption, FS_Subset, FS_CardinalityType

(* One more permit counts for its provider and for its endpoint.           *)
LEMMA AddPermit ==
    ASSUME NEW P \in SUBSET Requests, NEW r \in Requests, r \notin P, NEW s \in Requests
    PROVE  /\ Cardinality(P \cup {r}) = Cardinality(P) + 1
           /\ ProviderOf[r] = ProviderOf[s] =>
                 Cardinality(SameProvider(P \cup {r}, s)) = Cardinality(SameProvider(P, s)) + 1
           /\ ProviderOf[r] # ProviderOf[s] =>
                 Cardinality(SameProvider(P \cup {r}, s)) = Cardinality(SameProvider(P, s))
           /\ EndpointOf[r] = EndpointOf[s] =>
                 Cardinality(SameEndpoint(P \cup {r}, s)) = Cardinality(SameEndpoint(P, s)) + 1
           /\ EndpointOf[r] # EndpointOf[s] =>
                 Cardinality(SameEndpoint(P \cup {r}, s)) = Cardinality(SameEndpoint(P, s))
<1>1. Cardinality(P \cup {r}) = Cardinality(P) + 1
  BY PermitsAreFinite, FS_AddElement
<1>2. /\ SameProvider(P, s) \in SUBSET Requests /\ r \notin SameProvider(P, s)
      /\ SameProvider(P \cup {r}, s) = IF ProviderOf[r] = ProviderOf[s]
                                       THEN SameProvider(P, s) \cup {r}
                                       ELSE SameProvider(P, s)
  BY DEF SameProvider
<1>3. Cardinality(SameProvider(P, s) \cup {r}) = Cardinality(SameProvider(P, s)) + 1
  BY <1>2, PermitsAreFinite, FS_AddElement
<1>4. /\ SameEndpoint(P, s) \in SUBSET Requests /\ r \notin SameEndpoint(P, s)
      /\ SameEndpoint(P \cup {r}, s) = IF EndpointOf[r] = EndpointOf[s]
                                       THEN SameEndpoint(P, s) \cup {r}
                                       ELSE SameEndpoint(P, s)
  BY DEF SameEndpoint
<1>5. Cardinality(SameEndpoint(P, s) \cup {r}) = Cardinality(SameEndpoint(P, s)) + 1
  BY <1>4, PermitsAreFinite, FS_AddElement
<1>6. QED
  BY <1>1, <1>2, <1>3, <1>4, <1>5

LEMMA CountsAreNatural ==
    ASSUME NEW P \in SUBSET Requests, NEW s
    PROVE  /\ Cardinality(P) \in Nat
           /\ Cardinality(SameProvider(P, s)) \in Nat
           /\ Cardinality(SameEndpoint(P, s)) \in Nat
<1>1. SameProvider(P, s) \in SUBSET Requests /\ SameEndpoint(P, s) \in SUBSET Requests
  BY DEF SameProvider, SameEndpoint
<1>2. QED
  BY <1>1, PermitsAreFinite

(* A request that fits may hold a permit.                                  *)
LEMMA GrantKeepsLimits ==
    ASSUME NEW P \in SUBSET Requests, NEW r \in Requests \ P, HasCapacity(P, r),
           \A s \in P : /\ Cardinality(SameProvider(P, s)) <= MaxPerProviderActive
                        /\ EndpointOf[s] # NoEndpoint
                           => Cardinality(SameEndpoint(P, s)) <= MaxPerEndpointActive,
           NEW s \in P \cup {r}
    PROVE  /\ Cardinality(P \cup {r}) <= MaxGlobalActive
           /\ Cardinality(SameProvider(P \cup {r}, s)) <= MaxPerProviderActive
           /\ EndpointOf[s] # NoEndpoint
              => Cardinality(SameEndpoint(P \cup {r}, s)) <= MaxPerEndpointActive
<1> USE BulkheadAssumption
<1>1. s \in Requests /\ r \notin P
  OBVIOUS
<1>2. /\ ProviderOf[r] = ProviderOf[s] => SameProvider(P, s) = SameProvider(P, r)
      /\ EndpointOf[r] = EndpointOf[s] => SameEndpoint(P, s) = SameEndpoint(P, r)
  BY DEF SameProvider, SameEndpoint
<1>3. Cardinality(P \cup {r}) <= MaxGlobalActive
  BY <1>1, AddPermit, CountsAreNatural DEF HasCapacity
<1>4. Cardinality(SameProvider(P \cup {r}, s)) <= MaxPerProviderActive
  <2>1. CASE ProviderOf[r] = ProviderOf[s]
    <3>1. Cardinality(SameProvider(P, s)) < MaxPerProviderActive
      BY <1>2, <2>1 DEF HasCapacity
    <3>2. Cardinality(SameProvider(P \cup {r}, s)) = Cardinality(SameProvider(P, s)) + 1
      BY <1>1, <2>1, AddPermit
    <3>3. QED
      BY <3>1, <3>2, CountsAreNatural
  <2>2. CASE ProviderOf[r] # ProviderOf[s]
    BY <1>1, <2>2, AddPermit
  <2>3. QED
    BY <2>1, <2>2
<1>5. EndpointOf[s] # NoEndpoint
      => Cardinality(SameEndpoint(P \cup {r}, s)) <= MaxPerEndpointActive
  <2>1. CASE EndpointOf[r] = EndpointOf[s] /\ EndpointOf[s] # NoEndpoint
    <3>1. Cardinality(SameEndpoint(P, s)) < MaxPerEndpointActive
      BY <1>2, <2>1 DEF HasCapacity
    <3>2. Cardinality(SameEndpoint(P \cup {r}, s)) = Cardinality(SameEndpoint(P, s)) + 1
      BY <1>1, <2>1, AddPermit
    <3>3. QED
      BY <3>1, <3>2, CountsAreNatural
  <2>2. CASE EndpointOf[r] # EndpointOf[s]
    BY <1>1, <2>2, AddPermit
  <2>3. QED
    BY <2>1, <2>2
<1>6. QED
  BY <1>3, <1>4, <1>5

(* Fewer permits count for less.                                           *)
LEMMA FewerOut ==
    ASSUME NEW P \in SUBSET Requests, NEW r \in Requests \ P, NEW s \in Requests
    PROVE  /\ Cardinality(P) <= Cardinality(P \cup {r})
           /\ Cardinality(SameProvider(P, s)) <= Cardinality(SameProvider(P \cup {r}, s))
           /\ Cardinality(SameEndpoint(P, s)) <= Cardinality(SameEndpoint(P \cup {r}, s))
<1>1. r \notin P
  OBVIOUS
<1>2. /\ Cardinality(P) \in Nat
      /\ Cardinality(SameProvider(P, s)) \in Nat
      /\ Cardinality(SameEndpoint(P, s)) \in Nat
  BY CountsAreNatural
<1>3. /\ Cardinality(P \cup {r}) = Cardinality(P) + 1
      /\ \/ Cardinality(SameProvider(P \cup {r}, s)) = Cardinality(SameProvider(P, s))
         \/ Cardinality(SameProvider(P \cup {r}, s)) = Cardinality(SameProvider(P, s)) + 1
      /\ \/ Cardinality(SameEndpoint(P \cup {r}, s)) = Cardinality(SameEndpoint(P, s))
         \/ Cardinality(SameEndpoint(P \cup {r}, s)) = Cardinality(SameEndpoint(P, s)) + 1
  BY <1>1, AddPermit
<1>4. QED
  BY <1>2, <1>3
-----------------------------------------------------------------------------
(* The queue                                                               *)

LEMMA WaitingFacts ==
    ASSUME BulkheadTypeOK
    PROVE  /\ queued \in Seq(Requests)
           /\ Len(queued) \in Nat /\ DOMAIN queued = 1..Len(queued)
           /\ \A i \in 1..Len(queued) : queued[i] \in Requests /\ queued[i] \in Waiting
           /\ Waiting \subseteq Requests
  BY DEF BulkheadTypeOK, Waiting

LEMMA FirstIsAmong ==
    ASSUME NEW places \in SUBSET Nat, places # {}
    PROVE  FirstOf(places) \in places
<1>1. PICK i \in places : \A j \in places : <<j, i>> \notin OpToRel(<, Nat)
  BY NatLessThanWellFounded, WFMin
<1>2. \A j \in places : ~(j < i)
  BY <1>1 DEF OpToRel
<1>3. \A j \in places : i <= j
  BY <1>2
<1>4. QED
  BY <1>3 DEF FirstOf

LEMMA IntervalsEndAlike ==
    ASSUME NEW m \in Nat, NEW n \in Nat, 1..m = 1..n PROVE m = n
<1>1. m > 0 => m \in 1..n
  OBVIOUS
<1>2. n > 0 => n \in 1..m
  OBVIOUS
<1>3. QED
  BY <1>1, <1>2

(* The queue without one of its requests.                                  *)
LEMMA WithoutFacts ==
    ASSUME BulkheadTypeOK, NEW i \in 1..Len(queued)
    PROVE  /\ Without(i) \in Seq(Requests)
           /\ Len(Without(i)) = Len(queued) - 1
           /\ \A j \in DOMAIN Without(i) :
                 \E k \in 1..Len(queued) : k # i /\ Without(i)[j] = queued[k]
           /\ \A j, k \in DOMAIN Without(i) : Without(i)[j] = Without(i)[k] => j = k
<1> USE WaitingFacts
<1> DEFINE n == Len(queued) - 1
           Place(j) == IF j < i THEN j ELSE j + 1
<1>1. n \in Nat /\ DOMAIN Without(i) = 1..n
  BY DEF Without
<1>2. ASSUME NEW j \in 1..n
      PROVE  /\ Place(j) \in 1..Len(queued) /\ Place(j) # i
             /\ Without(i)[j] = queued[Place(j)]
  BY <1>1 DEF Without
<1>3. \A j, k \in 1..n : Place(j) = Place(k) => j = k
  BY <1>1
<1>4. Without(i) \in [1..n -> Requests]
  <2>1. Without(i) = [j \in 1..n |-> Without(i)[j]]
    BY DEF Without
  <2>2. \A j \in 1..n : Without(i)[j] \in Requests
    BY <1>2
  <2>3. QED
    BY <2>1, <2>2
<1>5. Without(i) \in Seq(Requests) /\ Len(Without(i)) = n
  <2>1. Without(i) \in Seq(Requests)
    BY <1>1, <1>4, SeqDef
  <2>2. Len(Without(i)) \in Nat /\ DOMAIN Without(i) = 1..Len(Without(i))
    BY <2>1
  <2>3. Len(Without(i)) = n
    BY <1>1, <2>2, IntervalsEndAlike
  <2>4. QED
    BY <2>1, <2>3
<1> HIDE DEF Place
<1>6. \A j \in DOMAIN Without(i) :
         \E k \in 1..Len(queued) : k # i /\ Without(i)[j] = queued[k]
  BY <1>1, <1>2
<1>7. ASSUME NEW j \in 1..n, NEW k \in 1..n, Without(i)[j] = Without(i)[k]
      PROVE  Place(j) = Place(k)
  <2>1. queued[Place(j)] = queued[Place(k)]
    BY <1>2, <1>7
  <2>2. Place(j) \in DOMAIN queued /\ Place(k) \in DOMAIN queued
    BY <1>2
  <2>3. QED
    BY <2>1, <2>2 DEF BulkheadTypeOK
<1>8. QED
  BY <1>1, <1>3, <1>5, <1>6, <1>7

(* A release gives the permit to the first that fits, and only then leaves *)
(* the others waiting.                                                     *)
LEMMA ReleaseFacts ==
    ASSUME BulkheadTypeOK, NEW p \in active, ReleasePermit(p)
    PROVE  \/ /\ active' = active \ {p} /\ queued' = queued
              /\ \A r \in Waiting : ~HasCapacity(active \ {p}, r)
           \/ \E i \in 1..Len(queued) :
                 /\ HasCapacity(active \ {p}, queued[i])
                 /\ active' = (active \ {p}) \cup {queued[i]}
                 /\ queued' = Without(i)
<1> DEFINE places == Promotable(active \ {p})
<1>1. CASE places = {}
  <2>1. active' = active \ {p} /\ queued' = queued
    BY <1>1 DEF ReleasePermit
  <2>2. \A r \in Waiting : ~HasCapacity(active \ {p}, r)
    BY <1>1 DEF Promotable, Waiting
  <2>3. QED
    BY <2>1, <2>2
<1>2. CASE places # {}
  <2>1. places \in SUBSET Nat
    BY WaitingFacts DEF Promotable
  <2>2. FirstOf(places) \in places
    BY <1>2, <2>1, FirstIsAmong
  <2>3. /\ FirstOf(places) \in 1..Len(queued)
        /\ HasCapacity(active \ {p}, queued[FirstOf(places)])
    BY <2>2, WaitingFacts DEF Promotable
  <2>4. /\ active' = (active \ {p}) \cup {queued[FirstOf(places)]}
        /\ queued' = Without(FirstOf(places))
    BY <1>2 DEF ReleasePermit
  <2>5. QED
    BY <2>3, <2>4
<1>3. QED
  BY <1>1, <1>2

LEMMA PromotionFacts ==
    ASSUME BulkheadTypeOK, NEW i \in 1..Len(queued), queued' = Without(i)
    PROVE  /\ Waiting' = Waiting \ {queued[i]}
           /\ queued[i] \in Waiting /\ queued[i] \in Requests \ active
<1>1. queued[i] \in Waiting /\ queued[i] \in Requests \ active
  BY WaitingFacts DEF BulkheadTypeOK
<1>2. ASSUME NEW j \in DOMAIN queued'
      PROVE  queued'[j] \in Waiting \ {queued[i]}
  BY <1>2, WithoutFacts, WaitingFacts DEF BulkheadTypeOK
<1>3. ASSUME NEW r \in Waiting \ {queued[i]} PROVE r \in Waiting'
  <2>1. PICK k \in 1..Len(queued) : queued[k] = r
    BY WaitingFacts DEF Waiting
  <2> DEFINE j == IF k < i THEN k ELSE k - 1
  <2>2. k # i
    BY <1>3, <2>1
  <2>3. j \in 1..Len(queued) - 1 /\ (IF j < i THEN j ELSE j + 1) = k
    BY <2>2, WaitingFacts
  <2>4. j \in DOMAIN queued' /\ queued'[j] = r
    BY <2>1, <2>3 DEF Without
  <2>5. QED
    BY <2>4 DEF Waiting
<1>4. QED
  BY <1>1, <1>2, <1>3 DEF Waiting
-----------------------------------------------------------------------------
(* The bulkhead                                                            *)

LEMMA BulkheadInitially == BulkheadInit => BulkheadTypeOK
  BY BulkheadAssumption DEF BulkheadInit, BulkheadTypeOK, Waiting

LEMMA EnqueueFacts ==
    ASSUME BulkheadTypeOK, NEW r \in Requests, EnqueueRequest(r)
    PROVE  /\ BulkheadTypeOK'
           /\ Waiting' = Waiting \cup {r}
<1>1. /\ queued' = Append(queued, r) /\ active' = active
      /\ r \notin active /\ r \notin Waiting
      /\ Len(queued) < MaxQueued
  BY DEF EnqueueRequest, Known
<1>2. /\ queued' \in Seq(Requests)
      /\ Len(queued') = Len(queued) + 1
      /\ DOMAIN queued' = 1..Len(queued) + 1
      /\ \A j \in 1..Len(queued) : queued'[j] = queued[j]
      /\ queued'[Len(queued) + 1] = r
  BY <1>1, WaitingFacts
<1>3. Waiting' = Waiting \cup {r}
  <2>1. ASSUME NEW j \in DOMAIN queued' PROVE queued'[j] \in Waiting \cup {r}
    BY <1>2, <2>1, WaitingFacts
  <2>2. r \in Waiting'
    BY <1>2, WaitingFacts DEF Waiting
  <2>3. ASSUME NEW s \in Waiting PROVE s \in Waiting'
    <3>1. PICK j \in 1..Len(queued) : queued[j] = s
      BY WaitingFacts DEF Waiting
    <3>2. QED
      BY <1>2, <3>1, WaitingFacts DEF Waiting
  <2>4. QED
    BY <2>1, <2>2, <2>3 DEF Waiting
<1>4. ASSUME NEW j \in DOMAIN queued', NEW k \in DOMAIN queued', queued'[j] = queued'[k]
      PROVE  j = k
  <2>1. \A l \in 1..Len(queued) : queued'[l] # r
    BY <1>1, <1>2, WaitingFacts
  <2>2. QED
    BY <1>2, <1>4, <2>1, WaitingFacts DEF BulkheadTypeOK
<1>5. Len(queued') <= MaxQueued
  BY <1>1, <1>2, WaitingFacts, BulkheadAssumption
<1>6. active' \cap Waiting' = {}
  BY <1>1, <1>3 DEF BulkheadTypeOK
<1>7. QED
  BY <1>1, <1>2, <1>3, <1>4, <1>5, <1>6 DEF BulkheadTypeOK

LEMMA AcquireFacts ==
    ASSUME BulkheadTypeOK, NEW r \in Requests, AcquirePermit(r)
    PROVE  /\ BulkheadTypeOK'
           /\ Waiting' = Waiting
           /\ r \in Requests \ active /\ HasCapacity(active, r)
           /\ active' = active \cup {r}
<1>1. /\ queued' = queued /\ active' = active \cup {r}
      /\ r \notin active /\ r \notin Waiting /\ HasCapacity(active, r)
  BY DEF AcquirePermit, Known
<1>2. Waiting' = Waiting
  BY <1>1 DEF Waiting
<1>3. QED
  BY <1>1, <1>2 DEF BulkheadTypeOK

LEMMA ReleaseKeepsType ==
    ASSUME BulkheadTypeOK, NEW p \in active, ReleasePermit(p)
    PROVE  BulkheadTypeOK'
<1>1. CASE active' = active \ {p} /\ queued' = queued
  <2>1. Waiting' = Waiting
    BY <1>1 DEF Waiting
  <2>2. QED
    BY <1>1, <2>1 DEF BulkheadTypeOK
<1>2. ASSUME NEW i \in 1..Len(queued),
             active' = (active \ {p}) \cup {queued[i]}, queued' = Without(i)
      PROVE  BulkheadTypeOK'
  <2>1. /\ Waiting' \subseteq Waiting \ {queued[i]}
        /\ queued[i] \in Requests \ active
    BY <1>2, PromotionFacts
  <2>2. /\ queued' \in Seq(Requests)
        /\ \A j, k \in DOMAIN queued' : queued'[j] = queued'[k] => j = k
        /\ Len(queued') = Len(queued) - 1
    BY <1>2, WithoutFacts
  <2>3. Len(queued') <= MaxQueued
    BY <2>2, WaitingFacts, BulkheadAssumption DEF BulkheadTypeOK
  <2>4. active' \subseteq Requests /\ active' \cap Waiting' = {}
    BY <1>2, <2>1 DEF BulkheadTypeOK
  <2>5. QED
    BY <2>2, <2>3, <2>4 DEF BulkheadTypeOK
<1>3. QED
  BY <1>1, <1>2, ReleaseFacts

LEMMA BulkheadTypeStep ==
    ASSUME BulkheadTypeOK, [BulkheadNext]_bulkheadVars PROVE BulkheadTypeOK'
<1>1. ASSUME NEW r \in Requests, AcquirePermit(r) PROVE BulkheadTypeOK'
  BY <1>1, AcquireFacts
<1>2. ASSUME NEW r \in Requests, EnqueueRequest(r) PROVE BulkheadTypeOK'
  BY <1>2, EnqueueFacts
<1>3. ASSUME NEW r \in Requests, ReleasePermit(r) PROVE BulkheadTypeOK'
  <2>1. r \in active
    BY <1>3 DEF ReleasePermit
  <2>2. QED
    BY <1>3, <2>1, ReleaseKeepsType
<1>4. ASSUME UNCHANGED bulkheadVars PROVE BulkheadTypeOK'
  BY <1>4 DEF bulkheadVars, BulkheadTypeOK, Waiting
<1>5. QED
  BY <1>1, <1>2, <1>3, <1>4 DEF BulkheadNext

(* No request holds a permit and waits for one, none waits twice, and the  *)
(* queue keeps its limit.                                                  *)
THEOREM BulkheadTypeCorrect == BulkheadSpec => []BulkheadTypeOK
<1>1. BulkheadTypeOK /\ [BulkheadNext]_bulkheadVars => BulkheadTypeOK'
  BY BulkheadTypeStep
<1>2. QED
  BY BulkheadInitially, <1>1, PTL DEF BulkheadSpec

LEMMA LimitsStep ==
    ASSUME BulkheadTypeOK, WithinLimits, [BulkheadNext]_bulkheadVars
    PROVE  WithinLimits'
<1>1. ASSUME NEW r \in Requests, AcquirePermit(r) PROVE WithinLimits'
  <2>1. /\ Waiting' = Waiting
        /\ r \in Requests \ active /\ HasCapacity(active, r)
        /\ active' = active \cup {r}
    BY <1>1, AcquireFacts
  <2>2. active \in SUBSET Requests
    BY DEF BulkheadTypeOK
  <2>3. \A s \in active \cup {r} :
           /\ Cardinality(active \cup {r}) <= MaxGlobalActive
           /\ Cardinality(SameProvider(active \cup {r}, s)) <= MaxPerProviderActive
           /\ EndpointOf[s] # NoEndpoint
              => Cardinality(SameEndpoint(active \cup {r}, s)) <= MaxPerEndpointActive
    BY <2>1, <2>2, GrantKeepsLimits DEF WithinLimits
  <2>4. QED
    BY <2>1, <2>3 DEF WithinLimits
<1>2. ASSUME NEW r \in Requests, EnqueueRequest(r) PROVE WithinLimits'
  BY <1>2 DEF EnqueueRequest, WithinLimits
<1>3. ASSUME NEW p \in Requests, ReleasePermit(p) PROVE WithinLimits'
  <2> DEFINE left == active \ {p}
  <2>1. /\ p \in active
        /\ active \in SUBSET Requests /\ left \in SUBSET Requests
        /\ p \in Requests \ left /\ active = left \cup {p}
    BY <1>3 DEF ReleasePermit, BulkheadTypeOK
  <2>2. /\ Cardinality(left) <= MaxGlobalActive
        /\ \A s \in left :
              /\ Cardinality(SameProvider(left, s)) <= MaxPerProviderActive
              /\ EndpointOf[s] # NoEndpoint
                 => Cardinality(SameEndpoint(left, s)) <= MaxPerEndpointActive
    <3>1. Cardinality(left) <= MaxGlobalActive
      <4>1. Cardinality(left) <= Cardinality(active)
        BY <2>1, FewerOut
      <4>2. Cardinality(left) \in Nat /\ Cardinality(active) \in Nat
        BY <2>1, CountsAreNatural
      <4>3. QED
        BY <4>1, <4>2, BulkheadAssumption DEF WithinLimits
    <3>2. ASSUME NEW s \in left
          PROVE  /\ Cardinality(SameProvider(left, s)) <= MaxPerProviderActive
                 /\ EndpointOf[s] # NoEndpoint
                    => Cardinality(SameEndpoint(left, s)) <= MaxPerEndpointActive
      <4>1. /\ Cardinality(SameProvider(left, s)) <= Cardinality(SameProvider(active, s))
            /\ Cardinality(SameEndpoint(left, s)) <= Cardinality(SameEndpoint(active, s))
        BY <2>1, FewerOut
      <4>2. /\ Cardinality(SameProvider(active, s)) <= MaxPerProviderActive
            /\ EndpointOf[s] # NoEndpoint
               => Cardinality(SameEndpoint(active, s)) <= MaxPerEndpointActive
        BY DEF WithinLimits
      <4>3. /\ Cardinality(SameProvider(left, s)) \in Nat
            /\ Cardinality(SameEndpoint(left, s)) \in Nat
            /\ Cardinality(SameProvider(active, s)) \in Nat
            /\ Cardinality(SameEndpoint(active, s)) \in Nat
        BY <2>1, CountsAreNatural
      <4>4. QED
        BY <4>1, <4>2, <4>3, BulkheadAssumption
    <3>3. QED
      BY <3>1, <3>2
  <2> HIDE DEF left
  <2>3. CASE active' = left
    BY <2>2, <2>3 DEF WithinLimits
  <2>4. ASSUME NEW i \in 1..Len(queued), HasCapacity(left, queued[i]),
               active' = left \cup {queued[i]}, queued' = Without(i)
        PROVE  WithinLimits'
    <3>1. queued[i] \in Requests \ left
      BY <2>1, <2>4, PromotionFacts
    <3>2. \A s \in left \cup {queued[i]} :
             /\ Cardinality(left \cup {queued[i]}) <= MaxGlobalActive
             /\ Cardinality(SameProvider(left \cup {queued[i]}, s)) <= MaxPerProviderActive
             /\ EndpointOf[s] # NoEndpoint
                => Cardinality(SameEndpoint(left \cup {queued[i]}, s)) <= MaxPerEndpointActive
      BY <2>1, <2>2, <2>4, <3>1, GrantKeepsLimits
    <3>3. QED
      BY <2>4, <3>2 DEF WithinLimits
  <2>5. \/ active' = left
        \/ \E i \in 1..Len(queued) : /\ HasCapacity(left, queued[i])
                                     /\ active' = left \cup {queued[i]}
                                     /\ queued' = Without(i)
    BY <1>3, <2>1, ReleaseFacts DEF left
  <2>6. QED
    BY <2>3, <2>4, <2>5
<1>4. ASSUME UNCHANGED bulkheadVars PROVE WithinLimits'
  BY <1>4 DEF bulkheadVars, WithinLimits
<1>5. QED
  BY <1>1, <1>2, <1>3, <1>4 DEF BulkheadNext

LEMMA LimitsInitially == BulkheadInit => WithinLimits
  BY FS_EmptySet, BulkheadAssumption DEF BulkheadInit, WithinLimits

(* With no permit out nobody waits for one.                                *)
QueueMoves == active = {} => queued = <<>>

LEMMA EmptyBulkheadFits ==
    ASSUME NEW r PROVE HasCapacity({}, r)
<1>1. SameProvider({}, r) = {} /\ SameEndpoint({}, r) = {}
  BY DEF SameProvider, SameEndpoint
<1>2. Cardinality({}) = 0
  BY FS_EmptySet
<1>3. QED
  BY <1>1, <1>2, BulkheadAssumption DEF HasCapacity

LEMMA QueueMovesStep ==
    ASSUME BulkheadTypeOK, QueueMoves, [BulkheadNext]_bulkheadVars PROVE QueueMoves'
<1> USE DEF QueueMoves
<1>1. ASSUME NEW r \in Requests, AcquirePermit(r) PROVE QueueMoves'
  BY <1>1 DEF AcquirePermit
<1>2. ASSUME NEW r \in Requests, EnqueueRequest(r) PROVE QueueMoves'
  BY <1>2, EmptyBulkheadFits DEF EnqueueRequest
<1>3. ASSUME NEW p \in Requests, ReleasePermit(p), active' = {} PROVE queued' = <<>>
  <2>1. p \in active
    BY <1>3 DEF ReleasePermit
  <2>2. /\ queued' = queued /\ active' = active \ {p}
        /\ \A r \in Waiting : ~HasCapacity(active \ {p}, r)
    BY <1>3, <2>1, ReleaseFacts
  <2>3. Waiting = {}
    BY <1>3, <2>2, EmptyBulkheadFits
  <2>4. Len(queued) = 0
    BY <2>3, WaitingFacts
  <2>5. QED
    BY <2>2, <2>4, WaitingFacts
<1>4. ASSUME UNCHANGED bulkheadVars PROVE QueueMoves'
  BY <1>4 DEF bulkheadVars
<1>5. QED
  BY <1>1, <1>2, <1>3, <1>4 DEF BulkheadNext

(* The three limits are kept for every assignment of requests to providers *)
(* and endpoints, shared ones included, and nobody waits while no permit   *)
(* is out whose release would look at the queue.                           *)
THEOREM WaitsOnlyForReleaseHolds == BulkheadSpec => []WaitsOnlyForRelease
<1>1. BulkheadInit => WithinLimits /\ QueueMoves
  BY LimitsInitially DEF BulkheadInit, QueueMoves
<1>2. BulkheadTypeOK /\ WithinLimits /\ QueueMoves /\ [BulkheadNext]_bulkheadVars
      => WithinLimits' /\ QueueMoves'
  BY LimitsStep, QueueMovesStep
<1>3. WithinLimits /\ QueueMoves => WaitsOnlyForRelease
  BY DEF QueueMoves, WaitsOnlyForRelease, Waiting
<1>4. QED
  BY BulkheadTypeCorrect, <1>1, <1>2, <1>3, PTL DEF BulkheadSpec
-----------------------------------------------------------------------------
(* The receipts                                                            *)

(* What a pass attempts and is not revoked is still tracked, and the pass  *)
(* has still to look at it, awaits it, or has it among its failures.       *)
PassesKnow ==
    \A v \in Passes :
       /\ pass[v].attempted \subseteq injected
       /\ pass[v].attempted \cap live \subseteq tracked
       /\ pass[v].attempted \cap live
             \subseteq pass[v].todo \cup {pass[v].awaited} \cup pass[v].failures

ReceiptsInv == ReceiptsTypeOK /\ PassesKnow

LEMMA ReceiptsInitially == ReceiptsInit => ReceiptsInv
  BY DEF ReceiptsInit, ReceiptsInv, ReceiptsTypeOK, PassesKnow, PassStates, NoPass

LEMMA StartPassStep ==
    ASSUME ReceiptsInv, NEW v \in Passes, NEW attempted \in SUBSET tracked,
           StartPass(v, attempted)
    PROVE  ReceiptsInv'
<1> DEFINE new == [attempted |-> attempted, todo |-> attempted,
                   awaited |-> NoReceipt, failures |-> {}]
<1>1. pass' = [pass EXCEPT ![v] = new] /\ UNCHANGED <<injected, live, tracked, lost>>
  BY DEF StartPass
<1>2. new \in PassStates
  BY DEF ReceiptsInv, ReceiptsTypeOK, PassStates
<1>3. ReceiptsTypeOK'
  BY <1>1, <1>2 DEF ReceiptsInv, ReceiptsTypeOK
<1>4. PassesKnow'
  BY <1>1 DEF ReceiptsInv, ReceiptsTypeOK, PassesKnow
<1>5. QED
  BY <1>3, <1>4 DEF ReceiptsInv

LEMMA RevocationKeeps ==
    ASSUME ReceiptsInv, NEW v \in Passes, RevocationStep(v) PROVE ReceiptsInv'
<1> USE DEF ReceiptsInv, ReceiptsTypeOK, PassesKnow, PassStates
<1>1. ASSUME RevokeAll(v) PROVE ReceiptsInv'
  BY <1>1, StartPassStep DEF RevokeAll
<1>2. ASSUME RevokeExpired(v) PROVE ReceiptsInv'
  BY <1>2, StartPassStep DEF RevokeExpired
<1>3. ASSUME NEW r \in Receipts, SkipReceipt(v, r) PROVE ReceiptsInv'
  BY <1>3 DEF SkipReceipt
<1>4. ASSUME NEW r \in Receipts, CallRevoke(v, r) PROVE ReceiptsInv'
  <2>1. /\ pass'[v].attempted = pass[v].attempted /\ pass'[v].awaited = r
        /\ pass'[v].todo = pass[v].todo \ {r} /\ pass'[v].failures = pass[v].failures
        /\ \A u \in Passes : u # v => pass'[u] = pass[u]
        /\ UNCHANGED <<injected, live, tracked, lost>>
    BY <1>4 DEF CallRevoke
  <2>2. ReceiptsTypeOK'
    <3>1. pass'[v] \in PassStates /\ pass' = [u \in Passes |-> pass'[u]]
      BY <1>4 DEF CallRevoke
    <3>2. live' \subseteq injected' /\ UNCHANGED <<injected, tracked, lost>>
      BY <1>4 DEF CallRevoke
    <3> HIDE DEF PassStates
    <3>3. pass' \in [Passes -> PassStates]
      BY <2>1, <3>1
    <3>4. QED
      BY <3>2, <3>3
  <2>3. NoReceipt \notin live /\ pass[v].awaited = NoReceipt
    BY <1>4, RuntimeDrainAssumption DEF CallRevoke
  <2>4. QED
    BY <2>1, <2>2, <2>3
<1>5. ASSUME NEW r \in Receipts, RevokeSucceeds(v, r) PROVE ReceiptsInv'
  BY <1>5 DEF RevokeSucceeds
<1>6. ASSUME NEW r \in Receipts, RevokeFails(v, r) PROVE ReceiptsInv'
  <2>1. /\ pass'[v].attempted = pass[v].attempted /\ pass[v].awaited = r
        /\ pass'[v].todo = pass[v].todo /\ pass'[v].failures = pass[v].failures \cup {r}
        /\ \A u \in Passes : u # v => pass'[u] = pass[u]
        /\ live' \subseteq live
        /\ UNCHANGED <<injected, tracked, lost>>
    BY <1>6 DEF RevokeFails
  <2>2. ReceiptsTypeOK'
    <3>1. pass'[v] \in PassStates /\ pass' = [u \in Passes |-> pass'[u]]
      BY <1>6 DEF RevokeFails
    <3>2. live' \subseteq injected' /\ UNCHANGED <<injected, tracked, lost>>
      BY <1>6 DEF RevokeFails
    <3> HIDE DEF PassStates
    <3>3. pass' \in [Passes -> PassStates]
      BY <2>1, <3>1
    <3>4. QED
      BY <3>2, <3>3
  <2>3. QED
    BY <2>1, <2>2
<1>7. QED
  BY <1>1, <1>2, <1>3, <1>4, <1>5, <1>6 DEF RevocationStep

LEMMA ReceiptsKeep ==
    ASSUME ReceiptsInv, [ReceiptsNext]_receiptVars PROVE ReceiptsInv'
<1> USE DEF ReceiptsInv, ReceiptsTypeOK, PassesKnow
<1>1. ASSUME NEW r \in Receipts, InjectSecret(r) PROVE ReceiptsInv'
  BY <1>1 DEF InjectSecret, PassStates
<1>2. ASSUME NEW r \in Receipts, TrackReceipt(r) PROVE ReceiptsInv'
  BY <1>2 DEF TrackReceipt
<1>3. ASSUME NEW v \in Passes, RevocationStep(v) PROVE ReceiptsInv'
  BY <1>3, RevocationKeeps
<1>4. ASSUME UNCHANGED receiptVars PROVE ReceiptsInv'
  BY <1>4 DEF receiptVars
<1>5. QED
  BY <1>1, <1>2, <1>3, <1>4 DEF ReceiptsNext

LEMMA ReceiptsInvariant == ReceiptsSpec => []ReceiptsInv
<1>1. ReceiptsInv /\ [ReceiptsNext]_receiptVars => ReceiptsInv'
  BY ReceiptsKeep
<1>2. QED
  BY ReceiptsInitially, <1>1, PTL DEF ReceiptsSpec

LEMMA ReceiptsRevoked == ReceiptsInv => CompleteMeansRevoked
  BY RuntimeDrainAssumption
  DEF ReceiptsInv, ReceiptsTypeOK, PassesKnow, CompleteMeansRevoked, Complete, PassIsOver

(* What the scope holds was injected, and a pass attempts receipts only.   *)
THEOREM ReceiptsTypeCorrect == ReceiptsSpec => []ReceiptsTypeOK
<1>1. ReceiptsInv => ReceiptsTypeOK
  BY DEF ReceiptsInv
<1>2. QED
  BY ReceiptsInvariant, <1>1, PTL
-----------------------------------------------------------------------------
(* The drain                                                               *)

(* A step of the runtime is a step of its bulkhead, or none.               *)
LEMMA BulkheadPart == ASSUME [RuntimeNext]_runtimeVars PROVE [BulkheadNext]_bulkheadVars
<1> USE DEF bulkheadVars
<1>1. ASSUME NEW a \in Activities, Submit(a) PROVE BulkheadNext
  BY <1>1 DEF Submit, BulkheadNext, Activities
<1>2. ASSUME NEW a \in Activities, Settle(a) PROVE BulkheadNext
  BY <1>2 DEF Settle, BulkheadNext, Activities
<1>3. ASSUME NEW a \in Activities, Inject(a) \/ Track(a) \/ Cancel(a)
      PROVE  UNCHANGED bulkheadVars
  BY <1>3 DEF Inject, Track, Cancel
<1>4. ASSUME \/ \E v \in Passes : Revocation(v)
             \/ PersistCheckpoint \/ ReleaseLease \/ GatherEvidence \/ TransitionRuntimeDrain
             \/ UNCHANGED runtimeVars
      PROVE  UNCHANGED bulkheadVars
  BY <1>4 DEF Revocation, PersistCheckpoint, ReleaseLease, GatherEvidence,
              TransitionRuntimeDrain, runtimeVars
<1>5. QED
  BY <1>1, <1>2, <1>3, <1>4 DEF RuntimeNext

(* A step of the runtime is a step of its receipts, or none.               *)
LEMMA ReceiptsPart == ASSUME [RuntimeNext]_runtimeVars PROVE [ReceiptsNext]_receiptVars
<1> USE DEF receiptVars
<1>1. ASSUME NEW a \in Activities, Inject(a) \/ Track(a) PROVE ReceiptsNext
  BY <1>1, RuntimeDrainAssumption DEF Inject, Track, ReceiptsNext
<1>2. ASSUME NEW a \in Activities, Submit(a) \/ Settle(a) \/ Cancel(a)
      PROVE  UNCHANGED receiptVars
  BY <1>2 DEF Submit, Settle, Cancel
<1>3. ASSUME NEW v \in Passes, Revocation(v) PROVE ReceiptsNext
  BY <1>3 DEF Revocation, ReceiptsNext
<1>4. ASSUME \/ PersistCheckpoint \/ ReleaseLease \/ GatherEvidence \/ TransitionRuntimeDrain
             \/ UNCHANGED runtimeVars
      PROVE  UNCHANGED receiptVars
  BY <1>4 DEF PersistCheckpoint, ReleaseLease, GatherEvidence, TransitionRuntimeDrain,
              runtimeVars
<1>5. QED
  BY <1>1, <1>2, <1>3, <1>4 DEF RuntimeNext

(* The drain composes the bulkhead as it is: whatever the activities, the  *)
(* cancellations and the revocations do, the bulkhead sees a behaviour of  *)
(* its own specification.                                                  *)
THEOREM DrainUsesBulkhead == RuntimeSpec => BulkheadSpec
<1>1. RuntimeInit => BulkheadInit
  BY DEF RuntimeInit
<1>2. [RuntimeNext]_runtimeVars => [BulkheadNext]_bulkheadVars
  BY BulkheadPart
<1>3. QED
  BY <1>1, <1>2, PTL DEF RuntimeSpec, BulkheadSpec

(* It composes the scope of the secrets as it is, too: activities inject   *)
(* and track only as the scope allows, and nothing else touches it.        *)
THEOREM DrainUsesReceipts == RuntimeSpec => ReceiptsSpec
<1>1. RuntimeInit => ReceiptsInit
  BY DEF RuntimeInit
<1>2. [RuntimeNext]_runtimeVars => [ReceiptsNext]_receiptVars
  BY ReceiptsPart
<1>3. QED
  BY <1>1, <1>2, PTL DEF RuntimeSpec, ReceiptsSpec

(* A revocation pass that reports itself complete left none of the secrets *)
(* it attempted alive, whatever other passes did to the same receipts.     *)
THEOREM CompleteMeansRevokedHolds == RuntimeSpec => []CompleteMeansRevoked
  BY DrainUsesReceipts, ReceiptsInvariant, ReceiptsRevoked, PTL
-----------------------------------------------------------------------------
(* Stopping                                                                *)

LifecycleTypeOK == /\ activity \in [Activities -> LifecycleStates]
                   /\ drain \in DrainStates
                   /\ evidence \in BOOLEAN
                   /\ checkpointed \in BOOLEAN
                   /\ leaseHeld \in BOOLEAN

(* A secret that is alive, not tracked and not lost was injected for an    *)
(* activity that still has its permit: it ends only when tracking has      *)
(* returned or thrown.                                                     *)
InjectionsOwned ==
    \A r \in live \ (tracked \cup lost) : \E a \in active : ReceiptOf[a] = r

(* What was gathered as evidence still holds when it is used.              *)
Settled == \/ drain \in {"RELEASING", "STOPPED"}
           \/ drain = "CHECKPOINTED" /\ evidence
Cleared == \/ drain = "STOPPED"
           \/ drain = "RELEASING" /\ evidence
EvidenceLasts ==
    /\ Settled => ActivitiesSettled
    /\ Cleared => active = {} /\ ~leaseHeld /\ tracked = {}

DrainInv == /\ BulkheadTypeOK /\ ReceiptsInv /\ LifecycleTypeOK
            /\ QueueMoves /\ InjectionsOwned /\ EvidenceLasts

LEMMA DrainInitially == RuntimeInit => DrainInv
  BY BulkheadInitially, ReceiptsInitially
  DEF RuntimeInit, DrainInv, LifecycleTypeOK, LifecycleStates, DrainStates, QueueMoves,
      BulkheadInit, InjectionsOwned, ReceiptsInit, EvidenceLasts, Settled, Cleared

(* Nothing is started any more, and no activity that is settled comes      *)
(* back: the promotion of a cancelled request leaves it cancelled.         *)
LEMMA SettledStays ==
    ASSUME LifecycleTypeOK, ActivitiesSettled, ~AcceptsNewWork, [RuntimeNext]_runtimeVars
    PROVE  ActivitiesSettled'
<1> USE DEF ActivitiesSettled, Terminal, LifecycleTypeOK
<1>1. ASSUME NEW a \in Activities, Submit(a) PROVE FALSE
  BY <1>1 DEF Submit
<1>2. ASSUME NEW a \in Activities, Settle(a) PROVE ActivitiesSettled'
  <2>1. PICK outcome \in TerminalOutcomes(activity[a]) :
           activity' = [b \in Activities |->
              IF b = a THEN outcome
              ELSE IF b \in active' \ active /\ activity[b] = "QUEUED" THEN "RUNNING"
              ELSE activity[b]]
    BY <1>2 DEF Settle
  <2>2. outcome \in Terminal
    BY <2>1 DEF TerminalOutcomes
  <2>3. ASSUME NEW b \in Activities PROVE activity'[b] \in Terminal \cup {"NEW"}
    BY <2>1, <2>2
  <2>4. QED
    BY <2>3
<1>3. ASSUME NEW root \in Activities, Cancel(root) PROVE ActivitiesSettled'
  <2>1. \A a \in Activities : CancellationAction(a) = activity[a]
    BY DEF CancellationAction
  <2>2. \A a \in Activities : activity'[a] = activity[a]
    BY <1>3, <2>1 DEF Cancel
  <2>3. QED
    BY <2>2
<1>4. ASSUME \/ \E a \in Activities : Inject(a) \/ Track(a)
             \/ \E v \in Passes : Revocation(v)
             \/ PersistCheckpoint \/ ReleaseLease \/ GatherEvidence \/ TransitionRuntimeDrain
             \/ UNCHANGED runtimeVars
      PROVE  activity' = activity
  BY <1>4 DEF Inject, Track, Revocation, PersistCheckpoint, ReleaseLease, GatherEvidence,
              TransitionRuntimeDrain, runtimeVars, drainVars
<1>5. QED
  BY <1>1, <1>2, <1>3, <1>4 DEF RuntimeNext

LEMMA LifecycleTypeStep ==
    ASSUME LifecycleTypeOK, [RuntimeNext]_runtimeVars PROVE LifecycleTypeOK'
<1> USE DEF LifecycleTypeOK, LifecycleStates, DrainStates
<1>1. ASSUME NEW a \in Activities, Submit(a) PROVE LifecycleTypeOK'
  BY <1>1 DEF Submit
<1>2. ASSUME NEW a \in Activities, Settle(a) PROVE LifecycleTypeOK'
  <2>1. TerminalOutcomes(activity[a]) \subseteq LifecycleStates
    BY DEF TerminalOutcomes, Terminal
  <2>2. activity' \in [Activities -> LifecycleStates]
    BY <1>2, <2>1 DEF Settle
  <2>3. QED
    BY <1>2, <2>2 DEF Settle
<1>3. ASSUME NEW root \in Activities, Cancel(root) PROVE LifecycleTypeOK'
  <2>1. \A a \in Activities : CancellationAction(a) \in LifecycleStates
    BY DEF CancellationAction
  <2>2. activity' \in [Activities -> LifecycleStates]
    BY <1>3, <2>1 DEF Cancel
  <2>3. QED
    BY <1>3, <2>2 DEF Cancel
<1>4. ASSUME \/ \E a \in Activities : Inject(a) \/ Track(a)
             \/ \E v \in Passes : Revocation(v)
             \/ UNCHANGED runtimeVars
      PROVE  LifecycleTypeOK'
  BY <1>4 DEF Inject, Track, Revocation, runtimeVars, drainVars
<1>5. ASSUME PersistCheckpoint \/ ReleaseLease \/ GatherEvidence PROVE LifecycleTypeOK'
  BY <1>5 DEF PersistCheckpoint, ReleaseLease, GatherEvidence
<1>6. ASSUME TransitionRuntimeDrain PROVE LifecycleTypeOK'
  BY <1>6 DEF TransitionRuntimeDrain, NextDrainState
<1>7. QED
  BY <1>1, <1>2, <1>3, <1>4, <1>5, <1>6 DEF RuntimeNext

LEMMA InjectionsStep ==
    ASSUME BulkheadTypeOK, ReceiptsInv, InjectionsOwned, [RuntimeNext]_runtimeVars
    PROVE  InjectionsOwned'
<1> USE DEF InjectionsOwned
<1>1. ASSUME NEW a \in Activities, Submit(a) PROVE InjectionsOwned'
  <2>1. active \subseteq active'
    BY <1>1 DEF Submit, AcquirePermit, EnqueueRequest
  <2>2. QED
    BY <1>1, <2>1 DEF Submit, receiptVars
<1>2. ASSUME NEW a \in Activities, Inject(a) PROVE InjectionsOwned'
  BY <1>2 DEF Inject, InjectSecret, bulkheadVars
<1>3. ASSUME NEW a \in Activities, Track(a) PROVE InjectionsOwned'
  BY <1>3 DEF Track, TrackReceipt, bulkheadVars
<1>4. ASSUME NEW a \in Activities, Settle(a) PROVE InjectionsOwned'
  <2>1. ~InjectionPending(a) /\ ReleasePermit(a) /\ UNCHANGED <<live, tracked, lost>>
    BY <1>4 DEF Settle, receiptVars
  <2>2. active \ {a} \subseteq active'
    <3>1. a \in active
      BY <2>1 DEF ReleasePermit
    <3>2. QED
      BY <2>1, <3>1, ReleaseFacts
  <2>3. ASSUME NEW r \in live \ (tracked \cup lost) PROVE ReceiptOf[a] # r
    <3>1. r # NoReceipt
      BY RuntimeDrainAssumption DEF ReceiptsInv, ReceiptsTypeOK
    <3>2. QED
      BY <2>1, <3>1 DEF InjectionPending
  <2>4. QED
    BY <2>1, <2>2, <2>3
<1>5. ASSUME NEW v \in Passes, Revocation(v) PROVE InjectionsOwned'
  <2>1. live' \ (tracked' \cup lost') \subseteq live \ (tracked \cup lost)
    BY <1>5 DEF Revocation, RevocationStep, RevokeAll, RevokeExpired, StartPass, SkipReceipt,
                CallRevoke, RevokeSucceeds, RevokeFails
  <2>2. active' = active
    BY <1>5 DEF Revocation, bulkheadVars
  <2>3. QED
    BY <2>1, <2>2
<1>6. ASSUME \/ \E a \in Activities : Cancel(a)
             \/ PersistCheckpoint \/ ReleaseLease \/ GatherEvidence \/ TransitionRuntimeDrain
             \/ UNCHANGED runtimeVars
      PROVE  UNCHANGED <<active, live, tracked, lost>>
  BY <1>6 DEF Cancel, PersistCheckpoint, ReleaseLease, GatherEvidence,
              TransitionRuntimeDrain, runtimeVars, bulkheadVars, receiptVars
<1>7. QED
  BY <1>1, <1>2, <1>3, <1>4, <1>5, <1>6 DEF RuntimeNext

(* The evidence for a transition outlives the work that goes on between    *)
(* gathering and using it.                                                 *)
LEMMA EvidenceStep ==
    ASSUME DrainInv, [RuntimeNext]_runtimeVars PROVE EvidenceLasts'
<1> USE DEF DrainInv
<1>1. ASSUME Settled PROVE ActivitiesSettled'
  <2>1. ActivitiesSettled /\ ~AcceptsNewWork
    BY <1>1 DEF EvidenceLasts, Settled, AcceptsNewWork
  <2>2. QED
    BY <2>1, SettledStays
<1>2. ASSUME Settled', ~Settled PROVE ActivitiesSettled'
  <2>1. GatherEvidence /\ drain = "CHECKPOINTED"
    <3>1. ~UNCHANGED <<drain, evidence>>
      BY <1>2 DEF Settled
    <3>2. GatherEvidence \/ TransitionRuntimeDrain
      BY <3>1 DEF RuntimeNext, Submit, Inject, Track, Settle, Cancel, Revocation,
                  PersistCheckpoint, ReleaseLease, runtimeVars, drainVars
    <3>3. ASSUME TransitionRuntimeDrain PROVE FALSE
      BY <1>2, <3>3 DEF TransitionRuntimeDrain, NextDrainState, Settled, LifecycleTypeOK,
                        DrainStates
    <3>4. QED
      BY <1>2, <3>2, <3>3 DEF GatherEvidence, Settled
  <2>2. ActivitiesSettled /\ activity' = activity
    BY <2>1 DEF GatherEvidence, EvidenceSuffices, NextDrainState
  <2>3. QED
    BY <2>2 DEF ActivitiesSettled
<1>3. ASSUME Cleared PROVE active' = {} /\ ~leaseHeld' /\ tracked' = {}
  <2>1. /\ active = {} /\ ~leaseHeld /\ tracked = {} /\ live \subseteq lost
        /\ drain # "RUNNING"
    BY <1>3 DEF EvidenceLasts, Cleared, InjectionsOwned
  <2>2. ASSUME NEW a \in Activities,
               Submit(a) \/ Inject(a) \/ Track(a) \/ Settle(a)
        PROVE  FALSE
    BY <2>1, <2>2 DEF Submit, AcceptsNewWork, Inject, Track, TrackReceipt, Settle, ReleasePermit
  <2>3. ASSUME NEW v \in Passes, Revocation(v)
        PROVE  active' = active /\ leaseHeld' = leaseHeld /\ tracked' \subseteq tracked
    BY <2>3 DEF Revocation, RevocationStep, RevokeAll, RevokeExpired, StartPass, SkipReceipt,
                CallRevoke, RevokeSucceeds, RevokeFails, bulkheadVars, drainVars
  <2>4. ASSUME \/ \E a \in Activities : Cancel(a)
               \/ PersistCheckpoint \/ GatherEvidence
               \/ TransitionRuntimeDrain \/ UNCHANGED runtimeVars
        PROVE  active' = active /\ leaseHeld' = leaseHeld /\ tracked' = tracked
    BY <2>4 DEF Cancel, PersistCheckpoint, GatherEvidence,
                TransitionRuntimeDrain, runtimeVars, bulkheadVars, receiptVars, drainVars
  <2>5. ASSUME ReleaseLease
        PROVE  active' = active /\ ~leaseHeld' /\ tracked' = tracked
    BY <2>5 DEF ReleaseLease, bulkheadVars, receiptVars
  <2>6. QED
    BY <2>1, <2>2, <2>3, <2>4, <2>5 DEF RuntimeNext
<1>4. ASSUME Cleared', ~Cleared PROVE active' = {} /\ ~leaseHeld' /\ tracked' = {}
  <2>1. GatherEvidence /\ drain = "RELEASING"
    <3>1. ~UNCHANGED <<drain, evidence>>
      BY <1>4 DEF Cleared
    <3>2. GatherEvidence \/ TransitionRuntimeDrain
      BY <3>1 DEF RuntimeNext, Submit, Inject, Track, Settle, Cancel, Revocation,
                  PersistCheckpoint, ReleaseLease, runtimeVars, drainVars
    <3>3. ASSUME TransitionRuntimeDrain PROVE FALSE
      BY <1>4, <3>3 DEF TransitionRuntimeDrain, NextDrainState, Cleared, LifecycleTypeOK,
                        DrainStates
    <3>4. QED
      BY <1>4, <3>2, <3>3 DEF GatherEvidence, Cleared
  <2>2. QED
    BY <2>1 DEF GatherEvidence, EvidenceSuffices, NextDrainState, bulkheadVars, receiptVars
<1>5. QED
  BY <1>1, <1>2, <1>3, <1>4 DEF EvidenceLasts

LEMMA DrainStep == DrainInv /\ [RuntimeNext]_runtimeVars => DrainInv'
  BY BulkheadPart, BulkheadTypeStep, ReceiptsPart, ReceiptsKeep, LifecycleTypeStep,
     QueueMovesStep, InjectionsStep, EvidenceStep
  DEF DrainInv

LEMMA DrainInvariant == RuntimeSpec => []DrainInv
  BY DrainInitially, DrainStep, PTL DEF RuntimeSpec

LEMMA DrainIsClean == DrainInv => StoppedIsClean
  BY DEF DrainInv, QueueMoves, InjectionsOwned, EvidenceLasts, Settled, Cleared, StoppedIsClean

(* The parts of the runtime keep their types together.                     *)
THEOREM RuntimeTypeCorrect == RuntimeSpec => []RuntimeTypeOK
<1>1. DrainInv => RuntimeTypeOK
  BY DEF DrainInv, ReceiptsInv, LifecycleTypeOK, RuntimeTypeOK
<1>2. QED
  BY DrainInvariant, <1>1, PTL

(* A runtime that has stopped left nothing behind that it knew of: no      *)
(* activity, no permit, nobody waiting, no lease, and no secret alive but  *)
(* those whose injection or tracking threw.                                *)
THEOREM StoppedIsCleanHolds == RuntimeSpec => []StoppedIsClean
  BY DrainInvariant, DrainIsClean, PTL

(* In a runtime that drains it is the same: a cancelled request that is    *)
(* promoted and gives its permit back strands nobody behind it and exceeds *)
(* no limit.                                                               *)
THEOREM DrainWaitsOnlyForRelease == RuntimeSpec => []WaitsOnlyForRelease
  BY DrainUsesBulkhead, WaitsOnlyForReleaseHolds, PTL
-----------------------------------------------------------------------------
(* Permits                                                                 *)

(* What a release does to those that wait: at most one is promoted, and it *)
(* holds the permit then.                                                  *)
LEMMA ReleasePromotes ==
    ASSUME BulkheadTypeOK, NEW p \in active, ReleasePermit(p)
    PROVE  /\ p \notin active'
           /\ \E promoted \in SUBSET Waiting :
                 /\ active' = (active \ {p}) \cup promoted
                 /\ Waiting' = Waiting \ promoted
<1>1. CASE active' = active \ {p} /\ queued' = queued
  <2>1. active' = (active \ {p}) \cup {} /\ Waiting' = Waiting \ {}
    BY <1>1 DEF Waiting
  <2>2. QED
    BY <1>1, <2>1
<1>2. ASSUME NEW i \in 1..Len(queued),
             active' = (active \ {p}) \cup {queued[i]}, queued' = Without(i)
      PROVE  /\ p \notin active'
             /\ \E promoted \in SUBSET Waiting :
                   /\ active' = (active \ {p}) \cup promoted
                   /\ Waiting' = Waiting \ promoted
  BY <1>2, PromotionFacts
<1>3. QED
  BY <1>1, <1>2, ReleaseFacts

(* Who waits goes on waiting until it is given its permit: neither a       *)
(* release that passes it over nor any other request takes its place.      *)
THEOREM WaitingIsNotLost ==
    BulkheadSpec => [][Waiting \subseteq Waiting' \cup active']_bulkheadVars
<1>1. ASSUME BulkheadTypeOK, BulkheadNext PROVE Waiting \subseteq Waiting' \cup active'
  <2>1. ASSUME NEW r \in Requests, AcquirePermit(r)
        PROVE  Waiting \subseteq Waiting' \cup active'
    BY <1>1, <2>1, AcquireFacts
  <2>2. ASSUME NEW r \in Requests, EnqueueRequest(r)
        PROVE  Waiting \subseteq Waiting' \cup active'
    BY <1>1, <2>2, EnqueueFacts
  <2>3. ASSUME NEW r \in Requests, ReleasePermit(r)
        PROVE  Waiting \subseteq Waiting' \cup active'
    <3>1. r \in active
      BY <2>3 DEF ReleasePermit
    <3>2. QED
      BY <1>1, <2>3, <3>1, ReleasePromotes
  <2>4. QED
    BY <1>1, <2>1, <2>2, <2>3 DEF BulkheadNext
<1>2. BulkheadTypeOK /\ [BulkheadNext]_bulkheadVars
      => [Waiting \subseteq Waiting' \cup active']_bulkheadVars
  BY <1>1
<1>3. QED
  BY BulkheadTypeCorrect, <1>2, PTL DEF BulkheadSpec

(* The lifecycle of an activity and what the bulkhead knows of it.  A      *)
(* cancelled one may wait or hold a permit still, or have given it back.   *)
PermitOf(a) ==
    /\ activity[a] \in {"RUNNING", "CANCEL_REQUESTED"} => a \in active
    /\ activity[a] = "QUEUED" => a \in Waiting
    /\ a \in active => activity[a] \in {"RUNNING", "CANCEL_REQUESTED", "CANCELLED"}
    /\ a \in Waiting => activity[a] \in {"QUEUED", "CANCELLED"}

PermitsAccounted == \A a \in Activities : PermitOf(a)

LEMMA PermitsInitially == RuntimeInit => PermitsAccounted
  BY DEF RuntimeInit, BulkheadInit, PermitsAccounted, PermitOf, Waiting

LEMMA PermitsStep ==
    ASSUME BulkheadTypeOK, LifecycleTypeOK, PermitsAccounted, [RuntimeNext]_runtimeVars
    PROVE  PermitsAccounted'
<1> USE DEF PermitsAccounted, PermitOf, Activities, LifecycleTypeOK
<1>1. ASSUME NEW a \in Activities, Submit(a) PROVE PermitsAccounted'
  <2>1. CASE AcquirePermit(a) /\ activity' = [activity EXCEPT ![a] = "RUNNING"]
    <3>1. active' = active \cup {a} /\ Waiting' = Waiting /\ a \notin Waiting
      BY <2>1, AcquireFacts DEF AcquirePermit, Known
    <3>2. QED
      BY <2>1, <3>1
  <2>2. CASE EnqueueRequest(a) /\ activity' = [activity EXCEPT ![a] = "QUEUED"]
    <3>1. active' = active /\ Waiting' = Waiting \cup {a} /\ a \notin active
      BY <2>2, EnqueueFacts DEF EnqueueRequest, Known
    <3>2. QED
      BY <2>2, <3>1
  <2>3. QED
    BY <1>1, <2>1, <2>2 DEF Submit
<1>2. ASSUME NEW a \in Activities, Settle(a) PROVE PermitsAccounted'
  <2>1. a \in active
    BY <1>2 DEF Settle, ReleasePermit
  <2>2. PICK promoted \in SUBSET Waiting :
           /\ active' = (active \ {a}) \cup promoted
           /\ Waiting' = Waiting \ promoted
           /\ a \notin active'
    BY <1>2, <2>1, ReleasePromotes DEF Settle
  <2>3. PICK outcome \in TerminalOutcomes(activity[a]) :
           activity' = [b \in Activities |->
              IF b = a THEN outcome
              ELSE IF b \in active' \ active /\ activity[b] = "QUEUED" THEN "RUNNING"
              ELSE activity[b]]
    BY <1>2 DEF Settle
  <2>4. outcome \in Terminal /\ a \notin Waiting'
    BY <2>1, <2>2, <2>3 DEF TerminalOutcomes, Terminal, BulkheadTypeOK
  <2>5. ASSUME NEW b \in Activities, b # a PROVE PermitOf(b)'
    <3>1. b \in active' \ active <=> b \in promoted
      BY <2>2, <2>5 DEF BulkheadTypeOK
    <3>2. activity'[b] = IF b \in promoted /\ activity[b] = "QUEUED"
                         THEN "RUNNING" ELSE activity[b]
      BY <2>3, <2>5, <3>1
    <3>3. QED
      BY <2>2, <2>5, <3>2 DEF BulkheadTypeOK
  <2>6. PermitOf(a)'
    BY <2>2, <2>3, <2>4 DEF Terminal
  <2>7. QED
    BY <2>5, <2>6
<1>3. ASSUME NEW root \in Activities, Cancel(root) PROVE PermitsAccounted'
  <2>1. active' = active /\ Waiting' = Waiting
    BY <1>3 DEF Cancel, bulkheadVars, Waiting
  <2>2. ASSUME NEW a \in Activities
        PROVE  activity'[a] = activity[a] \/ activity'[a] = CancellationAction(a)
    BY <1>3 DEF Cancel
  <2>3. QED
    BY <2>1, <2>2 DEF CancellationAction
<1>4. ASSUME \/ \E a \in Activities : Inject(a) \/ Track(a)
             \/ \E v \in Passes : Revocation(v)
             \/ PersistCheckpoint \/ ReleaseLease \/ GatherEvidence \/ TransitionRuntimeDrain
             \/ UNCHANGED runtimeVars
      PROVE  UNCHANGED <<activity, active, Waiting>>
  BY <1>4 DEF Inject, Track, Revocation, PersistCheckpoint, ReleaseLease, GatherEvidence,
              TransitionRuntimeDrain, runtimeVars, bulkheadVars, drainVars, Waiting
<1>5. QED
  BY <1>1, <1>2, <1>3, <1>4 DEF RuntimeNext

LEMMA PermitsInvariant == RuntimeSpec => []PermitsAccounted
<1>1. DrainInv /\ PermitsAccounted /\ [RuntimeNext]_runtimeVars => PermitsAccounted'
  BY PermitsStep DEF DrainInv
<1>2. QED
  BY PermitsInitially, DrainInvariant, <1>1, PTL DEF RuntimeSpec

(* No permit can be stranded: whatever was cancelled, promoted or settled  *)
(* meanwhile, who holds a permit can still end and give it back, an        *)
(* activity that runs holds one, and one that is queued waits for one.     *)
THEOREM PermitsCanBeReturned ==
    RuntimeSpec => [](\A a \in Activities :
                         /\ a \in active => TerminalOutcomes(activity[a]) # {}
                         /\ activity[a] \in {"RUNNING", "CANCEL_REQUESTED"} => a \in active
                         /\ activity[a] = "QUEUED" => a \in Waiting)
<1>1. PermitsAccounted => \A a \in Activities :
                             /\ a \in active => TerminalOutcomes(activity[a]) # {}
                             /\ activity[a] \in {"RUNNING", "CANCEL_REQUESTED"} => a \in active
                             /\ activity[a] = "QUEUED" => a \in Waiting
  BY DEF PermitsAccounted, PermitOf, TerminalOutcomes, Terminal
<1>2. QED
  BY PermitsInvariant, <1>1, PTL

(* An activity that has ended stays as it ended, and one that was asked to *)
(* cancel does not run on as if it had not been: a promotion does not      *)
(* start what was cancelled while it waited.                               *)
THEOREM EndedStaysEnded ==
    RuntimeSpec => [][\A a \in Activities :
                         /\ activity[a] \in Terminal => activity'[a] = activity[a]
                         /\ activity[a] = "CANCEL_REQUESTED"
                            => activity'[a] \in Terminal \cup {"CANCEL_REQUESTED"}]_runtimeVars
<1> DEFINE Ends == \A a \in Activities :
                      /\ activity[a] \in Terminal => activity'[a] = activity[a]
                      /\ activity[a] = "CANCEL_REQUESTED"
                         => activity'[a] \in Terminal \cup {"CANCEL_REQUESTED"}
<1>1. ASSUME PermitsAccounted, LifecycleTypeOK, RuntimeNext PROVE Ends
  <2>1. ASSUME NEW a \in Activities, Submit(a) PROVE Ends
    BY <1>1, <2>1 DEF Submit, Terminal, LifecycleTypeOK
  <2>2. ASSUME NEW a \in Activities, Settle(a) PROVE Ends
    <3>1. a \in active
      BY <2>2 DEF Settle, ReleasePermit
    <3>2. PICK outcome \in TerminalOutcomes(activity[a]) :
             activity' = [b \in Activities |->
                IF b = a THEN outcome
                ELSE IF b \in active' \ active /\ activity[b] = "QUEUED" THEN "RUNNING"
                ELSE activity[b]]
      BY <2>2 DEF Settle
    <3>3. ASSUME NEW b \in Activities, b # a
          PROVE  /\ activity[b] \in Terminal => activity'[b] = activity[b]
                 /\ activity[b] = "CANCEL_REQUESTED" => activity'[b] = "CANCEL_REQUESTED"
      BY <3>2, <3>3 DEF Terminal
    <3>4. /\ activity[a] \in Terminal => activity'[a] = activity[a]
          /\ activity[a] = "CANCEL_REQUESTED" => activity'[a] \in Terminal
      BY <1>1, <3>1, <3>2 DEF PermitsAccounted, PermitOf, TerminalOutcomes, Terminal
    <3>5. QED
      BY <3>3, <3>4
  <2>3. ASSUME NEW root \in Activities, Cancel(root) PROVE Ends
    BY <2>3 DEF Cancel, CancellationAction, Terminal
  <2>4. ASSUME \/ \E a \in Activities : Inject(a) \/ Track(a)
               \/ \E v \in Passes : Revocation(v)
               \/ PersistCheckpoint \/ ReleaseLease \/ GatherEvidence
               \/ TransitionRuntimeDrain
        PROVE  activity' = activity
    BY <2>4 DEF Inject, Track, Revocation, PersistCheckpoint, ReleaseLease, GatherEvidence,
                TransitionRuntimeDrain, drainVars
  <2>5. QED
    BY <1>1, <2>1, <2>2, <2>3, <2>4 DEF RuntimeNext
<1>2. PermitsAccounted /\ DrainInv /\ [RuntimeNext]_runtimeVars => [Ends]_runtimeVars
  BY <1>1 DEF DrainInv
<1>3. QED
  BY PermitsInvariant, DrainInvariant, <1>2, PTL DEF RuntimeSpec
-----------------------------------------------------------------------------
(* The platform                                                            *)

(* Each component behaves in the platform as it does alone: what holds of  *)
(* its own specification holds of the platform's.                          *)
THEOREM PlatformKeepsParts ==
    Spec => LeaseSpec /\ WorkspaceSpec /\ BulkheadSpec /\ ReceiptsSpec
<1>1. Init => LeaseInit /\ WorkspaceInit /\ BulkheadInit /\ ReceiptsInit
  BY DEF Init, RuntimeInit
<1>2. ASSUME [Next]_allVars
      PROVE  /\ [LeaseNext]_leaseVars /\ [WorkspaceNext]_workspaceVars
             /\ [BulkheadNext]_bulkheadVars /\ [ReceiptsNext]_receiptVars
  <2>1. CASE part = "drain" /\ RuntimeNext /\ UNCHANGED <<leaseVars, workspaceVars>>
    BY <2>1, BulkheadPart, ReceiptsPart
  <2>2. CASE \/ part = "lease" /\ LeaseNext /\ UNCHANGED <<runtimeVars, workspaceVars>>
             \/ part = "bulkhead" /\ BulkheadNext
                                  /\ UNCHANGED <<leaseVars, receiptVars, workspaceVars>>
             \/ part = "workspace" /\ WorkspaceNext /\ UNCHANGED <<leaseVars, runtimeVars>>
             \/ UNCHANGED allVars
    BY <2>2 DEF allVars, runtimeVars
  <2>3. QED
    BY <1>2, <2>1, <2>2 DEF Next
<1>3. [Next]_allVars => /\ [LeaseNext]_leaseVars /\ [WorkspaceNext]_workspaceVars
                        /\ [BulkheadNext]_bulkheadVars /\ [ReceiptsNext]_receiptVars
  BY <1>2
<1>4. QED
  BY <1>1, <1>3, PTL DEF Spec, LeaseSpec, WorkspaceSpec, BulkheadSpec, ReceiptsSpec

(* The drain is untouched unless it is the part that is exercised.         *)
DrainPartInv == /\ part = "drain" => DrainInv
                /\ part # "drain" => LifecycleTypeOK /\ drain = "RUNNING"

LEMMA DrainPartInvariant == Spec => []DrainPartInv
<1>1. Init => DrainPartInv
  BY DrainInitially DEF Init, DrainPartInv, DrainInv, RuntimeInit
<1>2. ASSUME DrainPartInv, [Next]_allVars PROVE DrainPartInv'
  <2>1. part' = part
    BY <1>2 DEF Next, allVars
  <2>2. CASE part = "drain"
    <3>1. DrainInv /\ [RuntimeNext]_runtimeVars
      BY <1>2, <2>2 DEF DrainPartInv, Next, allVars
    <3>2. DrainInv'
      BY <3>1, DrainStep
    <3>3. QED
      BY <2>1, <2>2, <3>2 DEF DrainPartInv
  <2>3. CASE part # "drain"
    <3>1. UNCHANGED drainVars
      BY <1>2, <2>3 DEF Next, allVars, runtimeVars
    <3>2. QED
      BY <1>2, <2>1, <2>3, <3>1 DEF DrainPartInv, LifecycleTypeOK, drainVars
  <2>4. QED
    BY <2>2, <2>3
<1>3. QED
  BY <1>1, <1>2, PTL DEF Spec

(* All components keep their types together.                               *)
THEOREM RuntimePlatformTypeCorrect == Spec => []RuntimePlatformTypeOK
<1>1. /\ LeaseTypeOK /\ WorkspaceTypeOK /\ BulkheadTypeOK /\ ReceiptsTypeOK /\ DrainPartInv
      => RuntimePlatformTypeOK
  BY DEF DrainPartInv, DrainInv, LifecycleTypeOK, RuntimeTypeOK, RuntimePlatformTypeOK
<1>2. QED
  BY PlatformKeepsParts, LeaseTypeCorrect, WorkspaceTypeCorrect, BulkheadTypeCorrect,
     ReceiptsTypeCorrect, DrainPartInvariant, <1>1, PTL

(* What was proved of each component alone holds in the platform: one run  *)
(* owns the intent, no effect is repeated blindly, limits are kept and     *)
(* nobody waits behind nothing, a stopped runtime is clean, a complete     *)
(* revocation has revoked, and items start in their own workspaces.        *)
THEOREM PlatformIsSafe ==
    Spec => [](/\ OneLiveHolder /\ ProgressingIsHolder /\ NoBlindRepeat
               /\ WaitsOnlyForRelease /\ StoppedIsClean /\ CompleteMeansRevoked
               /\ StartedInOwnWorkspace)
<1>1. DrainPartInv => StoppedIsClean
  BY DrainIsClean DEF DrainPartInv, StoppedIsClean
<1>2. QED
  BY PlatformKeepsParts, OneLiveHolderHolds, ProgressingIsHolderHolds, NoBlindRepeatHolds,
     WaitsOnlyForReleaseHolds, DrainPartInvariant, <1>1, ReceiptsInvariant, ReceiptsRevoked,
     StartedInOwnWorkspaceHolds, PTL
===================================================================================
