------------------------------ MODULE SecretReceipts ------------------------------
(***************************************************************************)
(* The scope that remembers which secrets a runtime has injected, so that  *)
(* they can be revoked: injection and tracking are two steps, and every    *)
(* revocation awaits the resolver, so two passes over the scope (one at    *)
(* shutdown, one for what expired) interleave.  Either of the two steps    *)
(* may throw when the sink has the secret already; nobody knows of it then. *)
(***************************************************************************)
EXTENDS FiniteSets

CONSTANTS Receipts,     \* secret injection receipts
          NoReceipt,    \* no revocation is being awaited
          Passes        \* revocation passes that may run at the same time

VARIABLES injected,     \* the receipts that were ever injected
          live,         \* the receipts whose secret the sink still holds
          tracked,      \* the entries of the scope
          lost,         \* the receipts that an exception kept out of the scope
          pass          \* pass[v]: the receipts it attempts and has still to look
                        \* at, the one it awaits, the ones that failed

receiptVars == <<injected, live, tracked, lost, pass>>

PassStates == [attempted : SUBSET Receipts, todo : SUBSET Receipts,
               awaited : Receipts \cup {NoReceipt}, failures : SUBSET Receipts]
NoPass == [attempted |-> {}, todo |-> {}, awaited |-> NoReceipt, failures |-> {}]

PassIsOver(v) == pass[v].todo = {} /\ pass[v].awaited = NoReceipt

ReceiptsInit == /\ injected = {}
                /\ live = {}
                /\ tracked = {}
                /\ lost = {}
                /\ pass = [v \in Passes |-> NoPass]

(* The sink takes the secret and returns a valid receipt, or the call      *)
(* throws, before the sink has taken it or after: an invalid receipt is an *)
(* error, and what was injected with it is not taken back.                 *)
InjectSecret(r) == /\ r \notin injected
                   /\ injected' = injected \cup {r}
                   /\ \/ /\ live' = live \cup {r}
                         /\ UNCHANGED lost
                      \/ /\ live' \in {live, live \cup {r}}
                         /\ lost' = lost \cup {r}
                   /\ UNCHANGED <<tracked, pass>>

(* The scope takes the receipt, or rejects it, which tells the caller only. *)
TrackReceipt(r) == /\ r \in live \ (tracked \cup lost)    \* an id is tracked once only
                   /\ \/ /\ tracked' = tracked \cup {r}
                         /\ UNCHANGED lost
                      \/ /\ lost' = lost \cup {r}
                         /\ UNCHANGED tracked
                   /\ UNCHANGED <<injected, live, pass>>

StartPass(v, attempted) ==
    /\ PassIsOver(v)
    /\ pass' = [pass EXCEPT ![v] = [attempted |-> attempted, todo |-> attempted,
                                    awaited |-> NoReceipt, failures |-> {}]]
    /\ UNCHANGED <<injected, live, tracked, lost>>

(* revokeAll takes every entry, revokeExpired those whose time has come.   *)
RevokeAll(v)     == tracked # {} /\ StartPass(v, tracked)
RevokeExpired(v) == \E expired \in SUBSET tracked \ {{}} : StartPass(v, expired)

(* An entry that another pass has deleted meanwhile is passed over.        *)
SkipReceipt(v, r) ==
    /\ pass[v].awaited = NoReceipt
    /\ r \in pass[v].todo \ tracked
    /\ pass' = [pass EXCEPT ![v].todo = @ \ {r}]
    /\ UNCHANGED <<injected, live, tracked, lost>>

(* A bug: the entry is deleted before the resolver has answered.           *)
CallRevokeForgets(v, r) ==
    /\ pass[v].awaited = NoReceipt
    /\ r \in pass[v].todo \cap tracked
    /\ pass' = [pass EXCEPT ![v].todo = @ \ {r}, ![v].awaited = r]
    /\ tracked' = tracked \ {r}
    /\ UNCHANGED <<injected, live, lost>>

CallRevoke(v, r) ==
    /\ pass[v].awaited = NoReceipt
    /\ r \in pass[v].todo \cap tracked
    /\ pass' = [pass EXCEPT ![v].todo = @ \ {r}, ![v].awaited = r]
    /\ UNCHANGED <<injected, live, tracked, lost>>

RevokeSucceeds(v, r) ==
    /\ pass[v].awaited = r
    /\ live' = live \ {r}
    /\ tracked' = tracked \ {r}
    /\ pass' = [pass EXCEPT ![v].awaited = NoReceipt]
    /\ UNCHANGED <<injected, lost>>

(* The resolver throws, before or after the secret is gone.                *)
RevokeFails(v, r) ==
    /\ pass[v].awaited = r
    /\ live' \in {live, live \ {r}}
    /\ pass' = [pass EXCEPT ![v].awaited = NoReceipt, ![v].failures = @ \cup {r}]
    /\ UNCHANGED <<injected, tracked, lost>>

RevocationStep(v) ==
    \/ RevokeAll(v)
    \/ RevokeExpired(v)
    \/ \E r \in Receipts : \/ SkipReceipt(v, r) \/ CallRevoke(v, r)
                           \/ RevokeSucceeds(v, r) \/ RevokeFails(v, r)

(* "complete" of the summary a pass returns.                               *)
Complete(v) == PassIsOver(v) /\ pass[v].failures = {}

ReceiptsNext == \/ \E r \in Receipts : InjectSecret(r) \/ TrackReceipt(r)
                \/ \E v \in Passes : RevocationStep(v)

ReceiptsSpec == ReceiptsInit /\ [][ReceiptsNext]_receiptVars
-----------------------------------------------------------------------------
ReceiptsTypeOK == /\ injected \subseteq Receipts
                  /\ live \subseteq injected
                  /\ tracked \subseteq injected
                  /\ lost \subseteq injected
                  /\ pass \in [Passes -> PassStates]

(* A pass that reports itself complete leaves none of the receipts it      *)
(* attempted alive, those included that it passed over because another     *)
(* pass was working on them.                                               *)
CompleteMeansRevoked ==
    \A v \in Passes : Complete(v) => pass[v].attempted \cap live = {}
=================================================================================
