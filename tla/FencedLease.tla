------------------------------- MODULE FencedLease -------------------------------
(***************************************************************************)
(* What a lease with a fencing number promises, wherever it is recorded:   *)
(* it is granted to one party at a time, under a new term each time, and   *)
(* never while it is live; until then it is only extended or given up; and *)
(* whoever acts on it is the party it was granted to, while it is live.    *)
(***************************************************************************)
EXTENDS Naturals

CONSTANTS Parties,    \* those who want the lease
          NoParty     \* the holder before the lease was first granted

VARIABLES holder,     \* the party the lease was last granted to
          term,       \* the fencing number of that grant
          standing,   \* the lease is LIVE, has LAPSED, or is OVER: given up or not granted
          acting      \* the parties that believe they may act

vars == <<holder, term, standing, acting>>

MayAct == IF standing = "LIVE" THEN {holder} ELSE {}

Init == /\ holder = NoParty
        /\ term = 0
        /\ standing = "OVER"
        /\ acting = {}

(* A grant may have lapsed by the time it is recorded.                     *)
Grant(p) == /\ standing # "LIVE"
            /\ holder' = p
            /\ term' = term + 1
            /\ standing' \in {"LIVE", "LAPSED"}

(* Time passes, or the holder renews: late, if nobody was granted the      *)
(* lease since it lapsed.                                                  *)
LapseOrExtend == /\ standing # "OVER"
                 /\ standing' \in {"LIVE", "LAPSED"}
                 /\ UNCHANGED <<holder, term>>

GiveUp == /\ standing # "OVER"
          /\ standing' = "OVER"
          /\ UNCHANGED <<holder, term>>

(* Parties learn and forget that they may act at any time.                 *)
Next == /\ \/ UNCHANGED <<holder, term, standing>>
           \/ \E p \in Parties : Grant(p)
           \/ LapseOrExtend
           \/ GiveUp
        /\ acting' \subseteq MayAct'

Spec == Init /\ [][Next]_vars
==================================================================================
