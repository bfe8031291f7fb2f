------------------------------ MODULE RuntimePlatform ------------------------------
(***************************************************************************)
(* The components of the control plane's runtime.  They share no state     *)
(* (RuntimeDrain composes those that do), so a behaviour exercises one of  *)
(* them, "part", and the others stay as they started.                      *)
(***************************************************************************)
EXTENDS RunLease, RuntimeDrain, WorkspaceBackend

CONSTANT Drained    \* the requests that are activities of the drain (bounds the model)

ASSUME RuntimePlatformAssumption == Drained \subseteq Requests

VARIABLE part

allVars == <<leaseVars, runtimeVars, workspaceVars, part>>

Init == /\ part \in {"lease", "bulkhead", "drain", "workspace"}
        /\ LeaseInit
        /\ RuntimeInit
        /\ WorkspaceInit
        /\ part # "lease" => profile = CHOOSE p \in Profiles : TRUE

Next == \/ part = "lease" /\ LeaseNext /\ UNCHANGED <<runtimeVars, workspaceVars, part>>
        \/ part = "bulkhead" /\ BulkheadNext
                             /\ UNCHANGED <<leaseVars, receiptVars, drainVars,
                                            workspaceVars, part>>
        \/ part = "drain" /\ RuntimeNext /\ UNCHANGED <<leaseVars, workspaceVars, part>>
                          /\ \A a \in Requests \ Drained : activity'[a] = "NEW"
        \/ part = "workspace" /\ WorkspaceNext /\ UNCHANGED <<leaseVars, runtimeVars, part>>

(* Every permit is given back in the end: an activity has a deadline, and  *)
(* no terminal outcome may skip the release.  In the drain that is Settle. *)
PermitsReturn ==
    \A r \in Requests : WF_bulkheadVars(part = "bulkhead" /\ ReleasePermit(r))

Spec == Init /\ [][Next]_allVars /\ PermitsReturn /\ RuntimeFairness
-----------------------------------------------------------------------------
RuntimePlatformTypeOK == LeaseTypeOK /\ RuntimeTypeOK /\ WorkspaceTypeOK
====================================================================================
