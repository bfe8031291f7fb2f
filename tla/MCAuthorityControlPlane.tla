------------------------- MODULE MCAuthorityControlPlane -------------------------
(* Small instances of AuthorityControlPlane for TLC.                       *)
EXTENDS AuthorityControlPlane, TLC

CONSTANTS s1, s2, git, deploy

AuditOnly     == {"audit"}
Every         == AllFaults
AuditTornDeaths == {"audit", "crash", "torn"}

(* Capabilities are interchangeable, and so are servers.                   *)
Symmetry == Permutations(Capabilities) \cup Permutations(Servers)
=================================================================================
