------------------------- MODULE MCPermissionCache -------------------------
(* The instance of PermissionCache for TLC. One member passes from one     *)
(* permission to another, so that a cached set may hold both; the other is *)
(* granted one or none. No symmetry: the run checks liveness.              *)
EXTENDS PermissionCache, TLC

CONSTANTS u1, u2, p1, p2

SmallGrants == u1 :> {{}, {p1}, {p2}} @@ u2 :> {{}, {p1}}
=============================================================================
