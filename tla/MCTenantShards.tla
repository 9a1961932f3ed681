--------------------------- MODULE MCTenantShards ---------------------------
(***************************************************************************)
(* Three threads race for two tenants; one build fails.                    *)
(***************************************************************************)
EXTENDS TenantShards

CONSTANTS h1, h2, h3, t1, t2

=============================================================================
