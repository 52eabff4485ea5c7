------------------------- MODULE MCTenantLifecycle -------------------------
(* Small instance of TenantLifecycle.                                      *)
EXTENDS TenantLifecycle

CONSTANTS t1, t2
=============================================================================
