------------------------- MODULE MCTenantReconcile -------------------------
(* Values for the constants of TenantReconcile are model values.            *)
EXTENDS TenantReconcile
=============================================================================
