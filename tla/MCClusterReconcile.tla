------------------------ MODULE MCClusterReconcile ------------------------
(* Values for the constants of ClusterReconcile.                            *)
EXTENDS ClusterReconcile, TLC

MCPolicies == {"Delete", "Archive", "Retain"}
MCArchive  == {"Archive"}
MCRetain   == {"Retain"}
MCOwn      == {"Delete", "Retain"}
MCFalse    == {"false"}

(* Tokens are only compared.                                                *)
MCTokens == Permutations(BootstrapTokens)
=============================================================================
