------------------------- MODULE MCCompilePipeline -------------------------
(* Values for the constants of CompilePipeline.                             *)
EXTENDS CompilePipeline, TLC

MCShape(e, t, u) == [enabled |-> e, token |-> t, unmanaged |-> u]

MCOn  == MCShape(TRUE, TRUE, FALSE)
MCOff == MCShape(FALSE, TRUE, FALSE)

MCOnOff     == {MCOn, MCOff}
MCAlwaysOn  == {MCOn}
MCSymmetry  == Permutations(Tenants)
=============================================================================
