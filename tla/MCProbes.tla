------------------------------ MODULE MCProbes ------------------------------
(* Two outcomes for each layer, enough for every status of the channel. *)
EXTENDS Probes, TLC

MCOutcomes == [l \in Layers |-> IF l = "l2" THEN {"ok", "auth_error"} ELSE {"ok", "down"}]
MCManualLayers == <<"l1", "l2">>
Symmetry == Permutations(Procs)
=============================================================================
