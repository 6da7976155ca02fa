----------------------------- MODULE MCStpManager -----------------------------
(* Instances of StpManager for TLC; clients are symmetric in the safety run. *)
EXTENDS StpManager, TLC

MCSymmetry == Permutations(Clients)
=============================================================================
