------------------------------ MODULE MCPlayer ------------------------------
(* Every pair of arguments of Player, for TLC. *)
EXTENDS Player

MCArguments == [Calls -> 0..2]
=============================================================================
