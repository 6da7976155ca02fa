------------------------------ MODULE MCRegroup ------------------------------
(* An instance of Regroup for TLC: frames of 5 x 4 samples in grids whose  *)
(* blocks are 2 x 2 (leaving a column over) and 5 x 1.                     *)
EXTENDS Regroup, TLC

Grid(h, v, t) == [h |-> h, v |-> v, tab |-> [n \in 0..(h * v - 1) |-> t[n + 1]]]

(* All four inputs moved; one input twice and an empty position; rows of a *)
(* single line, the last position beyond LayNum.                           *)
MCLayouts ==
  {Grid(2, 2, <<3, 0, 1, 2>>), Grid(2, 2, <<1, -1, 1, 3>>),
   Grid(1, 4, <<2, 3, 0, 1>>)}
=============================================================================
