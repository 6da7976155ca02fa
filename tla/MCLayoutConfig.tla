--------------------------- MODULE MCLayoutConfig ---------------------------
(* An instance of LayoutConfig for TLC: a table of three positions, by     *)
(* default one row of one, of which the picture shows the first two.       *)
EXTENDS LayoutConfig, TLC

Items(s) == [i \in DOMAIN s |-> [row |-> s[i][1], col |-> s[i][2], id |-> s[i][3]]]

(* Two rows of one, the lower one asked for by a column beyond the last;   *)
(* one row of two with two items at one position and one below the mosaic. *)
MCTall == [rows |-> 2, cols |-> 1, items |-> Items(<< <<0, 0, 1>>, <<0, 1, 0>> >>)]
MCWide == [rows |-> 1, cols |-> 2,
           items |-> Items(<< <<0, 1, 2>>, <<0, 1, 0>>, <<1, 0, 1>> >>)]

MCRequests == {MCTall, MCWide}
MCInitialFiles ==
  {[mode |-> "none", layout |-> NoLayout],
   [mode |-> "fixed", layout |-> NoLayout],
   [mode |-> "unfixed", layout |-> MCTall]}
=============================================================================
