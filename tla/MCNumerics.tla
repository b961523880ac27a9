----------------------------- MODULE MCNumerics -----------------------------
(***************************************************************************)
(* Projection: three samples, wear 3 is the threshold; from wear 2 a cut   *)
(* takes a sample past the grid.  Filter: three particles; past wear 3 the *)
(* model's singularity is in one cut.  Onset: fourteen labels, so that the *)
(* skipped start is as long as half a window.  Evaluation: four scored     *)
(* cuts, five apart; predictions on the edges of the cone.  Features:      *)
(* channels of one word or two that are also words of statistics.          *)
(***************************************************************************)
EXTENDS Numerics

MCAdvance  == <<1, 4, 5, 100>>
Singular   == <<1, 2, 4, 100>>
Doubling   == [l \in (0 - 3)..0 |-> IF l = 0 - 3 THEN 0 ELSE 2 ^ (l + 2)]
MCCut      == <<5, 10, 15, 20>>
Names      == {<<v>> : v \in Words} \cup (Words \X Words)
Lists      == {<<v>> : v \in Names} \cup {p \in Names \X Names : p[1] # p[2]}
Magnitudes == (0 - 2)..1
=============================================================================
