-------------------------- MODULE MCReverseSearch --------------------------
(* Five fine cells on a line.  The first three and a part of the fourth    *)
(* lie in one coarse cell, which so reaches beyond the rings; the fourth   *)
(* lies across the border.  At most three places with two importances,     *)
(* and scores in which an important place one ring away ties with an       *)
(* unimportant one at hand.                                                *)
EXTENDS ReverseSearch, TLC

FiveCells == 1 .. 5
AcrossTheFourth ==
    [c \in FiveCells |-> {w \in {1, 2} : IF w = 1 THEN c <= 4 ELSE c >= 4}]
Line == [c \in FiveCells |-> [k \in 1 .. 2 |->
            SelectSeq(<<c - k, c + k>>, LAMBDA d : d \in FiveCells)]]
Distance == [c \in FiveCells |-> [d \in FiveCells |->
                5 - (IF c > d THEN c - d ELSE d - c)]]
=============================================================================
