------------------------------ MODULE MCEmpathy ------------------------------
(* A suit with two 1s and one 2 (identities 1 and 2) and a dark suit with one *)
(* copy of each card (3 and 4), clued by rank and by colour.                  *)
EXTENDS Empathy

TwoSuits == 1 .. 4
TwoSuitsCount == [id \in TwoSuits |-> IF id = 1 THEN 2 ELSE 1]
RankAndColour == {{1, 3}, {2, 4}, {1, 2}, {3, 4}}
=============================================================================
