----------------------------- MODULE MCGameState -----------------------------
(* Small variants for GameState: one suit of each kind the code tells apart. *)
EXTENDS GameState

CONSTANTS norm, rev, inv, both

\* One copy of the card played last; of the others two, or in an inverted suit
\* only of rank 2, so that the first card of a suit can be critical as well.
MCCardCount ==
  [s \in Suits |-> [r \in 1 .. Top |->
     IF r = (IF s \in Reversed THEN 1 ELSE Top) \/ (s \in Inverted /\ r # 2) THEN 1 ELSE 2]]
=============================================================================
