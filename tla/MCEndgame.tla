------------------------------ MODULE MCEndgame ------------------------------
(* Endings for Endgame: two suits close to the top, the rest of the deck in    *)
(* hands, in the deck or thrown away.                                          *)
EXTENDS ForcedEndgame

CONSTANTS norm, inv, HandKinds, DeckKinds, Lefts, Tokens, Stacks

MCCardCount == [s \in Suits |-> [r \in 1 .. Top |-> IF r = 1 THEN 3 ELSE IF r = Top THEN 1 ELSE 2]]

\* The kinds of card a hand or the deck may hold, numbered.
MCKinds == <<<<norm, 1>>, <<norm, 3>>, <<norm, 4>>, <<inv, 1>>, <<inv, 3>>, <<inv, 4>>>>
MCStacks == {[s \in Suits |-> IF s = norm THEN 3 ELSE 2]}

\* Piles of n cards: their order decides nothing, so it is the order of the kinds.
Piles(n, kinds) == {h \in [1 .. n -> kinds] : \A i \in 1 .. n - 1 : h[i] <= h[i + 1]}

\* Three hands and a deck in a row, with no more copies of a card than are not stacked.
Fits(st, all) ==
  \A k \in DOMAIN HandKinds :
     Cardinality({i \in DOMAIN all : all[i] = k})
       <= LET id == HandKinds[k] IN CardCount[id[1]][id[2]] - (IF id[2] <= st[id[1]] THEN 1 ELSE 0)
Dealt(st, deals, piles) == {d \in {e \o p : e \in deals, p \in piles} : Fits(st, d)}
Hands(st) == Dealt(st, Dealt(st, Piles(HandSize, DOMAIN HandKinds), Piles(HandSize, DOMAIN HandKinds)), Piles(HandSize, DOMAIN HandKinds))
Deals(st) == UNION {Dealt(st, Hands(st), Piles(n, DeckKinds)) : n \in Lefts}

Cards(all, first, n) == [i \in 1 .. n |-> HandKinds[all[first + i]]]
Ending(st, all, tokens) ==
  [play_stacks |-> st, clue_tokens |-> tokens,
   hands |-> [p \in Players |-> Cards(all, p * HandSize, HandSize)],
   deck |-> Cards(all, NumPlayers * HandSize, Len(all) - NumPlayers * HandSize)]

MCEndings == UNION {{Ending(st, all, tokens) : all \in Deals(st), tokens \in Tokens} : st \in Stacks}
=============================================================================
