------------------------------ MODULE MCSolver ------------------------------
(***************************************************************************)
(* Endings for the solver: three points short over a plain suit and an     *)
(* inverted one, with useless cards in hands and in the deck.              *)
(***************************************************************************)
EXTENDS Solver

CONSTANTS norm, inv, HandKinds, Lefts, Tokens

MCCardCount == [s \in Suits |-> [r \in 1 .. Top |-> IF r = 1 THEN 3 ELSE IF r = Top THEN 1 ELSE 2]]
MCKinds == <<<<norm, 1>>, <<norm, 3>>, <<norm, 4>>, <<inv, 1>>, <<inv, 3>>, <<inv, 4>>>>

\* Two ways to be three points short: what is missing, and what hands and deck may hold.
Short(st, inHand, inDeck) == [stacks |-> st, inHand |-> inHand, inDeck |-> inDeck]
Shorts == {Short([s \in Suits |-> IF s = norm THEN 3 ELSE 2], {1, 3, 4, 5, 6}, {1, 5}),
           Short([s \in Suits |-> IF s = norm THEN 2 ELSE 3], {1, 3, 4}, {1, 6})}

\* Piles of n cards: their order decides nothing, so it is the order of the kinds.
Piles(n, kinds) == {h \in [1 .. n -> kinds] : \A i \in 1 .. n - 1 : h[i] <= h[i + 1]}

\* Two hands and a deck in a row, with no more copies of a card than are not stacked.
Fits(st, all) ==
  \A k \in DOMAIN HandKinds :
     Cardinality({i \in DOMAIN all : all[i] = k})
       <= LET id == HandKinds[k] IN CardCount[id[1]][id[2]] - (IF id[2] <= st[id[1]] THEN 1 ELSE 0)
Dealt(st, deals, piles) == {d \in {e \o p : e \in deals, p \in piles} : Fits(st, d)}
Hands(x) == Dealt(x.stacks, Piles(HandSize, x.inHand), Piles(HandSize, x.inHand))
Deals(x) == UNION {Dealt(x.stacks, Hands(x), Piles(n, x.inDeck)) : n \in Lefts}

Cards(all, first, n) == [i \in 1 .. n |-> HandKinds[all[first + i]]]
Ending(st, all, tokens) ==
  [play_stacks |-> st, clue_tokens |-> tokens,
   hands |-> [p \in Players |-> Cards(all, p * HandSize, HandSize)],
   deck |-> Cards(all, NumPlayers * HandSize, Len(all) - NumPlayers * HandSize)]

\* Three cards in the deck, one suit still open, its next card unseen.
Thirds == {[play_stacks |-> [s \in Suits |-> IF s = norm THEN 2 ELSE Top], clue_tokens |-> 1,
            hands |-> [p \in Players |-> IF p = 0 THEN <<<<norm, 1>>, <<inv, 2>>>>
                                         ELSE <<<<norm, 2>>, <<norm, Top>>>>],
            deck |-> <<<<norm, 1>>, <<norm, 3>>, third>>] : third \in {<<norm, 3>>, <<inv, 1>>}}

MCEndings ==
  Thirds \cup UNION {{Ending(x.stacks, all, tokens) : all \in Deals(x), tokens \in Tokens} : x \in Shorts}
MCTold == {{}, {<<0, 2>>, <<1, 2>>}}
=============================================================================
