--------------------------- MODULE GameStateProofs ---------------------------
(***************************************************************************)
(* Proofs about GameState for every variant: any suits, reversed, inverted *)
(* or not, any number of ranks, copies, players and tokens.  Types first,  *)
(* then the accounting of the cards and the caches it keeps right, and     *)
(* last the refinement: every step of GameState is a step of the rules of  *)
(* the game (HanabiRules), or changes nothing they show.                   *)
(***************************************************************************)
EXTENDS GameState, Sums

\* A hand without its i-th card is a hand.
LEMMA WithoutSeq ==
  ASSUME NEW S, NEW h \in Seq(S), NEW i \in 1 .. Len(h)
  PROVE  Without(h, i) \in Seq(S)
<1>1. Len(h) \in Nat /\ Len(h) >= 1
  OBVIOUS
<1>2. \A j \in 1 .. Len(h) - 1 : Without(h, i)[j] \in S
  BY <1>1 DEF Without
<1>3. Without(h, i) \in [1 .. Len(h) - 1 -> S]
  BY <1>2 DEF Without
<1>. QED
  BY <1>1, <1>3

\* The refund keeps the tokens within bounds and a half token only below the cap.
LEMMA RegainKeepsTokens ==
  ASSUME GameStateAssumption, TokenType, regain_clue
  PROVE  TokenType'
<1>a. clue_tokens \in 0 .. MaxTokens /\ (half_clue_token => ClueStarved /\ clue_tokens < MaxTokens)
  BY Zenon DEF TokenType
<1>b. MaxTokens \in Nat
  BY DEF GameStateAssumption
<1>1. half_clue_token' \in BOOLEAN
  BY Zenon DEF regain_clue, TokenType, tokenVars
<1>2. clue_tokens' \in 0 .. MaxTokens
  BY <1>a, <1>b DEF regain_clue, tokenVars
<1>3. half_clue_token' => ClueStarved /\ clue_tokens' < MaxTokens
  BY <1>a, <1>b DEF regain_clue, tokenVars
<1>. QED
  BY <1>1, <1>2, <1>3, Zenon DEF TokenType

\* One copy more in a count of copies is a count of copies.
LEMMA OneMoreCopy ==
  ASSUME NEW count \in [Suits -> [Ranks -> Nat]], NEW s \in Suits, NEW r \in Ranks
  PROVE  [count EXCEPT ![s][r] = @ + 1] \in [Suits -> [Ranks -> Nat]]
<1>1. count[s] \in [Ranks -> Nat]
  OBVIOUS
<1>2. [count[s] EXCEPT ![r] = @ + 1] \in [Ranks -> Nat]
  BY <1>1
<1>. QED
  BY <1>2

\* with_play and with_discard keep the piles and the sets of cards in range.
LEMMA PlayKeepsTypes ==
  ASSUME GameStateAssumption, PileType, SetType, TokenType,
         NEW id \in Identity, with_play(id)
  PROVE  PileType' /\ SetType' /\ TokenType'
<1>1. id[1] \in Suits /\ id[2] \in Ranks
  BY DEF Identity
<1>2. play_stacks' \in [Suits -> 0 .. Top + 1]
  <2>1. Top \in Nat /\ play_stacks \in [Suits -> 0 .. Top + 1]
    BY Zenon DEF GameStateAssumption, PileType
  <2>2. id[2] \in 0 .. Top + 1
    BY <1>1, <2>1 DEF Ranks
  <2>3. play_stacks' = [play_stacks EXCEPT ![id[1]] = id[2]]
    BY Zenon DEF with_play
  <2>. QED
    BY <2>1, <2>2, <2>3
<1>3. base_count' \in [Suits -> [Ranks -> Nat]]
  BY <1>1, OneMoreCopy, Zenon DEF with_play, PileType
<1>4. PileType'
  BY <1>2, <1>3 DEF with_play, PileType
<1>5. NextIds(id) \subseteq Identity
  BY <1>1 DEF NextIds, Identity
<1>6. SetType'
  BY <1>5 DEF with_play, SetType
<1>7. TokenType'
  <2>1. CASE IsFinal(id)
    BY <2>1, RegainKeepsTokens DEF with_play
  <2>2. CASE ~IsFinal(id)
    BY <2>2, Zenon DEF with_play, tokenVars, TokenType
  <2>. QED
    BY <2>1, <2>2
<1>. QED
  BY <1>4, <1>6, <1>7

LEMMA DiscardKeepsTypes ==
  ASSUME GameStateAssumption, PileType, SetType, NEW id \in Identity, with_discard(id)
  PROVE  PileType' /\ SetType'
<1>1. id[1] \in Suits /\ id[2] \in Ranks
  BY DEF Identity
<1>2. discard_stacks' \in [Suits -> [Ranks -> Nat]]
  BY <1>1, OneMoreCopy, Zenon DEF with_discard, PileType
<1>3. base_count' \in [Suits -> [Ranks -> Nat]]
  BY <1>1, OneMoreCopy, Zenon DEF with_discard, PileType
<1>4. max_ranks' \in [Suits -> 0 .. Top + 1]
  <2>1. Top \in Nat /\ max_ranks \in [Suits -> 0 .. Top + 1]
    BY Zenon DEF GameStateAssumption, PileType
  <2>2. /\ max_ranks[id[1]] \in 0 .. Top + 1
        /\ id[2] + 1 \in 0 .. Top + 1 /\ id[2] - 1 \in 0 .. Top + 1
    BY <1>1, <2>1, SMTT(20) DEF Ranks
  <2>3. PICK m : /\ m \in {id[2] + 1, id[2] - 1, max_ranks[id[1]]}
                 /\ max_ranks' = [max_ranks EXCEPT ![id[1]] = m] \/ UNCHANGED max_ranks
    BY DEF with_discard, CappedRank
  <2>4. m \in 0 .. Top + 1
    BY <2>2, <2>3
  <2>. QED
    BY <2>1, <2>3, <2>4
<1>5. PileType'
  BY <1>2, <1>3, <1>4 DEF with_discard, PileType
<1>6. SetType'
  BY DEF with_discard, SetType
<1>. QED
  BY <1>5, <1>6

\* Losing the i-th card, or drawing one, keeps every hand a sequence of cards.
LEMMA DropKeepsHands ==
  ASSUME hands \in [Players -> Seq(Identity)], NEW p \in Players,
         NEW i \in 1 .. Len(hands[p]), drop_from_hand(p, i)
  PROVE  hands' \in [Players -> Seq(Identity)] /\ hands[p][i] \in Identity
<1>1. hands[p] \in Seq(Identity)
  OBVIOUS
<1>2. hands[p][i] \in Identity
  BY <1>1
<1>3. Without(hands[p], i) \in Seq(Identity)
  BY <1>1, WithoutSeq
<1>. QED
  BY <1>2, <1>3 DEF drop_from_hand

\* The countdown of a game that goes on is not at zero, so it stays in range.
LEMMA SpendKeepsTurns ==
  ASSUME GameStateAssumption, endgame_turns \in -1 .. NumPlayers, endgame_turns # 0,
         SpendEndgameTurn
  PROVE  endgame_turns' \in -1 .. NumPlayers
<1>1. NumPlayers \in Nat
  BY Zenon DEF GameStateAssumption
<1>. QED
  BY <1>1 DEF SpendEndgameTurn, NoTurns

\* What a play or a discard message keeps, whoever pressed which button.
LEMMA DiscardMessageKeepsTypes ==
  ASSUME GameStateAssumption, TypeOK, ~ended, NEW p \in Players,
         NEW i \in 1 .. Len(hands[p]), NEW failed \in BOOLEAN, on_discard(p, i, failed)
  PROVE  /\ PileType' /\ SetType' /\ TokenType'
         /\ strikes' \in 0 .. 3 /\ endgame_turns' \in -1 .. NumPlayers
         /\ hands' \in [Players -> Seq(Identity)] /\ UNCHANGED cards_left
<1>1. hands' \in [Players -> Seq(Identity)] /\ hands[p][i] \in Identity
  BY DropKeepsHands DEF on_discard, TypeOK, TableType
<1>2. strikes # 3 /\ endgame_turns # 0
  BY DEF ended
<1>3. endgame_turns' \in -1 .. NumPlayers
  <2>1. endgame_turns \in -1 .. NumPlayers /\ SpendEndgameTurn
    BY Zenon DEF on_discard, TypeOK, TableType
  <2>. QED
    BY <1>2, <2>1, SpendKeepsTurns
<1>4. strikes' \in 0 .. 3
  BY <1>2 DEF on_discard, TypeOK, TableType
<1>5. PileType' /\ SetType' /\ TokenType'
  <2>1. CASE with_play(hands[p][i])
    BY <1>1, <2>1, PlayKeepsTypes DEF TypeOK
  <2>2. CASE with_discard(hands[p][i]) /\ UNCHANGED tokenVars
    BY <1>1, <2>2, DiscardKeepsTypes, Zenon DEF TypeOK, TokenType, tokenVars
  <2>3. CASE with_discard(hands[p][i]) /\ regain_clue
    BY <1>1, <2>3, DiscardKeepsTypes, RegainKeepsTokens DEF TypeOK
  <2>. QED
    BY <2>1, <2>2, <2>3, Zenon DEF on_discard
<1>. QED
  BY <1>1, <1>3, <1>4, <1>5 DEF on_discard

LEMMA PlayMessageKeepsTypes ==
  ASSUME GameStateAssumption, TypeOK, ~ended, NEW p \in Players,
         NEW i \in 1 .. Len(hands[p]), on_play(p, i)
  PROVE  /\ PileType' /\ SetType' /\ TokenType'
         /\ strikes' \in 0 .. 3 /\ endgame_turns' \in -1 .. NumPlayers
         /\ hands' \in [Players -> Seq(Identity)] /\ UNCHANGED cards_left
<1>1. hands' \in [Players -> Seq(Identity)] /\ hands[p][i] \in Identity
  BY DropKeepsHands DEF on_play, TypeOK, TableType
<1>2. endgame_turns # 0
  BY DEF ended
<1>3. endgame_turns' \in -1 .. NumPlayers
  <2>1. endgame_turns \in -1 .. NumPlayers /\ SpendEndgameTurn
    BY Zenon DEF on_play, TypeOK, TableType
  <2>. QED
    BY <1>2, <2>1, SpendKeepsTurns
<1>4. PileType' /\ SetType' /\ TokenType'
  <2>1. CASE with_play(hands[p][i])
    BY <1>1, <2>1, PlayKeepsTypes DEF TypeOK
  <2>2. CASE with_discard(hands[p][i]) /\ regain_clue
    BY <1>1, <2>2, DiscardKeepsTypes, RegainKeepsTokens DEF TypeOK
  <2>. QED
    BY <2>1, <2>2, Zenon DEF on_play
<1>. QED
  BY <1>1, <1>3, <1>4 DEF on_play, TypeOK, TableType

\* Drawing card id.
LEMMA DrawKeepsTypes ==
  ASSUME GameStateAssumption, TypeOK, cards_left > 0, NEW p \in Players,
         NEW id \in Identity, on_draw(p, id)
  PROVE  /\ PileType' /\ SetType' /\ TokenType'
         /\ strikes' \in 0 .. 3 /\ endgame_turns' \in -1 .. NumPlayers
         /\ hands' \in [Players -> Seq(Identity)] /\ cards_left' \in Nat
<1>1. NumPlayers \in Nat
  BY Zenon DEF GameStateAssumption
<1>2. cards_left' \in Nat /\ endgame_turns' \in -1 .. NumPlayers /\ strikes' \in 0 .. 3
  BY <1>1 DEF on_draw, TypeOK, TableType, NoTurns
<1>3. <<id>> \o hands[p] \in Seq(Identity)
  BY DEF TypeOK, TableType
<1>4. hands' \in [Players -> Seq(Identity)]
  BY <1>3 DEF on_draw, TypeOK, TableType
<1>5. PileType' /\ SetType'
  BY DEF on_draw, pileVars, setVars, TypeOK, PileType, SetType
<1>6. TokenType'
  BY Zenon DEF on_draw, tokenVars, TypeOK, TokenType
<1>. QED
  BY <1>2, <1>4, <1>5, <1>6

\* The next player is a player.
LEMMA NextPlayerType ==
  ASSUME GameStateAssumption, NEW p \in Players
  PROVE  next_player_index(p) \in Players
<1>1. NumPlayers \in Nat \ {0}
  BY Zenon DEF GameStateAssumption
<1>. QED
  BY <1>1 DEF next_player_index, Players

\* The deck is a finite set of cards, and its size a number.
LEMMA IdentityFinite ==
  ASSUME GameStateAssumption
  PROVE  IsFiniteSet(Suits) /\ IsFiniteSet(Ranks) /\ IsFiniteSet(Identity)
<1>1. IsFiniteSet(Suits) /\ Top \in Nat
  BY Zenon DEF GameStateAssumption
<1>2. IsFiniteSet(Ranks)
  BY <1>1, FS_Interval DEF Ranks
<1>. QED
  BY <1>1, <1>2, FS_Product DEF Identity

LEMMA DeckSizeType ==
  ASSUME GameStateAssumption
  PROVE  DeckSize \in Nat
<1>. DEFINE f == [id \in Identity |-> CardCount[id[1]][id[2]]]
<1>1. IsFiniteSet(Identity)
  BY IdentityFinite
<1>2. CardCount \in [Suits -> [1 .. Top -> Nat \ {0}]]
  BY Zenon DEF GameStateAssumption
<1>3. \A id \in Identity : f[id] \in Nat
  BY <1>2 DEF Identity, Ranks
<1>4. SumFunctionOnSet(f, Identity) \in Nat
  <2>. HIDE DEF f
  <2>. QED
    BY <1>1, <1>3, SumNat
<1>. QED
  BY <1>4 DEF DeckSize, SumFunction

\* A new game.
LEMMA TypeInit ==
  ASSUME GameStateAssumption, Init
  PROVE  TypeOK
<1>1. /\ Top \in Nat \ {0} /\ MaxTokens \in Nat \ {0} /\ NumPlayers \in Nat \ {0}
      /\ DeckSize \in Nat
  BY DeckSizeType, Zenon DEF GameStateAssumption
<1>2. PileType
  BY <1>1 DEF Init, PileType
<1>3. SetType
  BY DEF Init, SetType
<1>4. TokenType
  <2>1. clue_tokens \in 0 .. MaxTokens
    BY <1>1 DEF Init
  <2>2. half_clue_token \in BOOLEAN /\ ~half_clue_token
    BY Zenon DEF Init
  <2>. QED
    BY <2>1, <2>2, Zenon DEF TokenType
<1>5. TableType
  BY <1>1 DEF Init, TableType, NoTurns, Players
<1>. QED
  BY <1>2, <1>3, <1>4, <1>5 DEF TypeOK

\* Each message and each move of the server keeps the types.
LEMMA TypeStep ==
  ASSUME GameStateAssumption, TypeOK, [Next]_vars
  PROVE  TypeOK'
<1>p. /\ current_player_index \in Players
      /\ next_player_index(current_player_index) \in Players
      /\ NumPlayers \in Nat
  BY NextPlayerType, Zenon DEF TypeOK, TableType, GameStateAssumption
<1>1. CASE Deal
  <2>1. PICK p \in Players, id \in InDeck : on_draw(p, id)
    BY <1>1 DEF Deal
  <2>2. id \in Identity
    BY DEF InDeck
  <2>3. phase' \in {"deal", "act"} /\ UNCHANGED current_player_index
    BY <1>1 DEF Deal
  <2>. QED
    BY <1>1, <1>p, <2>1, <2>2, <2>3, DrawKeepsTypes DEF Deal, TypeOK, TableType
<1>2. CASE GiveClue
  <2>1. endgame_turns' \in -1 .. NumPlayers
    BY <1>2, SpendKeepsTurns DEF GiveClue, on_clue, ended, TypeOK, TableType
  <2>2. PileType' /\ SetType'
    BY <1>2 DEF GiveClue, on_clue, pileVars, setVars, TypeOK, PileType, SetType
  <2>3. TokenType'
    <3>1. /\ clue_tokens \in 0 .. MaxTokens /\ MaxTokens \in Nat /\ clue_tokens > 0
          /\ clue_tokens' = clue_tokens - 1
      BY <1>2, Zenon DEF GiveClue, on_clue, TypeOK, TokenType, GameStateAssumption
    <3>2. clue_tokens' \in 0 .. MaxTokens /\ clue_tokens' < MaxTokens
      BY <3>1
    <3>. QED
      BY <1>2, <3>2, Zenon DEF GiveClue, on_clue, TypeOK, TokenType
  <2>. QED
    BY <1>2, <1>p, <2>1, <2>2, <2>3 DEF GiveClue, on_clue, TypeOK, TableType
<1>3. ASSUME NEW i \in 1 .. HandSize, PressPlay(i) PROVE TypeOK'
  <2>1. i \in 1 .. Len(hands[current_player_index]) /\ ~ended
    BY <1>3 DEF PressPlay
  <2>2. /\ PileType' /\ SetType' /\ TokenType'
        /\ strikes' \in 0 .. 3 /\ endgame_turns' \in -1 .. NumPlayers
        /\ hands' \in [Players -> Seq(Identity)] /\ UNCHANGED cards_left
    <3>1. CASE on_play(current_player_index, i)
      BY <1>p, <2>1, <3>1, PlayMessageKeepsTypes
    <3>2. CASE on_discard(current_player_index, i, TRUE)
      BY <1>p, <2>1, <3>2, DiscardMessageKeepsTypes
    <3>. QED
      BY <1>3, <3>1, <3>2, Zenon DEF PressPlay
  <2>3. current_player_index' \in Players /\ phase' \in {"act", "draw"}
    BY <1>3, <1>p DEF PressPlay, PassTurn
  <2>. QED
    BY <2>2, <2>3 DEF TypeOK, TableType
<1>4. ASSUME NEW i \in 1 .. HandSize, PressDiscard(i) PROVE TypeOK'
  <2>1. i \in 1 .. Len(hands[current_player_index]) /\ ~ended
    BY <1>4 DEF PressDiscard
  <2>2. PICK failed \in BOOLEAN : on_discard(current_player_index, i, failed)
    BY <1>4, Zenon DEF PressDiscard
  <2>3. /\ PileType' /\ SetType' /\ TokenType'
        /\ strikes' \in 0 .. 3 /\ endgame_turns' \in -1 .. NumPlayers
        /\ hands' \in [Players -> Seq(Identity)] /\ UNCHANGED cards_left
    BY <1>p, <2>1, <2>2, DiscardMessageKeepsTypes
  <2>4. current_player_index' \in Players /\ phase' \in {"act", "draw"}
    BY <1>4, <1>p DEF PressDiscard, PassTurn
  <2>. QED
    BY <2>3, <2>4 DEF TypeOK, TableType
<1>5. CASE PressDeck
  <2>1. PICK id \in InDeck : on_deck_play(id)
    BY <1>5 DEF PressDeck
  <2>2. id \in Identity
    BY DEF InDeck
  <2>3. PileType' /\ SetType' /\ TokenType'
    <3>1. CASE with_play(id)
      BY <2>2, <3>1, PlayKeepsTypes DEF TypeOK
    <3>2. CASE with_discard(id) /\ regain_clue
      BY <2>2, <3>2, DiscardKeepsTypes, RegainKeepsTokens DEF TypeOK
    <3>. QED
      BY <2>1, <3>1, <3>2, Zenon DEF on_deck_play
  <2>4. TableType'
    BY <1>5, <1>p, <2>1 DEF PressDeck, on_deck_play, TypeOK, TableType
  <2>. QED
    BY <2>3, <2>4 DEF TypeOK
<1>6. CASE Draw
  <2>1. PICK id \in InDeck : on_draw(current_player_index, id)
    BY <1>6 DEF Draw
  <2>2. id \in Identity
    BY DEF InDeck
  <2>. QED
    BY <1>6, <1>p, <2>1, <2>2, DrawKeepsTypes DEF Draw, TypeOK, TableType
<1>7. CASE UNCHANGED vars
  <2>1. PileType' /\ SetType' /\ TableType'
    BY <1>7 DEF vars, pileVars, setVars, tableVars, TypeOK, PileType, SetType, TableType
  <2>2. TokenType'
    BY <1>7, Zenon DEF vars, tokenVars, TypeOK, TokenType
  <2>. QED
    BY <2>1, <2>2 DEF TypeOK
<1>. QED
  BY <1>1, <1>2, <1>3, <1>4, <1>5, <1>6, <1>7 DEF Next, GameOver

\* In every variant the tokens stay within their cap, a half token is only kept
\* below it, there are at most three strikes, and the countdown and the piles
\* keep their ranges, whatever is reversed, inverted or played off the deck.
THEOREM StateTypes == Spec => []TypeOK
<1>1. Init => TypeOK
  BY TypeInit, GameStateAssumption
<1>2. TypeOK /\ [Next]_vars => TypeOK'
  BY TypeStep, GameStateAssumption
<1>. QED
  BY <1>1, <1>2, PTL DEF Spec

-----------------------------------------------------------------------------
(* The accounting.  Ranks are counted in play order, so that a reversed    *)
(* suit looks like any other: K(id) is the place of a card in its suit.    *)

K(id) == KthRank(id[1], id[2])
Count(id) == CardCount[id[1]][id[2]]
Base(id) == base_count[id[1]][id[2]]
Lost(id) == discard_stacks[id[1]][id[2]]
Played(id) == K(id) <= played_count(id[1])
InReach(id) == K(id) <= max_played(id[1])

\* A suit is played no further than it can go, which is within the suit.
StacksInv ==
  \A s \in Suits : /\ played_count(s) \in 0 .. Top /\ max_played(s) \in 0 .. Top
                   /\ played_count(s) <= max_played(s)

\* base_count: the copies on the table, in the discard pile or played.
PlacedInv == \A id \in Identity : Base(id) = Lost(id) + (IF Played(id) THEN 1 ELSE 0)

\* max_ranks: nothing within reach is lost, the first card beyond it is.
ReachInv ==
  \A id \in Identity : /\ InReach(id) => Lost(id) < Count(id)
                       /\ K(id) = max_played(id[1]) + 1 => Lost(id) = Count(id)

\* critical_set: one copy is left of each card in it, or it was the one played.
CriticalInv ==
  \A id \in Identity :
     /\ id \in critical_set => Base(id) = (IF Played(id) THEN Count(id) ELSE Count(id) - 1)
     /\ ~Played(id) /\ InReach(id) /\ Lost(id) = Count(id) - 1 => id \in critical_set

\* playable_set: the next card of each suit, wanted unless it is lost.
PlayableInv ==
  \A id \in Identity :
     /\ id \in playable_set => K(id) = played_count(id[1]) + 1
     /\ InReach(id) /\ K(id) = played_count(id[1]) + 1 => id \in playable_set

\* trash_set: played, or out of reach.
TrashInv == \A id \in trash_set : Played(id) \/ ~InReach(id)

PilesInv == /\ StacksInv /\ PlacedInv /\ ReachInv
            /\ CriticalInv /\ PlayableInv /\ TrashInv

\* The predicates of State in play order.
LEMMA Coordinates ==
  ASSUME GameStateAssumption, PileType, NEW id \in Identity
  PROVE  /\ id[1] \in Suits /\ id[2] \in Ranks /\ id = <<id[1], id[2]>>
         /\ K(id) \in 1 .. Top
         /\ Count(id) \in Nat \ {0} /\ Base(id) \in Nat /\ Lost(id) \in Nat
         /\ played_count(id[1]) \in Int /\ max_played(id[1]) \in Int
         /\ is_basic_trash(id) <=> Played(id) \/ ~InReach(id)
         /\ is_playable(id) <=> K(id) = played_count(id[1]) + 1
         /\ IsFinal(id) <=> K(id) = Top
<1>1. id[1] \in Suits /\ id[2] \in 1 .. Top /\ id = <<id[1], id[2]>> /\ Top \in Nat \ {0}
  BY DEF Identity, Ranks, GameStateAssumption
<1>2. play_stacks[id[1]] \in 0 .. Top + 1 /\ max_ranks[id[1]] \in 0 .. Top + 1
  BY <1>1 DEF PileType
<1>3. K(id) \in 1 .. Top
  BY <1>1 DEF K, KthRank
<1>4. Base(id) \in Nat /\ Lost(id) \in Nat
  BY <1>1 DEF PileType, Base, Lost, Ranks
<1>5. Count(id) \in Nat \ {0}
  BY <1>1 DEF GameStateAssumption, Count
<1>6. played_count(id[1]) \in Int /\ max_played(id[1]) \in Int
  BY <1>1, <1>2, SMTT(20) DEF played_count, max_played
<1>7. /\ is_basic_trash(id) <=> Played(id) \/ ~InReach(id)
      /\ is_playable(id) <=> K(id) = played_count(id[1]) + 1
  <2>1. CASE id[1] \in Reversed
    <3>1. /\ K(id) = Top + 1 - id[2]
          /\ played_count(id[1]) = Top + 1 - play_stacks[id[1]]
          /\ max_played(id[1]) = Top + 1 - max_ranks[id[1]]
      BY <2>1 DEF K, KthRank, played_count, max_played
    <3>2. /\ is_basic_trash(id) <=> id[2] >= play_stacks[id[1]] \/ id[2] < max_ranks[id[1]]
          /\ is_playable(id) <=> id[2] = play_stacks[id[1]] + (-1)
      BY <2>1 DEF is_basic_trash, is_playable
    <3>. DEFINE r == id[2]
                top == play_stacks[id[1]]
                max == max_ranks[id[1]]
    <3>3. r \in Int /\ top \in Int /\ max \in Int /\ Top \in Int
      BY <1>1, <1>2
    <3>. HIDE DEF r, top, max
    <3>4. /\ Top + 1 - r <= Top + 1 - top <=> r >= top
          /\ Top + 1 - r <= Top + 1 - max <=> ~(r < max)
          /\ Top + 1 - r = Top + 1 - top + 1 <=> r = top + (-1)
      BY <3>3
    <3>5. /\ Played(id) <=> id[2] >= play_stacks[id[1]]
          /\ InReach(id) <=> ~(id[2] < max_ranks[id[1]])
          /\ K(id) = played_count(id[1]) + 1 <=> id[2] = play_stacks[id[1]] + (-1)
      BY <3>1, <3>4 DEF r, top, max, Played, InReach
    <3>. QED
      BY <3>2, <3>5
  <2>2. CASE id[1] \notin Reversed
    <3>1. /\ K(id) = id[2]
          /\ played_count(id[1]) = play_stacks[id[1]]
          /\ max_played(id[1]) = max_ranks[id[1]]
      BY <2>2 DEF K, KthRank, played_count, max_played
    <3>2. /\ is_basic_trash(id) <=> id[2] <= play_stacks[id[1]] \/ id[2] > max_ranks[id[1]]
          /\ is_playable(id) <=> id[2] = play_stacks[id[1]] + 1
      BY <2>2 DEF is_basic_trash, is_playable
    <3>3. /\ id[2] \in Int /\ Top \in Int /\ play_stacks[id[1]] \in Int /\ max_ranks[id[1]] \in Int
      BY <1>1, <1>2
    <3>4. is_basic_trash(id) <=> Played(id) \/ ~InReach(id)
      BY <3>1, <3>2, <3>3 DEF Played, InReach
    <3>. QED
      BY <3>1, <3>2, <3>3, <3>4
  <2>. QED
    BY <2>1, <2>2
<1>9. IsFinal(id) <=> K(id) = Top
  BY <1>1 DEF IsFinal, K, KthRank
<1>. QED
  BY <1>1, <1>3, <1>4, <1>5, <1>6, <1>7, <1>9 DEF Ranks

\* A card is its suit and its place in it.
LEMMA PlaceNames ==
  ASSUME GameStateAssumption, NEW id \in Identity, NEW x \in Identity,
         id[1] = x[1], K(id) = K(x)
  PROVE  id = x
<1>1. /\ Top \in Nat /\ id[2] \in 1 .. Top /\ x[2] \in 1 .. Top
      /\ id = <<id[1], id[2]>> /\ x = <<x[1], x[2]>>
  BY DEF Identity, Ranks, GameStateAssumption
<1>2. id[2] = x[2]
  BY <1>1 DEF K, KthRank
<1>. QED
  BY <1>1, <1>2

\* One copy more, in play order.
LEMMA OneMoreAt ==
  ASSUME NEW count \in [Suits -> [Ranks -> Nat]], NEW id \in Identity, NEW x \in Identity
  PROVE  [count EXCEPT ![id[1]][id[2]] = @ + 1][x[1]][x[2]]
           = IF x = id THEN count[x[1]][x[2]] + 1 ELSE count[x[1]][x[2]]
<1>1. /\ id[1] \in Suits /\ id[2] \in Ranks /\ x[1] \in Suits /\ x[2] \in Ranks
      /\ id = <<id[1], id[2]>> /\ x = <<x[1], x[2]>>
  BY DEF Identity
<1>. QED
  BY <1>1

\* What with_play does, in play order.
LEMMA PlayMoves ==
  ASSUME GameStateAssumption, PileType, NEW id \in Identity, with_play(id), is_playable(id)
  PROVE  /\ \A s \in Suits : /\ played_count(s)' = (IF s = id[1] THEN played_count(s) + 1
                                                    ELSE played_count(s))
                             /\ max_played(s)' = max_played(s)
         /\ \A x \in Identity : /\ Base(x)' = (IF x = id THEN Base(x) + 1 ELSE Base(x))
                                /\ Lost(x)' = Lost(x)
                                /\ x \in NextIds(id) <=> x[1] = id[1] /\ K(x) = K(id) + 1
<1>1. id[1] \in Suits /\ id[2] \in 1 .. Top /\ Top \in Nat \ {0}
  BY DEF Identity, Ranks, GameStateAssumption
<1>2. ASSUME NEW s \in Suits
      PROVE  /\ played_count(s)' = (IF s = id[1] THEN played_count(s) + 1 ELSE played_count(s))
             /\ max_played(s)' = max_played(s)
  <2>1. play_stacks' = [play_stacks EXCEPT ![id[1]] = id[2]] /\ max_ranks' = max_ranks
    BY DEF with_play
  <2>2. play_stacks'[s] = IF s = id[1] THEN id[2] ELSE play_stacks[s]
    BY <2>1 DEF PileType
  <2>3. play_stacks[s] \in 0 .. Top + 1
    BY <1>1 DEF PileType
  <2>4. max_played(s)' = max_played(s)
    BY <2>1 DEF max_played
  <2>5. CASE s = id[1]
    <3>1. id[2] = play_stacks[s] + (IF s \in Reversed THEN -1 ELSE 1) /\ play_stacks'[s] = id[2]
      BY <2>2, <2>5 DEF is_playable
    <3>2. played_count(s)' = played_count(s) + 1
      BY <1>1, <2>3, <3>1 DEF played_count
    <3>. QED
      BY <2>4, <2>5, <3>2
  <2>6. CASE s # id[1]
    BY <2>2, <2>4, <2>6 DEF played_count
  <2>. QED
    BY <2>5, <2>6
<1>3. ASSUME NEW x \in Identity
      PROVE  /\ Base(x)' = (IF x = id THEN Base(x) + 1 ELSE Base(x))
             /\ Lost(x)' = Lost(x)
             /\ x \in NextIds(id) <=> x[1] = id[1] /\ K(x) = K(id) + 1
  <2>1. base_count \in [Suits -> [Ranks -> Nat]]
    BY DEF PileType
  <2>2. base_count' = [base_count EXCEPT ![id[1]][id[2]] = @ + 1] /\ discard_stacks' = discard_stacks
    BY DEF with_play
  <2>3. Base(x)' = (IF x = id THEN Base(x) + 1 ELSE Base(x)) /\ Lost(x)' = Lost(x)
    <3>1. [base_count EXCEPT ![id[1]][id[2]] = @ + 1][x[1]][x[2]]
            = IF x = id THEN base_count[x[1]][x[2]] + 1 ELSE base_count[x[1]][x[2]]
      BY <2>1, OneMoreAt, ZenonT(30)
    <3>. QED
      BY <2>2, <3>1 DEF Base, Lost
  <2>4. x[1] \in Suits /\ x[2] \in 1 .. Top /\ x = <<x[1], x[2]>>
    BY DEF Identity, Ranks
  <2>5. x \in NextIds(id) <=>
          x[1] = id[1] /\ x[2] = (IF id[1] \in Reversed THEN id[2] - 1 ELSE id[2] + 1)
    <3>. DEFINE n == IF id[1] \in Reversed THEN id[2] - 1 ELSE id[2] + 1
    <3>1. x \in NextIds(id) <=> \E r \in {n} \cap Ranks : x = <<id[1], r>>
      BY DEF NextIds
    <3>. HIDE DEF n
    <3>2. x \in NextIds(id) <=> x[1] = id[1] /\ x[2] = n
      BY <2>4, <3>1 DEF Ranks
    <3>. QED
      BY <3>2 DEF n
  <2>6. CASE x[1] = id[1]
    <3>1. K(x) = K(id) + 1
            <=> x[2] = (IF id[1] \in Reversed THEN id[2] - 1 ELSE id[2] + 1)
      <4>1. x[2] \in Int /\ id[2] \in Int /\ Top \in Int
        BY <1>1, <2>4
      <4>2. CASE id[1] \in Reversed
        <5>1. K(x) = Top + 1 - x[2] /\ K(id) = Top + 1 - id[2]
          BY <2>6, <4>2 DEF K, KthRank
        <5>. QED
          BY <4>1, <4>2, <5>1
      <4>3. CASE id[1] \notin Reversed
        <5>1. K(x) = x[2] /\ K(id) = id[2]
          BY <2>6, <4>3 DEF K, KthRank
        <5>. QED
          BY <4>1, <4>3, <5>1
      <4>. QED
        BY <4>2, <4>3
    <3>. QED
      BY <2>3, <2>5, <2>6, <3>1
  <2>7. CASE x[1] # id[1]
    BY <2>3, <2>5, <2>7
  <2>. QED
    BY <2>6, <2>7
<1>. QED
  BY <1>2, <1>3

\* What with_discard does, in play order.
LEMMA DiscardMoves ==
  ASSUME GameStateAssumption, PileType, NEW id \in Identity, with_discard(id)
  PROVE  /\ \A s \in Suits :
              /\ played_count(s)' = played_count(s)
              /\ max_played(s)' = (IF s = id[1] /\ id \in critical_set /\ K(id) - 1 < max_played(s)
                                   THEN K(id) - 1 ELSE max_played(s))
         /\ \A x \in Identity : /\ Base(x)' = (IF x = id THEN Base(x) + 1 ELSE Base(x))
                                /\ Lost(x)' = (IF x = id THEN Lost(x) + 1 ELSE Lost(x))
<1>1. id[1] \in Suits /\ id[2] \in 1 .. Top /\ Top \in Nat \ {0}
  BY DEF Identity, Ranks, GameStateAssumption
<1>2. ASSUME NEW s \in Suits
      PROVE  /\ played_count(s)' = played_count(s)
             /\ max_played(s)' = (IF s = id[1] /\ id \in critical_set /\ K(id) - 1 < max_played(s)
                                  THEN K(id) - 1 ELSE max_played(s))
  <2>1. play_stacks' = play_stacks
    BY DEF with_discard
  <2>2. max_ranks \in [Suits -> 0 .. Top + 1] /\ max_ranks[s] \in 0 .. Top + 1
    BY <1>1 DEF PileType
  <2>3. CASE id \in critical_set
    <3>1. max_ranks'[s] = IF s = id[1] THEN CappedRank(id) ELSE max_ranks[s]
      BY <2>2, <2>3 DEF with_discard
    <3>2. played_count(s)' = played_count(s)
      BY <2>1 DEF played_count
    <3>3. CASE s # id[1]
      BY <3>1, <3>2, <3>3 DEF max_played
    <3>4. CASE s = id[1]
      <4>1. max_ranks'[s] = CappedRank(id)
        BY <3>1, <3>4
      <4>2. CASE s \in Reversed
        <5>1. CappedRank(id) = IF id[2] + 1 > max_ranks[s] THEN id[2] + 1 ELSE max_ranks[s]
          BY <3>4, <4>2 DEF CappedRank
        <5>2. K(id) = Top + 1 - id[2] /\ max_played(s) = Top + 1 - max_ranks[s]
              /\ max_played(s)' = Top + 1 - max_ranks'[s]
          BY <3>4, <4>2 DEF K, KthRank, max_played
        <5>3. max_played(s)' = IF K(id) - 1 < max_played(s) THEN K(id) - 1 ELSE max_played(s)
          BY <1>1, <2>2, <4>1, <5>1, <5>2
        <5>. QED
          BY <2>3, <3>2, <3>4, <5>3
      <4>3. CASE s \notin Reversed
        <5>1. CappedRank(id) = IF id[2] - 1 < max_ranks[s] THEN id[2] - 1 ELSE max_ranks[s]
          BY <3>4, <4>3 DEF CappedRank
        <5>2. K(id) = id[2] /\ max_played(s) = max_ranks[s] /\ max_played(s)' = max_ranks'[s]
          BY <3>4, <4>3 DEF K, KthRank, max_played
        <5>3. max_played(s)' = IF K(id) - 1 < max_played(s) THEN K(id) - 1 ELSE max_played(s)
          BY <1>1, <2>2, <4>1, <5>1, <5>2
        <5>. QED
          BY <2>3, <3>2, <3>4, <5>3
      <4>. QED
        BY <4>2, <4>3
    <3>. QED
      BY <3>3, <3>4
  <2>4. CASE id \notin critical_set
    BY <2>1, <2>4 DEF with_discard, played_count, max_played
  <2>. QED
    BY <2>3, <2>4
<1>3. ASSUME NEW x \in Identity
      PROVE  /\ Base(x)' = (IF x = id THEN Base(x) + 1 ELSE Base(x))
             /\ Lost(x)' = (IF x = id THEN Lost(x) + 1 ELSE Lost(x))
  <2>1. base_count \in [Suits -> [Ranks -> Nat]] /\ discard_stacks \in [Suits -> [Ranks -> Nat]]
    BY DEF PileType
  <2>2. /\ base_count' = [base_count EXCEPT ![id[1]][id[2]] = @ + 1]
        /\ discard_stacks' = [discard_stacks EXCEPT ![id[1]][id[2]] = @ + 1]
    BY DEF with_discard
  <2>3. Base(x)' = (IF x = id THEN Base(x) + 1 ELSE Base(x))
    BY <2>1, <2>2, OneMoreAt DEF Base
  <2>4. [discard_stacks EXCEPT ![id[1]][id[2]] = @ + 1][x[1]][x[2]]
          = IF x = id THEN discard_stacks[x[1]][x[2]] + 1 ELSE discard_stacks[x[1]][x[2]]
    <3>1. discard_stacks \in [Suits -> [Ranks -> Nat]]
      BY <2>1
    <3>. QED
      BY <3>1, OneMoreAt, ZenonT(30)
  <2>5. Lost(x)' = (IF x = id THEN Lost(x) + 1 ELSE Lost(x))
    BY <2>2, <2>4 DEF Lost
  <2>. QED
    BY <2>3, <2>5
<1>. QED
  BY <1>2, <1>3

\* Landing the next card of a suit keeps the piles in order.  It is within reach:
\* otherwise its suit would be played out, and its copies all lost.
LEMMA PlayKeepsPiles ==
  ASSUME GameStateAssumption, PileType, SetType, PilesInv, NEW id \in Identity,
         with_play(id), is_playable(id), Base(id) < Count(id)
  PROVE  PilesInv'
<1>1. /\ id[1] \in Suits /\ K(id) \in 1 .. Top /\ K(id) = played_count(id[1]) + 1
      /\ Count(id) \in Nat /\ Base(id) \in Nat /\ Lost(id) \in Nat
  BY Coordinates
<1>2. /\ Played(id) <=> K(id) <= played_count(id[1])
      /\ InReach(id) <=> K(id) <= max_played(id[1])
  BY DEF Played, InReach
<1>3. /\ played_count(id[1]) \in 0 .. Top /\ max_played(id[1]) \in 0 .. Top
      /\ played_count(id[1]) <= max_played(id[1])
  BY <1>1 DEF PilesInv, StacksInv
<1>4. ~Played(id) /\ InReach(id)
  <2>1. K(id) = max_played(id[1]) + 1 => Lost(id) = Count(id)
    BY DEF PilesInv, ReachInv
  <2>2. Base(id) = Lost(id)
    BY <1>1, <1>2, <1>3 DEF PilesInv, PlacedInv
  <2>. QED
    BY <1>1, <1>2, <1>3, <2>1, <2>2
<1>5. \A s \in Suits : /\ played_count(s)' = (IF s = id[1] THEN played_count(s) + 1
                                              ELSE played_count(s))
                       /\ max_played(s)' = max_played(s)
  BY PlayMoves
<1>6. ASSUME NEW x \in Identity
      PROVE  /\ x[1] \in Suits /\ K(x) \in 1 .. Top /\ Count(x) \in Nat \ {0}
             /\ Base(x) \in Nat /\ Lost(x) \in Nat
             /\ Base(x)' = (IF x = id THEN Base(x) + 1 ELSE Base(x)) /\ Lost(x)' = Lost(x)
             /\ x \in NextIds(id) <=> x[1] = id[1] /\ K(x) = K(id) + 1
             /\ K(x)' = K(x) /\ Count(x)' = Count(x)
             /\ InReach(x)' <=> InReach(x)
             /\ Played(x)' <=> Played(x) \/ x = id
  <2>1. x[1] \in Suits /\ K(x) \in 1 .. Top /\ K(x)' = K(x) /\ Count(x)' = Count(x)
    BY Coordinates DEF K, KthRank, Count
  <2>2. InReach(x)' <=> InReach(x)
    BY <1>5, <2>1 DEF InReach
  <2>3. Played(x)' <=> Played(x) \/ x = id
    <3>1. x[1] = id[1] /\ K(x) = K(id) => x = id
      BY PlaceNames
    <3>2. /\ Played(x)' <=> K(x) <= (IF x[1] = id[1] THEN played_count(x[1]) + 1
                                     ELSE played_count(x[1]))
          /\ Played(x) <=> K(x) <= played_count(x[1])
      BY <1>5, <2>1 DEF Played
    <3>3. played_count(x[1]) \in 0 .. Top
      BY <2>1 DEF PilesInv, StacksInv
    <3>. QED
      BY <1>1, <2>1, <3>1, <3>2, <3>3
  <2>. QED
    BY <2>1, <2>2, <2>3, Coordinates, PlayMoves
<1>7. StacksInv'
  <2>1. SUFFICES ASSUME NEW s \in Suits
                 PROVE  (/\ played_count(s) \in 0 .. Top /\ max_played(s) \in 0 .. Top
                         /\ played_count(s) <= max_played(s))'
    BY DEF StacksInv
  <2>2. /\ played_count(s) \in 0 .. Top /\ max_played(s) \in 0 .. Top
        /\ played_count(s) <= max_played(s)
    BY DEF PilesInv, StacksInv
  <2>3. /\ played_count(s)' = (IF s = id[1] THEN K(id) ELSE played_count(s))
        /\ max_played(s)' = max_played(s)
    BY <1>1, <1>5
  <2>4. K(id) <= max_played(id[1])
    BY <1>2, <1>4
  <2>. QED
    BY <1>1, <2>2, <2>3, <2>4
<1>8. PlacedInv'
  <2>1. SUFFICES ASSUME NEW x \in Identity
                 PROVE  (Base(x) = Lost(x) + (IF Played(x) THEN 1 ELSE 0))'
    BY DEF PlacedInv
  <2>2. Base(x) = Lost(x) + (IF Played(x) THEN 1 ELSE 0)
    BY DEF PilesInv, PlacedInv
  <2>. QED
    BY <1>4, <1>6, <2>2
<1>9. ReachInv'
  <2>1. SUFFICES ASSUME NEW x \in Identity
                 PROVE  (/\ InReach(x) => Lost(x) < Count(x)
                         /\ K(x) = max_played(x[1]) + 1 => Lost(x) = Count(x))'
    BY DEF ReachInv
  <2>2. /\ InReach(x) => Lost(x) < Count(x)
        /\ K(x) = max_played(x[1]) + 1 => Lost(x) = Count(x)
    BY DEF PilesInv, ReachInv
  <2>. QED
    BY <1>5, <1>6, <2>2
<1>10. CriticalInv'
  <2>1. SUFFICES ASSUME NEW x \in Identity
                 PROVE  (/\ x \in critical_set =>
                              Base(x) = (IF Played(x) THEN Count(x) ELSE Count(x) - 1)
                         /\ ~Played(x) /\ InReach(x) /\ Lost(x) = Count(x) - 1
                              => x \in critical_set)'
    BY DEF CriticalInv
  <2>2. /\ x \in critical_set => Base(x) = (IF Played(x) THEN Count(x) ELSE Count(x) - 1)
        /\ ~Played(x) /\ InReach(x) /\ Lost(x) = Count(x) - 1 => x \in critical_set
    BY DEF PilesInv, CriticalInv
  <2>3. critical_set' = critical_set
    BY DEF with_play
  <2>. QED
    BY <1>4, <1>6, <2>2, <2>3
<1>11. PlayableInv'
  <2>1. SUFFICES ASSUME NEW x \in Identity
                 PROVE  (/\ x \in playable_set => K(x) = played_count(x[1]) + 1
                         /\ InReach(x) /\ K(x) = played_count(x[1]) + 1 => x \in playable_set)'
    BY DEF PlayableInv
  <2>2. /\ x \in playable_set => K(x) = played_count(x[1]) + 1
        /\ InReach(x) /\ K(x) = played_count(x[1]) + 1 => x \in playable_set
    BY DEF PilesInv, PlayableInv
  <2>3. x \in playable_set' <=> (x \in playable_set /\ x # id) \/ x \in NextIds(id)
    BY DEF with_play
  <2>4. x[1] = id[1] /\ K(x) = K(id) => x = id
    BY PlaceNames
  <2>5. played_count(x[1])' = IF x[1] = id[1] THEN K(id) ELSE played_count(x[1])
    BY <1>1, <1>5, <1>6
  <2>6. x \in NextIds(id) <=> x[1] = id[1] /\ K(x) = K(id) + 1
    BY <1>6
  <2>7. CASE x[1] = id[1]
    <3>1. x \notin playable_set \/ x = id
      BY <1>1, <2>2, <2>4, <2>7
    <3>. QED
      BY <1>6, <2>3, <2>5, <2>6, <2>7, <3>1
  <2>8. CASE x[1] # id[1]
    BY <1>6, <2>2, <2>3, <2>5, <2>6, <2>8
  <2>. QED
    BY <2>7, <2>8
<1>12. TrashInv'
  <2>1. SUFFICES ASSUME NEW x \in trash_set' PROVE (Played(x) \/ ~InReach(x))'
    BY DEF TrashInv
  <2>2. x \in trash_set \/ x = id
    BY <2>1 DEF with_play
  <2>3. x \in Identity
    BY <2>2 DEF SetType
  <2>4. x \in trash_set => Played(x) \/ ~InReach(x)
    BY DEF PilesInv, TrashInv
  <2>. QED
    BY <1>6, <2>2, <2>3, <2>4
<1>. QED
  BY <1>7, <1>8, <1>9, <1>10, <1>11, <1>12 DEF PilesInv

\* So does discarding a copy that is not already placed: the last copy of a card
\* within reach is one critical_set holds, and its suit is capped below it.
LEMMA DiscardKeepsPiles ==
  ASSUME GameStateAssumption, PileType, SetType, PilesInv, NEW id \in Identity,
         with_discard(id), Base(id) < Count(id)
  PROVE  PilesInv'
<1>. DEFINE critical == id \in critical_set
<1>1. /\ id[1] \in Suits /\ K(id) \in 1 .. Top
      /\ Count(id) \in Nat /\ Base(id) \in Nat /\ Lost(id) \in Nat
      /\ is_basic_trash(id) <=> Played(id) \/ ~InReach(id)
  BY Coordinates
<1>2. /\ Played(id) <=> K(id) <= played_count(id[1])
      /\ InReach(id) <=> K(id) <= max_played(id[1])
  BY DEF Played, InReach
<1>3. \A s \in Suits : /\ played_count(s) \in 0 .. Top /\ max_played(s) \in 0 .. Top
                       /\ played_count(s) <= max_played(s)
  BY DEF PilesInv, StacksInv
<1>4. /\ Base(id) = Lost(id) + (IF Played(id) THEN 1 ELSE 0)
      /\ InReach(id) => Lost(id) < Count(id)
      /\ K(id) = max_played(id[1]) + 1 => Lost(id) = Count(id)
      /\ critical => Base(id) = (IF Played(id) THEN Count(id) ELSE Count(id) - 1)
      /\ ~Played(id) /\ InReach(id) /\ Lost(id) = Count(id) - 1 => critical
  BY DEF PilesInv, PlacedInv, ReachInv, CriticalInv
<1>5. /\ critical => ~Played(id) /\ Lost(id) = Count(id) - 1
      /\ ~critical => (InReach(id) => Lost(id) + 1 < Count(id))
      /\ K(id) # max_played(id[1]) + 1
  BY <1>1, <1>4
<1>6. \A s \in Suits :
         /\ played_count(s)' = played_count(s)
         /\ max_played(s)' = (IF s = id[1] /\ critical /\ K(id) - 1 < max_played(s)
                              THEN K(id) - 1 ELSE max_played(s))
  BY DiscardMoves
<1>. HIDE DEF critical
<1>7. ASSUME NEW x \in Identity
      PROVE  /\ x[1] \in Suits /\ K(x) \in 1 .. Top /\ Count(x) \in Nat \ {0}
             /\ Base(x) \in Nat /\ Lost(x) \in Nat
             /\ Base(x)' = (IF x = id THEN Base(x) + 1 ELSE Base(x))
             /\ Lost(x)' = (IF x = id THEN Lost(x) + 1 ELSE Lost(x))
             /\ K(x)' = K(x) /\ Count(x)' = Count(x)
             /\ Played(x)' <=> Played(x)
             /\ Played(x) <=> K(x) <= played_count(x[1])
             /\ InReach(x)' <=> K(x) <= max_played(x[1])'
             /\ InReach(x) <=> K(x) <= max_played(x[1])
  <2>1. x[1] \in Suits /\ K(x)' = K(x) /\ Count(x)' = Count(x)
    BY Coordinates DEF K, KthRank, Count
  <2>2. Played(x)' <=> Played(x)
    BY <1>6, <2>1 DEF Played
  <2>3. /\ Base(x)' = (IF x = id THEN Base(x) + 1 ELSE Base(x))
        /\ Lost(x)' = (IF x = id THEN Lost(x) + 1 ELSE Lost(x))
    BY DiscardMoves
  <2>4. InReach(x)' <=> K(x) <= max_played(x[1])'
    BY <2>1 DEF InReach
  <2>5. /\ Played(x) <=> K(x) <= played_count(x[1])
        /\ InReach(x) <=> K(x) <= max_played(x[1])
    BY DEF Played, InReach
  <2>. QED
    BY <2>1, <2>2, <2>3, <2>4, <2>5, Coordinates
<1>8. ASSUME NEW x \in Identity
      PROVE  /\ InReach(x)' => InReach(x)
             /\ critical => ~InReach(id)'
             /\ x[1] = id[1] /\ K(x) = K(id) => x = id
             /\ critical /\ InReach(x) /\ ~InReach(x)' => x[1] = id[1] /\ K(x) >= K(id)
             /\ ~critical => max_played(x[1])' = max_played(x[1])
  <2>1. x[1] = id[1] /\ K(x) = K(id) => x = id
    BY PlaceNames
  <2>2. /\ max_played(x[1]) \in 0 .. Top /\ max_played(id[1]) \in 0 .. Top
        /\ K(x) \in 1 .. Top /\ K(id) \in 1 .. Top
    BY <1>1, <1>3, <1>7
  <2>3. /\ max_played(x[1])' = (IF x[1] = id[1] /\ critical /\ K(id) - 1 < max_played(x[1])
                                THEN K(id) - 1 ELSE max_played(x[1]))
        /\ max_played(id[1])' = (IF critical /\ K(id) - 1 < max_played(id[1])
                                 THEN K(id) - 1 ELSE max_played(id[1]))
    BY <1>1, <1>6, <1>7
  <2>4. /\ InReach(x)' <=> K(x) <= max_played(x[1])'
        /\ InReach(id)' <=> K(id) <= max_played(id[1])'
        /\ InReach(x) <=> K(x) <= max_played(x[1])
    BY <1>7
  <2>. QED
    BY <2>1, <2>2, <2>3, <2>4
<1>9. StacksInv'
  <2>1. SUFFICES ASSUME NEW s \in Suits
                 PROVE  (/\ played_count(s) \in 0 .. Top /\ max_played(s) \in 0 .. Top
                         /\ played_count(s) <= max_played(s))'
    BY DEF StacksInv
  <2>2. s = id[1] /\ critical => played_count(s) <= K(id) - 1
    BY <1>1, <1>2, <1>3, <1>5
  <2>. QED
    BY <1>1, <1>3, <1>6, <2>2
<1>10. PlacedInv'
  <2>1. SUFFICES ASSUME NEW x \in Identity
                 PROVE  (Base(x) = Lost(x) + (IF Played(x) THEN 1 ELSE 0))'
    BY DEF PlacedInv
  <2>2. Base(x) = Lost(x) + (IF Played(x) THEN 1 ELSE 0)
    BY DEF PilesInv, PlacedInv
  <2>. QED
    BY <1>7, <2>2
<1>11. ReachInv'
  <2>1. SUFFICES ASSUME NEW x \in Identity
                 PROVE  (/\ InReach(x) => Lost(x) < Count(x)
                         /\ K(x) = max_played(x[1]) + 1 => Lost(x) = Count(x))'
    BY DEF ReachInv
  <2>2. /\ InReach(x) => Lost(x) < Count(x)
        /\ K(x) = max_played(x[1]) + 1 => Lost(x) = Count(x)
    BY DEF PilesInv, ReachInv
  <2>3. InReach(x)' => Lost(x)' < Count(x)'
    BY <1>5, <1>7, <1>8, <2>2
  <2>4. K(x)' = max_played(x[1])' + 1 => Lost(x)' = Count(x)'
    <3>1. x # id => Lost(x)' = Lost(x)
      BY <1>7
    <3>2. x = id /\ critical => Lost(x)' = Count(x)
      BY <1>1, <1>5, <1>7
    <3>3. CASE max_played(x[1])' = max_played(x[1])
      BY <1>5, <1>7, <2>2, <3>1, <3>3
    <3>4. CASE max_played(x[1])' # max_played(x[1])
      <4>1. x[1] = id[1] /\ critical /\ max_played(x[1])' = K(id) - 1
        BY <1>6, <1>7, <3>4
      <4>2. K(x)' = max_played(x[1])' + 1 => x = id
        BY <1>1, <1>7, <1>8, <4>1
      <4>. QED
        BY <1>7, <3>2, <4>1, <4>2
    <3>. QED
      BY <3>3, <3>4
  <2>. QED
    BY <2>3, <2>4
<1>12. CriticalInv'
  <2>1. SUFFICES ASSUME NEW x \in Identity
                 PROVE  (/\ x \in critical_set =>
                              Base(x) = (IF Played(x) THEN Count(x) ELSE Count(x) - 1)
                         /\ ~Played(x) /\ InReach(x) /\ Lost(x) = Count(x) - 1
                              => x \in critical_set)'
    BY DEF CriticalInv
  <2>2. /\ x \in critical_set => Base(x) = (IF Played(x) THEN Count(x) ELSE Count(x) - 1)
        /\ ~Played(x) /\ InReach(x) /\ Lost(x) = Count(x) - 1 => x \in critical_set
    BY DEF PilesInv, CriticalInv
  <2>3. CASE critical
    <3>1. x \in critical_set' <=> x \in critical_set /\ x # id
      BY <2>3 DEF with_discard, critical
    <3>. QED
      BY <1>5, <1>7, <1>8, <2>2, <2>3, <3>1
  <2>4. CASE ~critical
    <3>1. x \in critical_set' <=> \/ x \in critical_set
                                  \/ x = id /\ OneCopyLeft(id) /\ ~is_basic_trash(id)
      BY <2>4 DEF with_discard, critical
    <3>2. OneCopyLeft(id) <=> Count(id) - (Base(id) + 1) = 1
      BY DEF OneCopyLeft, Count, Base
    <3>3. x = id => x \notin critical_set
      BY <2>4 DEF critical
    <3>4. CASE x = id
      BY <1>1, <1>4, <1>7, <1>8, <2>4, <3>1, <3>2, <3>3, <3>4
    <3>5. CASE x # id
      BY <1>7, <1>8, <2>2, <2>4, <3>1, <3>5
    <3>. QED
      BY <3>4, <3>5
  <2>. QED
    BY <2>3, <2>4
<1>13. PlayableInv'
  <2>1. SUFFICES ASSUME NEW x \in Identity
                 PROVE  (/\ x \in playable_set => K(x) = played_count(x[1]) + 1
                         /\ InReach(x) /\ K(x) = played_count(x[1]) + 1 => x \in playable_set)'
    BY DEF PlayableInv
  <2>2. /\ x \in playable_set => K(x) = played_count(x[1]) + 1
        /\ InReach(x) /\ K(x) = played_count(x[1]) + 1 => x \in playable_set
    BY DEF PilesInv, PlayableInv
  <2>3. x \in playable_set' <=> x \in playable_set /\ ~(critical /\ x = id)
    BY DEF with_discard, critical
  <2>4. played_count(x[1])' = played_count(x[1])
    BY <1>6, <1>7
  <2>. QED
    BY <1>7, <1>8, <2>2, <2>3, <2>4
<1>14. TrashInv'
  <2>1. SUFFICES ASSUME NEW x \in trash_set' PROVE (Played(x) \/ ~InReach(x))'
    BY DEF TrashInv
  <2>2. x \in trash_set \/ (x = id /\ critical)
    BY <2>1 DEF with_discard, critical
  <2>3. x \in Identity
    BY <2>2 DEF SetType
  <2>4. x \in trash_set => Played(x) \/ ~InReach(x)
    BY DEF PilesInv, TrashInv
  <2>. QED
    BY <1>7, <1>8, <2>2, <2>3, <2>4
<1>. QED
  BY <1>9, <1>10, <1>11, <1>12, <1>13, <1>14 DEF PilesInv

-----------------------------------------------------------------------------
(* The copies in hands. *)

\* The positions at which the hands h hold id.
Places(h, id) == {at \in Players \X (1 .. HandSize) :
                     /\ at[2] <= Len(h[at[1]])
                     /\ h[at[1]][at[2]] = id}

\* Hands g are h once p's i-th card has left, and once p has drawn c.
Dropped(h, g, p, i) == g[p] = Without(h[p], i) /\ \A q \in Players : q # p => g[q] = h[q]
Drawn(h, g, p, c) == g[p] = <<c>> \o h[p] /\ \A q \in Players : q # p => g[q] = h[q]

\* There are finitely many.
LEMMA PlacesFinite ==
  ASSUME GameStateAssumption, NEW h, NEW id
  PROVE  /\ IsFiniteSet(Places(h, id)) /\ Cardinality(Places(h, id)) \in Nat
<1>1. IsFiniteSet(Players) /\ IsFiniteSet(1 .. HandSize)
  BY FS_Interval DEF Players, GameStateAssumption
<1>2. IsFiniteSet(Players \X (1 .. HandSize))
  BY <1>1, FS_Product
<1>3. Places(h, id) \in SUBSET (Players \X (1 .. HandSize))
  BY DEF Places
<1>. HIDE DEF Places
<1>. QED
  BY <1>2, <1>3, FS_Subset, FS_CardinalityType

\* A card that leaves a hand leaves one place; the others move up.
LEMMA DropPlaces ==
  ASSUME GameStateAssumption, NEW h \in [Players -> Seq(Identity)],
         \A q \in Players : Len(h[q]) <= HandSize,
         NEW p \in Players, NEW i \in 1 .. Len(h[p]), NEW id,
         NEW g, Dropped(h, g, p, i)
  PROVE  Cardinality(Places(g, id))
           = Cardinality(Places(h, id)) - (IF h[p][i] = id THEN 1 ELSE 0)
<1>. DEFINE A == Places(h, id)
            B == Places(g, id)
            back(at) == IF at[1] = p /\ at[2] >= i THEN <<p, at[2] + 1>> ELSE at
            f == [at \in B |-> back(at)]
<1>1. Len(h[p]) \in Nat /\ i \in Nat \ {0} /\ HandSize \in Nat
  BY DEF GameStateAssumption
<1>2. /\ Len(g[p]) = Len(h[p]) - 1
      /\ \A j \in 1 .. Len(h[p]) - 1 : g[p][j] = (IF j < i THEN h[p][j] ELSE h[p][j + 1])
      /\ \A q \in Players : q # p => g[q] = h[q]
  BY <1>1 DEF Without, Dropped
<1>3. \A at : at \in B <=> /\ at \in Players \X (1 .. HandSize)
                           /\ at[2] <= Len(g[at[1]]) /\ g[at[1]][at[2]] = id
  BY DEF Places
<1>4. \A at : at \in A <=> /\ at \in Players \X (1 .. HandSize)
                           /\ at[2] <= Len(h[at[1]]) /\ h[at[1]][at[2]] = id
  BY DEF Places
<1>. HIDE DEF A, B
<1>5. f \in Bijection(B, A \ {<<p, i>>})
  <2>1. ASSUME NEW at \in B PROVE back(at) \in A \ {<<p, i>>}
    <3>1. /\ at = <<at[1], at[2]>> /\ at[1] \in Players /\ at[2] \in 1 .. HandSize
          /\ at[2] <= Len(g[at[1]]) /\ g[at[1]][at[2]] = id
      BY <1>3
    <3>2. CASE at[1] = p /\ at[2] >= i
      <4>1. back(at) = <<p, at[2] + 1>>
        BY <3>2
      <4>2. at[2] \in 1 .. Len(h[p]) - 1 /\ h[p][at[2] + 1] = id
        BY <1>1, <1>2, <3>1, <3>2, SMTT(20)
      <4>3. /\ at[2] + 1 \in 1 .. HandSize /\ at[2] + 1 <= Len(h[p])
            /\ at[2] + 1 # i
        BY <1>1, <3>1, <3>2, <4>2
      <4>4. <<p, at[2] + 1>> \in A
        BY <1>4, <4>2, <4>3
      <4>. QED
        BY <4>1, <4>3, <4>4
    <3>3. CASE at[1] = p /\ at[2] < i
      <4>1. back(at) = at
        BY <1>1, <3>1, <3>3
      <4>2. at[2] \in 1 .. Len(h[p]) - 1 /\ h[p][at[2]] = id
        BY <1>1, <1>2, <3>1, <3>3
      <4>. QED
        BY <1>1, <1>4, <3>1, <3>3, <4>1, <4>2, SMTT(20)
    <3>4. CASE at[1] # p
      BY <1>2, <1>4, <3>1, <3>4, SMTT(20)
    <3>. QED
      BY <1>1, <3>1, <3>2, <3>3, <3>4
  <2>2. ASSUME NEW x \in B, NEW y \in B, back(x) = back(y) PROVE x = y
    <3>1. /\ x = <<x[1], x[2]>> /\ x[2] \in 1 .. HandSize
          /\ y = <<y[1], y[2]>> /\ y[2] \in 1 .. HandSize
      BY <1>3
    <3>2. CASE back(x) = x /\ back(y) = y
      <4>. HIDE DEF back
      <4>. QED
        BY <2>2, <3>2
    <3>3. CASE back(x) # x /\ back(y) # y
      <4>1. x[1] = p /\ y[1] = p /\ <<p, x[2] + 1>> = <<p, y[2] + 1>>
        BY <2>2, <3>3
      <4>2. x[2] + 1 = y[2] + 1
        BY <4>1
      <4>3. x[2] = y[2]
        BY <3>1, <4>2
      <4>. QED
        BY <3>1, <4>1, <4>3
    <3>4. CASE back(x) # x /\ back(y) = y
      <4>1. x[1] = p /\ x[2] >= i /\ y = <<p, x[2] + 1>>
        BY <2>2, <3>4
      <4>. QED
        BY <1>1, <3>1, <3>4, <4>1
    <3>5. CASE back(x) = x /\ back(y) # y
      <4>1. y[1] = p /\ y[2] >= i /\ x = <<p, y[2] + 1>>
        BY <2>2, <3>5
      <4>. QED
        BY <1>1, <3>1, <3>5, <4>1
    <3>. QED
      BY <3>2, <3>3, <3>4, <3>5
  <2>3. ASSUME NEW z \in A \ {<<p, i>>} PROVE \E at \in B : back(at) = z
    <3>1. /\ z = <<z[1], z[2]>> /\ z[1] \in Players /\ z[2] \in 1 .. HandSize
          /\ z[2] <= Len(h[z[1]]) /\ h[z[1]][z[2]] = id /\ z # <<p, i>>
      BY <1>4
    <3>2. CASE z[1] = p /\ z[2] > i
      <4>. DEFINE at == <<p, z[2] - 1>>
      <4>1. at[2] \in 1 .. Len(h[p]) - 1 /\ at[2] >= i /\ at[2] + 1 = z[2] /\ at[2] \in 1 .. HandSize
        BY <1>1, <3>1, <3>2
      <4>2. g[p][at[2]] = id
        BY <1>1, <1>2, <3>1, <3>2, <4>1, SMTT(20)
      <4>3. at \in B
        BY <1>1, <1>2, <1>3, <4>1, <4>2
      <4>4. back(at) = z
        BY <3>1, <3>2, <4>1
      <4>. QED
        BY <4>3, <4>4
    <3>3. CASE z[1] = p /\ z[2] < i
      <4>1. g[p][z[2]] = id /\ z[2] <= Len(g[p])
        BY <1>1, <1>2, <3>1, <3>3
      <4>2. z \in B /\ back(z) = z
        BY <1>1, <1>3, <3>1, <3>3, <4>1, SMTT(20)
      <4>. QED
        BY <4>2
    <3>4. CASE z[1] # p
      BY <1>2, <1>3, <3>1, <3>4
    <3>. QED
      BY <1>1, <3>1, <3>2, <3>3, <3>4
  <2>. HIDE DEF back
  <2>4. f \in [B -> A \ {<<p, i>>}]
    BY <2>1
  <2>5. f \in Injection(B, A \ {<<p, i>>})
    BY <2>2, <2>4 DEF Injection, IsInjective
  <2>6. f \in Surjection(B, A \ {<<p, i>>})
    BY <2>3, <2>4 DEF Surjection
  <2>. QED
    BY <2>5, <2>6 DEF Bijection
<1>6. IsFiniteSet(A) /\ IsFiniteSet(B) /\ Cardinality(A) \in Nat
  BY PlacesFinite DEF A, B
<1>7. Cardinality(A \ {<<p, i>>}) = Cardinality(B)
  <2>. HIDE DEF f
  <2>. QED
    BY <1>5, <1>6, FS_Bijection DEF ExistsBijection
<1>8. Cardinality(A \ {<<p, i>>}) = Cardinality(A) - (IF <<p, i>> \in A THEN 1 ELSE 0)
  <2>. DEFINE e == <<p, i>>
  <2>1. Cardinality(A \ {e}) = IF e \in A THEN Cardinality(A) - 1 ELSE Cardinality(A)
    <3>. HIDE DEF e
    <3>. QED
      BY <1>6, FS_RemoveElement
  <2>. QED
    BY <1>6, <2>1
<1>9. <<p, i>> \in A <=> h[p][i] = id
  <2>1. i \in 1 .. HandSize /\ i <= Len(h[p])
    BY <1>1
  <2>. QED
    BY <1>4, <2>1
<1>. QED
  BY <1>7, <1>8, <1>9 DEF A, B

\* A card that is drawn takes a place; the others move down.
LEMMA DrawPlaces ==
  ASSUME GameStateAssumption, NEW h \in [Players -> Seq(Identity)],
         \A q \in Players : Len(h[q]) <= HandSize,
         NEW p \in Players, Len(h[p]) < HandSize, NEW c \in Identity, NEW id,
         NEW g, Drawn(h, g, p, c)
  PROVE  Cardinality(Places(g, id))
           = Cardinality(Places(h, id)) + (IF c = id THEN 1 ELSE 0)
<1>. DEFINE A == Places(h, id)
            B == Places(g, id)
            on(at) == IF at[1] = p THEN <<p, at[2] + 1>> ELSE at
            f == [at \in A |-> on(at)]
<1>1. Len(h[p]) \in Nat /\ HandSize \in Nat
  BY DEF GameStateAssumption
<1>2. /\ Len(g[p]) = Len(h[p]) + 1 /\ g[p][1] = c
      /\ \A j \in 1 .. Len(h[p]) : g[p][j + 1] = h[p][j]
      /\ \A q \in Players : q # p => g[q] = h[q]
  <2>1. h[p] \in Seq(Identity) /\ <<c>> \in Seq(Identity) /\ g[p] = <<c>> \o h[p]
    BY DEF Drawn
  <2>2. /\ Len(g[p]) = Len(h[p]) + 1 /\ g[p][1] = c
        /\ \A j \in 1 .. Len(h[p]) : g[p][j + 1] = h[p][j]
    BY <1>1, <2>1
  <2>. QED
    BY <2>2 DEF Drawn
<1>3. \A at : at \in B <=> /\ at \in Players \X (1 .. HandSize)
                           /\ at[2] <= Len(g[at[1]]) /\ g[at[1]][at[2]] = id
  BY DEF Places
<1>4. \A at : at \in A <=> /\ at \in Players \X (1 .. HandSize)
                           /\ at[2] <= Len(h[at[1]]) /\ h[at[1]][at[2]] = id
  BY DEF Places
<1>. HIDE DEF A, B
<1>5. f \in Bijection(A, B \ {<<p, 1>>})
  <2>1. ASSUME NEW at \in A PROVE on(at) \in B \ {<<p, 1>>}
    <3>1. /\ at = <<at[1], at[2]>> /\ at[1] \in Players /\ at[2] \in 1 .. HandSize
          /\ at[2] <= Len(h[at[1]]) /\ h[at[1]][at[2]] = id
      BY <1>4
    <3>2. CASE at[1] = p
      <4>1. on(at) = <<p, at[2] + 1>>
        BY <3>2
      <4>2. /\ at[2] + 1 \in 1 .. HandSize /\ at[2] + 1 <= Len(g[p])
            /\ g[p][at[2] + 1] = id /\ at[2] + 1 # 1
        BY <1>1, <1>2, <3>1, <3>2, SMTT(20)
      <4>. QED
        BY <1>3, <4>1, <4>2
    <3>3. CASE at[1] # p
      <4>1. on(at) = at /\ at # <<p, 1>>
        BY <3>1, <3>3
      <4>2. at \in B
        BY <1>2, <1>3, <3>1, <3>3
      <4>. QED
        BY <4>1, <4>2
    <3>. QED
      BY <3>2, <3>3
  <2>2. ASSUME NEW x \in A, NEW y \in A, on(x) = on(y) PROVE x = y
    <3>1. /\ x = <<x[1], x[2]>> /\ x[2] \in 1 .. HandSize
          /\ y = <<y[1], y[2]>> /\ y[2] \in 1 .. HandSize
      BY <1>4
    <3>. QED
      BY <2>2, <3>1
  <2>3. ASSUME NEW z \in B \ {<<p, 1>>} PROVE \E at \in A : on(at) = z
    <3>1. /\ z = <<z[1], z[2]>> /\ z[1] \in Players /\ z[2] \in 1 .. HandSize
          /\ z[2] <= Len(g[z[1]]) /\ g[z[1]][z[2]] = id /\ z # <<p, 1>>
      BY <1>3
    <3>2. CASE z[1] = p
      <4>. DEFINE at == <<p, z[2] - 1>>
      <4>1. /\ at[2] \in 1 .. Len(h[p]) /\ at[2] + 1 = z[2] /\ at[2] \in 1 .. HandSize
        <5>1. z[2] # 1 /\ z[2] \in 1 .. Len(h[p]) + 1
          BY <1>1, <1>2, <3>1, <3>2
        <5>. QED
          BY <1>1, <3>1, <5>1
      <4>2. h[p][at[2]] = id
        BY <1>2, <3>1, <3>2, <4>1
      <4>3. at \in A
        BY <1>4, <4>1, <4>2
      <4>. QED
        BY <3>1, <3>2, <4>1, <4>3
    <3>3. CASE z[1] # p
      BY <1>2, <1>4, <3>1, <3>3
    <3>. QED
      BY <3>2, <3>3
  <2>. HIDE DEF on
  <2>4. f \in [A -> B \ {<<p, 1>>}]
    BY <2>1
  <2>5. f \in Injection(A, B \ {<<p, 1>>})
    BY <2>2, <2>4 DEF Injection, IsInjective
  <2>6. f \in Surjection(A, B \ {<<p, 1>>})
    BY <2>3, <2>4 DEF Surjection
  <2>. QED
    BY <2>5, <2>6 DEF Bijection
<1>6. IsFiniteSet(A) /\ IsFiniteSet(B) /\ Cardinality(A) \in Nat /\ Cardinality(B) \in Nat
  BY PlacesFinite DEF A, B
<1>7. Cardinality(B \ {<<p, 1>>}) = Cardinality(A)
  <2>. HIDE DEF f
  <2>. QED
    BY <1>5, <1>6, FS_Bijection DEF ExistsBijection
<1>8. Cardinality(B \ {<<p, 1>>}) = Cardinality(B) - (IF <<p, 1>> \in B THEN 1 ELSE 0)
  <2>. DEFINE e == <<p, 1>>
  <2>1. Cardinality(B \ {e}) = IF e \in B THEN Cardinality(B) - 1 ELSE Cardinality(B)
    <3>. HIDE DEF e
    <3>. QED
      BY <1>6, FS_RemoveElement
  <2>. QED
    BY <1>6, <2>1
<1>9. <<p, 1>> \in B <=> c = id
  <2>1. 1 \in 1 .. HandSize /\ 1 <= Len(g[p]) /\ g[p][1] = c
    BY <1>1, <1>2
  <2>. QED
    BY <1>3, <2>1
<1>. QED
  BY <1>6, <1>7, <1>8, <1>9 DEF A, B

-----------------------------------------------------------------------------
(* The inductive invariant. *)

\* Hands hold no more than they are dealt; who draws has room; the deal fills
\* the hands in order, from the first player's.
HandsInv ==
  /\ \A p \in Players : Len(hands[p]) <= HandSize
  /\ phase = "draw" => cards_left > 0 /\ Len(hands[current_player_index]) < HandSize
  /\ phase = "deal" =>
       /\ \A p, q \in Players : p < q /\ Len(hands[q]) > 0 => Len(hands[p]) = HandSize
       /\ Len(hands[NumPlayers - 1]) < HandSize
       /\ current_player_index = 0

AccountInv == TypeOK /\ PilesInv /\ HandsInv /\ CardsConserved

\* InHands counts places.
LEMMA InHandsIsPlaces ==
  ASSUME GameStateAssumption, NEW id
  PROVE  /\ InHands(id) = Cardinality(Places(hands, id)) /\ InHands(id) \in Nat
         /\ InHands(id)' = Cardinality(Places(hands', id)) /\ InHands(id)' \in Nat
<1>1. /\ InHands(id) = Cardinality(Places(hands, id))
      /\ InHands(id)' = Cardinality(Places(hands', id))
  BY DEF InHands, Places
<1>. QED
  BY <1>1, PlacesFinite

\* A card in a hand is not placed yet.
LEMMA HeldIsUnplaced ==
  ASSUME GameStateAssumption, TypeOK, HandsInv, CardsConserved,
         NEW p \in Players, NEW i \in 1 .. Len(hands[p])
  PROVE  hands[p][i] \in Identity /\ Base(hands[p][i]) < Count(hands[p][i])
<1>. DEFINE id == hands[p][i]
            g == [hands EXCEPT ![p] = Without(@, i)]
<1>1. hands \in [Players -> Seq(Identity)] /\ PileType
  BY DEF TypeOK, TableType
<1>2. id \in Identity
  BY <1>1
<1>3. /\ Cardinality(Places(g, id)) = Cardinality(Places(hands, id)) - 1
      /\ Cardinality(Places(g, id)) \in Nat
  <2>1. Dropped(hands, g, p, i)
    BY <1>1 DEF Dropped
  <2>. HIDE DEF g
  <2>. QED
    BY <1>1, <2>1, DropPlaces, PlacesFinite DEF HandsInv
<1>4. InHands(id) \in Nat /\ InHands(id) = Cardinality(Places(hands, id))
  BY InHandsIsPlaces
<1>5. Base(id) + InHands(id) <= Count(id)
  BY <1>2 DEF CardsConserved, Base, Count
<1>. HIDE DEF g, id
<1>6. Base(id) \in Nat /\ Count(id) \in Nat
  BY <1>1, <1>2, Coordinates
<1>. QED
  BY <1>2, <1>3, <1>4, <1>5, <1>6 DEF id

\* The copies of a card that are not in the deck.
OutOfDeck(id) == base_count[id[1]][id[2]] + InHands(id)

\* Moving a card between the places the accounting knows changes nothing.
LEMMA MoveKeepsCards ==
  ASSUME GameStateAssumption, CardsConserved, cards_left' = cards_left,
         \A x \in Identity : OutOfDeck(x)' = OutOfDeck(x)
  PROVE  CardsConserved'
<1>. DEFINE f == [id \in Identity |-> base_count[id[1]][id[2]] + InHands(id)]
<1>1. \A id \in Identity :
         (base_count[id[1]][id[2]] + InHands(id))' = base_count[id[1]][id[2]] + InHands(id)
  BY DEF OutOfDeck
<1>2. f' = f
  BY <1>1
<1>. HIDE DEF f
<1>3. /\ \A id \in Identity : base_count[id[1]][id[2]] + InHands(id) <= CardCount[id[1]][id[2]]
      /\ cards_left + SumFunction(f) = DeckSize
  BY DEF CardsConserved, f
<1>4. (\A id \in Identity : base_count[id[1]][id[2]] + InHands(id) <= CardCount[id[1]][id[2]])'
  BY <1>1, <1>3
<1>5. (cards_left + SumFunction(f) = DeckSize)'
  BY <1>2, <1>3 DEF DeckSize, SumFunction
<1>. QED
  BY <1>4, <1>5 DEF CardsConserved, f

\* So does a card that leaves the deck.
LEMMA DrawKeepsCards ==
  ASSUME GameStateAssumption, TypeOK, CardsConserved, cards_left > 0, cards_left' = cards_left - 1,
         NEW c \in InDeck,
         \A x \in Identity : OutOfDeck(x)' = OutOfDeck(x) + (IF x = c THEN 1 ELSE 0)
  PROVE  CardsConserved'
<1>. DEFINE f == [id \in Identity |-> base_count[id[1]][id[2]] + InHands(id)]
<1>1. \A id \in Identity :
         (base_count[id[1]][id[2]] + InHands(id))'
           = base_count[id[1]][id[2]] + InHands(id) + (IF id = c THEN 1 ELSE 0)
  BY DEF OutOfDeck
<1>2. c \in Identity /\ base_count[c[1]][c[2]] + InHands(c) < CardCount[c[1]][c[2]]
  BY DEF InDeck
<1>3. \A id \in Identity : base_count[id[1]][id[2]] + InHands(id) \in Nat
  <2>1. SUFFICES ASSUME NEW id \in Identity
                 PROVE  base_count[id[1]][id[2]] + InHands(id) \in Nat
    OBVIOUS
  <2>2. Base(id) \in Nat
    BY Coordinates DEF TypeOK
  <2>3. InHands(id) \in Nat
    BY InHandsIsPlaces
  <2>. QED
    BY <2>2, <2>3 DEF Base
<1>4. \A id \in Identity : CardCount[id[1]][id[2]] \in Nat
  BY Coordinates DEF TypeOK, Count
<1>5. \A id \in Identity : base_count[id[1]][id[2]] + InHands(id) <= CardCount[id[1]][id[2]]
  BY DEF CardsConserved
<1>6. (\A id \in Identity : base_count[id[1]][id[2]] + InHands(id) <= CardCount[id[1]][id[2]])'
  <2>1. SUFFICES ASSUME NEW id \in Identity
                 PROVE  (base_count[id[1]][id[2]] + InHands(id))' <= CardCount[id[1]][id[2]]
    OBVIOUS
  <2>. DEFINE n == base_count[id[1]][id[2]] + InHands(id)
              m == CardCount[id[1]][id[2]]
  <2>2. n \in Nat /\ m \in Nat /\ n <= m /\ (id = c => n < m) /\ n' = n + (IF id = c THEN 1 ELSE 0)
    BY <1>1, <1>2, <1>3, <1>4, <1>5
  <2>. HIDE DEF n, m
  <2>3. n' <= m
    BY <2>2
  <2>. QED
    BY <2>3 DEF n, m
<1>7. /\ \A x \in Identity : f[x] \in Nat /\ f'[x] \in Nat
      /\ \A x \in Identity \ {c} : f[x] = f'[x]
      /\ f'[c] = f[c] + 1 /\ DOMAIN f = Identity /\ DOMAIN f' = Identity
  <2>1. DOMAIN f = Identity /\ DOMAIN f' = Identity
    OBVIOUS
  <2>2. ASSUME NEW x \in Identity
        PROVE  f[x] \in Nat /\ f'[x] = f[x] + (IF x = c THEN 1 ELSE 0)
    <3>1. /\ f[x] = base_count[x[1]][x[2]] + InHands(x)
          /\ f'[x] = (base_count[x[1]][x[2]] + InHands(x))'
      OBVIOUS
    <3>. HIDE DEF f
    <3>. QED
      BY <1>1, <1>3, <3>1
  <2>. HIDE DEF f
  <2>. QED
    BY <1>2, <2>1, <2>2
<1>. HIDE DEF f
<1>8. SumFunctionOnSet(f', Identity) = SumFunctionOnSet(f, Identity) - f[c] + f'[c]
  BY <1>2, <1>7, IdentityFinite, SumChange
<1>9. SumFunctionOnSet(f, Identity) \in Nat /\ f[c] \in Nat
  BY <1>2, <1>7, IdentityFinite, SumNat
<1>10. /\ SumFunction(f) = SumFunctionOnSet(f, Identity)
       /\ SumFunction(f') = SumFunctionOnSet(f', Identity)
  BY <1>7 DEF SumFunction
<1>11. cards_left \in Nat /\ cards_left + SumFunction(f) = DeckSize
  BY DEF CardsConserved, f, TypeOK, TableType
<1>12. cards_left' + SumFunction(f') = DeckSize
  BY <1>7, <1>8, <1>9, <1>10, <1>11
<1>13. (cards_left + SumFunction(f) = DeckSize)'
  BY <1>12 DEF DeckSize, SumFunction
<1>. QED
  BY <1>6, <1>13 DEF CardsConserved, f

\* The piles are in order whatever happens to the rest of State.
LEMMA SamePiles ==
  ASSUME PilesInv, UNCHANGED pileVars, UNCHANGED setVars
  PROVE  PilesInv'
<1>1. \A x : Base(x)' = Base(x) /\ Lost(x)' = Lost(x) /\ Count(x)' = Count(x) /\ K(x)' = K(x)
  BY DEF Base, Lost, Count, K, KthRank, pileVars
<1>2. \A s : played_count(s)' = played_count(s) /\ max_played(s)' = max_played(s)
  BY DEF played_count, max_played, pileVars
<1>3. \A x : Played(x)' = Played(x) /\ InReach(x)' = InReach(x)
  BY <1>1, <1>2 DEF Played, InReach
<1>4. critical_set' = critical_set /\ playable_set' = playable_set /\ trash_set' = trash_set
  BY DEF setVars
<1>5. StacksInv' /\ PlacedInv' /\ ReachInv'
  BY <1>1, <1>2, <1>3 DEF PilesInv, StacksInv, PlacedInv, ReachInv
<1>6. CriticalInv' /\ PlayableInv' /\ TrashInv'
  BY <1>1, <1>2, <1>3, <1>4 DEF PilesInv, CriticalInv, PlayableInv, TrashInv
<1>. QED
  BY <1>5, <1>6 DEF PilesInv

\* A card of a hand that lands or is discarded.
LEMMA UsedCard ==
  ASSUME GameStateAssumption, AccountInv,
         NEW p \in Players, NEW i \in 1 .. Len(hands[p]), drop_from_hand(p, i),
         \/ with_play(hands[p][i]) /\ is_playable(hands[p][i])
         \/ with_discard(hands[p][i]),
         cards_left' = cards_left
  PROVE  /\ PilesInv' /\ CardsConserved'
         /\ \A x \in Identity : OutOfDeck(x)' = OutOfDeck(x)
         /\ \A q \in Players : Len(hands'[q]) <= HandSize
         /\ Len(hands'[p]) < HandSize
<1>. DEFINE id == hands[p][i]
<1>1. /\ PileType /\ SetType /\ hands \in [Players -> Seq(Identity)]
      /\ PilesInv /\ HandsInv /\ CardsConserved /\ TypeOK
      /\ \A q \in Players : Len(hands[q]) <= HandSize
  BY DEF AccountInv, TypeOK, TableType, HandsInv
<1>2. id \in Identity /\ Base(id) < Count(id)
  BY <1>1, HeldIsUnplaced
<1>3. hands' = [hands EXCEPT ![p] = Without(@, i)]
  BY DEF drop_from_hand
<1>. HIDE DEF id
<1>4. ASSUME NEW x \in Identity
      PROVE  InHands(x)' = InHands(x) - (IF id = x THEN 1 ELSE 0) /\ InHands(x) \in Nat
  <2>1. Cardinality(Places(hands', x))
          = Cardinality(Places(hands, x)) - (IF hands[p][i] = x THEN 1 ELSE 0)
    <3>1. Dropped(hands, hands', p, i)
      BY <1>1, <1>3 DEF Dropped
    <3>. QED
      BY <1>1, <3>1, DropPlaces
  <2>. QED
    BY <2>1, InHandsIsPlaces DEF id
<1>5. PilesInv' /\ \A x \in Identity : Base(x)' = (IF x = id THEN Base(x) + 1 ELSE Base(x))
  <2>1. CASE with_play(id) /\ is_playable(id)
    BY <1>1, <1>2, <2>1, PlayKeepsPiles, PlayMoves
  <2>2. CASE with_discard(id)
    BY <1>1, <1>2, <2>2, DiscardKeepsPiles, DiscardMoves
  <2>. QED
    BY <2>1, <2>2 DEF id
<1>6. ASSUME NEW x \in Identity PROVE OutOfDeck(x)' = OutOfDeck(x)
  <2>1. OutOfDeck(x) = Base(x) + InHands(x) /\ OutOfDeck(x)' = Base(x)' + InHands(x)'
    BY DEF OutOfDeck, Base
  <2>2. Base(x) \in Nat
    BY <1>1, Coordinates
  <2>. QED
    BY <1>4, <1>5, <2>1, <2>2
<1>7. CardsConserved'
  BY <1>1, <1>6, MoveKeepsCards
<1>8. ASSUME NEW q \in Players
      PROVE  Len(hands'[q]) = (IF q = p THEN Len(hands[q]) - 1 ELSE Len(hands[q]))
  <2>1. Len(hands[p]) \in Nat /\ i \in Nat \ {0} /\ i <= Len(hands[p])
    BY <1>1
  <2>2. Len(Without(hands[p], i)) = Len(hands[p]) - 1
    BY <2>1 DEF Without
  <2>. QED
    BY <1>1, <1>3, <2>2
<1>9. \A q \in Players : Len(hands[q]) \in Nat /\ Len(hands[q]) <= HandSize /\ HandSize \in Nat
  BY <1>1 DEF GameStateAssumption
<1>. QED
  BY <1>5, <1>6, <1>7, <1>8, <1>9

\* A card drawn takes a place in InHands.
LEMMA DrawnInHands ==
  ASSUME GameStateAssumption, hands \in [Players -> Seq(Identity)],
         \A q \in Players : Len(hands[q]) <= HandSize,
         NEW p \in Players, Len(hands[p]) < HandSize, NEW c \in Identity, NEW x,
         Drawn(hands, hands', p, c)
  PROVE  InHands(x)' = InHands(x) + (IF c = x THEN 1 ELSE 0) /\ InHands(x) \in Nat
<1>1. Cardinality(Places(hands', x)) = Cardinality(Places(hands, x)) + (IF c = x THEN 1 ELSE 0)
  BY DrawPlaces
<1>. QED
  BY <1>1, InHandsIsPlaces

\* A card that is drawn by a player with room for it.
LEMMA DrawnCard ==
  ASSUME GameStateAssumption, AccountInv, NEW p \in Players, Len(hands[p]) < HandSize,
         NEW c \in InDeck, cards_left > 0, on_draw(p, c)
  PROVE  /\ PilesInv' /\ CardsConserved'
         /\ \A x \in Identity : OutOfDeck(x)' = OutOfDeck(x) + (IF x = c THEN 1 ELSE 0)
         /\ Len(hands'[p]) = Len(hands[p]) + 1
         /\ \A q \in Players : q # p => Len(hands'[q]) = Len(hands[q])
<1>1. /\ PileType /\ hands \in [Players -> Seq(Identity)]
      /\ PilesInv /\ CardsConserved /\ TypeOK
      /\ \A q \in Players : Len(hands[q]) <= HandSize
  BY DEF AccountInv, TypeOK, TableType, HandsInv
<1>2. c \in Identity
  BY DEF InDeck
<1>3. /\ hands' = [hands EXCEPT ![p] = <<c>> \o @] /\ cards_left' = cards_left - 1
      /\ UNCHANGED pileVars /\ UNCHANGED setVars
  BY DEF on_draw
<1>4. ASSUME NEW x \in Identity
      PROVE  InHands(x)' = InHands(x) + (IF c = x THEN 1 ELSE 0) /\ InHands(x) \in Nat
  <2>1. Drawn(hands, hands', p, c)
    BY <1>1, <1>3 DEF Drawn
  <2>2. hands \in [Players -> Seq(Identity)] /\ \A q \in Players : Len(hands[q]) <= HandSize
    BY <1>1
  <2>. QED
    BY <1>2, <2>1, <2>2, DrawnInHands
<1>5. PilesInv'
  BY <1>1, <1>3, SamePiles
<1>6. ASSUME NEW x \in Identity
      PROVE  OutOfDeck(x)' = OutOfDeck(x) + (IF x = c THEN 1 ELSE 0)
  <2>1. OutOfDeck(x) = Base(x) + InHands(x) /\ OutOfDeck(x)' = Base(x) + InHands(x)'
    BY <1>3 DEF OutOfDeck, Base, pileVars
  <2>2. Base(x) \in Nat
    BY <1>1, Coordinates
  <2>. QED
    BY <1>4, <2>1, <2>2
<1>7. CardsConserved'
  BY <1>1, <1>3, <1>6, DrawKeepsCards
<1>8. ASSUME NEW q \in Players
      PROVE  IF q = p THEN Len(hands'[q]) = Len(hands[q]) + 1
                      ELSE Len(hands'[q]) = Len(hands[q])
  <2>1. <<c>> \in Seq(Identity) /\ hands[q] \in Seq(Identity)
    BY <1>1, <1>2
  <2>2. Len(<<c>> \o hands[q]) = Len(hands[q]) + 1 /\ Len(hands[q]) \in Nat
    BY <2>1
  <2>. QED
    BY <1>1, <1>3, <2>2
<1>. QED
  BY <1>5, <1>6, <1>7, <1>8

\* State::create: nothing is placed, lost or held.
LEMMA AccountInit ==
  ASSUME GameStateAssumption, Init
  PROVE  AccountInv
<1>1. TypeOK
  BY TypeInit
<1>2. \A s \in Suits : played_count(s) = 0 /\ max_played(s) = Top
  <2>. SUFFICES ASSUME NEW s \in Suits PROVE played_count(s) = 0 /\ max_played(s) = Top
    OBVIOUS
  <2>1. Top \in Nat /\ play_stacks[s] = (IF s \in Reversed THEN Top + 1 ELSE 0)
        /\ max_ranks[s] = (IF s \in Reversed THEN 1 ELSE Top)
    BY DEF Init, GameStateAssumption
  <2>. QED
    BY <2>1 DEF played_count, max_played
<1>3. ASSUME NEW x \in Identity
      PROVE  /\ x[1] \in Suits /\ K(x) \in 1 .. Top /\ Count(x) \in Nat \ {0}
             /\ Base(x) = 0 /\ Lost(x) = 0 /\ ~Played(x) /\ InReach(x)
             /\ x \in playable_set <=> K(x) = 1
             /\ x \in critical_set <=> Count(x) = 1
  <2>1. /\ x[1] \in Suits /\ x[2] \in Ranks /\ K(x) \in 1 .. Top /\ Count(x) \in Nat \ {0}
        /\ Top \in Nat
    BY <1>1, Coordinates DEF TypeOK, GameStateAssumption
  <2>2. Base(x) = 0 /\ Lost(x) = 0
    BY <2>1 DEF Init, Base, Lost
  <2>3. ~Played(x) /\ InReach(x)
    BY <1>2, <2>1 DEF Played, InReach
  <2>4. x \in critical_set <=> Count(x) = 1
    BY DEF Init, Count
  <2>5. x \in playable_set <=> K(x) = 1
    <3>1. x \in playable_set <=> x[2] = (IF x[1] \in Reversed THEN Top ELSE 1)
      BY DEF Init
    <3>2. x[2] \in Int
      BY <2>1 DEF Ranks
    <3>. QED
      BY <2>1, <3>1, <3>2 DEF K, KthRank
  <2>. QED
    BY <2>1, <2>2, <2>3, <2>4, <2>5
<1>4. Top \in Nat /\ trash_set = {}
  BY DEF Init, GameStateAssumption
<1>5. StacksInv /\ PlacedInv /\ PlayableInv /\ TrashInv
  BY <1>2, <1>3, <1>4 DEF StacksInv, PlacedInv, PlayableInv, TrashInv
<1>6. ReachInv /\ CriticalInv
  BY <1>2, <1>3, <1>4 DEF ReachInv, CriticalInv
<1>7. HandsInv
  <2>1. \A p \in Players : hands[p] = <<>>
    BY DEF Init
  <2>2. HandSize \in Nat \ {0} /\ NumPlayers - 1 \in Players
    BY DEF GameStateAssumption, Players
  <2>3. \A p \in Players : Len(hands[p]) = 0
    BY <2>1
  <2>. QED
    BY <2>2, <2>3 DEF Init, HandsInv
<1>8. CardsConserved
  <2>. DEFINE f == [id \in Identity |-> base_count[id[1]][id[2]] + InHands(id)]
  <2>1. ASSUME NEW x \in Identity PROVE base_count[x[1]][x[2]] + InHands(x) = 0
    <3>1. \A p \in Players : Len(hands[p]) = 0
      BY DEF Init
    <3>2. Places(hands, x) = {}
      BY <3>1 DEF Places
    <3>3. InHands(x) = 0
      BY <3>2, InHandsIsPlaces, FS_EmptySet
    <3>. QED
      BY <1>3, <3>3 DEF Base
  <2>2. DOMAIN f = Identity /\ \A x \in Identity : f[x] = 0
    BY <2>1
  <2>3. SumFunctionOnSet(f, DOMAIN f) = 0
    <3>. HIDE DEF f
    <3>. QED
      BY <2>2, IdentityFinite, SumZero
  <2>4. cards_left = DeckSize /\ DeckSize \in Nat
    BY DeckSizeType DEF Init
  <2>5. \A x \in Identity : base_count[x[1]][x[2]] + InHands(x) <= CardCount[x[1]][x[2]]
    BY <1>3, <2>1 DEF Count
  <2>6. cards_left + SumFunction(f) = DeckSize
    BY <2>3, <2>4 DEF SumFunction
  <2>. QED
    BY <2>5, <2>6 DEF CardsConserved
<1>. QED
  BY <1>1, <1>5, <1>6, <1>7, <1>8 DEF AccountInv, PilesInv

\* Nothing moves.
LEMMA SameAccount ==
  ASSUME GameStateAssumption, PilesInv, CardsConserved, UNCHANGED pileVars, UNCHANGED setVars,
         hands' = hands, cards_left' = cards_left
  PROVE  PilesInv' /\ CardsConserved'
<1>1. PilesInv'
  BY SamePiles
<1>2. ASSUME NEW x \in Identity PROVE OutOfDeck(x)' = OutOfDeck(x)
  BY InHandsIsPlaces DEF OutOfDeck, pileVars
<1>. QED
  BY <1>1, <1>2, MoveKeepsCards

\* The last card of the deck, played from it.
LEMMA DeckCard ==
  ASSUME GameStateAssumption, AccountInv, NEW id \in InDeck, cards_left > 0,
         cards_left' = cards_left - 1, hands' = hands,
         \/ with_play(id) /\ is_playable(id)
         \/ with_discard(id)
  PROVE  PilesInv' /\ CardsConserved'
<1>1. PileType /\ SetType /\ PilesInv /\ CardsConserved /\ TypeOK
  BY DEF AccountInv, TypeOK
<1>2. id \in Identity /\ Base(id) + InHands(id) < Count(id)
  BY DEF InDeck, Base, Count
<1>3. Base(id) < Count(id)
  <2>1. Base(id) \in Nat /\ InHands(id) \in Nat /\ Count(id) \in Nat
    BY <1>1, <1>2, Coordinates, InHandsIsPlaces
  <2>. QED
    BY <1>2, <2>1
<1>4. PilesInv' /\ \A x \in Identity : Base(x)' = (IF x = id THEN Base(x) + 1 ELSE Base(x))
  <2>1. CASE with_play(id) /\ is_playable(id)
    BY <1>1, <1>2, <1>3, <2>1, PlayKeepsPiles, PlayMoves
  <2>2. CASE with_discard(id)
    BY <1>1, <1>2, <1>3, <2>2, DiscardKeepsPiles, DiscardMoves
  <2>. QED
    BY <2>1, <2>2
<1>5. ASSUME NEW x \in Identity
      PROVE  OutOfDeck(x)' = OutOfDeck(x) + (IF x = id THEN 1 ELSE 0)
  <2>1. OutOfDeck(x) = Base(x) + InHands(x) /\ OutOfDeck(x)' = Base(x)' + InHands(x)
    BY InHandsIsPlaces DEF OutOfDeck, Base
  <2>2. Base(x) \in Nat /\ InHands(x) \in Nat
    BY <1>1, Coordinates, InHandsIsPlaces
  <2>. QED
    BY <1>4, <2>1, <2>2
<1>. QED
  BY <1>1, <1>4, <1>5, DrawKeepsCards

\* Every step keeps the accounts.
LEMMA AccountStep ==
  ASSUME GameStateAssumption, AccountInv, [Next]_vars
  PROVE  AccountInv'
<1>1. /\ TypeOK /\ PilesInv /\ HandsInv /\ CardsConserved
      /\ cards_left \in Nat /\ current_player_index \in Players
      /\ hands \in [Players -> Seq(Identity)]
      /\ NumPlayers \in Nat \ {0} /\ HandSize \in Nat \ {0}
  BY DEF AccountInv, TypeOK, TableType, GameStateAssumption
<1>2. TypeOK'
  BY <1>1, TypeStep
<1>3. /\ \A p \in Players : Len(hands[p]) \in Nat /\ Len(hands[p]) <= HandSize
      /\ phase = "draw" => cards_left > 0 /\ Len(hands[current_player_index]) < HandSize
      /\ phase = "deal" =>
           /\ \A p, q \in Players : p < q /\ Len(hands[q]) > 0 => Len(hands[p]) = HandSize
           /\ Len(hands[NumPlayers - 1]) < HandSize
           /\ current_player_index = 0
      /\ NumPlayers - 1 \in Players
      /\ \A p \in Players : p \in Int
  BY <1>1 DEF HandsInv, Players
<1>4. CASE Deal
  <2>1. PICK p \in Players, c \in InDeck :
             /\ \A q \in Players : q < p => Len(hands[q]) = HandSize
             /\ Len(hands[p]) < HandSize
             /\ on_draw(p, c)
             /\ phase' = (IF p = NumPlayers - 1 /\ Len(hands[p]) = HandSize - 1
                          THEN "act" ELSE "deal")
    BY <1>4 DEF Deal
  <2>2. phase = "deal" /\ cards_left > 0 /\ current_player_index' = current_player_index
    BY <1>4 DEF Deal
  <2>3. /\ PilesInv' /\ CardsConserved'
        /\ Len(hands'[p]) = Len(hands[p]) + 1
        /\ \A q \in Players : q # p => Len(hands'[q]) = Len(hands[q])
    BY <2>1, <2>2, DrawnCard
  <2>4. HandsInv'
    <3>1. \A q \in Players : Len(hands'[q]) <= HandSize
      BY <1>1, <1>3, <2>1, <2>3
    <3>2. ASSUME NEW q \in Players, NEW r \in Players, q < r, Len(hands'[r]) > 0
          PROVE  Len(hands'[q]) = HandSize
      <4>1. CASE r = p
        <5>1. q # p /\ q < p
          BY <1>3, <3>2, <4>1
        <5>. QED
          BY <2>1, <2>3, <5>1
      <4>2. CASE r # p
        <5>1. Len(hands[r]) > 0
          BY <1>3, <2>3, <3>2, <4>2
        <5>2. Len(hands[q]) = HandSize /\ q # p
          BY <1>3, <2>1, <2>2, <3>2, <5>1
        <5>. QED
          BY <1>3, <2>3, <5>2
      <4>. QED
        BY <4>1, <4>2
    <3>3. phase' = "deal" => Len(hands'[NumPlayers - 1]) < HandSize
      BY <1>1, <1>3, <2>1, <2>2, <2>3
    <3>4. phase' # "draw" /\ current_player_index' = 0
      BY <1>3, <2>1, <2>2
    <3>. QED
      BY <3>1, <3>2, <3>3, <3>4 DEF HandsInv
  <2>. QED
    BY <1>2, <2>3, <2>4 DEF AccountInv
<1>5. CASE GiveClue
  <2>1. /\ UNCHANGED pileVars /\ UNCHANGED setVars /\ hands' = hands /\ cards_left' = cards_left
        /\ phase' = "act"
    BY <1>5 DEF GiveClue, on_clue
  <2>2. PilesInv' /\ CardsConserved'
    BY <1>1, <2>1, SameAccount
  <2>3. HandsInv'
    BY <1>1, <1>3, <2>1 DEF HandsInv
  <2>. QED
    BY <1>2, <2>2, <2>3 DEF AccountInv
<1>6. ASSUME NEW i \in 1 .. Len(hands[current_player_index]),
             drop_from_hand(current_player_index, i),
             \/ with_play(hands[current_player_index][i])
                /\ is_playable(hands[current_player_index][i])
             \/ with_discard(hands[current_player_index][i]),
             cards_left' = cards_left, PassTurn
      PROVE  AccountInv'
  <2>1. /\ PilesInv' /\ CardsConserved'
        /\ \A q \in Players : Len(hands'[q]) <= HandSize
        /\ Len(hands'[current_player_index]) < HandSize
    BY <1>1, <1>6, UsedCard
  <2>2. HandsInv'
    BY <1>1, <1>6, <2>1 DEF PassTurn, HandsInv
  <2>. QED
    BY <1>2, <2>1, <2>2 DEF AccountInv
<1>7. ASSUME NEW i \in 1 .. HandSize, PressPlay(i) PROVE AccountInv'
  <2>. DEFINE id == hands[current_player_index][i]
  <2>1. /\ i \in 1 .. Len(hands[current_player_index]) /\ PassTurn
        /\ IF id[1] \in Inverted \/ is_playable(id)
           THEN on_play(current_player_index, i)
           ELSE on_discard(current_player_index, i, TRUE)
    BY <1>7 DEF PressPlay
  <2>2. CASE id[1] \in Inverted \/ is_playable(id)
    <3>1. /\ drop_from_hand(current_player_index, i) /\ cards_left' = cards_left
          /\ (id[1] \notin Inverted /\ with_play(id)) \/ with_discard(id)
      BY <2>1, <2>2 DEF on_play
    <3>. QED
      BY <1>6, <2>1, <2>2, <3>1
  <2>3. CASE ~(id[1] \in Inverted \/ is_playable(id))
    <3>1. /\ drop_from_hand(current_player_index, i) /\ cards_left' = cards_left
          /\ with_discard(id)
      BY <2>1, <2>3 DEF on_discard
    <3>. QED
      BY <1>6, <2>1, <3>1
  <2>. QED
    BY <2>2, <2>3
<1>8. ASSUME NEW i \in 1 .. HandSize, PressDiscard(i) PROVE AccountInv'
  <2>. DEFINE id == hands[current_player_index][i]
              failed == id[1] \in Inverted /\ ~is_playable(id)
  <2>1. /\ i \in 1 .. Len(hands[current_player_index]) /\ PassTurn
        /\ on_discard(current_player_index, i, failed)
    BY <1>8 DEF PressDiscard
  <2>2. /\ drop_from_hand(current_player_index, i) /\ cards_left' = cards_left
        /\ (id[1] \in Inverted /\ ~failed /\ with_play(id)) \/ with_discard(id)
    <3>. HIDE DEF failed
    <3>. QED
      BY <2>1 DEF on_discard
  <2>3. (with_play(id) /\ is_playable(id)) \/ with_discard(id)
    BY <2>2
  <2>. QED
    BY <1>6, <2>1, <2>2, <2>3
<1>9. CASE PressDeck
  <2>1. PICK id \in InDeck : (id[1] \in Inverted \/ is_playable(id)) /\ on_deck_play(id)
    BY <1>9 DEF PressDeck
  <2>2. /\ cards_left > 0 /\ cards_left' = cards_left - 1 /\ hands' = hands
        /\ phase' = "act"
    BY <1>9, <2>1 DEF PressDeck, on_deck_play
  <2>3. (with_play(id) /\ is_playable(id)) \/ with_discard(id)
    BY <2>1 DEF on_deck_play
  <2>4. PilesInv' /\ CardsConserved'
    BY <2>2, <2>3, DeckCard
  <2>5. HandsInv'
    BY <1>1, <1>3, <2>2 DEF HandsInv
  <2>. QED
    BY <1>2, <2>4, <2>5 DEF AccountInv
<1>10. CASE Draw
  <2>1. PICK c \in InDeck : on_draw(current_player_index, c)
    BY <1>10 DEF Draw
  <2>2. /\ phase = "draw" /\ cards_left > 0 /\ phase' = "act"
    BY <1>10 DEF Draw
  <2>3. Len(hands[current_player_index]) < HandSize
    BY <1>3, <2>2
  <2>4. /\ PilesInv' /\ CardsConserved'
        /\ Len(hands'[current_player_index]) = Len(hands[current_player_index]) + 1
        /\ \A q \in Players : q # current_player_index => Len(hands'[q]) = Len(hands[q])
    BY <1>1, <2>1, <2>2, <2>3, DrawnCard
  <2>5. HandsInv'
    BY <1>1, <1>3, <2>2, <2>3, <2>4 DEF HandsInv
  <2>. QED
    BY <1>2, <2>4, <2>5 DEF AccountInv
<1>11. CASE UNCHANGED vars
  <2>1. /\ UNCHANGED pileVars /\ UNCHANGED setVars /\ hands' = hands /\ cards_left' = cards_left
        /\ phase' = phase /\ current_player_index' = current_player_index
    BY <1>11 DEF vars, tableVars
  <2>2. PilesInv' /\ CardsConserved'
    BY <1>1, <2>1, SameAccount
  <2>3. HandsInv'
    BY <1>1, <2>1 DEF HandsInv
  <2>. QED
    BY <1>2, <2>2, <2>3 DEF AccountInv
<1>. QED
  BY <1>4, <1>5, <1>7, <1>8, <1>9, <1>10, <1>11 DEF Next, GameOver

-----------------------------------------------------------------------------
(* What the invariant says of the caches. *)

\* Each cached set agrees with its predicate on the cards still needed.
LEMMA CachesFromPiles ==
  ASSUME GameStateAssumption, PileType, PilesInv
  PROVE  CachesExact
<1>1. SUFFICES ASSUME NEW id \in Identity, ~is_basic_trash(id)
               PROVE  /\ id \in critical_set <=> is_critical(id)
                      /\ id \in playable_set <=> is_playable(id)
                      /\ id \notin trash_set
  BY DEF CachesExact
<1>2. /\ ~Played(id) /\ InReach(id)
      /\ Base(id) \in Nat /\ Lost(id) \in Nat /\ Count(id) \in Nat
      /\ is_playable(id) <=> K(id) = played_count(id[1]) + 1
  BY <1>1, Coordinates
<1>3. Base(id) = Lost(id)
  BY <1>2 DEF PilesInv, PlacedInv
<1>4. id \in critical_set <=> Lost(id) = Count(id) - 1
  BY <1>2, <1>3 DEF PilesInv, CriticalInv
<1>5. is_critical(id) <=> Lost(id) = Count(id) - 1
  BY <1>1 DEF is_critical, Lost, Count
<1>6. id \in playable_set <=> is_playable(id)
  BY <1>2 DEF PilesInv, PlayableInv
<1>7. id \notin trash_set
  BY <1>2 DEF PilesInv, TrashInv
<1>. QED
  BY <1>4, <1>5, <1>6, <1>7

\* The copies of a suit's k-th card that are lost, as the rules count them.
LEMMA LostInOrder ==
  ASSUME GameStateAssumption, NEW s \in Suits, NEW k \in 1 .. Top
  PROVE  /\ <<s, KthRank(s, k)>> \in Identity /\ K(<<s, KthRank(s, k)>>) = k
         /\ [r \in Suits |-> [j \in Ranks |-> discard_stacks[r][KthRank(r, j)]]][s][k]
              = Lost(<<s, KthRank(s, k)>>)
         /\ [r \in Suits |-> [j \in Ranks |-> CardCount[r][KthRank(r, j)]]][s][k]
              = Count(<<s, KthRank(s, k)>>)
<1>1. Top \in Nat /\ k \in Ranks
  BY DEF GameStateAssumption, Ranks
<1>2. KthRank(s, k) \in Ranks /\ KthRank(s, KthRank(s, k)) = k
  BY <1>1 DEF KthRank, Ranks
<1>. QED
  BY <1>1, <1>2 DEF Identity, K, Lost, Count

\* max_ranks is how far the rules say each suit can go.
LEMMA ReachFromPiles ==
  ASSUME GameStateAssumption, PileType, PilesInv
  PROVE  MaxRanksReachable
<1>1. SUFFICES ASSUME NEW s \in Suits PROVE max_played(s) = Rules!Reach(s)
  BY DEF MaxRanksReachable
<1>. DEFINE lost == [r \in Suits |-> [j \in Ranks |-> discard_stacks[r][KthRank(r, j)]]]
            copies == [r \in Suits |-> [j \in Ranks |-> CardCount[r][KthRank(r, j)]]]
            P(n) == /\ \A k \in 1 .. n : lost[s][k] < copies[s][k]
                    /\ n < Top => lost[s][n + 1] = copies[s][n + 1]
<1>2. Rules!Reach(s) = CHOOSE n \in 0 .. Top : P(n)
  BY DEF Rules!Reach
<1>3. Top \in Nat /\ max_played(s) \in 0 .. Top
  BY DEF GameStateAssumption, PilesInv, StacksInv
<1>4. ASSUME NEW k \in 1 .. Top
      PROVE  /\ lost[s][k] \in Nat /\ copies[s][k] \in Nat
             /\ k <= max_played(s) => lost[s][k] < copies[s][k]
             /\ k = max_played(s) + 1 => lost[s][k] = copies[s][k]
  <2>. DEFINE id == <<s, KthRank(s, k)>>
  <2>1. id \in Identity /\ K(id) = k /\ lost[s][k] = Lost(id) /\ copies[s][k] = Count(id)
    BY LostInOrder
  <2>2. id[1] = s
    OBVIOUS
  <2>. HIDE DEF id, lost, copies
  <2>3. Lost(id) \in Nat /\ Count(id) \in Nat
    BY <2>1, Coordinates
  <2>. QED
    BY <2>1, <2>2, <2>3 DEF PilesInv, ReachInv, InReach
<1>. HIDE DEF lost, copies
<1>5. P(max_played(s))
  BY <1>3, <1>4, SMTT(20)
<1>6. ASSUME NEW m \in 0 .. Top, NEW n \in 0 .. Top, P(m), P(n), m < n PROVE FALSE
  <2>1. m + 1 \in 1 .. Top /\ m + 1 \in 1 .. n /\ m < Top
    BY <1>3, <1>6
  <2>. QED
    BY <1>4, <1>6, <2>1
<1>7. ASSUME NEW m \in 0 .. Top, NEW n \in 0 .. Top, P(m), P(n) PROVE m = n
  <2>. HIDE DEF P
  <2>. QED
    BY <1>3, <1>6, <1>7
<1>8. P(CHOOSE n \in 0 .. Top : P(n)) /\ (CHOOSE n \in 0 .. Top : P(n)) \in 0 .. Top
  <2>. HIDE DEF P
  <2>. QED
    BY <1>3, <1>5
<1>. HIDE DEF P
<1>. QED
  BY <1>2, <1>3, <1>5, <1>7, <1>8

-----------------------------------------------------------------------------

\* Whatever is dealt, clued, played, misplayed or discarded, State's piles,
\* caches and hands stay in the order the invariant describes.
THEOREM Accounts == Spec => []AccountInv
<1>1. Init => AccountInv
  BY AccountInit, GameStateAssumption
<1>2. AccountInv /\ [Next]_vars => AccountInv'
  BY AccountStep, GameStateAssumption
<1>. QED
  BY <1>1, <1>2, PTL DEF Spec

\* The caches that with_play and with_discard keep agree with the predicates of
\* State on every card still needed, in every variant and after any game so far.
THEOREM CachesAlwaysExact == Spec => []CachesExact
<1>1. AccountInv => CachesExact
  BY CachesFromPiles, GameStateAssumption DEF AccountInv, TypeOK
<1>. QED
  BY <1>1, Accounts, PTL

\* max_ranks, which only with_discard lowers, is always how far each suit can go.
THEOREM MaxRanksAlwaysReachable == Spec => []MaxRanksReachable
<1>1. AccountInv => MaxRanksReachable
  BY ReachFromPiles, GameStateAssumption DEF AccountInv, TypeOK
<1>. QED
  BY <1>1, Accounts, PTL

\* No card is lost or counted twice between deck, hands, stacks and discards.
THEOREM CardsAlwaysConserved == Spec => []CardsConserved
<1>1. AccountInv => CardsConserved
  BY DEF AccountInv
<1>. QED
  BY <1>1, Accounts, PTL

-----------------------------------------------------------------------------
(* The refinement of the rules. *)

\* What the server's game shows of the bot's State: the substitutions of Rules.
Credits == 2 * clue_tokens + (IF half_clue_token THEN 1 ELSE 0)
Progress == [s \in Suits |-> played_count(s)]
LostCopies == [s \in Suits |-> [k \in Ranks |-> discard_stacks[s][KthRank(s, k)]]]
Copies == [s \in Suits |-> [k \in Ranks |-> CardCount[s][KthRank(s, k)]]]
Seen(id) == <<id[1], KthRank(id[1], id[2])>>
SeenHands == [p \in Players |-> [i \in 1 .. Len(hands[p]) |->
                                   <<hands[p][i][1], KthRank(hands[p][i][1], hands[p][i][2])>>]]
Refund == IF ClueStarved THEN 1 ELSE 2

\* The library's operators mean the same in both modules.
LEMMA SameLibrary ==
  ASSUME NEW S
  PROVE  /\ Rules!SumFunction(S) = SumFunction(S)
         /\ Rules!Cardinality(S) = Cardinality(S)
<1>1. Rules!SumFunction(S) = SumFunction(S)
  BY DEF SumFunction, SumFunctionOnSet, FoldFunctionOnSet, MapThenFoldSet, Rules!SumFunction,
         Rules!SumFunctionOnSet, Rules!FoldFunctionOnSet, Rules!MapThenFoldSet
<1>2. Rules!Cardinality(S) = Cardinality(S)
  BY DEF Cardinality, Rules!Cardinality
<1>. QED
  BY <1>1, <1>2

\* A card is shown by its place in its suit, which names it.
LEMMA SeenCards ==
  ASSUME GameStateAssumption, NEW id \in Identity
  PROVE  /\ id[1] \in Suits /\ K(id) \in 1 .. Top /\ K(id) \in Ranks /\ id[2] \in Ranks
         /\ Seen(id) = <<id[1], K(id)>>
         /\ KthRank(id[1], K(id)) = id[2] /\ id = <<id[1], id[2]>>
         /\ \A s, k : s \in Suits /\ k \in Ranks =>
              (Seen(id) = <<s, k>> <=> id = <<s, KthRank(s, k)>>)
<1>1. id[1] \in Suits /\ id[2] \in 1 .. Top /\ id = <<id[1], id[2]>> /\ Top \in Nat
  BY DEF Identity, Ranks, GameStateAssumption
<1>2. /\ \A s : \A k \in 1 .. Top : KthRank(s, k) \in 1 .. Top /\ KthRank(s, KthRank(s, k)) = k
  BY <1>1 DEF KthRank
<1>3. Seen(id) = <<id[1], KthRank(id[1], id[2])>>
  BY DEF Seen
<1>4. ASSUME NEW s, NEW k, s \in Suits, k \in 1 .. Top
      PROVE  Seen(id) = <<s, k>> <=> id = <<s, KthRank(s, k)>>
  <2>1. Seen(id) = <<s, k>> <=> id[1] = s /\ KthRank(id[1], id[2]) = k
    BY <1>3
  <2>2. id = <<s, KthRank(s, k)>> <=> id[1] = s /\ id[2] = KthRank(s, k)
    BY <1>1
  <2>. QED
    BY <1>1, <1>2, <1>4, <2>1, <2>2
<1>. QED
  BY <1>1, <1>2, <1>3, <1>4 DEF K, Ranks

\* The game is over for the rules when it is for State.
LEMMA OverIsEnded ==
  ASSUME GameStateAssumption, AccountInv
  PROVE  Rules!Over <=> ended
<1>1. PileType /\ StacksInv /\ PilesInv
  BY DEF AccountInv, TypeOK, PilesInv
<1>2. \A s \in Suits : max_played(s) = Rules!Reach(s)
  BY <1>1, ReachFromPiles DEF MaxRanksReachable
<1>3. Rules!Over <=> \/ strikes = 3
                     \/ \A s \in Suits : played_count(s) = Rules!Reach(s)
                     \/ endgame_turns = 0
  BY DEF Rules!Over
<1>4. score = max_score <=> \A s \in Suits : played_count(s) = max_played(s)
  <2>. DEFINE f == [s \in Suits |-> played_count(s)]
              g == [s \in Suits |-> max_played(s)]
  <2>1. /\ DOMAIN f = Suits /\ DOMAIN g = Suits /\ IsFiniteSet(Suits)
        /\ \A s \in Suits : f[s] \in Nat /\ g[s] \in Nat /\ f[s] <= g[s]
    BY <1>1, IdentityFinite DEF StacksInv, GameStateAssumption
  <2>2. score = SumFunctionOnSet(f, Suits) /\ max_score = SumFunctionOnSet(g, Suits)
    BY DEF score, max_score, SumFunction
  <2>3. \A s \in Suits : f[s] = played_count(s) /\ g[s] = max_played(s)
    OBVIOUS
  <2>. HIDE DEF f, g
  <2>4. score = max_score => \A s \in Suits : f[s] = g[s]
    BY <2>1, <2>2, SumOrder
  <2>5. (\A s \in Suits : f[s] = g[s]) => score = max_score
    BY <2>1, <2>2, SumSame
  <2>. QED
    BY <2>3, <2>4, <2>5
<1>. QED
  BY <1>2, <1>3, <1>4 DEF ended

\* A card can be drawn by the rules when State has not accounted for all of it.
LEMMA UnseenIsInDeck ==
  ASSUME GameStateAssumption, AccountInv, NEW id \in Identity
  PROVE  Rules!Unseen(Seen(id)[1], Seen(id)[2]) > 0 <=> id \in InDeck
<1>1. /\ id[1] \in Suits /\ K(id) \in Ranks /\ Seen(id) = <<id[1], K(id)>>
      /\ KthRank(id[1], K(id)) = id[2] /\ id = <<id[1], id[2]>>
  BY SeenCards
<1>2. PileType /\ PilesInv /\ hands \in [Players -> Seq(Identity)]
  BY DEF AccountInv, TypeOK, TableType
<1>3. Rules!InHands(id[1], K(id)) = InHands(id)
  <2>. DEFINE R == {at \in Players \X (1 .. HandSize) :
                      /\ at[2] <= Len(SeenHands[at[1]])
                      /\ SeenHands[at[1]][at[2]] = <<id[1], K(id)>>}
  <2>1. Rules!InHands(id[1], K(id)) = Cardinality(R)
    BY SameLibrary DEF Rules!InHands, Rules!Players, SeenHands, Players
  <2>a. ASSUME NEW c \in Identity
        PROVE  Seen(c) = <<id[1], K(id)>> <=> c = id
    <3>1. Seen(c) = <<id[1], K(id)>> <=> c = <<id[1], KthRank(id[1], K(id))>>
      BY <1>1, SeenCards
    <3>. QED
      BY <1>1, <3>1
  <2>2. R = Places(hands, id)
    <3>1. SUFFICES ASSUME NEW at \in Players \X (1 .. HandSize)
                   PROVE  (/\ at[2] <= Len(SeenHands[at[1]])
                           /\ SeenHands[at[1]][at[2]] = <<id[1], K(id)>>)
                          <=> (at[2] <= Len(hands[at[1]]) /\ hands[at[1]][at[2]] = id)
      BY DEF Places
    <3>2. at[1] \in Players /\ at[2] \in 1 .. HandSize /\ Len(hands[at[1]]) \in Nat
          /\ hands[at[1]] \in Seq(Identity)
      BY <1>2
    <3>3. Len(SeenHands[at[1]]) = Len(hands[at[1]])
      BY <3>2 DEF SeenHands
    <3>4. CASE at[2] <= Len(hands[at[1]])
      <4>a. at[2] \in 1 .. Len(hands[at[1]])
        BY <3>2, <3>4
      <4>b. hands[at[1]][at[2]] \in Identity
        BY <3>2, <4>a
      <4>c. SeenHands[at[1]][at[2]] = Seen(hands[at[1]][at[2]])
        BY <3>2, <4>a DEF SeenHands, Seen
      <4>1. /\ at[2] \in 1 .. Len(hands[at[1]])
            /\ hands[at[1]][at[2]] \in Identity
            /\ SeenHands[at[1]][at[2]] = Seen(hands[at[1]][at[2]])
        BY <4>a, <4>b, <4>c
      <4>2. SeenHands[at[1]][at[2]] = <<id[1], K(id)>> <=> hands[at[1]][at[2]] = id
        BY <2>a, <4>1
      <4>. QED
        BY <3>3, <3>4, <4>2
    <3>. QED
      BY <3>3, <3>4
  <2>. QED
    BY <2>1, <2>2, InHandsIsPlaces
<1>4. Rules!Unseen(id[1], K(id))
        = Count(id) - Lost(id) - InHands(id) - (IF Played(id) THEN 1 ELSE 0)
  <2>1. Rules!Unseen(id[1], K(id))
          = Copies[id[1]][K(id)] - LostCopies[id[1]][K(id)] - Rules!InHands(id[1], K(id))
              - (IF K(id) <= Progress[id[1]] THEN 1 ELSE 0)
    BY DEF Rules!Unseen, Copies, LostCopies, Progress
  <2>2. /\ Copies[id[1]][K(id)] = Count(id) /\ LostCopies[id[1]][K(id)] = Lost(id)
        /\ Progress[id[1]] = played_count(id[1])
    BY <1>1 DEF Copies, LostCopies, Progress, Count, Lost
  <2>. QED
    BY <1>3, <2>1, <2>2 DEF Played
<1>5. /\ Base(id) = Lost(id) + (IF Played(id) THEN 1 ELSE 0)
      /\ Base(id) \in Nat /\ Lost(id) \in Nat /\ Count(id) \in Nat /\ InHands(id) \in Nat
  BY <1>2, Coordinates, InHandsIsPlaces DEF PilesInv, PlacedInv
<1>6. id \in InDeck <=> Base(id) + InHands(id) < Count(id)
  BY DEF InDeck, Base, Count
<1>7. Seen(id)[1] = id[1] /\ Seen(id)[2] = K(id)
  BY <1>1
<1>. QED
  BY <1>4, <1>5, <1>6, <1>7

\* regain_clue gives the half tokens of a refund, up to the cap.
LEMMA RegainIsRefund ==
  ASSUME GameStateAssumption, TokenType, regain_clue
  PROVE  Credits' = Rules!Capped(Credits + Refund)
<1>1. /\ clue_tokens \in Int /\ clue_tokens <= MaxTokens /\ MaxTokens \in Int
      /\ half_clue_token \in BOOLEAN /\ (half_clue_token => ClueStarved /\ clue_tokens < MaxTokens)
  BY DEF TokenType, GameStateAssumption
<1>2. Rules!Capped(Credits + Refund)
        = IF Credits + Refund < 2 * MaxTokens THEN Credits + Refund ELSE 2 * MaxTokens
  BY DEF Rules!Capped
<1>3. CASE ClueStarved /\ half_clue_token
  <2>1. clue_tokens' = clue_tokens + 1 /\ half_clue_token' = FALSE
    BY <1>3 DEF regain_clue
  <2>2. Credits = 2 * clue_tokens + 1 /\ Refund = 1 /\ Credits' = 2 * (clue_tokens + 1)
    BY <1>3, <2>1 DEF Credits, Refund
  <2>. QED
    BY <1>1, <1>2, <1>3, <2>2
<1>4. CASE ClueStarved /\ ~half_clue_token /\ clue_tokens < MaxTokens
  <2>1. clue_tokens' = clue_tokens /\ half_clue_token' = TRUE
    BY <1>1, <1>4 DEF regain_clue
  <2>2. Credits = 2 * clue_tokens + 0 /\ Refund = 1 /\ Credits' = 2 * clue_tokens + 1
    BY <1>4, <2>1 DEF Credits, Refund
  <2>. QED
    BY <1>1, <1>2, <1>4, <2>2
<1>5. CASE ClueStarved /\ ~half_clue_token /\ clue_tokens >= MaxTokens
  <2>1. UNCHANGED tokenVars
    BY <1>1, <1>5 DEF regain_clue
  <2>2. Credits = 2 * clue_tokens + 0 /\ Refund = 1 /\ Credits' = Credits
    BY <1>5, <2>1 DEF Credits, Refund, tokenVars
  <2>. QED
    BY <1>1, <1>2, <1>5, <2>2
<1>6. CASE ~ClueStarved
  <2>1. /\ clue_tokens' = (IF clue_tokens < MaxTokens THEN clue_tokens + 1 ELSE MaxTokens)
        /\ half_clue_token' = half_clue_token
    BY <1>6 DEF regain_clue
  <2>2. Credits = 2 * clue_tokens + 0 /\ Refund = 2 /\ Credits' = 2 * clue_tokens' + 0
    BY <1>1, <1>6, <2>1 DEF Credits, Refund
  <2>. QED
    BY <1>1, <1>2, <2>1, <2>2
<1>. QED
  BY <1>1, <1>3, <1>4, <1>5, <1>6

\* A card that lands in State lands by the rules.
LEMMA PlayLands ==
  ASSUME GameStateAssumption, AccountInv, NEW id \in Identity,
         with_play(id), is_playable(id), UNCHANGED strikes
  PROVE  Rules!Land(Seen(id))
<1>1. /\ id[1] \in Suits /\ Seen(id)[1] = id[1] /\ Seen(id)[2] = K(id)
      /\ PileType /\ TokenType /\ Top \in Nat
  BY SeenCards DEF AccountInv, TypeOK, GameStateAssumption
<1>2. /\ K(id) = played_count(id[1]) + 1 /\ (IsFinal(id) <=> K(id) = Top)
  BY <1>1, Coordinates
<1>3. \A s \in Suits : played_count(s)' = (IF s = id[1] THEN played_count(s) + 1
                                           ELSE played_count(s))
  BY <1>1, PlayMoves
<1>4. K(id) = Progress[id[1]] + 1
  BY <1>1, <1>2 DEF Progress
<1>5. Progress' = [Progress EXCEPT ![id[1]] = @ + 1]
  BY <1>1, <1>3 DEF Progress
<1>6. Credits' = (IF K(id) = Top THEN Rules!Capped(Credits + Refund) ELSE Credits)
  <2>1. CASE IsFinal(id)
    <3>1. regain_clue
      BY <2>1 DEF with_play
    <3>. QED
      BY <1>1, <1>2, <2>1, <3>1, RegainIsRefund
  <2>2. CASE ~IsFinal(id)
    <3>1. UNCHANGED tokenVars
      BY <2>2 DEF with_play
    <3>. QED
      BY <1>2, <2>2, <3>1 DEF Credits, tokenVars
  <2>. QED
    BY <2>1, <2>2
<1>7. LostCopies' = LostCopies
  BY DEF with_play, LostCopies
<1>8. Rules!Land(Seen(id)) <=>
        /\ Seen(id)[2] = Progress[Seen(id)[1]] + 1
        /\ Progress' = [Progress EXCEPT ![Seen(id)[1]] = @ + 1]
        /\ Credits' = (IF Seen(id)[2] = Top THEN Rules!Capped(Credits + Refund) ELSE Credits)
        /\ LostCopies' = LostCopies /\ strikes' = strikes
  BY DEF Rules!Land, Progress, Credits, LostCopies, Refund
<1>. QED
  BY <1>1, <1>4, <1>5, <1>6, <1>7, <1>8

\* Table M counts one more than L at one place.
CountsOneMore(L, M, t, j) == M = [L EXCEPT ![t][j] = @ + 1]

\* It does when it agrees with L elsewhere.
LEMMA OneMoreIn ==
  ASSUME NEW L \in [Suits -> [Ranks -> Nat]], NEW M \in [Suits -> [Ranks -> Nat]],
         NEW t \in Suits, NEW j \in Ranks,
         \A s \in Suits, k \in Ranks :
            M[s][k] = (IF s = t /\ k = j THEN L[s][k] + 1 ELSE L[s][k])
  PROVE  CountsOneMore(L, M, t, j)
<1>. DEFINE E == [L EXCEPT ![t][j] = @ + 1]
<1>1. E \in [Suits -> [Ranks -> Nat]]
  OBVIOUS
<1>2. \A s \in Suits : \A k \in Ranks :
         E[s][k] = (IF s = t /\ k = j THEN L[s][k] + 1 ELSE L[s][k])
  OBVIOUS
<1>. HIDE DEF E
<1>3. ASSUME NEW s \in Suits PROVE M[s] = E[s]
  <2>1. M[s] \in [Ranks -> Nat] /\ E[s] \in [Ranks -> Nat] /\ \A k \in Ranks : M[s][k] = E[s][k]
    BY <1>1, <1>2
  <2>. QED
    BY <2>1
<1>4. M = E
  BY <1>1, <1>3
<1>. QED
  BY <1>4 DEF E, CountsOneMore

\* A discard changes the piles the rules show by one lost copy.
LEMMA DiscardLoses ==
  ASSUME GameStateAssumption, AccountInv, NEW id \in Identity, with_discard(id)
  PROVE  /\ LostCopies' = [LostCopies EXCEPT ![Seen(id)[1]][Seen(id)[2]] = @ + 1]
         /\ Progress' = Progress
<1>1. /\ id[1] \in Suits /\ K(id) \in Ranks /\ Seen(id)[1] = id[1] /\ Seen(id)[2] = K(id)
      /\ PileType
  BY SeenCards DEF AccountInv, TypeOK
<1>2. /\ \A s \in Suits : played_count(s)' = played_count(s)
      /\ \A x \in Identity : Lost(x)' = (IF x = id THEN Lost(x) + 1 ELSE Lost(x))
  BY <1>1, DiscardMoves
<1>3. Progress' = Progress
  BY <1>2 DEF Progress
<1>4. ASSUME NEW s \in Suits, NEW k \in Ranks
      PROVE  LostCopies'[s][k] = (IF s = id[1] /\ k = K(id) THEN LostCopies[s][k] + 1
                                  ELSE LostCopies[s][k])
  <2>. DEFINE x == <<s, KthRank(s, k)>>
  <2>1. x \in Identity /\ K(x) = k /\ x[1] = s
    BY LostInOrder DEF Ranks
  <2>2. x = id <=> s = id[1] /\ k = K(id)
    BY <2>1, PlaceNames
  <2>3. LostCopies[s][k] = Lost(x) /\ LostCopies'[s][k] = Lost(x)'
    BY DEF LostCopies, Lost
  <2>. HIDE DEF x
  <2>. QED
    BY <1>2, <2>1, <2>2, <2>3
<1>5. LostCopies' = [LostCopies EXCEPT ![id[1]][K(id)] = @ + 1]
  <2>1. ASSUME NEW s \in Suits, NEW k \in Ranks
        PROVE  discard_stacks[s][KthRank(s, k)] \in Nat /\ discard_stacks'[s][KthRank(s, k)] \in Nat
    <3>. DEFINE x == <<s, KthRank(s, k)>>
    <3>1. x \in Identity
      BY LostInOrder DEF Ranks
    <3>2. Lost(x) \in Nat
      BY <1>1, <3>1, Coordinates
    <3>3. Lost(x) = discard_stacks[s][KthRank(s, k)] /\ Lost(x)' = discard_stacks'[s][KthRank(s, k)]
      BY DEF Lost
    <3>. HIDE DEF x
    <3>. QED
      BY <1>2, <3>1, <3>2, <3>3
  <2>2. LostCopies \in [Suits -> [Ranks -> Nat]] /\ LostCopies' \in [Suits -> [Ranks -> Nat]]
    BY <2>1 DEF LostCopies
  <2>3. CountsOneMore(LostCopies, LostCopies', id[1], K(id))
    BY <1>1, <1>4, <2>2, OneMoreIn
  <2>. QED
    BY <2>3 DEF CountsOneMore
<1>. QED
  BY <1>1, <1>3, <1>5

\* A card that is scrapped: a token comes back.
LEMMA DiscardScraps ==
  ASSUME GameStateAssumption, AccountInv, NEW id \in Identity,
         with_discard(id), regain_clue, UNCHANGED strikes
  PROVE  Rules!Scrap(Seen(id))
<1>1. TokenType
  BY DEF AccountInv, TypeOK
<1>2. Rules!Scrap(Seen(id)) <=>
        /\ LostCopies' = [LostCopies EXCEPT ![Seen(id)[1]][Seen(id)[2]] = @ + 1]
        /\ Credits' = Rules!Capped(Credits + Refund)
        /\ Progress' = Progress /\ strikes' = strikes
  BY DEF Rules!Scrap, LostCopies, Credits, Refund, Progress
<1>. QED
  BY <1>1, <1>2, DiscardLoses, RegainIsRefund

\* A card that is misplayed: a strike.
LEMMA DiscardStrikes ==
  ASSUME GameStateAssumption, AccountInv, NEW id \in Identity,
         with_discard(id), ~is_playable(id), UNCHANGED tokenVars, strikes' = strikes + 1
  PROVE  Rules!Strike(Seen(id))
<1>1. /\ id[1] \in Suits /\ Seen(id)[1] = id[1] /\ Seen(id)[2] = K(id) /\ PileType
  BY SeenCards DEF AccountInv, TypeOK
<1>2. K(id) # Progress[id[1]] + 1
  BY <1>1, Coordinates DEF Progress
<1>3. Credits' = Credits
  BY DEF Credits, tokenVars
<1>4. Rules!Strike(Seen(id)) <=>
        /\ Seen(id)[2] # Progress[Seen(id)[1]] + 1
        /\ LostCopies' = [LostCopies EXCEPT ![Seen(id)[1]][Seen(id)[2]] = @ + 1]
        /\ strikes' = strikes + 1
        /\ Progress' = Progress /\ Credits' = Credits
  BY DEF Rules!Strike, LostCopies, Credits, Progress
<1>. QED
  BY <1>1, <1>2, <1>3, <1>4, DiscardLoses

-----------------------------------------------------------------------------
(* The hands. *)

SeenHand(h) == [i \in 1 .. Len(h) |-> Seen(h[i])]

\* A hand is shown card by card.
LEMMA SeenHandLength ==
  ASSUME NEW h \in Seq(Identity)
  PROVE  /\ Len(SeenHand(h)) = Len(h) /\ DOMAIN SeenHand(h) = 1 .. Len(h)
         /\ \A j \in 1 .. Len(h) : SeenHand(h)[j] = Seen(h[j])
BY DEF SeenHand

\* A card leaves the hand that is shown as it leaves the hand.
LEMMA SeenWithout ==
  ASSUME NEW h \in Seq(Identity), NEW i \in 1 .. Len(h)
  PROVE  SeenHand(Without(h, i)) = Rules!Without(SeenHand(h), i)
<1>1. Len(h) \in Nat /\ i \in Nat /\ 1 <= i /\ i <= Len(h)
  OBVIOUS
<1>2. /\ Len(Without(h, i)) = Len(h) - 1
      /\ \A j \in 1 .. Len(h) - 1 : Without(h, i)[j] = (IF j < i THEN h[j] ELSE h[j + 1])
  BY <1>1 DEF Without
<1>3. SeenHand(Without(h, i)) = [j \in 1 .. Len(h) - 1 |-> Seen(IF j < i THEN h[j] ELSE h[j + 1])]
  BY <1>2 DEF SeenHand
<1>4. Rules!Without(SeenHand(h), i)
        = [j \in 1 .. Len(h) - 1 |-> IF j < i THEN SeenHand(h)[j] ELSE SeenHand(h)[j + 1]]
  BY SeenHandLength DEF Rules!Without
<1>5. \A j \in 1 .. Len(h) - 1 : Seen(IF j < i THEN h[j] ELSE h[j + 1])
                                   = (IF j < i THEN SeenHand(h)[j] ELSE SeenHand(h)[j + 1])
  BY <1>1, SeenHandLength
<1>. QED
  BY <1>3, <1>4, <1>5

\* So does a card that is drawn.
LEMMA SeenDrawn ==
  ASSUME NEW h \in Seq(Identity), NEW c \in Identity
  PROVE  SeenHand(<<c>> \o h) = <<Seen(c)>> \o SeenHand(h)
<1>. DEFINE T == UNION {{Seen(x)} : x \in Identity}
<1>1. Len(h) \in Nat /\ <<c>> \o h \in Seq(Identity) /\ Len(<<c>> \o h) = Len(h) + 1
  OBVIOUS
<1>2. SeenHand(h) \in Seq(T) /\ <<Seen(c)>> \in Seq(T)
  <2>1. \A j \in 1 .. Len(h) : Seen(h[j]) \in T
    OBVIOUS
  <2>2. Seen(c) \in T
    OBVIOUS
  <2>. HIDE DEF T
  <2>. QED
    BY <1>1, <2>1, <2>2 DEF SeenHand
<1>. HIDE DEF T
<1>3. <<Seen(c)>> \o SeenHand(h) \in Seq(T) /\ Len(<<Seen(c)>> \o SeenHand(h)) = Len(h) + 1
  BY <1>2, SeenHandLength
<1>4. ASSUME NEW j \in 1 .. Len(h) + 1
      PROVE  SeenHand(<<c>> \o h)[j] = (<<Seen(c)>> \o SeenHand(h))[j]
  <2>1. SeenHand(<<c>> \o h)[j] = Seen((<<c>> \o h)[j])
    BY <1>1, SeenHandLength
  <2>2. CASE j = 1
    BY <1>1, <1>2, <2>1, <2>2
  <2>3. CASE j # 1
    <3>1. j - 1 \in 1 .. Len(h) /\ (<<c>> \o h)[j] = h[j - 1]
      BY <1>1, <2>3
    <3>2. (<<Seen(c)>> \o SeenHand(h))[j] = SeenHand(h)[j - 1]
      BY <1>1, <1>2, <2>3, <3>1, SeenHandLength
    <3>. QED
      BY <2>1, <3>1, <3>2, SeenHandLength
  <2>. QED
    BY <2>2, <2>3
<1>5. SeenHand(<<c>> \o h) = [j \in 1 .. Len(h) + 1 |-> SeenHand(<<c>> \o h)[j]]
  BY <1>1 DEF SeenHand
<1>6. <<Seen(c)>> \o SeenHand(h) = [j \in 1 .. Len(h) + 1 |-> (<<Seen(c)>> \o SeenHand(h))[j]]
  BY <1>1, <1>3
<1>. QED
  BY <1>4, <1>5, <1>6

\* The hands the rules show change as State's do.
LEMMA SeenHandsChange ==
  ASSUME NEW p \in Players, hands \in [Players -> Seq(Identity)], NEW h,
         hands' = [hands EXCEPT ![p] = h]
  PROVE  SeenHands' = [SeenHands EXCEPT ![p] = SeenHand(h)]
<1>1. /\ SeenHands = [q \in Players |-> SeenHand(hands[q])]
      /\ SeenHands' = [q \in Players |-> SeenHand(hands'[q])]
  BY DEF SeenHands, SeenHand, Seen
<1>2. \A q \in Players : hands'[q] = (IF q = p THEN h ELSE hands[q])
  OBVIOUS
<1>. QED
  BY <1>1, <1>2

\* What the rules show of a hand a card leaves.
LEMMA SeenDrop ==
  ASSUME TableType, NEW p \in Players, NEW i \in 1 .. Len(hands[p]), drop_from_hand(p, i)
  PROVE  /\ SeenHands' = [SeenHands EXCEPT ![p] = Rules!Without(@, i)]
         /\ Len(SeenHands[p]) = Len(hands[p])
         /\ SeenHands[p][i] = Seen(hands[p][i])
<1>1. hands \in [Players -> Seq(Identity)] /\ hands[p] \in Seq(Identity)
  BY DEF TableType
<1>2. hands' = [hands EXCEPT ![p] = Without(hands[p], i)]
  BY <1>1 DEF drop_from_hand
<1>3. SeenHands' = [SeenHands EXCEPT ![p] = SeenHand(Without(hands[p], i))]
  BY <1>1, <1>2, SeenHandsChange
<1>4. SeenHands[p] = SeenHand(hands[p]) /\ p \in DOMAIN SeenHands
  BY DEF SeenHands, SeenHand, Seen
<1>5. SeenHand(Without(hands[p], i)) = Rules!Without(SeenHand(hands[p]), i)
  BY <1>1, SeenWithout
<1>. QED
  BY <1>1, <1>3, <1>4, <1>5, SeenHandLength

\* What the rules show of a hand a card is drawn to.
LEMMA SeenDraw ==
  ASSUME TableType, NEW p \in Players, NEW c \in Identity, on_draw(p, c)
  PROVE  /\ SeenHands' = [SeenHands EXCEPT ![p] = <<Seen(c)>> \o @]
         /\ \A q \in Players : Len(SeenHands'[q]) = Len(hands'[q])
<1>1. hands \in [Players -> Seq(Identity)] /\ hands[p] \in Seq(Identity)
  BY DEF TableType
<1>2. hands' = [hands EXCEPT ![p] = <<c>> \o hands[p]]
  BY <1>1 DEF on_draw
<1>3. SeenHands' = [SeenHands EXCEPT ![p] = SeenHand(<<c>> \o hands[p])]
  BY <1>1, <1>2, SeenHandsChange
<1>4. SeenHands[p] = SeenHand(hands[p]) /\ p \in DOMAIN SeenHands
  BY DEF SeenHands, SeenHand, Seen
<1>5. SeenHand(<<c>> \o hands[p]) = <<Seen(c)>> \o SeenHand(hands[p])
  BY <1>1, SeenDrawn
<1>6. ASSUME NEW q \in Players PROVE Len(SeenHands'[q]) = Len(hands'[q])
  <2>1. hands'[q] \in Seq(Identity)
    BY <1>1, <1>2
  <2>2. SeenHands'[q] = SeenHand(hands'[q])
    BY DEF SeenHands, SeenHand, Seen
  <2>. QED
    BY <2>1, <2>2, SeenHandLength
<1>. QED
  BY <1>3, <1>4, <1>5, <1>6

-----------------------------------------------------------------------------
(* One lemma per action. *)

\* State::create shows a new game.
LEMMA NewGame ==
  ASSUME GameStateAssumption, Init
  PROVE  Rules!Init
<1>1. AccountInv /\ TypeOK
  BY AccountInit DEF AccountInv
<1>2. Progress = [s \in Suits |-> 0]
  <2>1. ASSUME NEW s \in Suits PROVE played_count(s) = 0
    <3>1. play_stacks[s] = (IF s \in Reversed THEN Top + 1 ELSE 0) /\ Top \in Nat
      BY DEF Init, GameStateAssumption
    <3>. QED
      BY <3>1 DEF played_count
  <2>. QED
    BY <2>1 DEF Progress
<1>3. LostCopies = [s \in Suits |-> [k \in Ranks |-> 0]]
  <2>1. ASSUME NEW s \in Suits, NEW k \in Ranks PROVE discard_stacks[s][KthRank(s, k)] = 0
    <3>1. <<s, KthRank(s, k)>> \in Identity
      BY LostInOrder DEF Ranks
    <3>2. KthRank(s, k) \in Ranks
      BY <3>1 DEF Identity
    <3>. QED
      BY <3>2 DEF Init
  <2>. QED
    BY <2>1 DEF LostCopies
<1>4. Credits = 2 * MaxTokens
  BY DEF Init, Credits, GameStateAssumption
<1>5. SeenHands = [p \in Players |-> <<>>]
  BY DEF Init, SeenHands
<1>6. cards_left = SumFunction([c \in Suits \X Ranks |-> Copies[c[1]][c[2]]])
  <2>. DEFINE f == [c \in Suits \X Ranks |-> Copies[c[1]][c[2]]]
              see == [id \in Identity |-> Seen(id)]
              g == [id \in Identity |-> CardCount[id[1]][id[2]]]
  <2>1. ASSUME NEW id \in Identity
        PROVE  /\ see[id] \in Identity /\ f[see[id]] = g[id] /\ g[id] \in Nat
               /\ see[see[id]] = id
    <3>1. /\ id[1] \in Suits /\ K(id) \in Ranks /\ Seen(id) = <<id[1], K(id)>>
          /\ KthRank(id[1], K(id)) = id[2] /\ id = <<id[1], id[2]>>
      BY SeenCards
    <3>2. Seen(id) \in Identity
      BY <3>1 DEF Identity
    <3>3. f[Seen(id)] = CardCount[id[1]][id[2]]
      BY <3>1, <3>2 DEF Copies, Identity
    <3>4. CardCount[id[1]][id[2]] \in Nat
      BY <1>1, Coordinates DEF Count, TypeOK
    <3>5. Seen(Seen(id)) = id
      BY <3>1 DEF Seen
    <3>. HIDE DEF f
    <3>. QED
      BY <3>2, <3>3, <3>4, <3>5
  <2>2. g = [id \in Identity |-> f[see[id]]]
    <3>. HIDE DEF f, see
    <3>. QED
      BY <2>1
  <2>3. {see[id] : id \in Identity} = Identity
    <3>. HIDE DEF see, f, g
    <3>1. \A id \in Identity : see[id] \in Identity /\ see[see[id]] = id
      BY <2>1
    <3>2. \A id \in Identity : \E x \in Identity : see[x] = id
      BY <3>1
    <3>. QED
      BY <3>1, <3>2
  <2>4. DOMAIN f = Identity /\ DOMAIN g = Identity
    BY DEF Identity
  <2>5. SumFunctionOnSet([id \in Identity |-> f[see[id]]], Identity)
          = SumFunctionOnSet(f, {see[id] : id \in Identity})
    <3>1. \A x, y \in Identity : see[x] = see[y] => x = y
      <4>. HIDE DEF see
      <4>. QED
        BY <2>1
    <3>2. \A x \in Identity : f[see[x]] \in Nat
      <4>. HIDE DEF see, f
      <4>. QED
        BY <2>1
    <3>. HIDE DEF f, see
    <3>. QED
      BY <3>1, <3>2, IdentityFinite, SumRenamed
  <2>6. SumFunctionOnSet(g, Identity) = SumFunctionOnSet(f, Identity)
    <3>. HIDE DEF f, see, g
    <3>. QED
      BY <2>2, <2>3, <2>5
  <2>7. cards_left = SumFunction(g)
    BY DEF Init, DeckSize
  <2>. QED
    BY <2>4, <2>6, <2>7 DEF SumFunction
<1>7. strikes = 0 /\ endgame_turns = -1 /\ current_player_index = 0 /\ phase = "deal"
  BY DEF Init, NoTurns
<1>8. Rules!Init <=>
        /\ Credits = 2 * MaxTokens
        /\ Progress = [s \in Suits |-> 0]
        /\ LostCopies = [s \in Suits |-> [k \in Ranks |-> 0]]
        /\ strikes = 0 /\ endgame_turns = -1
        /\ cards_left = SumFunction([c \in Suits \X Ranks |-> Copies[c[1]][c[2]]])
        /\ SeenHands = [p \in Players |-> <<>>]
        /\ current_player_index = 0 /\ phase = "deal"
  BY SameLibrary DEF Rules!Init, Rules!Players, Rules!Steps, Players, Ranks, Credits, Progress,
                     LostCopies, SeenHands, Copies
<1>. QED
  BY <1>2, <1>3, <1>4, <1>5, <1>6, <1>7, <1>8

\* What a draw or a clue leaves alone.
LEMMA UnseenChanges ==
  ASSUME UNCHANGED <<pileVars, tokenVars, strikes>>
  PROVE  Credits' = Credits /\ Progress' = Progress /\ LostCopies' = LostCopies
         /\ strikes' = strikes
BY DEF pileVars, tokenVars, Credits, Progress, LostCopies, played_count

\* A card State draws is taken from the deck.
LEMMA DrawTakes ==
  ASSUME GameStateAssumption, AccountInv, NEW p \in Players, NEW c \in InDeck,
         cards_left > 0, on_draw(p, c)
  PROVE  Rules!TakeCard(p, Seen(c)) /\ Seen(c) \in Suits \X Rules!Steps
<1>1. TableType /\ c \in Identity
  BY DEF AccountInv, TypeOK, InDeck
<1>2. Rules!Unseen(Seen(c)[1], Seen(c)[2]) > 0
  BY <1>1, UnseenIsInDeck
<1>3. SeenHands' = [SeenHands EXCEPT ![p] = <<Seen(c)>> \o @]
  BY <1>1, SeenDraw
<1>4. /\ cards_left' = cards_left - 1
      /\ endgame_turns' = (IF cards_left = 1 /\ endgame_turns = -1 THEN NumPlayers
                           ELSE endgame_turns)
  BY DEF on_draw, NoTurns
<1>5. Rules!TakeCard(p, Seen(c)) <=>
        /\ cards_left > 0 /\ Rules!Unseen(Seen(c)[1], Seen(c)[2]) > 0
        /\ SeenHands' = [SeenHands EXCEPT ![p] = <<Seen(c)>> \o @]
        /\ cards_left' = cards_left - 1
        /\ endgame_turns' = (IF cards_left = 1 /\ endgame_turns = -1 THEN NumPlayers
                             ELSE endgame_turns)
  BY DEF Rules!TakeCard, SeenHands
<1>6. Seen(c) \in Suits \X Rules!Steps
  BY <1>1, SeenCards DEF Rules!Steps, Ranks
<1>. QED
  BY <1>2, <1>3, <1>4, <1>5, <1>6

\* A card dealt: the deal ends when every hand is full.
LEMMA DealDeals ==
  ASSUME GameStateAssumption, AccountInv, Deal
  PROVE  Rules!Next
<1>1. PICK p \in Players, c \in InDeck :
           /\ \A q \in Players : q < p => Len(hands[q]) = HandSize
           /\ Len(hands[p]) < HandSize
           /\ on_draw(p, c)
           /\ phase' = (IF p = NumPlayers - 1 /\ Len(hands[p]) = HandSize - 1
                        THEN "act" ELSE "deal")
  BY DEF Deal
<1>2. /\ phase = "deal" /\ cards_left > 0 /\ current_player_index' = current_player_index
      /\ TableType /\ HandsInv /\ c \in Identity
  BY DEF Deal, AccountInv, TypeOK, InDeck
<1>3. /\ Len(hands'[p]) = Len(hands[p]) + 1
      /\ \A q \in Players : q # p => Len(hands'[q]) = Len(hands[q])
  BY <1>1, <1>2, DrawnCard
<1>4. /\ Rules!TakeCard(p, Seen(c)) /\ Seen(c) \in Suits \X Rules!Steps
  BY <1>1, <1>2, DrawTakes
<1>5. phase' = (IF \A q \in Players : Len(SeenHands'[q]) = HandSize THEN "act" ELSE "deal")
  <2>1. \A q \in Players : Len(SeenHands'[q]) = Len(hands'[q])
    BY <1>1, <1>2, SeenDraw
  <2>2. /\ NumPlayers - 1 \in Players /\ HandSize \in Int
        /\ \A q \in Players : q \in Int /\ q <= NumPlayers - 1 /\ Len(hands[q]) \in Int
    BY <1>2 DEF Players, GameStateAssumption, TableType
  <2>3. Len(hands[NumPlayers - 1]) < HandSize
    BY <1>2 DEF HandsInv
  <2>4. CASE p = NumPlayers - 1 /\ Len(hands[p]) = HandSize - 1
    <3>1. \A q \in Players : Len(hands'[q]) = HandSize
      BY <1>1, <1>3, <2>2, <2>4
    <3>. QED
      BY <1>1, <2>1, <2>4, <3>1
  <2>5. CASE p = NumPlayers - 1 /\ Len(hands[p]) # HandSize - 1
    <3>1. Len(hands'[p]) # HandSize
      BY <1>3, <2>2, <2>5
    <3>. QED
      BY <1>1, <2>1, <2>5, <3>1
  <2>6. CASE p # NumPlayers - 1
    <3>1. Len(hands'[NumPlayers - 1]) # HandSize
      BY <1>3, <2>2, <2>3, <2>6
    <3>. QED
      BY <1>1, <2>1, <2>2, <2>6, <3>1
  <2>. QED
    BY <2>4, <2>5, <2>6
<1>6. Credits' = Credits /\ Progress' = Progress /\ LostCopies' = LostCopies /\ strikes' = strikes
  BY <1>1, UnseenChanges DEF on_draw
<1>7. Rules!Deal(p, Seen(c)) <=>
        /\ phase = "deal" /\ Rules!TakeCard(p, Seen(c))
        /\ phase' = (IF \A q \in Players : Len(SeenHands'[q]) = HandSize THEN "act" ELSE "deal")
        /\ UNCHANGED <<Credits, Progress, LostCopies, strikes, current_player_index>>
  BY DEF Rules!Deal, Rules!Players, Players, SeenHands, Credits, Progress, LostCopies
<1>8. Rules!Deal(p, Seen(c)) /\ p \in Rules!Players
  BY <1>2, <1>4, <1>5, <1>6, <1>7 DEF Rules!Players, Players
<1>. QED
  BY <1>4, <1>8 DEF Rules!Next

\* A card drawn at the end of a turn.
LEMMA DrawDraws ==
  ASSUME GameStateAssumption, AccountInv, Draw
  PROVE  Rules!Next
<1>1. PICK c \in InDeck : on_draw(current_player_index, c)
  BY DEF Draw
<1>2. /\ phase = "draw" /\ cards_left > 0 /\ phase' = "act"
      /\ current_player_index' = next_player_index(current_player_index)
      /\ current_player_index \in Players
  BY DEF Draw, AccountInv, TypeOK, TableType
<1>3. /\ Rules!TakeCard(current_player_index, Seen(c)) /\ Seen(c) \in Suits \X Rules!Steps
  <2>1. current_player_index \in Players /\ cards_left > 0 /\ on_draw(current_player_index, c)
    BY <1>1, <1>2
  <2>2. PICK p \in Players : p = current_player_index
    BY <2>1
  <2>3. Rules!TakeCard(p, Seen(c)) /\ Seen(c) \in Suits \X Rules!Steps
    <3>1. on_draw(p, c)
      BY <2>1, <2>2
    <3>. QED
      BY <2>1, <3>1, DrawTakes
  <2>. QED
    BY <2>2, <2>3 DEF Rules!TakeCard
<1>4. Credits' = Credits /\ Progress' = Progress /\ LostCopies' = LostCopies /\ strikes' = strikes
  BY <1>1, UnseenChanges DEF on_draw
<1>5. Rules!Draw(Seen(c)) <=>
        /\ phase = "draw" /\ Rules!TakeCard(current_player_index, Seen(c))
        /\ current_player_index' = next_player_index(current_player_index) /\ phase' = "act"
        /\ UNCHANGED <<Credits, Progress, LostCopies, strikes>>
  BY DEF Rules!Draw, Rules!NextPlayer, next_player_index, Credits, Progress, LostCopies
<1>. QED
  BY <1>2, <1>3, <1>4, <1>5 DEF Rules!Next

\* A clue.
LEMMA ClueClues ==
  ASSUME GameStateAssumption, AccountInv, GiveClue
  PROVE  Rules!Next
<1>1. /\ phase = "act" /\ ~ended /\ clue_tokens > 0
      /\ clue_tokens' = clue_tokens - 1 /\ SpendEndgameTurn
      /\ UNCHANGED <<pileVars, setVars, half_clue_token, strikes, cards_left, hands>>
      /\ current_player_index' = next_player_index(current_player_index)
      /\ phase' = phase
  BY DEF GiveClue, on_clue
<1>2. Credits >= 2 /\ Credits' = Credits - 2
  <2>1. clue_tokens \in Int /\ half_clue_token' = half_clue_token
    BY <1>1 DEF AccountInv, TypeOK, TokenType
  <2>2. CASE half_clue_token
    BY <1>1, <2>1, <2>2 DEF Credits
  <2>3. CASE ~half_clue_token
    BY <1>1, <2>1, <2>3 DEF Credits
  <2>. QED
    BY <2>2, <2>3
<1>3. ~Rules!Over
  BY <1>1, OverIsEnded
<1>4. Progress' = Progress /\ LostCopies' = LostCopies /\ SeenHands' = SeenHands
      /\ strikes' = strikes /\ cards_left' = cards_left
  BY <1>1 DEF pileVars, Progress, LostCopies, SeenHands, played_count
<1>5. endgame_turns' = (IF endgame_turns = -1 THEN -1 ELSE endgame_turns - 1)
  BY <1>1 DEF SpendEndgameTurn, NoTurns
<1>6. Rules!Clue <=>
        /\ phase = "act" /\ ~Rules!Over /\ Credits >= 2 /\ Credits' = Credits - 2
        /\ current_player_index' = next_player_index(current_player_index)
        /\ endgame_turns' = (IF endgame_turns = -1 THEN -1 ELSE endgame_turns - 1)
        /\ UNCHANGED <<Progress, LostCopies, strikes, cards_left, SeenHands, phase>>
  BY DEF Rules!Clue, Rules!NextPlayer, next_player_index, Credits, Progress, LostCopies, SeenHands
<1>. QED
  BY <1>1, <1>2, <1>3, <1>4, <1>5, <1>6 DEF Rules!Next

\* A card used from a hand, whatever button was pressed.
LEMMA UseUses ==
  ASSUME GameStateAssumption, AccountInv, phase = "act", ~ended,
         NEW i \in 1 .. Len(hands[current_player_index]), i \in 1 .. HandSize,
         drop_from_hand(current_player_index, i), SpendEndgameTurn, PassTurn,
         cards_left' = cards_left,
         LET c == Seen(hands[current_player_index][i])
         IN  Rules!Land(c) \/ Rules!Scrap(c) \/ Rules!Strike(c)
  PROVE  Rules!Next
<1>1. TableType /\ current_player_index \in Players
  BY DEF AccountInv, TypeOK, TableType
<1>2. ~Rules!Over
  BY OverIsEnded
<1>3. /\ SeenHands' = [SeenHands EXCEPT ![current_player_index] = Rules!Without(@, i)]
      /\ Len(SeenHands[current_player_index]) = Len(hands[current_player_index])
      /\ SeenHands[current_player_index][i] = Seen(hands[current_player_index][i])
  BY <1>1, SeenDrop
<1>4. /\ endgame_turns' = (IF endgame_turns = -1 THEN -1 ELSE endgame_turns - 1)
      /\ phase' = (IF cards_left > 0 THEN "draw" ELSE "act")
      /\ current_player_index' = (IF cards_left > 0 THEN current_player_index
                                  ELSE next_player_index(current_player_index))
  BY DEF SpendEndgameTurn, NoTurns, PassTurn
<1>5. Rules!UseCard(i) <=>
        /\ phase = "act" /\ ~Rules!Over
        /\ i \in 1 .. Len(SeenHands[current_player_index])
        /\ LET c == SeenHands[current_player_index][i]
           IN  Rules!Land(c) \/ Rules!Scrap(c) \/ Rules!Strike(c)
        /\ SeenHands' = [SeenHands EXCEPT ![current_player_index] = Rules!Without(@, i)]
        /\ endgame_turns' = (IF endgame_turns = -1 THEN -1 ELSE endgame_turns - 1)
        /\ phase' = (IF cards_left > 0 THEN "draw" ELSE "act")
        /\ current_player_index' = (IF cards_left > 0 THEN current_player_index
                                    ELSE next_player_index(current_player_index))
        /\ cards_left' = cards_left
  BY DEF Rules!UseCard, Rules!NextPlayer, next_player_index, SeenHands
<1>6. Rules!UseCard(i)
  BY <1>2, <1>3, <1>4, <1>5
<1>. QED
  BY <1>6 DEF Rules!Next

\* The play button: an inverted card is scrapped, any other lands or strikes.
LEMMA PlayUses ==
  ASSUME GameStateAssumption, AccountInv, NEW i \in 1 .. HandSize, PressPlay(i)
  PROVE  Rules!Next
<1>. DEFINE id == hands[current_player_index][i]
<1>1. /\ phase = "act" /\ ~ended /\ PassTurn
      /\ i \in 1 .. Len(hands[current_player_index])
      /\ IF id[1] \in Inverted \/ is_playable(id)
         THEN on_play(current_player_index, i)
         ELSE on_discard(current_player_index, i, TRUE)
  BY DEF PressPlay
<1>2. id \in Identity
  BY <1>1 DEF AccountInv, TypeOK, TableType
<1>3. CASE id[1] \in Inverted \/ is_playable(id)
  <2>1. /\ drop_from_hand(current_player_index, i) /\ SpendEndgameTurn
        /\ UNCHANGED strikes /\ cards_left' = cards_left
        /\ (id[1] \notin Inverted /\ with_play(id)) \/ (with_discard(id) /\ regain_clue)
    BY <1>1, <1>3 DEF on_play
  <2>2. Rules!Land(Seen(id)) \/ Rules!Scrap(Seen(id))
    <3>. HIDE DEF id
    <3>. QED
      BY <1>2, <1>3, <2>1, PlayLands, DiscardScraps
  <2>. QED
    BY <1>1, <2>1, <2>2, UseUses
<1>4. CASE ~(id[1] \in Inverted \/ is_playable(id))
  <2>1. /\ drop_from_hand(current_player_index, i) /\ SpendEndgameTurn
        /\ cards_left' = cards_left /\ strikes' = strikes + 1
        /\ with_discard(id) /\ UNCHANGED tokenVars
    BY <1>1, <1>4 DEF on_discard
  <2>2. Rules!Strike(Seen(id))
    <3>. HIDE DEF id
    <3>. QED
      BY <1>2, <1>4, <2>1, DiscardStrikes
  <2>. QED
    BY <1>1, <2>1, <2>2, UseUses
<1>. QED
  BY <1>3, <1>4

\* The discard button: a card is scrapped, an inverted one lands or strikes.
LEMMA DiscardUses ==
  ASSUME GameStateAssumption, AccountInv, NEW i \in 1 .. HandSize, PressDiscard(i)
  PROVE  Rules!Next
<1>. DEFINE id == hands[current_player_index][i]
            failed == id[1] \in Inverted /\ ~is_playable(id)
<1>1. /\ phase = "act" /\ ~ended /\ PassTurn
      /\ i \in 1 .. Len(hands[current_player_index])
      /\ on_discard(current_player_index, i, failed)
  BY DEF PressDiscard
<1>2. id \in Identity
  BY <1>1 DEF AccountInv, TypeOK, TableType
<1>3. /\ drop_from_hand(current_player_index, i) /\ SpendEndgameTurn /\ cards_left' = cards_left
      /\ \/ id[1] \in Inverted /\ ~failed /\ with_play(id) /\ UNCHANGED strikes
         \/ failed /\ strikes' = strikes + 1 /\ with_discard(id) /\ UNCHANGED tokenVars
         \/ regain_clue /\ with_discard(id) /\ UNCHANGED strikes
  <2>. HIDE DEF failed
  <2>. QED
    BY <1>1 DEF on_discard
<1>4. CASE id[1] \in Inverted /\ ~failed /\ with_play(id) /\ UNCHANGED strikes
  <2>1. Rules!Land(Seen(id))
    <3>1. is_playable(id)
      BY <1>4
    <3>. HIDE DEF id, failed
    <3>. QED
      BY <1>2, <1>4, <3>1, PlayLands
  <2>. QED
    BY <1>1, <1>3, <2>1, UseUses
<1>5. CASE failed /\ strikes' = strikes + 1 /\ with_discard(id) /\ UNCHANGED tokenVars
  <2>1. Rules!Strike(Seen(id))
    <3>1. ~is_playable(id)
      BY <1>5
    <3>. HIDE DEF id, failed
    <3>. QED
      BY <1>2, <1>5, <3>1, DiscardStrikes
  <2>. QED
    BY <1>1, <1>3, <2>1, UseUses
<1>6. CASE regain_clue /\ with_discard(id) /\ UNCHANGED strikes
  <2>1. Rules!Scrap(Seen(id))
    <3>. HIDE DEF id, failed
    <3>. QED
      BY <1>2, <1>6, DiscardScraps
  <2>. QED
    BY <1>1, <1>3, <2>1, UseUses
<1>. QED
  BY <1>3, <1>4, <1>5, <1>6

\* The last card, played off the deck.
LEMMA DeckUses ==
  ASSUME GameStateAssumption, AccountInv, PressDeck
  PROVE  Rules!Next
<1>1. PICK id \in InDeck : (id[1] \in Inverted \/ is_playable(id)) /\ on_deck_play(id)
  BY DEF PressDeck
<1>2. /\ phase = "act" /\ ~ended /\ cards_left = 1 /\ phase' = phase
      /\ current_player_index' = next_player_index(current_player_index)
      /\ cards_left' = cards_left - 1 /\ endgame_turns' = NumPlayers
      /\ UNCHANGED <<strikes, hands>>
      /\ (id[1] \notin Inverted /\ with_play(id)) \/ (with_discard(id) /\ regain_clue)
  BY <1>1 DEF PressDeck, on_deck_play
<1>3. id \in Identity
  BY DEF InDeck
<1>4. Rules!Land(Seen(id)) \/ Rules!Scrap(Seen(id))
  BY <1>1, <1>2, <1>3, PlayLands, DiscardScraps
<1>5. Rules!Unseen(Seen(id)[1], Seen(id)[2]) > 0 /\ ~Rules!Over
  BY <1>2, <1>3, UnseenIsInDeck, OverIsEnded
<1>6. SeenHands' = SeenHands
  BY <1>2 DEF SeenHands
<1>7. Rules!UseDeckCard(Seen(id)) <=>
        /\ phase = "act" /\ ~Rules!Over /\ cards_left = 1
        /\ Rules!Unseen(Seen(id)[1], Seen(id)[2]) > 0
        /\ Rules!Land(Seen(id)) \/ Rules!Scrap(Seen(id))
        /\ cards_left' = 0 /\ endgame_turns' = NumPlayers
        /\ current_player_index' = next_player_index(current_player_index)
        /\ UNCHANGED <<SeenHands, phase>>
  BY DEF Rules!UseDeckCard, Rules!NextPlayer, next_player_index, SeenHands
<1>8. Seen(id) \in Suits \X Rules!Steps
  BY <1>3, SeenCards DEF Rules!Steps, Ranks
<1>. QED
  BY <1>2, <1>4, <1>5, <1>6, <1>7, <1>8 DEF Rules!Next

\* A step of State is a step of the rules.
LEMMA RulesStep ==
  ASSUME GameStateAssumption, AccountInv, [Next]_vars
  PROVE  [Rules!Next]_(Rules!vars)
<1>1. CASE UNCHANGED vars
  <2>1. /\ Credits' = Credits /\ Progress' = Progress /\ LostCopies' = LostCopies
        /\ strikes' = strikes /\ cards_left' = cards_left /\ endgame_turns' = endgame_turns
        /\ SeenHands' = SeenHands /\ current_player_index' = current_player_index
        /\ phase' = phase
    BY <1>1 DEF vars, pileVars, tokenVars, tableVars, Credits, Progress, LostCopies, SeenHands,
                played_count
  <2>2. UNCHANGED Rules!vars
    BY <2>1 DEF Rules!vars, Credits, Progress, LostCopies, SeenHands
  <2>. QED
    BY <2>2
<1>2. CASE Next
  <2>1. Rules!Next \/ UNCHANGED vars
    BY <1>2, DealDeals, ClueClues, PlayUses, DiscardUses, DeckUses, DrawDraws
       DEF Next, GameOver
  <2>. QED
    BY <1>1, <2>1
<1>. QED
  BY <1>1, <1>2

\* Tokens, stacks, discards, strikes, deck and countdown follow the rules of the
\* game in every variant, for any suits, hand size and number of players.
THEOREM StateFollowsRules == Spec => FollowsRules
<1>1. Init => Rules!Init
  BY NewGame, GameStateAssumption
<1>2. AccountInv /\ [Next]_vars => [Rules!Next]_(Rules!vars)
  BY RulesStep, GameStateAssumption
<1>. QED
  BY <1>1, <1>2, Accounts, PTL DEF Spec, FollowsRules, Rules!Spec
=============================================================================
