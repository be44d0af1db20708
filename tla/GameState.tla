------------------------------ MODULE GameState ------------------------------
(***************************************************************************)
(* The card accounting of the bot's engine: State and the handlers of Game *)
(* that change it (on_clue, on_play, on_discard, on_draw), driven by the   *)
(* messages of a server that follows the rules.  Every card a handler sees *)
(* has an identity here, as in every variant but Throw It in a Hole; what  *)
(* the bot may know of its own hand is another matter (module Empathy).    *)
(*                                                                         *)
(* Orders are abstracted to positions in a hand, and a discard pile to its *)
(* size: State reads nothing else of them.                                 *)
(***************************************************************************)
EXTENDS Integers, Sequences, FiniteSets, FiniteSetsExt, Functions

CONSTANTS Suits,
          Reversed,       \* suits played from the highest rank down
          Inverted,       \* suits whose play and discard buttons are swapped
          Top,            \* ranks per suit: 5 in the code
          CardCount,      \* card_count: CardCount[s][r] copies of rank r of s
          NumPlayers,
          HandSize,       \* kHandSize[num_players]
          MaxTokens,      \* 8 in the code
          ClueStarved,    \* the variant's clue_starved
          DeckPlays       \* the table option deckPlays

Ranks == 1 .. Top
Identity == Suits \X Ranks

\* total_cards() of the variant.
DeckSize == SumFunction([id \in Identity |-> CardCount[id[1]][id[2]]])

ASSUME GameStateAssumption ==
  /\ IsFiniteSet(Suits)
  /\ Reversed \subseteq Suits /\ Inverted \subseteq Suits
  /\ Top \in Nat \ {0} /\ MaxTokens \in Nat \ {0}
  /\ NumPlayers \in Nat \ {0} /\ HandSize \in Nat \ {0}
  /\ CardCount \in [Suits -> [1 .. Top -> Nat \ {0}]]
  /\ ClueStarved \in BOOLEAN /\ DeckPlays \in BOOLEAN

VARIABLES play_stacks, max_ranks, discard_stacks, base_count,
          playable_set, critical_set, trash_set,
          clue_tokens, half_clue_token, strikes,
          endgame_turns,          \* -1 is nullopt
          cards_left, hands, current_player_index,
          phase                   \* the server's: "deal", "act", "draw"

pileVars  == <<play_stacks, max_ranks, discard_stacks, base_count>>
setVars   == <<playable_set, critical_set, trash_set>>
tokenVars == <<clue_tokens, half_clue_token>>
tableVars == <<cards_left, hands, current_player_index, phase>>
vars == <<pileVars, setVars, tokenVars, strikes, endgame_turns, tableVars>>

Players == 0 .. NumPlayers - 1
NoTurns == -1

-----------------------------------------------------------------------------
(* Predicates of State. *)

\* The last rank of a suit in its play direction, and the one after r.
IsFinal(id) == id[2] = IF id[1] \in Reversed THEN 1 ELSE Top
NextIds(id) == {<<id[1], r>> : r \in {IF id[1] \in Reversed THEN id[2] - 1 ELSE id[2] + 1} \cap Ranks}

is_basic_trash(id) ==
  IF id[1] \in Reversed
  THEN id[2] >= play_stacks[id[1]] \/ id[2] < max_ranks[id[1]]
  ELSE id[2] <= play_stacks[id[1]] \/ id[2] > max_ranks[id[1]]

is_playable(id) ==
  id[2] = play_stacks[id[1]] + (IF id[1] \in Reversed THEN -1 ELSE 1)

is_critical(id) ==
  ~is_basic_trash(id) /\ discard_stacks[id[1]][id[2]] = CardCount[id[1]][id[2]] - 1

played_count(s) == IF s \in Reversed THEN Top + 1 - play_stacks[s] ELSE play_stacks[s]
max_played(s)   == IF s \in Reversed THEN Top + 1 - max_ranks[s] ELSE max_ranks[s]

score     == SumFunction([s \in Suits |-> played_count(s)])
max_score == SumFunction([s \in Suits |-> max_played(s)])

ended == strikes = 3 \/ score = max_score \/ endgame_turns = 0

-----------------------------------------------------------------------------
(* State::create and the mutators of State. *)

Init ==
  /\ play_stacks = [s \in Suits |-> IF s \in Reversed THEN Top + 1 ELSE 0]
  /\ max_ranks = [s \in Suits |-> IF s \in Reversed THEN 1 ELSE Top]
  /\ discard_stacks = [s \in Suits |-> [r \in Ranks |-> 0]]
  /\ base_count = [s \in Suits |-> [r \in Ranks |-> 0]]
  /\ playable_set = {id \in Identity : id[2] = IF id[1] \in Reversed THEN Top ELSE 1}
  /\ critical_set = {id \in Identity : CardCount[id[1]][id[2]] = 1}
  /\ trash_set = {}
  /\ clue_tokens = MaxTokens /\ half_clue_token = FALSE /\ strikes = 0
  /\ endgame_turns = NoTurns /\ cards_left = DeckSize
  /\ hands = [p \in Players |-> <<>>]
  /\ current_player_index = 0
  /\ phase = "deal"

\* Mutants of regain_clue: the cap is ignored; a second half token is dropped.
regain_uncapped == clue_tokens' = clue_tokens + 1 /\ UNCHANGED half_clue_token
regain_whole == \/ clue_tokens < MaxTokens /\ clue_tokens' = clue_tokens + 1 /\ UNCHANGED half_clue_token
                \/ clue_tokens = MaxTokens /\ UNCHANGED tokenVars

regain_clue ==
  \/ /\ ClueStarved /\ half_clue_token
     /\ clue_tokens' = clue_tokens + 1 /\ half_clue_token' = FALSE
  \/ /\ ClueStarved /\ ~half_clue_token /\ clue_tokens < MaxTokens
     /\ half_clue_token' = TRUE /\ UNCHANGED clue_tokens
  \/ /\ ClueStarved /\ ~half_clue_token /\ clue_tokens >= MaxTokens
     /\ UNCHANGED tokenVars
  \/ /\ ~ClueStarved
     /\ clue_tokens' = (IF clue_tokens < MaxTokens THEN clue_tokens + 1 ELSE MaxTokens)
     /\ UNCHANGED half_clue_token

\* Mutants: of CappedRank, a reversed suit is capped like any other; of
\* OneCopyLeft, the discard itself is not counted.
CappedForward(id) ==
  LET m == max_ranks[id[1]] IN IF id[2] - 1 < m THEN id[2] - 1 ELSE m
OneCopyLeftLate(id) == CardCount[id[1]][id[2]] - base_count[id[1]][id[2]] = 1

\* The rank its suit is capped at when the last copy of id is lost, and whether
\* one copy is left once another is lost.
CappedRank(id) ==
  LET m == max_ranks[id[1]]
  IN  IF id[1] \in Reversed THEN (IF id[2] + 1 > m THEN id[2] + 1 ELSE m)
      ELSE (IF id[2] - 1 < m THEN id[2] - 1 ELSE m)
OneCopyLeft(id) == CardCount[id[1]][id[2]] - (base_count[id[1]][id[2]] + 1) = 1

\* with_discard.  Losing the last copy of a card that is still needed caps its
\* suit; losing all but one makes it critical.
with_discard(id) ==
  /\ discard_stacks' = [discard_stacks EXCEPT ![id[1]][id[2]] = @ + 1]
  /\ base_count' = [base_count EXCEPT ![id[1]][id[2]] = @ + 1]
  /\ \/ /\ id \in critical_set
        /\ max_ranks' = [max_ranks EXCEPT ![id[1]] = CappedRank(id)]
        /\ critical_set' = critical_set \ {id}
        /\ trash_set' = trash_set \cup {id}
        /\ playable_set' = playable_set \ {id}
     \/ /\ id \notin critical_set
        /\ critical_set' = IF OneCopyLeft(id) /\ ~is_basic_trash(id)
                           THEN critical_set \cup {id} ELSE critical_set
        /\ UNCHANGED <<max_ranks, trash_set, playable_set>>
  /\ UNCHANGED play_stacks

\* with_play, the refund for the final rank included.
with_play(id) ==
  /\ play_stacks' = [play_stacks EXCEPT ![id[1]] = id[2]]
  /\ base_count' = [base_count EXCEPT ![id[1]][id[2]] = @ + 1]
  /\ playable_set' = (playable_set \ {id}) \cup NextIds(id)
  /\ trash_set' = trash_set \cup {id}
  /\ IF IsFinal(id) THEN regain_clue ELSE UNCHANGED tokenVars
  /\ UNCHANGED <<max_ranks, discard_stacks, critical_set>>

-----------------------------------------------------------------------------
(* The handlers of Game. *)

Without(h, i) == [j \in 1 .. Len(h) - 1 |-> IF j < i THEN h[j] ELSE h[j + 1]]

drop_from_hand(p, i) == hands' = [hands EXCEPT ![p] = Without(@, i)]

SpendEndgameTurn ==
  endgame_turns' = IF endgame_turns = NoTurns THEN NoTurns ELSE endgame_turns - 1

\* The state change of on_clue; its empathy is in Empathy.
on_clue == /\ clue_tokens' = clue_tokens - 1
           /\ SpendEndgameTurn
           /\ UNCHANGED <<pileVars, setVars, half_clue_token, strikes, cards_left, hands>>

\* A discard message: a discard, a misplay (failed), or for an inverted suit a
\* play attempt.
on_discard(p, i, failed) ==
  LET id == hands[p][i]
  IN  /\ drop_from_hand(p, i)
      /\ SpendEndgameTurn
      /\ \/ /\ id[1] \in Inverted /\ ~failed
            /\ with_play(id) /\ UNCHANGED strikes
         \/ /\ failed
            /\ strikes' = strikes + 1
            /\ with_discard(id) /\ UNCHANGED tokenVars
         \/ /\ id[1] \notin Inverted /\ ~failed
            /\ regain_clue
            /\ with_discard(id) /\ UNCHANGED strikes
      /\ UNCHANGED cards_left

\* A play message; for an inverted suit the card goes to the discard pile.
on_play(p, i) ==
  LET id == hands[p][i]
  IN  /\ drop_from_hand(p, i)
      /\ SpendEndgameTurn
      /\ \/ id[1] \notin Inverted /\ with_play(id)
         \/ id[1] \in Inverted /\ with_discard(id) /\ regain_clue
      /\ UNCHANGED <<strikes, cards_left>>

\* on_play for the last card of the deck, played without being drawn.
on_deck_play(id) ==
  /\ cards_left' = cards_left - 1
  /\ endgame_turns' = NumPlayers
  /\ \/ id[1] \notin Inverted /\ with_play(id)
     \/ id[1] \in Inverted /\ with_discard(id) /\ regain_clue
  /\ UNCHANGED <<strikes, hands>>

\* Mutant of on_draw: the deck is not counted down.
on_draw_uncounted(p, id) ==
  /\ hands' = [hands EXCEPT ![p] = <<id>> \o @]
  /\ UNCHANGED <<pileVars, setVars, tokenVars, strikes, cards_left, endgame_turns>>

on_draw(p, id) ==
  /\ hands' = [hands EXCEPT ![p] = <<id>> \o @]
  /\ cards_left' = cards_left - 1
  /\ endgame_turns' = IF cards_left = 1 /\ endgame_turns = NoTurns THEN NumPlayers
                      ELSE endgame_turns
  /\ UNCHANGED <<pileVars, setVars, tokenVars, strikes>>

-----------------------------------------------------------------------------
(* The server: whose turn it is, what is legal, which card is drawn. *)

next_player_index(p) == (p + 1) % NumPlayers

InHands(id) == Cardinality({at \in Players \X (1 .. HandSize) :
                               /\ at[2] <= Len(hands[at[1]])
                               /\ hands[at[1]][at[2]] = id})
InDeck == {id \in Identity :
             base_count[id[1]][id[2]] + InHands(id) < CardCount[id[1]][id[2]]}

\* The turn passes at once unless the actor has a card to draw.
PassTurn == /\ phase' = (IF cards_left > 0 THEN "draw" ELSE "act")
            /\ current_player_index' =
                 (IF cards_left > 0 THEN current_player_index
                  ELSE next_player_index(current_player_index))

Deal ==
  /\ phase = "deal" /\ cards_left > 0
  /\ \E p \in Players, id \in InDeck :
        /\ \A q \in Players : q < p => Len(hands[q]) = HandSize
        /\ Len(hands[p]) < HandSize
        /\ on_draw(p, id)
        /\ phase' = (IF p = NumPlayers - 1 /\ Len(hands[p]) = HandSize - 1 THEN "act" ELSE "deal")
  /\ UNCHANGED current_player_index

GiveClue ==
  /\ phase = "act" /\ ~ended /\ clue_tokens > 0
  /\ on_clue
  /\ current_player_index' = next_player_index(current_player_index)
  /\ UNCHANGED phase

\* The play button: an inverted card is scrapped, any other lands or strikes.
PressPlay(i) ==
  /\ phase = "act" /\ ~ended
  /\ i \in 1 .. Len(hands[current_player_index])
  /\ LET id == hands[current_player_index][i]
     IN  IF id[1] \in Inverted \/ is_playable(id)
         THEN on_play(current_player_index, i)
         ELSE on_discard(current_player_index, i, TRUE)
  /\ PassTurn

\* The discard button, which the server refuses at full clue tokens.
PressDiscard(i) ==
  /\ phase = "act" /\ ~ended /\ clue_tokens < MaxTokens
  /\ i \in 1 .. Len(hands[current_player_index])
  /\ LET id == hands[current_player_index][i]
     IN  on_discard(current_player_index, i, id[1] \in Inverted /\ ~is_playable(id))
  /\ PassTurn

\* Only a deck play that lands: see the README for one that does not.
PressDeck ==
  /\ DeckPlays /\ phase = "act" /\ ~ended /\ cards_left = 1
  /\ \E id \in InDeck : (id[1] \in Inverted \/ is_playable(id)) /\ on_deck_play(id)
  /\ current_player_index' = next_player_index(current_player_index)
  /\ UNCHANGED phase

Draw ==
  /\ phase = "draw" /\ cards_left > 0
  /\ \E id \in InDeck : on_draw(current_player_index, id)
  /\ phase' = "act"
  /\ current_player_index' = next_player_index(current_player_index)

\* The server sends nothing more.
GameOver == phase = "act" /\ ended /\ UNCHANGED vars

Next == \/ Deal \/ GiveClue
        \/ \E i \in 1 .. HandSize : PressPlay(i) \/ PressDiscard(i)
        \/ PressDeck \/ Draw \/ GameOver

Spec == Init /\ [][Next]_vars

-----------------------------------------------------------------------------
(* Type invariant. *)

PileType ==
  /\ play_stacks \in [Suits -> 0 .. Top + 1]
  /\ max_ranks \in [Suits -> 0 .. Top + 1]
  /\ discard_stacks \in [Suits -> [Ranks -> Nat]]
  /\ base_count \in [Suits -> [Ranks -> Nat]]

SetType ==
  /\ playable_set \subseteq Identity
  /\ critical_set \subseteq Identity
  /\ trash_set \subseteq Identity

TokenType ==
  /\ clue_tokens \in 0 .. MaxTokens /\ half_clue_token \in BOOLEAN
  /\ half_clue_token => ClueStarved /\ clue_tokens < MaxTokens

TableType ==
  /\ strikes \in 0 .. 3 /\ endgame_turns \in -1 .. NumPlayers
  /\ cards_left \in Nat
  /\ hands \in [Players -> Seq(Identity)]
  /\ current_player_index \in Players
  /\ phase \in {"deal", "act", "draw"}

\* Every field of State has its range: tokens never pass 8 (a half token is
\* only kept below 8), strikes never pass 3.
TypeOK == PileType /\ SetType /\ TokenType /\ TableType

-----------------------------------------------------------------------------
(* Safety. *)

\* The k-th card of s in play order.
KthRank(s, k) == IF s \in Reversed THEN Top + 1 - k ELSE k

\* The server's game as the bot's State shows it.
Rules == INSTANCE HanabiRules WITH
           Copies   <- [s \in Suits |-> [k \in Ranks |-> CardCount[s][KthRank(s, k)]]],
           Refund   <- IF ClueStarved THEN 1 ELSE 2,
           credits  <- 2 * clue_tokens + (IF half_clue_token THEN 1 ELSE 0),
           progress <- [s \in Suits |-> played_count(s)],
           lost     <- [s \in Suits |-> [k \in Ranks |-> discard_stacks[s][KthRank(s, k)]]],
           left     <- cards_left,
           turns    <- endgame_turns,
           hands    <- [p \in Players |-> [i \in 1 .. Len(hands[p]) |->
                          <<hands[p][i][1], KthRank(hands[p][i][1], hands[p][i][2])>>]],
           turn     <- current_player_index

\* Tokens, stacks, discards, strikes, deck and countdown follow the rules of the
\* game whatever is reversed, inverted, clue starved or played off the deck.
FollowsRules == Rules!Spec

\* max_ranks, kept incrementally through critical_set, is how far each suit can
\* still go: up to the first rank whose copies are all in the discard pile.
MaxRanksReachable == \A s \in Suits : max_played(s) = Rules!Reach(s)

\* The caches agree with the predicates on every card still needed: critical_set
\* with is_critical, playable_set with is_playable; trash_set holds no such card.
CachesExact ==
  \A id \in Identity :
     \/ is_basic_trash(id)
     \/ /\ id \in critical_set <=> is_critical(id)
        /\ id \in playable_set <=> is_playable(id)
        /\ id \notin trash_set

\* Every copy is in the deck, in a hand, on a stack or in the discard pile, once.
CardsConserved ==
  /\ \A id \in Identity : base_count[id[1]][id[2]] + InHands(id) <= CardCount[id[1]][id[2]]
  /\ cards_left + SumFunction([id \in Identity |-> base_count[id[1]][id[2]] + InHands(id)])
       = DeckSize
=============================================================================
