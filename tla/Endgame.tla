------------------------------- MODULE Endgame -------------------------------
(***************************************************************************)
(* The pure part of the endgame search (src/endgame/helper, winnable): the *)
(* states it imagines, the positions it gives up, and the wins it promises *)
(* without relying on any card still in the deck.  The engine (GameState)  *)
(* plays on from an ending; the search is asked on the way, and a promised *)
(* win is played out, one imagined and one real move at a time.            *)
(*                                                                         *)
(* The search gets the cards of every hand, as it does once an arrangement *)
(* of our own hand is assumed; what it draws has no identity.  Deadlines   *)
(* are left out: each makes a branch count as lost.                        *)
(***************************************************************************)
EXTENDS GameState

CONSTANT Endings      \* the positions to start from, as records of Now's form

VARIABLES plan,       \* the state the search has imagined, or NoPlan
          promised,   \* the score the plan leads to
          given_up    \* the lowest score once found out of reach, or -1

endVars == <<vars, plan, promised, given_up>>

NoPlan == <<>>
Unknown == <<>>       \* a card with an order but no identity

\* The State handed to the search.
Now == [play_stacks |-> play_stacks, max_ranks |-> max_ranks,
        discard_stacks |-> discard_stacks, base_count |-> base_count,
        critical_set |-> critical_set,
        clue_tokens |-> clue_tokens, half_clue_token |-> half_clue_token,
        strikes |-> strikes, endgame_turns |-> endgame_turns,
        cards_left |-> cards_left, hands |-> hands]

\* The predicates of State, of a state that is a value.
is_useful(s, id) ==
  IF id[1] \in Reversed
  THEN id[2] < s.play_stacks[id[1]] /\ id[2] >= s.max_ranks[id[1]]
  ELSE id[2] > s.play_stacks[id[1]] /\ id[2] <= s.max_ranks[id[1]]
playable_away(s, id) ==
  IF id[1] \in Reversed THEN s.play_stacks[id[1]] - 1 - id[2]
  ELSE id[2] - (s.play_stacks[id[1]] + 1)
playable(s, id) == playable_away(s, id) = 0
critical(s, id) ==
  is_useful(s, id) /\ s.discard_stacks[id[1]][id[2]] = CardCount[id[1]][id[2]] - 1

InPlayOrder(suit, r) == IF suit \in Reversed THEN Top + 1 - r ELSE r
score_of(s) == SumFunction([u \in Suits |-> InPlayOrder(u, s.play_stacks[u])])
max_score_of(s) == SumFunction([u \in Suits |-> InPlayOrder(u, s.max_ranks[u])])
ended_in(s) == s.strikes = 3 \/ score_of(s) = max_score_of(s) \/ s.endgame_turns = 0
pace(s) == score_of(s) + s.cards_left + NumPlayers - max_score_of(s)

-----------------------------------------------------------------------------
(* The mutators of State, by value. *)

Larger(m, n) == IF m > n THEN m ELSE n
Smaller(m, n) == IF m < n THEN m ELSE n

regained(s) ==
  IF s.half_clue_token
  THEN [s EXCEPT !.clue_tokens = @ + 1, !.half_clue_token = FALSE]
  ELSE IF s.clue_tokens >= MaxTokens THEN s
  ELSE IF ClueStarved THEN [s EXCEPT !.half_clue_token = TRUE]
  ELSE [s EXCEPT !.clue_tokens = @ + 1]

capped_rank(s, id) ==
  IF id[1] \in Reversed THEN Larger(id[2] + 1, s.max_ranks[id[1]])
  ELSE Smaller(id[2] - 1, s.max_ranks[id[1]])

discarded(s, id) ==
  LET t == [s EXCEPT !.discard_stacks[id[1]][id[2]] = @ + 1,
                     !.base_count[id[1]][id[2]] = @ + 1]
  IN  IF id \in s.critical_set
      THEN [t EXCEPT !.max_ranks[id[1]] = capped_rank(s, id),
                     !.critical_set = @ \ {id}]
      ELSE IF CardCount[id[1]][id[2]] - t.base_count[id[1]][id[2]] = 1 /\ is_useful(s, id)
      THEN [t EXCEPT !.critical_set = @ \cup {id}]
      ELSE t

\* Mutant: the last card of a suit pays no token.
played_unpaid(s, id) ==
  [s EXCEPT !.play_stacks[id[1]] = id[2], !.base_count[id[1]][id[2]] = @ + 1]

played(s, id) ==
  LET t == [s EXCEPT !.play_stacks[id[1]] = id[2], !.base_count[id[1]][id[2]] = @ + 1]
  IN  IF IsFinal(id) THEN regained(t) ELSE t

-----------------------------------------------------------------------------
(* advance_state.  A move is <<"play", i>>, <<"discard", i>> or DummyClue. *)

DummyClue == <<"clue", 0>>
NoMove == <<"none", 0>>

\* Mutant: whoever draws the last card leaves everybody, itself included, a turn more.
remove_and_draw_late(s, p, i) ==
  [s EXCEPT !.hands[p] = <<Unknown>> \o Without(@, i),
            !.cards_left = IF @ = 0 THEN 0 ELSE @ - 1,
            !.endgame_turns = IF @ # NoTurns THEN @ - 1
                              ELSE IF s.cards_left = 1 THEN NumPlayers + 1 ELSE NoTurns]

\* The new card comes in front even when the deck is empty.
remove_and_draw(s, p, i) ==
  [s EXCEPT !.hands[p] = <<Unknown>> \o Without(@, i),
            !.cards_left = IF @ = 0 THEN 0 ELSE @ - 1,
            !.endgame_turns = IF @ # NoTurns THEN @ - 1
                              ELSE IF s.cards_left = 1 THEN NumPlayers ELSE NoTurns]

struck(s) == [s EXCEPT !.strikes = @ + 1]

\* What a button does to the piles.
pressed_play(s, id) ==
  IF id = Unknown THEN struck(s)
  ELSE IF id[1] \in Inverted THEN regained(discarded(s, id))
  ELSE IF playable(s, id) THEN played(s, id)
  ELSE discarded(struck(s), id)

pressed_discard(s, id) ==
  IF id = Unknown THEN regained(s)
  ELSE IF id[1] \notin Inverted THEN regained(discarded(s, id))
  ELSE IF playable(s, id) THEN played(s, id)
  ELSE discarded(struck(s), id)

advance_state(s, move, p) ==
  CASE move[1] = "play" ->
         remove_and_draw(pressed_play(s, s.hands[p][move[2]]), p, move[2])
    [] move[1] = "discard" ->
         remove_and_draw(pressed_discard(s, s.hands[p][move[2]]), p, move[2])
    [] OTHER ->
         [s EXCEPT !.clue_tokens = @ - 1,
                   !.endgame_turns = IF @ = NoTurns THEN @ ELSE @ - 1]

-----------------------------------------------------------------------------
(* helper: positions that cannot be won. *)

HeldCopies(hand, id) == Cardinality({i \in DOMAIN hand : hand[i] = id})

\* The useful identities all of whose remaining copies are in this hand.
find_must_plays(s, hand) ==
  {id \in Identity : /\ is_useful(s, id) /\ HeldCopies(hand, id) > 0
                     /\ HeldCopies(hand, id) = CardCount[id[1]][id[2]] - s.base_count[id[1]][id[2]]}

is_void(s, p) == \A i \in DOMAIN s.hands[p] :
                   s.hands[p][i] = Unknown \/ ~is_useful(s, s.hands[p][i])

MustPlayTwo(s, p) == Cardinality(find_must_plays(s, s.hands[p])) > 1

hops(p, q) == (q - p) % NumPlayers

\* In the final round: a seat that must play two cards has one turn, and every
\* point needs a seat that can score it.
FinalRoundLost(s, p) ==
  LET seats == {(p + i) % NumPlayers : i \in 0 .. s.endgame_turns - 1}
  IN  \/ Cardinality({q \in seats : ~is_void(s, q)}) + score_of(s) < max_score_of(s)
      \/ \E q \in seats : MustPlayTwo(s, q)

\* One card left: only the seat that draws it has two more turns, and everyone
\* before it has to clue.
LastCardLost(s, p) ==
  LET starters == {q \in Players : MustPlayTwo(s, q)}
  IN  \/ Cardinality(starters) > 1
      \/ \E q \in starters : hops(p, q) > s.clue_tokens

\* Mutants: seats that hold nothing useful cost a turn each even when pace allows it.
unwinnable_state_strict(s, p) ==
  \/ ended_in(s) \/ pace(s) < 0
  \/ s.endgame_turns # NoTurns /\ FinalRoundLost(s, p)
  \/ s.cards_left = 1 /\ LastCardLost(s, p)
  \/ /\ s.cards_left # 1 /\ s.endgame_turns = NoTurns
     /\ Cardinality({q \in Players : is_void(s, q)}) >= pace(s)

unwinnable_state(s, p) ==
  \/ ended_in(s) \/ pace(s) < 0
  \/ s.endgame_turns # NoTurns /\ FinalRoundLost(s, p)
  \/ s.cards_left = 1 /\ LastCardLost(s, p)
  \/ /\ s.cards_left # 1 /\ s.endgame_turns = NoTurns
     /\ Cardinality({q \in Players : is_void(s, q)}) > pace(s)

-----------------------------------------------------------------------------
(* helper: the last round, won with one sure play of each seat.  reads[p][i] are   *)
(* the identities the i-th card of p may still have in the eyes of p.              *)

StackingButton(id) == IF id[1] \in Inverted THEN "discard" ELSE "play"

sure(s, reading) == reading # {} /\ \A id \in reading : playable(s, id)
obvious_playables(s, reads, p) ==
  {i \in DOMAIN s.hands[p] : s.hands[p][i] # Unknown /\ sure(s, reads[p][i])}
Leftmost(S) == CHOOSE i \in S : \A j \in S : i <= j

\* A seat with nothing sure throws its newest card away, an inverted one by the other
\* button; a card that may be an inverted one it cannot play is no filler.
Filler(s, reads, p) ==
  IF \E id \in reads[p][1] : reads[p][1] = {id} /\ id[1] \in Inverted
  THEN <<"play", 1>> ELSE <<"discard", 1>>
filler_unsafe(s, reads, p) ==
  /\ Cardinality(reads[p][1]) # 1
  /\ \E id \in reads[p][1] : id[1] \in Inverted /\ ~playable(s, id)

SureMove(s, reads, p) ==
  IF obvious_playables(s, reads, p) = {} THEN NoMove
  ELSE LET i == Leftmost(obvious_playables(s, reads, p))
       IN  <<StackingButton(s.hands[p][i]), i>>

LastSeats(s, p) == {(p + i) % NumPlayers : i \in 0 .. s.endgame_turns - 1}
credited(s, reads, p) ==
  {s.hands[q][SureMove(s, reads, q)[2]] :
     q \in {r \in LastSeats(s, p) : SureMove(s, reads, r) # NoMove}}
laid(s, ids) ==
  [u \in Suits |-> IF \E id \in ids : id[1] = u THEN (CHOOSE id \in ids : id[1] = u)[2]
                   ELSE s.play_stacks[u]]

TrivialCase(s, reads, p) ==
  /\ s.endgame_turns # NoTurns
  /\ max_score_of(s) - score_of(s) <= s.endgame_turns
  /\ SumFunction(laid(s, credited(s, reads, p))) = max_score_of(s)

\* Mutant: the default filler is thought to be safe.
trivially_winnable_reckless(s, reads, p) ==
  IF ~TrivialCase(s, reads, p) THEN NoMove
  ELSE IF SureMove(s, reads, p) # NoMove THEN SureMove(s, reads, p)
  ELSE Filler(s, reads, p)

trivially_winnable(s, reads, p) ==
  IF ~TrivialCase(s, reads, p) THEN NoMove
  ELSE IF SureMove(s, reads, p) # NoMove THEN SureMove(s, reads, p)
  ELSE IF filler_unsafe(s, reads, p) THEN NoMove ELSE Filler(s, reads, p)

-----------------------------------------------------------------------------
(* winnable: the search without clues' meanings and without the deck. *)

\* The moves clueless_winnable tries: what stacks a card, a clue, and throwing away
\* a card it cannot name.
clueless_moves(s, p) ==
  {<<StackingButton(s.hands[p][i]), i>> :
     i \in {j \in DOMAIN s.hands[p] : s.hands[p][j] # Unknown /\ playable(s, s.hands[p][j])}}
  \cup (IF s.clue_tokens > 0 THEN {DummyClue} ELSE {})
  \cup {<<"discard", i>> : i \in {j \in DOMAIN s.hands[p] : s.hands[p][j] = Unknown}}

\* The states the search may come to; the deck is not empty before the countdown.
SearchState ==
  {s \in [play_stacks : [Suits -> Int], max_ranks : [Suits -> Int],
          discard_stacks : [Suits -> [Ranks -> Nat]], base_count : [Suits -> [Ranks -> Nat]],
          critical_set : SUBSET Identity,
          clue_tokens : Nat, half_clue_token : BOOLEAN,
          strikes : Nat, endgame_turns : Nat \cup {NoTurns}, cards_left : Nat,
          hands : [Players -> Seq(Identity \cup {Unknown})]] :
     s.endgame_turns = NoTurns => s.cards_left > 0}

clueless_winnable[at \in SearchState \X Players] ==
  LET s == at[1]
      p == at[2]
  IN  \/ score_of(s) = max_score_of(s)
      \/ /\ ~unwinnable_state(s, p)
         /\ \E move \in clueless_moves(s, p) :
              clueless_winnable[<<advance_state(s, move, p), next_player_index(p)>>]

\* Every move that wins; the code returns the first it finds.
winning_moves(s, p) ==
  {move \in clueless_moves(s, p) :
     clueless_winnable[<<advance_state(s, move, p), next_player_index(p)>>]}

-----------------------------------------------------------------------------
(* The game goes on. *)

\* The cards that are in no hand, on no stack and not in the deck have been thrown away.
Thrown(e, id) ==
  CardCount[id[1]][id[2]] - (IF InPlayOrder(id[1], id[2]) <= InPlayOrder(id[1], e.play_stacks[id[1]]) THEN 1 ELSE 0)
    - Cardinality({x \in Players \X (1 .. HandSize) : e.hands[x[1]][x[2]] = id})
    - Cardinality({i \in DOMAIN e.deck : e.deck[i] = id})

\* The endings are positions of a game with something left to draw: every card is on
\* its stack, in a hand, in the deck or thrown away.
ASSUME EndingsAssumption ==
  \A e \in Endings :
    /\ e.play_stacks \in [Suits -> 0 .. Top + 1]
    /\ \A u \in Suits : InPlayOrder(u, e.play_stacks[u]) \in 0 .. Top
    /\ e.hands \in [Players -> [1 .. HandSize -> Identity]]
    /\ e.deck \in Seq(Identity) /\ e.deck # <<>>
    /\ e.clue_tokens \in 0 .. MaxTokens
    /\ \A id \in Identity : Thrown(e, id) >= 0

Board == [play_stacks |-> play_stacks, max_ranks |-> max_ranks, discard_stacks |-> discard_stacks]

\* The last rank of a suit before one of which every copy is gone.
LastRank(u, gone) ==
  LET dead == {r \in Ranks : gone[r] = CardCount[u][r]}
  IN  IF u \in Reversed THEN Max({0} \cup dead) + 1 ELSE Min({Top + 1} \cup dead) - 1

EndInit ==
  /\ \E e \in Endings :
       /\ play_stacks = e.play_stacks /\ hands = e.hands
       /\ clue_tokens = e.clue_tokens /\ cards_left = Len(e.deck)
       /\ discard_stacks = [u \in Suits |-> [r \in Ranks |-> Thrown(e, <<u, r>>)]]
  /\ half_clue_token = FALSE /\ strikes = 2 /\ endgame_turns = NoTurns
  /\ base_count = [u \in Suits |-> [r \in Ranks |->
       discard_stacks[u][r] + (IF InPlayOrder(u, r) <= InPlayOrder(u, play_stacks[u]) THEN 1 ELSE 0)]]
  /\ max_ranks = [u \in Suits |-> LastRank(u, discard_stacks[u])]
  /\ playable_set = {id \in Identity : playable(Board, id)}
  /\ critical_set = {id \in Identity : critical(Board, id)}
  /\ trash_set = {id \in Identity : ~is_useful(Board, id)}
  /\ current_player_index = 0 /\ phase = "act"
  /\ plan = NoPlan /\ promised = 0 /\ given_up = -1

\* Whoever searches before a move notes that the current maximum is out of reach.
GiveUp ==
  given_up' = IF /\ phase = "act" /\ score < max_score
                 /\ unwinnable_state(Now, current_player_index)
              THEN max_score ELSE given_up

\* Any legal move, good or bad.
Wander ==
  /\ plan = NoPlan
  /\ GiveClue \/ Draw \/ \E i \in 1 .. HandSize : PressPlay(i) \/ PressDiscard(i)
  /\ GiveUp
  /\ UNCHANGED <<plan, promised>>

\* clueless_winnable promises the maximum.
Promise ==
  /\ plan = NoPlan /\ phase = "act" /\ ~ended
  /\ clueless_winnable[<<Now, current_player_index>>]
  /\ plan' = Now /\ promised' = max_score
  /\ UNCHANGED <<vars, given_up>>

\* A move of the plan, imagined and played.
Follow ==
  /\ plan # NoPlan /\ phase = "act" /\ ~ended
  /\ \E move \in winning_moves(plan, current_player_index) :
       /\ plan' = advance_state(plan, move, current_player_index)
       /\ CASE move[1] = "play" -> PressPlay(move[2])
            [] move[1] = "discard" -> PressDiscard(move[2])
            [] OTHER -> GiveClue
  /\ UNCHANGED <<promised, given_up>>

FollowDraw ==
  /\ plan # NoPlan /\ Draw
  /\ UNCHANGED <<plan, promised, given_up>>

EndOfGame == phase = "act" /\ ended /\ UNCHANGED endVars

EndNext == Wander \/ Promise \/ Follow \/ FollowDraw \/ EndOfGame

EndSpec == EndInit /\ [][EndNext]_endVars

-----------------------------------------------------------------------------
(* Safety. *)

\* A position the search gives up is lost: whatever is played and drawn after it,
\* the score it was given up for is not reached.
GivenUpIsLost == given_up # -1 => score < given_up

\* The state the search imagines is the state the engine is in: moves that were
\* imagined and moves that were played leave the same stacks, limits, tokens, strikes,
\* deck and countdown, and every imagined card is the real one.  Thrown cards it could
\* not name are missing from its piles.
ImaginedIsReal ==
  plan # NoPlan /\ phase = "act" =>
    /\ \A f \in DOMAIN plan \ {"hands", "discard_stacks", "base_count", "critical_set"} :
         plan[f] = Now[f]
    /\ \A p \in Players, i \in 1 .. HandSize :
         i \in DOMAIN hands[p] /\ Len(hands[p]) = Len(plan.hands[p]) =>
           plan.hands[p][i] \in {Unknown, hands[p][i]}

\* A promised win is kept: until the promised score is there the game is not over and
\* the plan has a move that wins.
PromiseKept ==
  plan # NoPlan /\ phase = "act" =>
    score = promised \/ (~ended /\ winning_moves(plan, current_player_index) # {})
\* What a seat may read its cards as: each for what it is, by its suit, or as anything.
Reading(id, insight) ==
  CASE insight = "all" -> {id}
    [] insight = "suit" -> {j \in Identity : j[1] = id[1]}
    [] OTHER -> Identity
Readings(insights) ==
  [p \in Players |-> [i \in DOMAIN hands[p] |-> Reading(hands[p][i], insights[p])]]

\* The turns after the first of the last round, each seat playing the card it was
\* credited with unless another seat has played it.
turn_taken(s, p, move) ==
  IF move # NoMove /\ playable(s, s.hands[p][move[2]]) THEN advance_state(s, move, p)
  ELSE [s EXCEPT !.endgame_turns = @ - 1]
PlayedOut(s, p, moves) ==
  LET after[n \in 0 .. s.endgame_turns] ==
        IF n = 0 THEN s
        ELSE LET q == (p + n - 1) % NumPlayers IN turn_taken(after[n - 1], q, moves[q])
  IN  after[s.endgame_turns]

\* A trivial win is a win: the button that trivially_winnable answers and one sure play
\* of every seat after it, pressed on the cards as they are, bring the maximum without
\* a third strike, whatever the seats do not know of their hands.
TrivialWinIsWin ==
  phase = "act" /\ ~ended /\ endgame_turns # NoTurns =>
    \A insights \in [Players -> {"all", "suit", "none"}] :
      LET reads == Readings(insights)
          p == current_player_index
          move == trivially_winnable(Now, reads, p)
          moves == [q \in Players |-> SureMove(Now, reads, q)]
      IN  move # NoMove =>
            LET end == PlayedOut(advance_state(Now, move, p), next_player_index(p), moves)
            IN  end.strikes < 3 /\ score_of(end) = max_score
=============================================================================
