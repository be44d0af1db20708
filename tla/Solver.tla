------------------------------- MODULE Solver -------------------------------
(***************************************************************************)
(* The endgame solver (src/endgame/solver), and seats that ask it.  The    *)
(* seat to move does not see its own hand: it assumes every arrangement of *)
(* the missing cards in turn, plays each move out with the seats doing     *)
(* what they know, and takes the move that wins the most deals.  The       *)
(* engine (GameState) plays the answers.                                   *)
(*                                                                         *)
(* A probability is a number of deals: a search with c cards in the deck   *)
(* has c! orders of them, each counted once, so 1 is c!.                   *)
(*                                                                         *)
(* What a convention tells a seat is reduced to naming a card: a card is   *)
(* clued when its holder has been told it.  Calls, deadlines and the limit *)
(* on clues in a row are left out.                                         *)
(***************************************************************************)
EXTENDS Endgame, Bags, BagsExt, Combinatorics

CONSTANT Told         \* sets of <<p, i>>: cards their holders know from the start

VARIABLES reads,      \* reads[p][i]: the identities the i-th card of p may have, to p
          answer      \* what solve answered the seat to move, or NoAnswer

solverVars == <<vars, reads, answer>>

Nothing == Identity   \* the reading of a card nobody has been told about
NoAnswer == <<>>

\* A game the search has got to: a State with every card in hand named, and the readings.
Imagined(s, r) == [s |-> s, reads |-> r]

stacks_a_card(s, p, move) ==
  /\ move[1] # "clue" /\ s.hands[p][move[2]] # Unknown
  /\ LET id == s.hands[p][move[2]] IN move[1] = StackingButton(id) /\ playable(s, id)
is_play_perform(s, p, move) == move[1] = "play" \/ stacks_a_card(s, p, move)

known_plays(g, p) ==
  {<<StackingButton(g.s.hands[p][i]), i>> : i \in obvious_playables(g.s, g.reads, p)}

-----------------------------------------------------------------------------
(* simulate_action, a draw or a clue included. *)

\* What a clue <<"clue", q, i>> tells; DummyClue tells nothing.
Heard(g, move) ==
  IF move = DummyClue THEN g.reads
  ELSE [g.reads EXCEPT ![move[2]][move[3]] = {g.s.hands[move[2]][move[3]]}]

\* The hand once its i-th card has left and, with cards in the deck, new is drawn.
Replaced(hand, i, new, left) == IF left = 0 THEN Without(hand, i) ELSE <<new>> \o Without(hand, i)

\* Mutant: a chuck of an inverted card that does not fit is not taken for a failed play.
simulate_action_hallucinated(g, p, move, drew) ==
  LET hand == g.s.hands[p]
      s == IF move[1] = "discard" /\ hand[move[2]][1] \in Inverted
           THEN remove_and_draw(played(g.s, hand[move[2]]), p, move[2])
           ELSE advance_state(g.s, move, p)
  IN  IF move[1] = "clue" THEN Imagined(s, Heard(g, move))
      ELSE Imagined([s EXCEPT !.hands[p] = Replaced(hand, move[2], drew, g.s.cards_left)],
                    [g.reads EXCEPT ![p] = Replaced(@, move[2], Nothing, g.s.cards_left)])

simulate_action(g, p, move, drew) ==
  LET s == advance_state(g.s, move, p)
  IN  IF move[1] = "clue" THEN Imagined(s, Heard(g, move))
      ELSE Imagined([s EXCEPT !.hands[p] = Replaced(g.s.hands[p], move[2], drew, g.s.cards_left)],
                    [g.reads EXCEPT ![p] = Replaced(@, move[2], Nothing, g.s.cards_left)])

-----------------------------------------------------------------------------
(* winnable_simpler and winnable_if: can the seats win at all, clues telling nothing? *)

trash(s, R) == {id \in DOMAIN R : ~is_useful(s, id)}
Some(S) == CHOOSE x \in S : TRUE

\* The missing cards worth telling apart: the useful ones, and one of the others.
to_tell_apart(s, R) ==
  (DOMAIN R \ trash(s, R)) \cup (IF trash(s, R) = {} THEN {} ELSE {Some(trash(s, R))})

\* Without a token, the oldest card that is not known to be useful is thrown away.
simple_discard(g, p) ==
  LET spare == {i \in DOMAIN g.reads[p] :
                  Cardinality(g.reads[p][i]) # 1 \/ \A id \in g.reads[p][i] : ~is_useful(g.s, id)}
      i == Max(spare)
  IN  IF g.s.clue_tokens > 0 \/ spare = {} THEN {}
      ELSE {<<IF \E id \in Inverted \X Ranks : g.reads[p][i] = {id} THEN "play" ELSE "discard", i>>}

simple_moves(g, p) ==
  (IF g.s.clue_tokens > 0 THEN {DummyClue} ELSE {}) \cup known_plays(g, p) \cup simple_discard(g, p)

AnyDraw == [possible |-> TRUE, draws |-> {}]

RECURSIVE winnable_if(_, _, _, _)
winnable_simpler(g, p, R) ==
  \/ score_of(g.s) = max_score_of(g.s)
  \/ /\ ~unwinnable_state(g.s, p)
     /\ \E move \in simple_moves(g, p) : winnable_if(g, p, move, R).possible

\* With no useless card among the missing ones a drawn useless card counts as won;
\* no draws at all stands for any draw.
by_draw(useless, winning) ==
  [possible |-> useless = {} \/ winning # {},
   draws |-> IF useless \cap winning = {} THEN winning ELSE useless \cup winning]

winnable_if(g, p, move, R) ==
  IF g.s.cards_left = 0 \/ move[1] = "clue"
  THEN [AnyDraw EXCEPT !.possible =
          winnable_simpler(simulate_action(g, p, move, Unknown), next_player_index(p), R)]
  ELSE by_draw(trash(g.s, R),
         {id \in to_tell_apart(g.s, R) :
            winnable_simpler(simulate_action(g, p, move, id), next_player_index(p), BagRemove(R, id))})

-----------------------------------------------------------------------------
(* possible_actions. *)

Clued(g, p, i) == g.reads[p][i] # Nothing
Named(g, p, i) == g.reads[p][i] = {g.s.hands[p][i]}

\* The clues of find_all_clues, one useless one among them.
find_all_clues(g, p) ==
  {DummyClue} \cup {<<"clue", x[1], x[2]>> :
     x \in {y \in (Players \ {p}) \X (1 .. HandSize) :
              /\ y[2] \in DOMAIN g.s.hands[y[1]]
              /\ ~Named(g, y[1], y[2]) /\ is_useful(g.s, g.s.hands[y[1]][y[2]])}}

fully_known(g, R) ==
  /\ Cardinality(DOMAIN R) <= 1 /\ DOMAIN R = trash(g.s, R)
  /\ \A q \in Players : \A i \in DOMAIN g.s.hands[q] :
       is_useful(g.s, g.s.hands[q][i]) => Named(g, q, i)

\* A known trash card; else the newest card not clued; else one of those least likely
\* to be critical (the code weighs them further).
find_all_discards(g, p) ==
  LET at == DOMAIN g.reads[p]
      known_trash == {i \in at : \A id \in g.reads[p][i] : ~is_useful(g.s, id)}
      unclued == {i \in at : ~Clued(g, p, i)}
      safe == {i \in at : g.reads[p][i] \cap g.s.critical_set = {}}
      targets == IF known_trash # {} THEN {Min(known_trash)} ELSE IF unclued # {} THEN {Min(unclued)}
                 ELSE IF safe # {} THEN safe ELSE at
  IN  {<<IF \A id \in g.reads[p][i] : id[1] \in Inverted THEN "play" ELSE "discard", i>> : i \in targets}

\* No discard with no pace, with all tokens, or with a play at hand that cannot wait.
ignore_dc(g, p) ==
  \/ pace(g.s) = 0 \/ g.s.clue_tokens = MaxTokens
  \/ \E i \in obvious_playables(g.s, g.reads, p) :
       LET id == g.s.hands[p][i]
           others == DOMAIN g.reads[p] \ {i}
       IN  /\ Named(g, p, i)
           /\ \/ id[2] = Top
              \/ /\ \E j \in others : Clued(g, p, j) /\ g.reads[p][j] \subseteq g.s.critical_set
                 /\ id \in g.s.critical_set \/ \E j \in others : g.reads[p][j] = {id}

\* The moves worth trying, each with the draws after which it may win ({}: any).
Action(move, may) == [move |-> move, may |-> may]
worth_trying(g, p, R, cards) ==
  {a \in {Action(m, winnable_if(g, p, m, R)) : m \in cards} : a.may.possible}
clue_actions(g, p, R, depth) ==
  IF g.s.clue_tokens > 0 /\ (depth <= 1 \/ winnable_if(g, p, DummyClue, R).possible)
  THEN {Action(m, AnyDraw) : m \in IF fully_known(g, R) THEN {DummyClue} ELSE find_all_clues(g, p)}
  ELSE {}
possible_actions(g, p, R, depth) ==
  worth_trying(g, p, R, known_plays(g, p) \cup (IF ignore_dc(g, p) THEN {} ELSE find_all_discards(g, p)))
  \cup clue_actions(g, p, R, depth)

-----------------------------------------------------------------------------
(* gen_arrs: the draws to tell apart, with the number of missing cards behind each. *)

CopiesOf(R, ids) == MapThenSumSet(LAMBDA id : R[id], ids)

undrawn(R) == {[drew |-> Unknown, weight |-> 1, remaining |-> R]}

\* Mutant: the useless cards together weigh as much as the one drawn.
drawn_light(s, R) ==
  IF R = EmptyBag THEN undrawn(R)
  ELSE {[drew |-> id, remaining |-> BagRemove(R, id), weight |-> R[id]] : id \in to_tell_apart(s, R)}

drawn(s, R) ==
  IF R = EmptyBag THEN undrawn(R)
  ELSE {[drew |-> id, remaining |-> BagRemove(R, id),
         weight |-> IF is_useful(s, id) THEN R[id] ELSE CopiesOf(R, trash(s, R))] :
          id \in to_tell_apart(s, R)}

-----------------------------------------------------------------------------
(* winnable. *)

\* Every card still needed is one the table can name.
viable_clueless(g) ==
  \A u \in Suits : \A r \in g.s.play_stacks[u] + 1 .. g.s.max_ranks[u] :
    \E p \in Players : \E i \in DOMAIN g.s.hands[p] :
      g.s.hands[p][i] = <<u, r>> /\ g.reads[p][i] = {<<u, r>>}

bottom_decked(s, R) ==
  R # EmptyBag /\ \A id \in DOMAIN R : critical(s, id) /\ id[2] # Top

\* One suit two short, and the first of the two in the deck: won unless it is the last card.
one_bdr_left(g) ==
  LET s == g.s
      us == current_player_index
      next == {id \in Identity : playable(s, id) /\ is_useful(s, id)}
      seen(id) == {x \in Players \X (1 .. HandSize) :
                     /\ x[2] \in DOMAIN s.hands[x[1]] /\ s.hands[x[1]][x[2]] = id
                     /\ x[1] = us => Named(g, us, x[2])}
  IN  /\ score_of(s) = max_score_of(s) - 2
      /\ Cardinality({u \in Suits : s.play_stacks[u] = s.max_ranks[u]}) = Cardinality(Suits) - 1
      /\ \E id \in next :
           /\ critical(s, id) /\ seen(id) = {}
           /\ \E after \in NextIds(id) : \E x \in seen(after) : Named(g, x[1], x[2])
      /\ s.clue_tokens + pace(s) > NumPlayers /\ s.cards_left > 2

Verdict(move, wins) == [move |-> move, wins |-> wins]
Lost == Verdict(NoMove, 0)

\* Plays come first.
PlaysFirst(s, p, verdicts) ==
  LET plays == {v \in verdicts : is_play_perform(s, p, v.move)}
  IN  Some(IF plays # {} THEN plays ELSE verdicts)

\* The first to win the most.
Best(s, p, verdicts) ==
  PlaysFirst(s, p, {v \in verdicts : \A w \in verdicts : w.wins <= v.wins})

\* action_winrate, and the loop of optimize: the deals an action wins.  Draws it was
\* found not to win on, and draws or moves that cost a point, count as lost.
\* optimize cuts off actions that cannot catch up with the best one.
RECURSIVE winnable(_, _, _, _)
wins_after(new, p, R, depth, most) ==
  IF max_score_of(new.s) < most THEN 0 ELSE winnable(new, next_player_index(p), R, depth).wins

ruled_out(drew, draws) == drew # Unknown /\ draws # {} /\ drew \notin draws
arrs_of(g, move, R) == IF move[1] = "clue" THEN undrawn(R) ELSE drawn(g.s, R)
action_wins(g, p, action, R, depth) ==
  MapThenSumSet(LAMBDA a : a.weight * wins_after(simulate_action(g, p, action.move, a.drew), p,
                                                 a.remaining, depth, max_score_of(g.s)),
                {a \in arrs_of(g, action.move, R) : ~ruled_out(a.drew, action.may.draws)})

OrLost(verdict) == IF verdict.wins = 0 THEN Lost ELSE verdict

\* What optimize stops at: a sure win, or, with one critical card left below the top, a win
\* unless that card is the last of the deck.
good_enough(s, verdict) ==
  LET critical_left == {id \in Identity : is_useful(s, id) /\ critical(s, id) /\ id[2] # Top}
  IN  \/ verdict.wins = factorial[s.cards_left]
      \/ /\ s.cards_left > 1 /\ Cardinality(critical_left) = 1
         /\ verdict.wins = factorial[s.cards_left] - factorial[s.cards_left - 1]

optimize(g, p, R, depth, actions) ==
  LET verdicts == {Verdict(a.move, action_wins(g, p, a, R, depth + 1)) : a \in actions}
      enough == {v \in verdicts : good_enough(g.s, v)}
  IN  IF enough # {} THEN PlaysFirst(g.s, p, enough) ELSE OrLost(Best(g.s, p, verdicts))

\* The end of winnable, once the moves to try are known: a last point scored, the
\* shortcut, or the search.
tried_out(g, p, R, depth, actions) ==
  LET s == g.s
      last == {a \in actions : score_of(s) + 1 = max_score_of(s) /\ stacks_a_card(s, p, a.move)}
  IN  IF actions = {} THEN Lost
      ELSE IF last # {} THEN Verdict(Some(last).move, factorial[s.cards_left])
      ELSE IF one_bdr_left(g)
      THEN Verdict(Some(actions).move, factorial[s.cards_left] - factorial[s.cards_left - 1])
      ELSE optimize(g, p, R, depth, actions)

\* The middle of it, once it is known which moves win without clues' meanings.
past_clueless(g, p, R, depth, clueless) ==
  IF clueless # {} THEN Best(g.s, p, {Verdict(m, factorial[g.s.cards_left]) : m \in clueless})
  ELSE IF bottom_decked(g.s, R) THEN Lost
  ELSE tried_out(g, p, R, depth, possible_actions(g, p, R, depth))

winnable(g, p, R, depth) ==
  LET s == g.s
  IN  IF trivially_winnable(s, g.reads, p) # NoMove \/ score_of(s) = max_score_of(s)
      THEN Verdict(trivially_winnable(s, g.reads, p), factorial[s.cards_left])
      ELSE IF unwinnable_state(s, p) THEN Lost
      ELSE past_clueless(g, p, R, depth, IF viable_clueless(g) THEN winning_moves(s, p) ELSE {})

-----------------------------------------------------------------------------
(* solve, for the seat to move. *)

\* The cards it cannot point at, and the places in its own hand it cannot name.
Nameless(p) == {i \in DOMAIN reads[p] : Cardinality(reads[p][i]) # 1}
InSight(p, id) ==
  Cardinality({x \in Players \X (1 .. HandSize) :
                 /\ x[2] \in DOMAIN hands[x[1]] /\ hands[x[1]][x[2]] = id
                 /\ x[1] = p => x[2] \notin Nameless(p)})
remaining_ids(p) ==
  LET missing == [id \in Identity |-> CardCount[id[1]][id[2]] - base_count[id[1]][id[2]] - InSight(p, id)]
  IN  [id \in {x \in Identity : missing[x] > 0} |-> missing[id]]

useful_unseen(R) == {id \in DOMAIN R : is_useful(Now, id) /\ R[id] = CardCount[id[1]][id[2]]}

\* The hands it may have, and the number of ways to deal each.
HandBag(hand) == [id \in Range(hand) |-> Cardinality({i \in DOMAIN hand : hand[i] = id})]
arrangements(p, R) == {f \in [Nameless(p) -> DOMAIN R] : HandBag(f) \sqsubseteq R /\ \A i \in DOMAIN f : f[i] \in reads[p][i]}
WaysToDeal(f, R) ==
  MapThenFoldSet(LAMBDA m, n : m * n, 1,
                 LAMBDA id : factorial[R[id]] \div factorial[R[id] - HandBag(f)[id]],
                 LAMBDA S : Some(S), Range(f))

\* Monte Carlo grouping: hands that differ in useless cards only count as one of them.
SameButTrash(f, h) ==
  \A i \in DOMAIN f : f[i] = h[i] \/ (~is_useful(Now, f[i]) /\ ~is_useful(Now, h[i]))

hypo(p, R, f, weight) ==
  LET hand == [i \in DOMAIN hands[p] |-> IF i \in DOMAIN f THEN f[i] ELSE hands[p][i]]
      g == Imagined([Now EXCEPT !.hands[p] = hand], reads)
      rest == R (-) HandBag(f)
  IN  [g |-> g, remaining |-> rest, weight |-> weight, actions |-> possible_actions(g, p, rest, 0)]

hypos(p, R) ==
  LET arrs == arrangements(p, R)
      groups == {{f \in arrs : SameButTrash(f, h)} : h \in arrs}
  IN  {hypo(p, R, Some(group), MapThenSumSet(LAMBDA f : WaysToDeal(f, R), group)) : group \in groups}

\* The deals of a hypo that a move wins; none if it is not worth trying there.
share(p, h, m) ==
  MapThenSumSet(LAMBDA a : h.weight * action_wins(h.g, p, a, h.remaining, 1),
                {a \in h.actions : a.move = m})

\* A move's deals over the other hypos, given up once it cannot catch up with the best.
catch_up(p, rest, m, first_wins, total, best) ==
  FoldSet(LAMBDA h, acc :
            IF acc.cur + acc.rem < best.wins THEN acc
            ELSE [cur |-> acc.cur + share(p, h, m), rem |-> acc.rem - h.weight * factorial[cards_left]],
          [cur |-> first_wins, rem |-> total - first_wins], rest).cur

\* Seats see their own hand as far as they can name it.
Visible(p) == [Now EXCEPT !.hands[p] = [i \in DOMAIN @ |-> IF i \in Nameless(p) THEN Unknown ELSE @[i]]]

\* A play wins a tie.
Preferred(new, best, plays) ==
  IF new.wins > best.wins \/ (new.wins = best.wins /\ new.move \in plays /\ best.move \notin plays)
  THEN new ELSE best

\* Plays come first, then what wins most in the likeliest hypo.
NextToTry(verdicts, plays) ==
  LET open == IF \E v \in verdicts : v.move \in plays THEN {v \in verdicts : v.move \in plays} ELSE verdicts
  IN  CHOOSE v \in open : \A w \in open : w.wins <= v.wins

\* Each move is tried in turn over the other hypos; a sure win ends the search.
RECURSIVE best_over(_, _, _, _, _, _)
best_over(p, rest, plays, total, best, verdicts) ==
  IF verdicts = {} \/ best.wins = total THEN best
  ELSE LET v == NextToTry(verdicts, plays)
       IN  best_over(p, rest, plays, total,
                     Preferred(Verdict(v.move, catch_up(p, rest, v.move, v.wins, total, best)), best, plays),
                     verdicts \ {v})

\* The move found and the deals it wins of those there are, or a refusal.
Answer(verdict, total) == [move |-> verdict.move, wins |-> verdict.wins, total |-> total]
Declined == Answer(Lost, 1)

WinningPlays(p) == {i \in obvious_playables(Now, reads, p) : i \notin Nameless(p)}

Plays(p, verdicts) == {m \in {v.move : v \in verdicts} : is_play_perform(Visible(p), p, m)}

solve_over(p, rest, total, initial) ==
  IF initial = {} THEN Declined
  ELSE Answer(best_over(p, rest, Plays(p, initial), total, NextToTry(initial, Plays(p, initial)), initial), total)

\* The search over the hypos, the likeliest first.
solve_unseen(p, hs) ==
  LET first == CHOOSE h \in hs : \A k \in hs : k.weight <= h.weight
  IN  IF hs = {} THEN Declined
      ELSE solve_over(p, hs \ {first}, factorial[cards_left] * MapThenSumSet(LAMBDA h : h.weight, hs),
                      {Verdict(m, share(p, first, m)) : m \in {a.move : a \in UNION {h.actions : h \in hs}}})

solve(p) ==
  LET R == remaining_ids(p)
      adds_up == BagCardinality(R) = cards_left + Cardinality(Nameless(p))
      own == Min(WinningPlays(p))
  IN  IF score + 1 = max_score /\ WinningPlays(p) # {}
      THEN Answer(Verdict(<<StackingButton(hands[p][own]), own>>, 1), 1)
      ELSE IF Cardinality(useful_unseen(R)) > 3 \/ ~adds_up THEN Declined
      ELSE IF R = EmptyBag THEN Answer(winnable(Imagined(Now, reads), p, R, 0), 1)
      ELSE solve_unseen(p, hypos(p, R))

-----------------------------------------------------------------------------
(* Seats that ask the solver.  take_action takes its answer if it wins a deal in a  *)
(* hundred; else the ordinary ladder answers with any legal move.                   *)

SolverInit ==
  /\ EndInit
  /\ \E told \in Told : reads = [p \in Players |-> [i \in DOMAIN hands[p] |->
                                  IF <<p, i>> \in told THEN {hands[p][i]} ELSE Nothing]]
  /\ answer = NoAnswer

Turn == phase = "act" /\ ~ended

Ask == /\ Turn /\ answer = NoAnswer
       /\ answer' = solve(current_player_index)
       /\ UNCHANGED <<endVars, reads>>

Take(move) ==
  LET p == current_player_index
  IN  /\ CASE move[1] = "play" -> PressPlay(move[2])
           [] move[1] = "discard" -> PressDiscard(move[2])
           [] OTHER -> GiveClue
      /\ reads' = IF move[1] = "clue" THEN Heard(Imagined(Now, reads), move)
                  ELSE [reads EXCEPT ![p] = Without(@, move[2])]
      /\ answer' = NoAnswer
      /\ UNCHANGED <<plan, promised, given_up>>

LegalMoves(p) ==
  ({"play", "discard"} \X DOMAIN hands[p]) \cup find_all_clues(Imagined(Now, reads), p)

Act == /\ Turn /\ answer # NoAnswer
       /\ \/ answer.wins * 100 >= answer.total /\ Take(answer.move)
          \/ /\ answer.wins * 100 < answer.total
             /\ \E move \in LegalMoves(current_player_index) : Take(move)

TakeCard == /\ Draw
            /\ reads' = [reads EXCEPT ![current_player_index] = <<Nothing>> \o @]
            /\ UNCHANGED <<plan, promised, given_up, answer>>

Finished == phase = "act" /\ ended /\ UNCHANGED <<endVars, reads, answer>>

SolverNext == Ask \/ Act \/ TakeCard \/ Finished

SolverSpec == SolverInit /\ [][SolverNext]_<<endVars, reads, answer>>

-----------------------------------------------------------------------------
(* Safety. *)

\* Reference: the deals won by seats who see every card in hand, whatever they do.
OpenMoves(s, p) ==
  (IF s.clue_tokens > 0 THEN {DummyClue} ELSE {})
  \cup ({"play"} \X DOMAIN s.hands[p])
  \cup (IF s.clue_tokens < MaxTokens THEN {"discard"} \X DOMAIN s.hands[p] ELSE {})
OpenAfter(s, p, move, drew) ==
  LET t == advance_state(s, move, p)
  IN  IF move[1] = "clue" THEN t
      ELSE [t EXCEPT !.hands[p] = Replaced(s.hands[p], move[2], drew, s.cards_left)]

RECURSIVE open_wins(_, _, _)
open_wins_after(t, p, R, most) ==
  IF max_score_of(t) < most THEN 0 ELSE open_wins(t, next_player_index(p), R)
open_wins_of(s, p, move, R) ==
  IF move[1] = "clue" \/ R = EmptyBag THEN open_wins_after(OpenAfter(s, p, move, Unknown), p, R, max_score_of(s))
  ELSE MapThenSumSet(LAMBDA id : R[id] * open_wins_after(OpenAfter(s, p, move, id), p, BagRemove(R, id),
                                                         max_score_of(s)), DOMAIN R)
open_wins(s, p, R) ==
  IF score_of(s) = max_score_of(s) THEN factorial[s.cards_left]
  ELSE IF ended_in(s) \/ pace(s) < 0 THEN 0
  ELSE Max({open_wins_of(s, p, move, R) : move \in OpenMoves(s, p)})

DealsOf(p, R) == {hypo(p, R, f, WaysToDeal(f, R)) : f \in arrangements(p, R)}

\* The rate the solver reports is never above what the seats could win with open hands:
\* no search branch wins by a move the rules do not allow, a card that is not there, or
\* a deal counted twice.
WithinOpenWins(p, deals) ==
  answer.wins * factorial[cards_left] * MapThenSumSet(LAMBDA h : h.weight, deals)
    <= answer.total * MapThenSumSet(LAMBDA h : h.weight * open_wins(h.g.s, p, h.remaining), deals)
NoHallucinatedWin ==
  answer # NoAnswer /\ answer.wins > 0 =>
    WithinOpenWins(current_player_index, DealsOf(current_player_index, remaining_ids(current_player_index)))

\* The deals an action wins, every draw on its own.
PlainArrs(move, R) ==
  IF move[1] = "clue" \/ R = EmptyBag THEN undrawn(R)
  ELSE {[drew |-> id, remaining |-> BagRemove(R, id), weight |-> R[id]] : id \in DOMAIN R}
PlainWins(h, p, action) ==
  MapThenSumSet(LAMBDA a : h.weight * a.weight * wins_after(simulate_action(h.g, p, action.move, a.drew), p,
                                                            a.remaining, 1, max_score),
                {a \in PlainArrs(action.move, h.remaining) : ~ruled_out(a.drew, action.may.draws)})
PlainBest(p, deals) ==
  Max({0} \cup {MapThenSumSet(LAMBDA x : PlainWins(x[1], p, x[2]),
                              {x \in deals \X UNION {h.actions : h \in deals} : x[2] \in x[1].actions /\ x[2].move = m}) :
                  m \in {a.move : a \in UNION {h.actions : h \in deals}}})

\* Grouping arrangements and draws that differ in useless cards, trying the likeliest
\* hypo first and giving up on moves that cannot catch up do not change the rate: no
\* move wins more when every deal is counted on its own.  Useless cards of an inverted
\* suit are the exception: they strike where others do not, see the README.
BestOfAllDeals ==
  /\ answer # NoAnswer /\ answer.total > 1
  /\ \A id \in trash(Now, remaining_ids(current_player_index)) : id[1] \notin Inverted
  => answer.wins = PlainBest(current_player_index,
                             DealsOf(current_player_index, remaining_ids(current_player_index)))
=============================================================================
