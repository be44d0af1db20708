---------------------------- MODULE ForcedEndgame ----------------------------
(***************************************************************************)
(* The forced rules of src/endgame/forced_endgame: with one card or none   *)
(* left in the deck (two for Rule 4) the seat to move may have to act in   *)
(* one certain way, and the search is not asked.                           *)
(*                                                                         *)
(* The seat to move, cp, does not see its own hand.  What it knows of it   *)
(* is k: k.reads[i] are the readings its i-th card still has, in its own   *)
(* view and in the team's; k.clued[i] and k.called[i] are what the table   *)
(* has seen.  Rule 6 and the rest for Throw It in a Hole are left out.     *)
(***************************************************************************)
EXTENDS Endgame

CONSTANT Nulls        \* the suits named Null and Dark Null

\* The state as cp sees it.
Seen(s, cp) == [s EXCEPT !.hands[cp] = [i \in DOMAIN @ |-> Unknown]]

First(S) == CHOOSE i \in S : \A j \in S : i <= j
Last(S) == CHOOSE i \in S : \A j \in S : j <= i

successor(id) == NextIds(id)      \* the empty set for the last rank

-----------------------------------------------------------------------------
(* helper: plays that score whatever the card turns out to be. *)

certainly_advances(s, k, move) ==
  /\ move[1] = "discard" => s.clue_tokens < MaxTokens
  /\ k.reads[move[2]] # {}
  /\ \A id \in k.reads[move[2]] : StackingButton(id) = move[1] /\ playable(s, id)

certain_plays(s, k) ==
  {move \in {"play", "discard"} \X DOMAIN k.reads : certainly_advances(s, k, move)}

FirstOf(moves) == CHOOSE m \in moves : \A n \in moves : m[2] <= n[2]

\* The most cards these seats can stack in turn, each from a hand in sight.
RECURSIVE best_reachable_plays(_, _)
best_reachable_plays(s, seats) ==
  IF seats = <<>> THEN 0
  ELSE LET hand == s.hands[Head(seats)]
           with(i) == [s EXCEPT !.play_stacks[hand[i][1]] = hand[i][2]]
           scored == {1 + best_reachable_plays(with(i), Tail(seats)) :
                      i \in {j \in DOMAIN hand : hand[j] # Unknown /\ playable(s, hand[j])
                                                   /\ is_useful(s, hand[j])}}
       IN  Max(scored \cup {best_reachable_plays(s, Tail(seats))})

-----------------------------------------------------------------------------
(* Rules 0, 0b and 0c: a sure point, or a play without which one is lost. *)

\* The seats whose turns remain if cp plays now.
SeatsAfter(s, cp) ==
  IF s.endgame_turns # NoTurns
  THEN [i \in 1 .. s.endgame_turns - 1 |-> (cp + i) % NumPlayers]
  ELSE [i \in 1 .. NumPlayers |-> (cp + i) % NumPlayers]

reachable_after(s, cp, id) ==
  1 + best_reachable_plays([s EXCEPT !.play_stacks[id[1]] = id[2]], SeatsAfter(s, cp))

required(s, cp) ==
  {id \in Identity : /\ playable(s, id) /\ is_useful(s, id)
                     /\ reachable_after(s, cp, id) > best_reachable_plays(s, SeatsAfter(s, cp))}

\* The cards of cp that may be one of the wanted identities, on one button.
Attempts(s, k, want, narrow) ==
  {i \in DOMAIN k.reads :
     LET hits == k.reads[i] \cap want
     IN  /\ hits # {}
         /\ narrow => /\ k.clued[i]
                      /\ \E id \in want : {x \in k.reads[i] : is_useful(s, x)} = {id}
         /\ \E b \in {"play", "discard"} :
              /\ \A id \in hits : StackingButton(id) = b
              /\ b = "discard" => s.clue_tokens < MaxTokens}

AttemptOn(k, want, i) == <<StackingButton(CHOOSE id \in k.reads[i] \cap want : TRUE), i>>

gamble_on(s, k, want, narrow, rightmost_unclued) ==
  LET tries == Attempts(s, k, want, narrow)
      unclued == {i \in tries : ~k.clued[i]}
      clued == tries \ unclued
  IN  IF tries = {} THEN NoMove
      ELSE AttemptOn(k, want, IF rightmost_unclued /\ unclued # {} THEN Last(unclued)
                              ELSE IF clued # {} THEN First(clued) ELSE First(tries))

required_play_action(s, k, cp, narrow) ==
  LET want == required(s, cp)
      null_for_max == ~narrow /\ \A id \in want :
                        id[1] \in Nulls /\ score_of(s) + reachable_after(s, cp, id) >= max_score_of(s)
  IN  IF want = {} THEN NoMove ELSE gamble_on(s, k, want, narrow, null_for_max)

CertainPlay(s, k) ==
  LET certain == certain_plays(s, k)
      called == {m \in certain : k.called[m[2]] # "none"}
  IN  FirstOf(IF called # {} THEN called ELSE certain)

-----------------------------------------------------------------------------
(* Rules 2, 3 and 4: plays of our own that cannot wait. *)

Pinned(k) == {i \in DOMAIN k.reads : Cardinality(k.reads[i]) = 1}
CardAt(k, i) == CHOOSE id \in k.reads[i] : TRUE

\* The card behind id is needed and in another hand.
unblock_score(s, cp, id) ==
  IF \E next \in successor(id) :
       /\ is_useful(s, next)
       /\ \E p \in Players \ {cp}, i \in 1 .. HandSize : i \in DOMAIN s.hands[p] /\ s.hands[p][i] = next
  THEN 1 ELSE 0

\* Of these cards the first with the highest score.
Foremost(S, ScoreAt(_)) ==
  CHOOSE i \in S : \A j \in S : ScoreAt(j) < ScoreAt(i) \/ (ScoreAt(j) = ScoreAt(i) /\ i <= j)

two_critical_play_action(s, k, cp) ==
  LET crits == {i \in Pinned(k) : critical(s, CardAt(k, i))}
      ready == {i \in crits : playable(s, CardAt(k, i))}
      best == Foremost(ready, LAMBDA i : unblock_score(s, cp, CardAt(k, i)))
  IN  IF Cardinality(crits) < 2 \/ ready = {} THEN NoMove
      ELSE <<StackingButton(CardAt(k, best)), best>>

HeldElsewhere(s, cp, id) ==
  \E p \in Players \ {cp} : \E i \in DOMAIN s.hands[p] : s.hands[p][i] = id

sole_holder_play_action(s, k, cp) ==
  LET sole == {i \in Pinned(k) : LET id == CardAt(k, i)
                                 IN  /\ playable(s, id) /\ ~HeldElsewhere(s, cp, id)
                                     /\ \E next \in successor(id) : is_useful(s, next)}
  IN  IF sole = {} THEN NoMove ELSE <<StackingButton(CardAt(k, First(sole))), First(sole)>>

two_criticals_dead_partner_action(s, k, cp) ==
  LET bob == next_player_index(cp)
      dead == s.hands[bob] # <<>> /\ \A i \in DOMAIN s.hands[bob] :
                s.hands[bob][i] # Unknown /\ ~is_useful(s, s.hands[bob][i])
      crits == {m \in certain_plays(s, k) : \A id \in k.reads[m[2]] : critical(s, id)}
      at == {m[2] : m \in crits}
      worth(i) == IF i \in Pinned(k) THEN unblock_score(s, cp, CardAt(k, i)) ELSE 0
  IN  IF NumPlayers # 3 \/ s.cards_left # 2 \/ ~dead \/ Cardinality(crits) < 2 THEN NoMove
      ELSE CHOOSE m \in crits : m[2] = Foremost(at, worth)

-----------------------------------------------------------------------------
(* Rules 5, 7 and 1: turns somebody else needs.  All three answer with a clue. *)

\* Rule 5: the next seat has two plays that cannot wait.
partner_needs_two_turns(s, cp) ==
  LET hand == s.hands[next_player_index(cp)]
  IN  /\ NumPlayers = 3 /\ s.cards_left = 1 /\ s.clue_tokens > 0
      /\ Cardinality({i \in DOMAIN hand : /\ hand[i] # Unknown
                                          /\ critical(s, hand[i]) /\ playable(s, hand[i])}) >= 2

\* Rule 7.  Each card the maximum still needs belongs to the first seat, from cp on,
\* that shows it; the others are cp's if enough of its called cards can be one.
NeededIds(s) == {id \in Identity : is_useful(s, id)}
Holds(s, p, id) == \E i \in DOMAIN s.hands[p] : s.hands[p][i] = id
UnseenIds(s) == {id \in NeededIds(s) : \A p \in Players : ~Holds(s, p, id)}

OwnCardsCover(s, k) ==
  LET calls == {i \in DOMAIN k.reads : /\ k.called[i] = "play"
                                       /\ k.reads[i] \cap UnseenIds(s) # {}}
  IN  Cardinality(calls) >= Cardinality(UnseenIds(s))

needed_by_seat(s, cp) ==
  [p \in Players |->
     {id \in NeededIds(s) :
        \/ Holds(s, p, id) /\ \A q \in Players : hops(cp, q) < hops(cp, p) => ~Holds(s, q, id)
        \/ p = cp /\ id \in UnseenIds(s)}]

\* Can these turns lay every needed card, each seat its own?
RECURSIVE schedule_lays_all(_, _, _)
schedule_lays_all(s, needs, turns) ==
  \/ \A p \in Players : needs[p] = {}
  \/ /\ turns # <<>>
     /\ \/ schedule_lays_all(s, needs, Tail(turns))
        \/ \E id \in needs[Head(turns)] :
             /\ playable(s, id)
             /\ schedule_lays_all([s EXCEPT !.play_stacks[id[1]] = id[2]],
                                  [needs EXCEPT ![Head(turns)] = @ \ {id}], Tail(turns))

stall_for_two_turns_one_card(s, k, cp) ==
  LET bob == next_player_index(cp)
      cathy == next_player_index(bob)
      needs == needed_by_seat(s, cp)
  IN  /\ NumPlayers = 3 /\ s.cards_left = 1 /\ s.clue_tokens >= 2
      /\ OwnCardsCover(s, k)
      /\ ~schedule_lays_all(s, needs, <<cp, bob, cathy, cp>>)
      /\ schedule_lays_all(s, needs, <<cathy, cp, bob, cathy>>)

\* Rule 1: every seat that shows the card below the last one moves after the seat with
\* the last one.  The holder of the last card moves this turn only if it is not ours.
EffectiveHolders(s, k, cp, id) ==
  {p \in Players \ {cp} : Holds(s, p, id)}
  \cup {p \in {cp} : \E i \in Pinned(k) : CardAt(k, i) = id}

\* Mutant: a last card of ours counts as if we could play it this turn.
five_lockout_fires_own_first(s, k, cp, suit) ==
  LET fives == EffectiveHolders(s, k, cp, <<suit, Top>>)
      fours == EffectiveHolders(s, k, cp, <<suit, Top - 1>>)
  IN  /\ s.play_stacks[suit] < Top - 1 /\ fives # {}
      /\ \A p \in fours : hops(cp, p) >= hops(cp, Last(fives))

five_lockout_fires(s, k, cp, suit) ==
  LET fives == EffectiveHolders(s, k, cp, <<suit, Top>>)
      fours == EffectiveHolders(s, k, cp, <<suit, Top - 1>>)
      five_offset == IF cp \in fives THEN NumPlayers ELSE hops(cp, Last(fives))
  IN  /\ s.play_stacks[suit] < Top - 1 /\ fives # {}
      /\ \A p \in fours : hops(cp, p) >= five_offset

-----------------------------------------------------------------------------
(* The order of the rules. *)

Rule0(s, k, cp) ==
  IF s.cards_left # 0 THEN NoMove
  ELSE IF certain_plays(s, k) # {} THEN CertainPlay(s, k)
  ELSE required_play_action(s, k, cp, FALSE)

Rule0c(s, k, cp) ==
  IF s.cards_left = 1 /\ certain_plays(s, k) = {}
  THEN required_play_action(s, k, cp, TRUE) ELSE NoMove

OwnPlays(s, k, cp) ==
  IF s.cards_left # 1 \/ s.clue_tokens >= NumPlayers THEN NoMove
  ELSE IF two_critical_play_action(s, k, cp) # NoMove THEN two_critical_play_action(s, k, cp)
  ELSE sole_holder_play_action(s, k, cp)

Stall(s, k, cp) ==
  IF /\ s.cards_left = 1 /\ s.clue_tokens > 0
     /\ \/ partner_needs_two_turns(s, cp)
        \/ stall_for_two_turns_one_card(s, k, cp)
        \/ \E suit \in Suits : five_lockout_fires(s, k, cp, suit)
  THEN DummyClue ELSE NoMove

\* The first rule that names a move; NoMove leaves the turn to the search.
forced_endgame_action(s, k, cp) ==
  LET answers == <<Rule0(s, k, cp), Rule0c(s, k, cp),
                   two_criticals_dead_partner_action(s, k, cp),
                   OwnPlays(s, k, cp), Stall(s, k, cp)>>
      named == {n \in DOMAIN answers : answers[n] # NoMove}
  IN  IF named = {} THEN NoMove ELSE answers[First(named)]
-----------------------------------------------------------------------------
(* Safety. *)

AnyMove(s, p) ==
  {<<"play", i>> : i \in DOMAIN s.hands[p]}
  \cup (IF s.clue_tokens > 0 THEN {DummyClue} ELSE {})
  \cup (IF s.clue_tokens < MaxTokens THEN {<<"discard", i>> : i \in DOMAIN s.hands[p]} ELSE {})

\* Reference: the maximum can be reached without any card still to be drawn.
RECURSIVE CanWin(_, _)
CanWin(s, p) ==
  \/ score_of(s) = max_score_of(s)
  \/ /\ ~ended_in(s) /\ pace(s) >= 0
     /\ \E move \in AnyMove(s, p) :
          LET t == advance_state(s, move, p)
          IN  max_score_of(t) = max_score_of(s) /\ CanWin(t, next_player_index(p))

\* What cp knows when it can name its cards and they are all called to play.
FullyKnown(cp) ==
  [reads |-> [i \in DOMAIN hands[cp] |-> {hands[cp][i]}],
   clued |-> [i \in DOMAIN hands[cp] |-> TRUE],
   called |-> [i \in DOMAIN hands[cp] |-> "play"]]

SoleHolderAnswers(s, k, cp) ==
  /\ Rule0c(s, k, cp) = NoMove /\ two_criticals_dead_partner_action(s, k, cp) = NoMove
  /\ two_critical_play_action(s, k, cp) = NoMove /\ OwnPlays(s, k, cp) # NoMove

\* A forced move never throws away a win: when the maximum can be reached, it can still
\* be reached after the move that a rule forces on a seat that knows its hand, which
\* bypasses the search.  Rule 3 is the exception, see the README.
ForcedKeepsTheWin ==
  phase = "act" /\ ~ended /\ plan = NoPlan =>
    LET cp == current_player_index
        k == FullyKnown(cp)
        s == Seen(Now, cp)
        move == forced_endgame_action(s, k, cp)
    IN  move # NoMove /\ ~SoleHolderAnswers(s, k, cp) =>
          CanWin(advance_state(Now, move, cp), next_player_index(cp)) \/ ~CanWin(Now, cp)
=============================================================================
