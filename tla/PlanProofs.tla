------------------------------ MODULE PlanProofs ------------------------------
(***************************************************************************)
(* Proofs about the wins that the endgame search promises: the plan is     *)
(* what happens, it is kept to the end, and a trivial win is a win.        *)
(*                                                                         *)
(* clueless_winnable is a recursive function, and what is proved of it is  *)
(* proved by its one-step unfolding (Winnable) and by the weight that each *)
(* move of the search takes away (Lighter).  It never relies on a card it  *)
(* has not seen (WinIsHeld): that is why a card it cannot name may go.     *)
(*                                                                         *)
(* The last round of trivially_winnable is followed turn by turn (Along):  *)
(* each stack grows by one card at most, and by every card credited.       *)
(***************************************************************************)
EXTENDS EndgameProofs

-----------------------------------------------------------------------------
(* What a move of the search does. *)

\* The tokens of t are those of s after a refund, or the same.
Refunded(s, t) ==
  /\ t.clue_tokens = IF ~s.half_clue_token /\ (s.clue_tokens >= MaxTokens \/ ClueStarved)
                     THEN s.clue_tokens ELSE s.clue_tokens + 1
  /\ t.half_clue_token <=> ~s.half_clue_token /\ ClueStarved /\ s.clue_tokens < MaxTokens
SameTokens(s, t) == t.clue_tokens = s.clue_tokens /\ t.half_clue_token = s.half_clue_token

\* Nothing else has changed of what a button may change.
SameTable(s, t) ==
  /\ t.max_ranks = s.max_ranks /\ t.strikes = s.strikes /\ t.endgame_turns = s.endgame_turns
  /\ t.cards_left = s.cards_left /\ t.hands = s.hands

\* The i-th card of p goes, and the next one comes.
Replaces(s, t, p, i) ==
  /\ t.hands = [s.hands EXCEPT ![p] = <<Unknown>> \o Without(s.hands[p], i)]
  /\ t.cards_left = (IF s.cards_left = 0 THEN 0 ELSE s.cards_left - 1)
  /\ t.endgame_turns = (IF s.endgame_turns # NoTurns THEN s.endgame_turns - 1
                        ELSE IF s.cards_left = 1 THEN NumPlayers ELSE NoTurns)

\* The three kinds of move of clueless_winnable.
Lands(s, t, id) ==
  /\ id \in Identity /\ playable(s, id)
  /\ t.play_stacks = [s.play_stacks EXCEPT ![id[1]] = id[2]]
  /\ IF IsFinal(id) THEN Refunded(s, t) ELSE SameTokens(s, t)
Throws(s, t) == t.play_stacks = s.play_stacks /\ Refunded(s, t)
Clues(s, t) ==
  /\ s.clue_tokens > 0 /\ t.clue_tokens = s.clue_tokens - 1
  /\ t.half_clue_token = s.half_clue_token
  /\ t.play_stacks = s.play_stacks /\ t.cards_left = s.cards_left /\ t.hands = s.hands
  /\ t.endgame_turns = IF s.endgame_turns = NoTurns THEN NoTurns ELSE s.endgame_turns - 1

Moves(s, t, p, move) ==
  /\ t \in SearchState /\ t.max_ranks = s.max_ranks /\ t.strikes = s.strikes
  /\ \/ move = DummyClue /\ Clues(s, t)
     \/ \E i \in 1 .. Len(s.hands[p]) :
          /\ Replaces(s, t, p, i)
          /\ \/ /\ s.hands[p][i] # Unknown /\ move = <<StackingButton(s.hands[p][i]), i>>
                /\ Lands(s, t, s.hands[p][i])
             \/ s.hands[p][i] = Unknown /\ move = <<"discard", i>> /\ Throws(s, t)

\* The fields of a state of the search.
LEMMA SearchFields ==
  ASSUME NEW s \in SearchState
  PROVE  /\ s.play_stacks \in [Suits -> Int] /\ s.max_ranks \in [Suits -> Int]
         /\ s.clue_tokens \in Nat /\ s.half_clue_token \in BOOLEAN /\ s.strikes \in Nat
         /\ s.endgame_turns \in Nat \cup {NoTurns} /\ s.cards_left \in Nat
         /\ s.hands \in [Players -> Seq(Identity \cup {Unknown})]
         /\ s.endgame_turns = NoTurns => s.cards_left > 0
  BY DEF SearchState

LEMMA RegainedFields ==
  ASSUME GameStateAssumption, NEW s \in SearchState
  PROVE  /\ regained(s) \in SearchState /\ SameTable(s, regained(s))
         /\ Throws(s, regained(s))
<1>1. MaxTokens \in Nat /\ ClueStarved \in BOOLEAN
  BY DEF GameStateAssumption
<1>2. s.clue_tokens \in Nat /\ s.half_clue_token \in BOOLEAN
  BY SearchFields
<1>3. ASSUME NEW n \in Nat, NEW h \in BOOLEAN
      PROVE  LET t == [s EXCEPT !.clue_tokens = n, !.half_clue_token = h]
             IN  /\ t \in SearchState /\ SameTable(s, t) /\ t.play_stacks = s.play_stacks
                 /\ t.clue_tokens = n /\ t.half_clue_token = h
  BY DEF SearchState, SameTable
<1>4. [s EXCEPT !.half_clue_token = TRUE] = [s EXCEPT !.clue_tokens = s.clue_tokens, !.half_clue_token = TRUE]
  BY DEF SearchState
<1>5. [s EXCEPT !.clue_tokens = @ + 1]
        = [s EXCEPT !.clue_tokens = s.clue_tokens + 1, !.half_clue_token = s.half_clue_token]
  BY DEF SearchState
<1>6. s = [s EXCEPT !.clue_tokens = s.clue_tokens, !.half_clue_token = s.half_clue_token]
  BY DEF SearchState
<1>7. PICK n \in Nat, h \in BOOLEAN :
        /\ regained(s) = [s EXCEPT !.clue_tokens = n, !.half_clue_token = h]
        /\ n = IF ~s.half_clue_token /\ (s.clue_tokens >= MaxTokens \/ ClueStarved)
               THEN s.clue_tokens ELSE s.clue_tokens + 1
        /\ h <=> ~s.half_clue_token /\ ClueStarved /\ s.clue_tokens < MaxTokens
  <2>1. CASE s.half_clue_token
    <3>1. regained(s) = [s EXCEPT !.clue_tokens = s.clue_tokens + 1, !.half_clue_token = FALSE]
      BY <2>1 DEF regained
    <3>2. s.clue_tokens + 1 \in Nat /\ FALSE \in BOOLEAN
      BY <1>2
    <3>. QED
      BY <2>1, <3>1, <3>2, Zenon
  <2>2. CASE ~s.half_clue_token /\ s.clue_tokens >= MaxTokens
    <3>1. regained(s) = s /\ ~(s.clue_tokens < MaxTokens)
      BY <1>1, <1>2, <2>2 DEF regained
    <3>. QED
      BY <1>2, <1>6, <2>2, <3>1, Zenon
  <2>3. CASE ~s.half_clue_token /\ ~(s.clue_tokens >= MaxTokens) /\ ClueStarved
    <3>1. regained(s) = [s EXCEPT !.half_clue_token = TRUE] /\ s.clue_tokens < MaxTokens
      BY <1>1, <1>2, <2>3 DEF regained
    <3>2. TRUE \in BOOLEAN
      OBVIOUS
    <3>. QED
      BY <1>2, <1>4, <2>3, <3>1, <3>2, Zenon
  <2>4. CASE ~s.half_clue_token /\ ~(s.clue_tokens >= MaxTokens) /\ ~ClueStarved
    <3>1. regained(s) = [s EXCEPT !.clue_tokens = @ + 1]
      BY <2>4 DEF regained
    <3>2. s.clue_tokens + 1 \in Nat
      BY <1>2
    <3>. QED
      BY <1>2, <1>5, <2>4, <3>1, <3>2, Zenon
  <2>. QED
    BY <2>1, <2>2, <2>3, <2>4
<1>8. /\ regained(s) \in SearchState /\ SameTable(s, regained(s))
      /\ regained(s).play_stacks = s.play_stacks
      /\ regained(s).clue_tokens = n /\ regained(s).half_clue_token = h
  <2>. DEFINE t == [s EXCEPT !.clue_tokens = n, !.half_clue_token = h]
  <2>1. /\ t \in SearchState /\ SameTable(s, t) /\ t.play_stacks = s.play_stacks
        /\ t.clue_tokens = n /\ t.half_clue_token = h
    BY <1>3
  <2>2. regained(s) = t
    BY <1>7
  <2>. HIDE DEF t
  <2>. QED
    BY <2>1, <2>2, Zenon
<1>9. regained(s).half_clue_token <=> ~s.half_clue_token /\ ClueStarved /\ s.clue_tokens < MaxTokens
  BY <1>7, <1>8, Zenon
<1>10. regained(s).clue_tokens = IF ~s.half_clue_token /\ (s.clue_tokens >= MaxTokens \/ ClueStarved)
                                 THEN s.clue_tokens ELSE s.clue_tokens + 1
  BY <1>7, <1>8, Zenon
<1>. QED
  BY <1>8, <1>9, <1>10 DEF Throws, Refunded

LEMMA PlayedFields ==
  ASSUME GameStateAssumption, NEW s \in SearchState, NEW id \in Identity, playable(s, id)
  PROVE  /\ played(s, id) \in SearchState /\ SameTable(s, played(s, id))
         /\ Lands(s, played(s, id), id)
<1>. DEFINE t == [s EXCEPT !.play_stacks[id[1]] = id[2], !.base_count[id[1]][id[2]] = @ + 1]
            stacks == [s.play_stacks EXCEPT ![id[1]] = id[2]]
            count == [s.base_count EXCEPT ![id[1]][id[2]] = @ + 1]
<1>1. t = [s EXCEPT !.play_stacks = stacks, !.base_count = count]
  BY DEF SearchState
<1>2. stacks \in [Suits -> Int]
  BY SearchFields DEF Identity, Ranks, GameStateAssumption
<1>3. count \in [Suits -> [Ranks -> Nat]]
  BY OneMoreCopy DEF SearchState, Identity
<1>. HIDE DEF stacks, count, t
<1>4. t \in SearchState /\ SameTable(s, t) /\ t.play_stacks = stacks /\ SameTokens(s, t)
  BY <1>1, <1>2, <1>3 DEF SearchState, SameTable, SameTokens
<1>5. played(s, id) = IF IsFinal(id) THEN regained(t) ELSE t
  BY DEF played, t
<1>6. CASE IsFinal(id)
  <2>1. regained(t) \in SearchState /\ SameTable(t, regained(t)) /\ Throws(t, regained(t))
    BY <1>4, RegainedFields
  <2>. QED
    BY <1>4, <1>5, <1>6, <2>1 DEF SameTable, SameTokens, Lands, Throws, Refunded, stacks
<1>7. CASE ~IsFinal(id)
  BY <1>4, <1>5, <1>7 DEF SameTable, SameTokens, Lands, stacks
<1>. QED
  BY <1>6, <1>7

\* A card replaced, by one without a name.
LEMMA ReplacedFields ==
  ASSUME GameStateAssumption, NEW s \in SearchState, s.endgame_turns # 0,
         NEW p \in Players, NEW i \in 1 .. Len(s.hands[p])
  PROVE  LET t == remove_and_draw(s, p, i)
         IN  /\ t \in SearchState /\ Replaces(s, t, p, i) /\ SameTokens(s, t)
             /\ t.play_stacks = s.play_stacks
             /\ t.max_ranks = s.max_ranks /\ t.strikes = s.strikes
<1>. DEFINE hand == <<Unknown>> \o Without(s.hands[p], i)
            hs == [s.hands EXCEPT ![p] = hand]
            left == IF s.cards_left = 0 THEN 0 ELSE s.cards_left - 1
            turns == IF s.endgame_turns # NoTurns THEN s.endgame_turns - 1
                     ELSE IF s.cards_left = 1 THEN NumPlayers ELSE NoTurns
            t == [s EXCEPT !.hands = hs, !.cards_left = left, !.endgame_turns = turns]
<1>1. remove_and_draw(s, p, i) = t
  BY DEF remove_and_draw, SearchState
<1>2. hs \in [Players -> Seq(Identity \cup {Unknown})]
  <2>1. s.hands \in [Players -> Seq(Identity \cup {Unknown})]
    BY SearchFields
  <2>2. Without(s.hands[p], i) \in Seq(Identity \cup {Unknown})
    BY <2>1, WithoutSeq
  <2>3. hand \in Seq(Identity \cup {Unknown})
    BY <2>2
  <2>. HIDE DEF hand
  <2>. QED
    BY <2>1, <2>3
<1>3. NumPlayers \in Nat \ {0} /\ NoTurns = -1
  BY DEF GameStateAssumption, NoTurns
<1>4. /\ s.endgame_turns \in Nat \cup {NoTurns} /\ s.cards_left \in Nat
      /\ s.endgame_turns = NoTurns => s.cards_left > 0
  BY SearchFields
<1>5. left \in Nat /\ turns \in Nat \cup {NoTurns} /\ (turns = NoTurns => left > 0)
  BY <1>3, <1>4
<1>6. Replaces(s, t, p, i)
  <2>1. t.hands = hs /\ t.cards_left = left /\ t.endgame_turns = turns
    BY DEF SearchState
  <2>. QED
    BY <2>1 DEF Replaces
<1>. HIDE DEF hs, left, turns
<1>7. /\ t \in SearchState /\ SameTokens(s, t) /\ t.play_stacks = s.play_stacks
      /\ t.max_ranks = s.max_ranks /\ t.strikes = s.strikes
  BY <1>2, <1>5 DEF SearchState, SameTokens
<1>. QED
  BY <1>1, <1>6, <1>7

\* advance_state, for the moves the search tries.
LEMMA Advances ==
  ASSUME GameStateAssumption, NEW s \in SearchState, s.endgame_turns # 0,
         NEW p \in Players, NEW move \in clueless_moves(s, p)
  PROVE  Moves(s, advance_state(s, move, p), p, move)
<1>. DEFINE t == advance_state(s, move, p)
            h == s.hands[p]
<1>0. h \in Seq(Identity \cup {Unknown}) /\ DOMAIN h = 1 .. Len(h)
  BY SearchFields
<1>1. \/ move = DummyClue /\ s.clue_tokens > 0
      \/ \E i \in 1 .. Len(h) : h[i] # Unknown /\ playable(s, h[i]) /\ move = <<StackingButton(h[i]), i>>
      \/ \E i \in 1 .. Len(h) : h[i] = Unknown /\ move = <<"discard", i>>
  BY <1>0 DEF clueless_moves
<1>2. CASE move = DummyClue /\ s.clue_tokens > 0
  <2>. DEFINE turns == IF s.endgame_turns = NoTurns THEN s.endgame_turns ELSE s.endgame_turns - 1
  <2>1. t = [s EXCEPT !.clue_tokens = s.clue_tokens - 1, !.endgame_turns = turns]
    <3>1. move[1] = "clue"
      BY <1>2 DEF DummyClue
    <3>. QED
      BY <3>1 DEF advance_state, SearchState
  <2>2. /\ s.clue_tokens - 1 \in Nat /\ turns \in Nat \cup {NoTurns}
        /\ turns = NoTurns => s.cards_left > 0
    BY <1>2, SearchFields DEF NoTurns
  <2>3. turns = IF s.endgame_turns = NoTurns THEN NoTurns ELSE s.endgame_turns - 1
    OBVIOUS
  <2>. HIDE DEF turns
  <2>4. /\ t \in SearchState /\ t.max_ranks = s.max_ranks /\ t.strikes = s.strikes
        /\ t.clue_tokens = s.clue_tokens - 1 /\ t.half_clue_token = s.half_clue_token
        /\ t.play_stacks = s.play_stacks /\ t.cards_left = s.cards_left /\ t.hands = s.hands
        /\ t.endgame_turns = turns
    BY <2>1, <2>2 DEF SearchState
  <2>. QED
    BY <1>2, <2>3, <2>4 DEF Moves, Clues
<1>3. ASSUME NEW u \in SearchState, SameTable(s, u), NEW i \in 1 .. Len(h),
             t = remove_and_draw(u, p, i)
      PROVE  /\ t \in SearchState /\ t.max_ranks = s.max_ranks /\ t.strikes = s.strikes
             /\ Replaces(s, t, p, i) /\ SameTokens(u, t) /\ t.play_stacks = u.play_stacks
  <2>1. u.endgame_turns # 0 /\ i \in 1 .. Len(u.hands[p])
    BY <1>3 DEF SameTable
  <2>2. /\ t \in SearchState /\ Replaces(u, t, p, i) /\ SameTokens(u, t)
        /\ t.play_stacks = u.play_stacks
        /\ t.max_ranks = u.max_ranks /\ t.strikes = u.strikes
    BY <1>3, <2>1, ReplacedFields
  <2>. QED
    BY <1>3, <2>2 DEF SameTable, Replaces
<1>4. ASSUME NEW i \in 1 .. Len(h), h[i] # Unknown, playable(s, h[i]),
             move = <<StackingButton(h[i]), i>>
      PROVE  Moves(s, t, p, move)
  <2>. DEFINE u == played(s, h[i])
  <2>1. h[i] \in Identity
    BY <1>0, <1>4
  <2>2. u \in SearchState /\ SameTable(s, u) /\ Lands(s, u, h[i])
    BY <1>4, <2>1, PlayedFields
  <2>3. t = remove_and_draw(u, p, i)
    BY <1>4 DEF advance_state, StackingButton, pressed_play, pressed_discard
  <2>. HIDE DEF u, t, h
  <2>4. /\ t \in SearchState /\ t.max_ranks = s.max_ranks /\ t.strikes = s.strikes
        /\ Replaces(s, t, p, i) /\ SameTokens(u, t) /\ t.play_stacks = u.play_stacks
    BY <1>3, <2>2, <2>3
  <2>5. Lands(s, t, h[i])
    BY <2>2, <2>4 DEF Lands, Refunded, SameTokens
  <2>. QED
    BY <1>4, <2>4, <2>5 DEF Moves, h
<1>5. ASSUME NEW i \in 1 .. Len(h), h[i] = Unknown, move = <<"discard", i>>
      PROVE  Moves(s, t, p, move)
  <2>. DEFINE u == regained(s)
  <2>2. u \in SearchState /\ SameTable(s, u) /\ Throws(s, u)
    BY RegainedFields
  <2>3. t = remove_and_draw(u, p, i)
    BY <1>5 DEF advance_state, pressed_discard
  <2>. HIDE DEF u, t, h
  <2>4. /\ t \in SearchState /\ t.max_ranks = s.max_ranks /\ t.strikes = s.strikes
        /\ Replaces(s, t, p, i) /\ SameTokens(u, t) /\ t.play_stacks = u.play_stacks
    BY <1>3, <2>2, <2>3
  <2>5. Throws(s, t)
    BY <2>2, <2>4 DEF Throws, Refunded, SameTokens
  <2>. QED
    BY <1>5, <2>4, <2>5 DEF Moves, h
<1>. HIDE DEF t, h
<1>. QED
  BY <1>1, <1>2, <1>4, <1>5 DEF t

-----------------------------------------------------------------------------
(* What a win of the search needs. *)

\* A set of numbers has a least one.
LEMMA Least ==
  ASSUME NEW S \in SUBSET Nat, NEW n \in S
  PROVE  \E m \in S : \A k \in S : ~(k < m)
<1>. DEFINE R == OpToRel(<, Nat)
<1>1. \E m \in S : \A k \in S : ~ (<<k, m>> \in R)
  <2>. HIDE DEF R
  <2>1. IsWellFoundedOn(R, Nat)
    BY NatLessThanWellFounded DEF R
  <2>. QED
    BY <2>1, WFMin
<1>2. \A k \in S, m \in S : k < m => <<k, m>> \in R
  BY DEF OpToRel
<1>. QED
  BY <1>1, <1>2

\* An equation f[d] = (d \in Won \/ \E e \in Next[d] : f[e]) has a solution.
Solves(D, Won, Onward, f) == f = [d \in D |-> d \in Won \/ \E e \in Onward[d] : f[e]]

LEMMA Fixpoint ==
  ASSUME NEW D, NEW Won, NEW Onward \in [D -> SUBSET D]
  PROVE  \E f : Solves(D, Won, Onward, f)
<1>. DEFINE Reaches(X, d) == d \in Won \/ \E e \in Onward[d] : e \in X
            Closed(X) == \A d \in D : Reaches(X, d) => d \in X
            L == {d \in D : \A X \in SUBSET D : Closed(X) => d \in X}
            f == [d \in D |-> d \in L]
<1>1. Closed(L)
  <2>1. ASSUME NEW d \in D, Reaches(L, d), NEW X \in SUBSET D, Closed(X) PROVE d \in X
    BY <2>1
  <2>. QED
    BY <2>1
<1>2. ASSUME NEW d \in L PROVE Reaches(L, d)
  <2>. DEFINE X == L \ {d}
  <2>1. SUFFICES ASSUME ~Reaches(L, d) PROVE Closed(X)
    <3>. d \in D /\ (Closed(X) => d \in X)
      OBVIOUS
    <3>. QED
      OBVIOUS
  <2>. QED
    BY <1>1, <2>1
<1>3. ASSUME NEW d \in D PROVE f[d] = (d \in Won \/ \E e \in Onward[d] : f[e])
  <2>1. \A e \in Onward[d] : e \in D
    OBVIOUS
  <2>. HIDE DEF L
  <2>2. (d \in L) = Reaches(L, d)
    <3>1. d \in L => Reaches(L, d)
      BY <1>2
    <3>2. Reaches(L, d) => d \in L
      BY <1>1
    <3>. HIDE DEF Reaches
    <3>3. Reaches(L, d) \in BOOLEAN
      BY DEF Reaches
    <3>. QED
      BY <3>1, <3>2, <3>3
  <2>3. f[d] = (d \in L) /\ \A e \in Onward[d] : f[e] = (e \in L)
    BY <2>1
  <2>4. (d \in Won \/ \E e \in Onward[d] : f[e]) = Reaches(L, d)
    BY <2>3
  <2>. QED
    BY <2>2, <2>3, <2>4
<1>4. f = [d \in D |-> d \in Won \/ \E e \in Onward[d] : f[e]]
  <2>1. f = [d \in D |-> f[d]]
    OBVIOUS
  <2>. HIDE DEF f
  <2>. QED
    BY <1>3, <2>1
<1>. QED
  BY <1>4 DEF Solves

\* What clueless_winnable finds, it finds by its body.
LEMMA Winnable ==
  ASSUME GameStateAssumption, NEW s \in SearchState, NEW p \in Players
  PROVE  clueless_winnable[<<s, p>>] <=>
           \/ score_of(s) = max_score_of(s)
           \/ ~unwinnable_state(s, p) /\ winning_moves(s, p) # {}
<1>. DEFINE D == SearchState \X Players
            After(x, move) == <<advance_state(x[1], move, x[2]), next_player_index(x[2])>>
            Won == {x \in D : score_of(x[1]) = max_score_of(x[1])}
            Open(x) == ~unwinnable_state(x[1], x[2])
            Onward == [x \in D |-> IF Open(x) THEN {After(x, move) : move \in clueless_moves(x[1], x[2])}
                                   ELSE {}]
            Body(f, x) == \/ score_of(x[1]) = max_score_of(x[1])
                          \/ /\ ~unwinnable_state(x[1], x[2])
                             /\ \E move \in clueless_moves(x[1], x[2]) : f[After(x, move)]
            Run(f) == f = [x \in D |-> Body(f, x)]
<1>1. clueless_winnable = CHOOSE f : Run(f)
  BY DEF clueless_winnable
<1>2. \E f : Run(f)
  <2>1. Onward \in [D -> SUBSET D]
    <3>1. ASSUME NEW x \in D, Open(x), NEW move \in clueless_moves(x[1], x[2]) PROVE After(x, move) \in D
      <4>1. x[1] \in SearchState /\ x[2] \in Players
        OBVIOUS
      <4>2. x[1].endgame_turns # 0
        BY <3>1 DEF unwinnable_state, ended_in
      <4>3. advance_state(x[1], move, x[2]) \in SearchState
        BY <4>1, <4>2, Advances DEF Moves
      <4>4. next_player_index(x[2]) \in Players
        BY <4>1, NextPlayerType
      <4>. QED
        BY <4>3, <4>4
    <3>. HIDE DEF D, After, Open
    <3>. QED
      BY <3>1
  <2>2. PICK f : Solves(D, Won, Onward, f)
    <3>. HIDE DEF D, Won, Onward
    <3>. QED
      BY <2>1, Fixpoint
  <2>3. ASSUME NEW x \in D PROVE (x \in Won \/ \E e \in Onward[x] : f[e]) = Body(f, x)
    <3>1. x \in Won <=> score_of(x[1]) = max_score_of(x[1])
      OBVIOUS
    <3>2. \A e : e \in Onward[x] <=> /\ ~unwinnable_state(x[1], x[2])
                                    /\ \E move \in clueless_moves(x[1], x[2]) : e = After(x, move)
      <4>. HIDE DEF D, After
      <4>1. Onward[x] = IF Open(x) THEN {After(x, move) : move \in clueless_moves(x[1], x[2])} ELSE {}
        OBVIOUS
      <4>. HIDE DEF Onward
      <4>2. CASE unwinnable_state(x[1], x[2])
        BY <4>1, <4>2
      <4>3. CASE ~unwinnable_state(x[1], x[2])
        BY <4>1, <4>3
      <4>. QED
        BY <4>2, <4>3
    <3>. HIDE DEF D, After, Won, Onward
    <3>. QED
      BY <3>1, <3>2
  <2>4. Run(f)
    <3>1. f = [x \in D |-> x \in Won \/ \E e \in Onward[x] : f[e]]
      BY <2>2 DEF Solves
    <3>. HIDE DEF D, Won, Onward, Body
    <3>. QED
      BY <2>3, <3>1
  <2>. HIDE DEF Run
  <2>. QED
    BY <2>4
<1>3. Run(clueless_winnable)
  <2>. HIDE DEF Run
  <2>. QED
    BY <1>1, <1>2
<1>. DEFINE w == clueless_winnable
<1>4. w[<<s, p>>] = Body(w, <<s, p>>)
  <2>. HIDE DEF Body, w
  <2>1. w = [x \in D |-> Body(w, x)]
    BY <1>3 DEF w
  <2>2. <<s, p>> \in D
    OBVIOUS
  <2>. HIDE DEF D
  <2>. QED
    BY <2>1, <2>2
<1>. QED
  BY <1>4 DEF winning_moves

\* How far a suit is, and how far it can go, in play order.
Height(s, u) == InPlayOrder(u, s.play_stacks[u])
Limit(s, u) == InPlayOrder(u, s.max_ranks[u])
Sees(s, x) == \E q \in Players : \E i \in 1 .. Len(s.hands[q]) : s.hands[q][i] = x

\* Every stack is below its limit, and nobody holds a card that would pass it.
Sane(s) ==
  /\ \A u \in Suits : Height(s, u) \in 0 .. Top /\ Limit(s, u) \in 0 .. Top
                      /\ Height(s, u) <= Limit(s, u)
  /\ \A x \in Identity : Sees(s, x) => K(x) # Limit(s, x[1]) + 1

\* Each card still needed has been seen in a hand.
UsefulHeld(s) == \A x \in Identity : is_useful(s, x) => Sees(s, x)

LEMMA SearchOrder ==
  ASSUME GameStateAssumption, NEW s \in SearchState, NEW x \in Identity
  PROVE  /\ is_useful(s, x) <=> Height(s, x[1]) < K(x) /\ K(x) <= Limit(s, x[1])
         /\ playable(s, x) <=> K(x) = Height(s, x[1]) + 1
         /\ K(x) \in 1 .. Top /\ Height(s, x[1]) \in Int /\ Limit(s, x[1]) \in Int
<1>1. x[1] \in Suits /\ x[2] \in 1 .. Top /\ Top \in Nat
  BY DEF Identity, Ranks, GameStateAssumption
<1>2. s.play_stacks[x[1]] \in Int /\ s.max_ranks[x[1]] \in Int
  BY <1>1, SearchFields
<1>3. CASE x[1] \in Reversed
  <2>1. /\ K(x) = Top + 1 - x[2] /\ Height(s, x[1]) = Top + 1 - s.play_stacks[x[1]]
        /\ Limit(s, x[1]) = Top + 1 - s.max_ranks[x[1]]
        /\ is_useful(s, x) <=> x[2] < s.play_stacks[x[1]] /\ x[2] >= s.max_ranks[x[1]]
        /\ playable_away(s, x) = s.play_stacks[x[1]] - 1 - x[2]
    BY <1>3 DEF K, KthRank, Height, Limit, InPlayOrder, is_useful, playable_away
  <2>. DEFINE a == s.play_stacks[x[1]]
              b == s.max_ranks[x[1]]
              r == x[2]
  <2>2. /\ K(x) = Top + 1 - r /\ Height(s, x[1]) = Top + 1 - a /\ Limit(s, x[1]) = Top + 1 - b
        /\ is_useful(s, x) <=> r < a /\ r >= b
        /\ playable(s, x) <=> a - 1 - r = 0
        /\ a \in Int /\ b \in Int /\ r \in 1 .. Top
    BY <1>1, <1>2, <2>1 DEF playable
  <2>. HIDE DEF a, b, r
  <2>. QED
    BY <1>1, <2>2
<1>4. CASE x[1] \notin Reversed
  <2>1. /\ K(x) = x[2] /\ Height(s, x[1]) = s.play_stacks[x[1]]
        /\ Limit(s, x[1]) = s.max_ranks[x[1]]
        /\ is_useful(s, x) <=> x[2] > s.play_stacks[x[1]] /\ x[2] <= s.max_ranks[x[1]]
        /\ playable_away(s, x) = x[2] - (s.play_stacks[x[1]] + 1)
    BY <1>4 DEF K, KthRank, Height, Limit, InPlayOrder, is_useful, playable_away
  <2>. DEFINE a == s.play_stacks[x[1]]
              b == s.max_ranks[x[1]]
              r == x[2]
  <2>2. /\ K(x) = r /\ Height(s, x[1]) = a /\ Limit(s, x[1]) = b
        /\ is_useful(s, x) <=> r > a /\ r <= b
        /\ playable(s, x) <=> r - (a + 1) = 0
        /\ a \in Int /\ b \in Int /\ r \in 1 .. Top
    BY <1>1, <1>2, <2>1 DEF playable
  <2>. HIDE DEF a, b, r
  <2>. QED
    BY <1>1, <2>2
<1>. QED
  BY <1>3, <1>4

LEMMA NoName == Unknown \notin Identity
<1>1. \A x \in Identity : x # <<>>
  BY DEF Identity
<1>. QED
  BY <1>1 DEF Unknown

\* A card that is seen after a move was seen before it.
LEMMA SeenBefore ==
  ASSUME GameStateAssumption, NEW s \in SearchState, NEW t, NEW p \in Players, NEW move,
         Moves(s, t, p, move), NEW x \in Identity, Sees(t, x)
  PROVE  Sees(s, x)
<1>1. CASE t.hands = s.hands
  BY <1>1 DEF Sees
<1>2. CASE \E i \in 1 .. Len(s.hands[p]) : Replaces(s, t, p, i)
  <2>1. PICK i \in 1 .. Len(s.hands[p]) : Replaces(s, t, p, i)
    BY <1>2
  <2>0. PICK q \in Players : \E j \in 1 .. Len(t.hands[q]) : t.hands[q][j] = x
    BY DEF Sees
  <2>2. PICK j \in 1 .. Len(t.hands[q]) : t.hands[q][j] = x
    BY <2>0
  <2>3. s.hands \in [Players -> Seq(Identity \cup {Unknown})]
    BY SearchFields
  <2>4. CASE q # p
    <3>1. t.hands[q] = s.hands[q]
      BY <2>1, <2>3, <2>4 DEF Replaces
    <3>. QED
      BY <2>2, <3>1 DEF Sees
  <2>5. CASE q = p
    <3>. DEFINE h == s.hands[p]
    <3>1. t.hands[p] = <<Unknown>> \o Without(h, i)
      BY <2>1, <2>3 DEF Replaces
    <3>2. h \in Seq(Identity \cup {Unknown}) /\ Len(h) \in Nat
      BY <2>3
    <3>3. /\ Without(h, i) \in Seq(Identity \cup {Unknown}) /\ Len(Without(h, i)) = Len(h) - 1
          /\ \A k \in 1 .. Len(h) - 1 : Without(h, i)[k] = IF k < i THEN h[k] ELSE h[k + 1]
      BY <3>2, WithoutSeq DEF Without
    <3>4. j # 1
      BY <2>2, <2>5, <3>1, <3>3, NoName
    <3>5. j - 1 \in 1 .. Len(h) - 1 /\ Without(h, i)[j - 1] = x
      BY <2>2, <2>5, <3>1, <3>2, <3>3, <3>4
    <3>6. PICK k \in 1 .. Len(h) : h[k] = x
      <4>1. x = IF j - 1 < i THEN h[j - 1] ELSE h[j]
        <5>1. x = IF j - 1 < i THEN h[j - 1] ELSE h[(j - 1) + 1]
          BY <3>3, <3>5
        <5>2. (j - 1) + 1 = j
          BY <3>2, <3>5
        <5>. QED
          BY <5>1, <5>2
      <4>2. j - 1 \in 1 .. Len(h) /\ j \in 1 .. Len(h)
        BY <3>2, <3>5
      <4>. QED
        BY <4>1, <4>2
    <3>. QED
      BY <3>6 DEF Sees
  <2>. QED
    BY <2>4, <2>5
<1>. QED
  BY <1>1, <1>2 DEF Moves, Clues

\* Heights after a move.
LEMMA Climbs ==
  ASSUME GameStateAssumption, NEW s \in SearchState, NEW t, NEW p \in Players, NEW move,
         Moves(s, t, p, move)
  PROVE  /\ t \in SearchState
         /\ \A u \in Suits : Limit(t, u) = Limit(s, u)
         /\ \/ \A u \in Suits : Height(t, u) = Height(s, u)
            \/ \E x \in Identity :
                 /\ Sees(s, x) /\ K(x) = Height(s, x[1]) + 1
                 /\ \A u \in Suits : Height(t, u) = IF u = x[1] THEN K(x) ELSE Height(s, u)
<1>1. t \in SearchState /\ t.max_ranks = s.max_ranks
  BY DEF Moves
<1>2. CASE t.play_stacks = s.play_stacks
  BY <1>1, <1>2 DEF Limit, Height
<1>3. CASE \E i \in 1 .. Len(s.hands[p]) : Lands(s, t, s.hands[p][i])
  <2>1. PICK i \in 1 .. Len(s.hands[p]) : Lands(s, t, s.hands[p][i])
    BY <1>3
  <2>. DEFINE x == s.hands[p][i]
  <2>2. x \in Identity /\ Sees(s, x) /\ K(x) = Height(s, x[1]) + 1
    BY <2>1, SearchOrder DEF Lands, Sees
  <2>3. ASSUME NEW u \in Suits PROVE Height(t, u) = IF u = x[1] THEN K(x) ELSE Height(s, u)
    <3>1. t.play_stacks = [s.play_stacks EXCEPT ![x[1]] = x[2]] /\ s.play_stacks \in [Suits -> Int]
      BY <2>1, SearchFields DEF Lands
    <3>2. t.play_stacks[u] = IF u = x[1] THEN x[2] ELSE s.play_stacks[u]
      BY <3>1
    <3>. QED
      BY <3>2 DEF Height, InPlayOrder, K, KthRank
  <2>. HIDE DEF x
  <2>. QED
    BY <1>1, <2>2, <2>3 DEF Limit
<1>. QED
  BY <1>2, <1>3 DEF Moves, Clues, Throws

LEMMA StaysSane ==
  ASSUME GameStateAssumption, NEW s \in SearchState, Sane(s), NEW t, NEW p \in Players, NEW move,
         Moves(s, t, p, move)
  PROVE  Sane(t)
<1>1. \A x \in Identity : Sees(t, x) => K(x) # Limit(t, x[1]) + 1
  <2>. SUFFICES ASSUME NEW x \in Identity, Sees(t, x) PROVE K(x) # Limit(t, x[1]) + 1
    OBVIOUS
  <2>1. Sees(s, x)
    BY SeenBefore
  <2>2. Limit(t, x[1]) = Limit(s, x[1])
    BY Climbs DEF Identity
  <2>. QED
    BY <2>1, <2>2 DEF Sane
<1>2. ASSUME NEW u \in Suits
      PROVE  Height(t, u) \in 0 .. Top /\ Limit(t, u) \in 0 .. Top /\ Height(t, u) <= Limit(t, u)
  <2>1. /\ Limit(t, u) = Limit(s, u)
        /\ Height(s, u) \in 0 .. Top /\ Limit(s, u) \in 0 .. Top /\ Height(s, u) <= Limit(s, u)
    BY Climbs DEF Sane
  <2>2. CASE Height(t, u) = Height(s, u)
    BY <2>1, <2>2
  <2>3. CASE \E x \in Identity : /\ Sees(s, x) /\ x[1] = u
                                 /\ K(x) = Height(s, u) + 1 /\ Height(t, u) = K(x)
    <3>1. PICK x \in Identity : /\ Sees(s, x) /\ x[1] = u
                                /\ K(x) = Height(s, u) + 1 /\ Height(t, u) = K(x)
      BY <2>3
    <3>2. K(x) # Limit(s, u) + 1
      BY <3>1 DEF Sane
    <3>3. Top \in Nat
      BY DEF GameStateAssumption
    <3>. QED
      BY <2>1, <3>1, <3>2, <3>3
  <2>4. CASE \E x \in Identity :
               /\ Sees(s, x) /\ K(x) = Height(s, x[1]) + 1
               /\ \A v \in Suits : Height(t, v) = IF v = x[1] THEN K(x) ELSE Height(s, v)
    <3>1. PICK x \in Identity :
               /\ Sees(s, x) /\ K(x) = Height(s, x[1]) + 1
               /\ \A v \in Suits : Height(t, v) = IF v = x[1] THEN K(x) ELSE Height(s, v)
      BY <2>4
    <3>2. Height(t, u) = IF u = x[1] THEN K(x) ELSE Height(s, u)
      BY <3>1
    <3>. QED
      BY <2>2, <2>3, <3>1, <3>2
  <2>. QED
    BY <2>2, <2>4, Climbs
<1>. QED
  BY <1>1, <1>2 DEF Sane

LEMMA HeldBack ==
  ASSUME GameStateAssumption, NEW s \in SearchState, NEW t, NEW p \in Players, NEW move,
         Moves(s, t, p, move), UsefulHeld(t)
  PROVE  UsefulHeld(s)
<1>. SUFFICES ASSUME NEW x \in Identity, is_useful(s, x) PROVE Sees(s, x)
  BY DEF UsefulHeld
<1>1. t \in SearchState /\ Limit(t, x[1]) = Limit(s, x[1]) /\ x[1] \in Suits
  BY Climbs DEF Identity
<1>2. CASE is_useful(t, x)
  BY <1>2, SeenBefore DEF UsefulHeld
<1>3. CASE ~is_useful(t, x)
  <2>1. /\ Height(s, x[1]) < K(x) /\ K(x) <= Limit(s, x[1])
        /\ ~(Height(t, x[1]) < K(x) /\ K(x) <= Limit(t, x[1]))
        /\ K(x) \in Int /\ Height(s, x[1]) \in Int /\ Height(t, x[1]) \in Int
    BY <1>1, <1>3, SearchOrder
  <2>2. PICK y \in Identity : /\ Sees(s, y) /\ K(y) = Height(s, y[1]) + 1 /\ x[1] = y[1]
                              /\ Height(t, x[1]) = K(y)
    BY <1>1, <2>1, Climbs
  <2>3. K(x) = K(y)
    BY <1>1, <2>1, <2>2
  <2>4. x = y
    BY <2>2, <2>3, PlaceNames
  <2>. QED
    BY <2>2, <2>4
<1>. QED
  BY <1>2, <1>3

\* Every move of the search brings its end nearer: a card costs a turn or a card of the
\* deck and pays a token at most, a clue costs a token.
Rounds(s) == IF s.endgame_turns = NoTurns THEN NumPlayers + s.cards_left ELSE s.endgame_turns
Weight(s) == Rounds(s) + Rounds(s) + s.clue_tokens

LEMMA Lighter ==
  ASSUME GameStateAssumption, NEW s \in SearchState, s.endgame_turns # 0,
         NEW t, NEW p \in Players, NEW move, Moves(s, t, p, move)
  PROVE  Weight(s) \in Nat /\ Weight(t) \in Nat /\ Weight(t) < Weight(s)
<1>1. NumPlayers \in Nat \ {0} /\ NoTurns = -1
  BY DEF GameStateAssumption, NoTurns
<1>2. ASSUME NEW u \in SearchState
      PROVE  /\ u.clue_tokens \in Nat /\ u.endgame_turns \in Nat \cup {NoTurns} /\ u.cards_left \in Nat
             /\ u.endgame_turns = NoTurns => u.cards_left > 0
             /\ Rounds(u) \in Nat
  BY <1>1, SearchFields DEF Rounds
<1>3. t \in SearchState
  BY DEF Moves
<1>4. CASE Clues(s, t)
  <2>1. Rounds(t) <= Rounds(s) /\ t.clue_tokens = s.clue_tokens - 1
    BY <1>1, <1>2, <1>3, <1>4 DEF Clues, Rounds
  <2>. QED
    BY <1>2, <1>3, <2>1 DEF Weight
<1>5. CASE \E i \in 1 .. Len(s.hands[p]) : /\ Replaces(s, t, p, i)
                                           /\ Lands(s, t, s.hands[p][i]) \/ Throws(s, t)
  <2>1. PICK i \in 1 .. Len(s.hands[p]) : /\ Replaces(s, t, p, i)
                                          /\ Lands(s, t, s.hands[p][i]) \/ Throws(s, t)
    BY <1>5
  <2>2. /\ t.cards_left = (IF s.cards_left = 0 THEN 0 ELSE s.cards_left - 1)
        /\ t.endgame_turns = (IF s.endgame_turns # NoTurns THEN s.endgame_turns - 1
                              ELSE IF s.cards_left = 1 THEN NumPlayers ELSE NoTurns)
    BY <2>1 DEF Replaces
  <2>3. Rounds(t) = Rounds(s) - 1
    BY <1>1, <1>2, <1>3, <2>2 DEF Rounds
  <2>4. t.clue_tokens <= s.clue_tokens + 1
    BY <1>2, <2>1 DEF Lands, Throws, Refunded, SameTokens
  <2>. DEFINE a == Rounds(s)
              b == Rounds(t)
              c == s.clue_tokens
              d == t.clue_tokens
  <2>5. a \in Nat /\ b \in Nat /\ c \in Nat /\ d \in Nat /\ b = a - 1 /\ d <= c + 1
    BY <1>2, <1>3, <2>3, <2>4
  <2>6. Weight(s) = a + a + c /\ Weight(t) = b + b + d
    BY DEF Weight
  <2>. HIDE DEF a, b, c, d
  <2>. QED
    BY <2>5, <2>6
<1>. QED
  BY <1>4, <1>5 DEF Moves

LEMMA FullIsHeld ==
  ASSUME GameStateAssumption, NEW s \in SearchState, Sane(s), score_of(s) = max_score_of(s)
  PROVE  UsefulHeld(s)
<1>. DEFINE f == [u \in Suits |-> Height(s, u)]
            g == [u \in Suits |-> Limit(s, u)]
<1>1. score_of(s) = SumFunction(f) /\ max_score_of(s) = SumFunction(g)
  BY DEF score_of, max_score_of, Height, Limit
<1>2. \A u \in Suits : f[u] \in 0 .. Top /\ g[u] \in 0 .. Top /\ f[u] <= g[u]
  BY DEF Sane
<1>3. DOMAIN f = Suits /\ DOMAIN g = Suits
  OBVIOUS
<1>4. \A u \in Suits : f[u] = g[u]
  <2>. HIDE DEF f, g
  <2>. QED
    BY <1>1, <1>2, <1>3, SuitSums
<1>5. ASSUME NEW x \in Identity PROVE ~is_useful(s, x)
  <2>1. Height(s, x[1]) = Limit(s, x[1])
    BY <1>4 DEF Identity
  <2>. QED
    BY <2>1, SearchOrder
<1>. QED
  BY <1>5 DEF UsefulHeld

\* A win of the search relies on no card that it has not seen.
LEMMA WinIsHeld ==
  ASSUME GameStateAssumption, NEW s \in SearchState, NEW p \in Players, Sane(s),
         clueless_winnable[<<s, p>>]
  PROVE  UsefulHeld(s)
<1>. DEFINE Bad(u, q) == Sane(u) /\ clueless_winnable[<<u, q>>] /\ ~UsefulHeld(u)
            Weights == {n \in Nat : \E u \in SearchState : \E q \in Players : Bad(u, q) /\ n = Weight(u)}
<1>1. ASSUME NEW u \in SearchState, NEW q \in Players, Bad(u, q)
      PROVE  \E n \in Weights : n < Weight(u) /\ Weight(u) \in Weights
  <2>1. score_of(u) # max_score_of(u)
    BY <1>1, FullIsHeld
  <2>2. ~unwinnable_state(u, q) /\ winning_moves(u, q) # {}
    BY <1>1, <2>1, Winnable
  <2>3. u.endgame_turns # 0
    BY <2>2 DEF unwinnable_state, ended_in
  <2>4. PICK move \in clueless_moves(u, q) :
          clueless_winnable[<<advance_state(u, move, q), next_player_index(q)>>]
    BY <2>2 DEF winning_moves
  <2>. DEFINE v == advance_state(u, move, q)
              r == next_player_index(q)
  <2>5. Moves(u, v, q, move)
    BY <2>3, Advances
  <2>. HIDE DEF v, r
  <2>6. v \in SearchState /\ r \in Players /\ clueless_winnable[<<v, r>>]
    BY <2>4, <2>5, NextPlayerType DEF Moves, v, r
  <2>7. Sane(v) /\ ~UsefulHeld(v)
    BY <1>1, <2>5, StaysSane, HeldBack
  <2>8. Weight(u) \in Nat /\ Weight(v) \in Nat /\ Weight(v) < Weight(u)
    BY <2>3, <2>5, Lighter
  <2>9. Weight(u) \in Weights /\ Weight(v) \in Weights
    BY <1>1, <2>6, <2>7, <2>8
  <2>. QED
    BY <2>8, <2>9
<1>2. SUFFICES ASSUME ~UsefulHeld(s) PROVE FALSE
  OBVIOUS
<1>3. Bad(s, p)
  BY <1>2
<1>4. Weights \in SUBSET Nat /\ Weight(s) \in Weights
  <2>1. Weight(s) \in Weights
    <3>. HIDE DEF Bad, Weights
    <3>. QED
      BY <1>1, <1>3
  <2>. QED
    BY <2>1
<1>5. PICK m \in Weights : \A k \in Weights : ~(k < m)
  <2>. HIDE DEF Weights
  <2>. QED
    BY <1>4, Least
<1>6. PICK u \in SearchState : \E q \in Players : Bad(u, q) /\ m = Weight(u)
  <2>. HIDE DEF Bad
  <2>. QED
    BY <1>5
<1>7. PICK q \in Players : Bad(u, q) /\ m = Weight(u)
  BY <1>6
<1>. HIDE DEF Bad, Weights
<1>. QED
  BY <1>1, <1>5, <1>7

-----------------------------------------------------------------------------
(* The imagined state and the real one. *)

\* The search cannot know what it draws, and throws it away for a token: it is right
\* about what the button does as long as no inverted card is left in the deck.
PlainDecks == \A e \in Endings : \A i \in DOMAIN e.deck : e.deck[i][1] \notin Inverted
DeckPlain == \A id \in InDeck : id[1] \notin Inverted

\* What is imagined of a card: the card, or no name for one that was in the deck.
Same(x, y) == x = y \/ (x = Unknown /\ y[1] \notin Inverted)
SameHand(g, h) == Len(g) = Len(h) /\ \A i \in 1 .. Len(h) : Same(g[i], h[i])
\* A hand that is imagined to have drawn, and has not.
Ahead(g, h) ==
  /\ Len(g) = Len(h) + 1 /\ g[1] = Unknown
  /\ \A i \in 1 .. Len(h) : Same(g[i + 1], h[i])
HandMatch(q) ==
  \/ SameHand(plan.hands[q], hands[q])
  \/ q \notin ToMove /\ Ahead(plan.hands[q], hands[q])

SamePoints ==
  /\ plan.play_stacks = play_stacks /\ plan.max_ranks = max_ranks
  /\ plan.clue_tokens = clue_tokens /\ plan.half_clue_token = half_clue_token
  /\ plan.strikes = strikes

\* While the engine waits for the card of a move, the search has already drawn one.
SameRound ==
  /\ phase = "act" =>
       /\ plan.endgame_turns = endgame_turns /\ plan.cards_left = cards_left
       /\ clueless_winnable[<<plan, current_player_index>>]
  /\ phase = "draw" =>
       /\ plan.cards_left = cards_left - 1
       /\ plan.endgame_turns = (IF cards_left = 1 THEN NumPlayers ELSE NoTurns)
       /\ Ahead(plan.hands[current_player_index], hands[current_player_index])
       /\ clueless_winnable[<<plan, next_player_index(current_player_index)>>]

PlanFits ==
  /\ plan \in SearchState /\ Sane(plan) /\ promised = max_score
  /\ SamePoints /\ SameRound
  /\ \A q \in Players : HandMatch(q)

PlanInv == AccountInv /\ CountdownInv /\ DeckPlain /\ (plan # NoPlan => PlanFits)

\* The state handed to the search is one it can be asked about.
LEMMA NowIsSane ==
  ASSUME GameStateAssumption, AccountInv, CountdownInv
  PROVE  /\ Now \in SearchState /\ Sane(Now)
         /\ \A u \in Suits : Height(Now, u) = played_count(u) /\ Limit(Now, u) = max_played(u)
<1>1. /\ TypeOK /\ PileType /\ SetType /\ TokenType /\ TableType /\ PilesInv /\ StacksInv
      /\ PlacedInv /\ ReachInv /\ HandsInv /\ CardsConserved
  BY DEF AccountInv, TypeOK, PilesInv
<1>2. Now \in SearchState
  <2>1. /\ play_stacks \in [Suits -> Int] /\ max_ranks \in [Suits -> Int]
    BY <1>1 DEF PileType, GameStateAssumption
  <2>2. /\ discard_stacks \in [Suits -> [Ranks -> Nat]] /\ base_count \in [Suits -> [Ranks -> Nat]]
        /\ critical_set \in SUBSET Identity
        /\ clue_tokens \in Nat /\ half_clue_token \in BOOLEAN
    BY <1>1 DEF PileType, SetType, TokenType, GameStateAssumption
  <2>3. /\ strikes \in Nat /\ endgame_turns \in Nat \cup {NoTurns} /\ cards_left \in Nat
        /\ endgame_turns = NoTurns => cards_left > 0
    BY <1>1 DEF TableType, NoTurns, CountdownInv, GameStateAssumption
  <2>4. hands \in [Players -> Seq(Identity \cup {Unknown})]
    <3>1. hands \in [Players -> Seq(Identity)]
      BY <1>1 DEF TableType
    <3>2. \A h \in Seq(Identity) : h \in Seq(Identity \cup {Unknown})
      OBVIOUS
    <3>. QED
      BY <3>1, <3>2
  <2>. QED
    BY <2>1, <2>2, <2>3, <2>4 DEF Now, SearchState
<1>3. \A u \in Suits : Height(Now, u) = played_count(u) /\ Limit(Now, u) = max_played(u)
  BY DEF Height, Limit, InPlayOrder, Now, played_count, max_played
<1>4. ASSUME NEW x \in Identity, Sees(Now, x) PROVE K(x) # Limit(Now, x[1]) + 1
  <2>1. PICK q \in Players : \E i \in 1 .. Len(hands[q]) : hands[q][i] = x
    BY <1>4 DEF Sees, Now
  <2>2. PICK i \in 1 .. Len(hands[q]) : hands[q][i] = x
    BY <2>1
  <2>3. Base(x) < Count(x)
    BY <1>1, <2>2, HeldIsUnplaced
  <2>4. Base(x) \in Nat /\ Count(x) \in Nat /\ Lost(x) \in Nat /\ x[1] \in Suits
    BY <1>1, Coordinates
  <2>5. Lost(x) # Count(x)
    BY <1>1, <2>3, <2>4 DEF PlacedInv
  <2>. QED
    BY <1>1, <1>3, <2>4, <2>5 DEF ReachInv
<1>5. Sane(Now)
  BY <1>1, <1>3, <1>4 DEF Sane, StacksInv
<1>. QED
  BY <1>2, <1>3, <1>5

\* The deck never gets a card back.
LEMMA DeckStaysPlain ==
  ASSUME GameStateAssumption, AccountInv, DeckPlain,
         GiveClue \/ Draw \/ UNCHANGED vars \/ \E i : CardUse(i)
  PROVE  DeckPlain'
<1>1. \A x \in Identity : OutOfDeck(x) \in Int
  <2>. SUFFICES ASSUME NEW x \in Identity PROVE OutOfDeck(x) \in Int
    OBVIOUS
  <2>1. Base(x) \in Nat /\ InHands(x) \in Nat
    BY Coordinates, InHandsIsPlaces DEF AccountInv, TypeOK
  <2>. QED
    BY <2>1 DEF OutOfDeck, Base
<1>2. SUFFICES ASSUME NEW x \in Identity PROVE OutOfDeck(x)' \in Int /\ OutOfDeck(x)' >= OutOfDeck(x)
  <2>1. ASSUME NEW x \in Identity, OutOfDeck(x)' < CardCount[x[1]][x[2]]
        PROVE  OutOfDeck(x) < CardCount[x[1]][x[2]]
    <3>1. /\ OutOfDeck(x) \in Int /\ OutOfDeck(x)' \in Int /\ OutOfDeck(x)' >= OutOfDeck(x)
          /\ Count(x) \in Int
      BY <1>1, <1>2, Coordinates DEF AccountInv, TypeOK
    <3>. QED
      BY <2>1, <3>1 DEF Count
  <2>. QED
    BY <2>1 DEF DeckPlain, InDeck, OutOfDeck
<1>3. CASE GiveClue \/ UNCHANGED vars
  <2>1. base_count' = base_count /\ hands' = hands
    BY <1>3 DEF GiveClue, on_clue, vars, pileVars, tableVars
  <2>. QED
    BY <1>1, <2>1 DEF OutOfDeck, InHands
<1>4. CASE Draw
  <2>1. PICK c \in InDeck : on_draw(current_player_index, c)
    BY <1>4 DEF Draw
  <2>2. /\ current_player_index \in Players /\ Len(hands[current_player_index]) < HandSize
        /\ cards_left > 0
    BY <1>4 DEF Draw, AccountInv, HandsInv, TypeOK, TableType
  <2>3. OutOfDeck(x)' = OutOfDeck(x) + (IF x = c THEN 1 ELSE 0)
    BY <2>1, <2>2, DrawnCard
  <2>. QED
    BY <1>1, <2>3
<1>5. CASE \E i : CardUse(i)
  <2>1. PICK i : CardUse(i)
    BY <1>5
  <2>2. OutOfDeck(x)' = OutOfDeck(x)
    BY <2>1, UsedCard DEF CardUse, AccountInv, TypeOK, TableType
  <2>. QED
    BY <1>1, <2>2
<1>. QED
  BY <1>3, <1>4, <1>5

\* What the search makes of a refund is what regain_clue does.
LEMMA SameRefund ==
  ASSUME GameStateAssumption, TokenType, TokenType', regain_clue,
         NEW s, NEW t, Refunded(s, t), t.half_clue_token \in BOOLEAN,
         s.clue_tokens = clue_tokens, s.half_clue_token = half_clue_token
  PROVE  t.clue_tokens = clue_tokens' /\ t.half_clue_token = half_clue_token'
<1>1. /\ clue_tokens \in 0 .. MaxTokens /\ MaxTokens \in Nat
      /\ half_clue_token \in BOOLEAN /\ half_clue_token' \in BOOLEAN
      /\ half_clue_token => ClueStarved /\ clue_tokens < MaxTokens
      /\ half_clue_token' => ClueStarved
  BY DEF TokenType, GameStateAssumption
<1>2. t.clue_tokens = IF ~half_clue_token /\ (clue_tokens >= MaxTokens \/ ClueStarved)
                      THEN clue_tokens ELSE clue_tokens + 1
  BY DEF Refunded
<1>3. t.half_clue_token <=> ~half_clue_token /\ ClueStarved /\ clue_tokens < MaxTokens
  BY DEF Refunded
<1>4. CASE ClueStarved /\ half_clue_token
  BY <1>1, <1>2, <1>3, <1>4 DEF regain_clue
<1>5. CASE ClueStarved /\ ~half_clue_token
  BY <1>1, <1>2, <1>3, <1>5 DEF regain_clue, tokenVars
<1>6. CASE ~ClueStarved
  BY <1>1, <1>2, <1>3, <1>6 DEF regain_clue
<1>. QED
  BY <1>4, <1>5, <1>6

\* A needed card that the search sees is held, by the same seat; one that it sees in
\* another place than a card it cannot name is another copy.
LEMMA UnknownIsSpare ==
  ASSUME GameStateAssumption, AccountInv, PlanFits, UsefulHeld(plan),
         NEW p \in Players, NEW i \in 1 .. Len(hands[p]),
         SameHand(plan.hands[p], hands[p]), plan.hands[p][i] = Unknown
  PROVE  ~(hands[p][i] \in critical_set /\ InReach(hands[p][i]))
<1>. DEFINE x == hands[p][i]
<1>. SUFFICES ASSUME x \in critical_set, InReach(x) PROVE FALSE
  OBVIOUS
<1>1. /\ TypeOK /\ PileType /\ PilesInv /\ CriticalInv /\ HandsInv /\ CardsConserved
      /\ hands \in [Players -> Seq(Identity)]
      /\ \A q \in Players : Len(hands[q]) <= HandSize
  BY DEF AccountInv, TypeOK, TableType, PilesInv, HandsInv
<1>2. x \in Identity /\ Base(x) < Count(x)
  BY <1>1, HeldIsUnplaced
<1>. HIDE DEF x
<1>3. Base(x) = Count(x) - 1 /\ ~Played(x) /\ Count(x) \in Nat /\ Base(x) \in Nat
  <2>1. Base(x) = IF Played(x) THEN Count(x) ELSE Count(x) - 1
    BY <1>1, <1>2 DEF CriticalInv
  <2>2. Count(x) \in Nat /\ Base(x) \in Nat
    BY <1>1, <1>2, Coordinates
  <2>. QED
    BY <1>2, <2>1, <2>2
<1>4. is_useful(plan, x)
  <2>1. is_useful(plan, x) <=> ~is_basic_trash(x)
    <3>1. /\ x[1] \in Suits /\ x[2] \in Int
          /\ play_stacks[x[1]] \in Int /\ max_ranks[x[1]] \in Int
      <4>1. x[1] \in Suits /\ x[2] \in 1 .. Top /\ Top \in Nat
        BY <1>2 DEF Identity, Ranks, GameStateAssumption
      <4>. QED
        BY <1>1, <4>1 DEF PileType
    <3>2. plan.play_stacks = play_stacks /\ plan.max_ranks = max_ranks
      BY DEF PlanFits, SamePoints
    <3>. DEFINE r == x[2]
                a == play_stacks[x[1]]
                b == max_ranks[x[1]]
    <3>3. /\ is_useful(plan, x) <=> IF x[1] \in Reversed THEN r < a /\ r >= b ELSE r > a /\ r <= b
          /\ is_basic_trash(x) <=> IF x[1] \in Reversed THEN r >= a \/ r < b ELSE r <= a \/ r > b
          /\ r \in Int /\ a \in Int /\ b \in Int
      BY <3>1, <3>2, Zenon DEF is_useful, is_basic_trash
    <3>. HIDE DEF r, a, b
    <3>. QED
      BY <3>3
  <2>. QED
    BY <1>1, <1>2, <1>3, <2>1, Coordinates
<1>5. PICK q \in Players : \E j \in 1 .. Len(plan.hands[q]) : plan.hands[q][j] = x
  BY <1>2, <1>4 DEF UsefulHeld, Sees
<1>6. PICK j \in 1 .. Len(plan.hands[q]) : plan.hands[q][j] = x
  BY <1>5
<1>7. x # Unknown
  BY <1>2, NoName
<1>8. \E k \in 1 .. Len(hands[q]) : hands[q][k] = x /\ <<q, k>> # <<p, i>>
  <2>0. Len(hands[q]) \in Nat
    BY <1>1
  <2>1. CASE SameHand(plan.hands[q], hands[q])
    <3>1. j \in 1 .. Len(hands[q]) /\ hands[q][j] = x
      BY <1>6, <1>7, <2>1 DEF SameHand, Same
    <3>2. q = p => j # i
      BY <1>6, <1>7
    <3>. QED
      BY <3>1, <3>2
  <2>2. CASE Ahead(plan.hands[q], hands[q]) /\ ~SameHand(plan.hands[q], hands[q])
    <3>1. q # p
      BY <2>2
    <3>2. j # 1
      BY <1>6, <1>7, <2>2 DEF Ahead
    <3>3. j - 1 \in 1 .. Len(hands[q]) /\ (j - 1) + 1 = j
      BY <2>0, <2>2, <3>2 DEF Ahead
    <3>4. Same(plan.hands[q][(j - 1) + 1], hands[q][j - 1])
      BY <2>2, <3>3 DEF Ahead
    <3>5. hands[q][j - 1] = x
      BY <1>6, <1>7, <3>3, <3>4 DEF Same
    <3>. QED
      BY <3>1, <3>3, <3>5
  <2>. QED
    BY <2>1, <2>2 DEF PlanFits, HandMatch
<1>9. PICK k \in 1 .. Len(hands[q]) : hands[q][k] = x /\ <<q, k>> # <<p, i>>
  BY <1>8
<1>10. InHands(x) > 1
  <2>1. /\ InHands(x) = Cardinality(Places(hands, x)) /\ IsFiniteSet(Places(hands, x))
        /\ Cardinality(Places(hands, x)) \in Nat
    BY InHandsIsPlaces, PlacesFinite
  <2>2. /\ Len(hands[q]) \in Nat /\ Len(hands[q]) <= HandSize
        /\ Len(hands[p]) \in Nat /\ Len(hands[p]) <= HandSize /\ HandSize \in Nat
    BY <1>1 DEF GameStateAssumption
  <2>3. k \in 1 .. HandSize /\ i \in 1 .. HandSize /\ k <= Len(hands[q]) /\ i <= Len(hands[p])
    BY <2>2
  <2>4. <<q, k>> \in Places(hands, x) /\ <<p, i>> \in Places(hands, x)
    BY <1>9, <2>3 DEF Places, x
  <2>5. {<<q, k>>, <<p, i>>} \subseteq Places(hands, x)
    BY <2>4
  <2>6. Cardinality({<<q, k>>, <<p, i>>}) = 2
    <3>1. IsFiniteSet({<<q, k>>}) /\ Cardinality({<<q, k>>}) = 1
      BY FS_Singleton
    <3>2. <<p, i>> \notin {<<q, k>>}
      BY <1>9
    <3>3. Cardinality({<<q, k>>} \cup {<<p, i>>}) = 1 + 1
      BY <3>1, <3>2, FS_AddElement
    <3>4. {<<q, k>>} \cup {<<p, i>>} = {<<q, k>>, <<p, i>>}
      OBVIOUS
    <3>. QED
      BY <3>3, <3>4
  <2>7. Cardinality({<<q, k>>, <<p, i>>}) <= Cardinality(Places(hands, x))
    BY <2>1, <2>5, FS_Subset
  <2>. QED
    BY <2>1, <2>6, <2>7
<1>11. Base(x) + InHands(x) <= Count(x) /\ InHands(x) \in Nat
  BY <1>1, <1>2, InHandsIsPlaces DEF CardsConserved, Base, Count
<1>. QED
  BY <1>3, <1>10, <1>11

\* The two hands after a card is used: the search has drawn, the engine has not.
LEMMA UsedHands ==
  ASSUME NEW S, NEW R, NEW g \in Seq(S), NEW h \in Seq(R), SameHand(g, h), NEW i \in 1 .. Len(h)
  PROVE  Ahead(<<Unknown>> \o Without(g, i), Without(h, i))
<1>1. Len(g) = Len(h) /\ Len(h) \in Nat /\ \A j \in 1 .. Len(h) : Same(g[j], h[j])
  BY DEF SameHand
<1>2. /\ Without(g, i) \in Seq(S) /\ Len(Without(g, i)) = Len(h) - 1
      /\ Without(h, i) \in Seq(R) /\ Len(Without(h, i)) = Len(h) - 1
      /\ \A j \in 1 .. Len(h) - 1 : /\ Without(g, i)[j] = IF j < i THEN g[j] ELSE g[j + 1]
                                    /\ Without(h, i)[j] = IF j < i THEN h[j] ELSE h[j + 1]
  BY <1>1, WithoutSeq DEF Without
<1>. DEFINE G == Without(g, i)
            H == Without(h, i)
<1>3. \A j \in 1 .. Len(h) - 1 : Same(G[j], H[j])
  BY <1>1, <1>2
<1>. HIDE DEF G, H
<1>4. G \in Seq(S) /\ Len(G) = Len(h) - 1 /\ Len(H) = Len(h) - 1
  BY <1>2 DEF G, H
<1>5. /\ Len(<<Unknown>> \o G) = Len(H) + 1 /\ (<<Unknown>> \o G)[1] = Unknown
      /\ \A j \in 1 .. Len(H) : (<<Unknown>> \o G)[j + 1] = G[j]
  BY <1>1, <1>4
<1>6. Ahead(<<Unknown>> \o G, H)
  BY <1>3, <1>4, <1>5 DEF Ahead
<1>. QED
  BY <1>6 DEF G, H

\* A card drawn where the search has drawn.
LEMMA DrawnHands ==
  ASSUME NEW R, NEW g, NEW h \in Seq(R), Ahead(g, h), NEW c \in R, c[1] \notin Inverted
  PROVE  SameHand(g, <<c>> \o h)
<1>1. Len(h) \in Nat /\ Len(<<c>> \o h) = Len(h) + 1 /\ (<<c>> \o h)[1] = c
  OBVIOUS
<1>2. ASSUME NEW j \in 1 .. Len(h) + 1 PROVE Same(g[j], (<<c>> \o h)[j])
  <2>1. CASE j = 1
    BY <1>1, <2>1 DEF Ahead, Same
  <2>2. CASE j # 1
    <3>1. j - 1 \in 1 .. Len(h) /\ (j - 1) + 1 = j /\ (<<c>> \o h)[j] = h[j - 1]
      BY <1>1, <2>2
    <3>2. Same(g[(j - 1) + 1], h[j - 1])
      BY <3>1 DEF Ahead
    <3>. QED
      BY <3>1, <3>2
  <2>. QED
    BY <2>1, <2>2
<1>. QED
  BY <1>1, <1>2 DEF SameHand, Ahead

\* Whoever is to move has the hand that is imagined.
LEMMA MoverMatches ==
  ASSUME GameStateAssumption, AccountInv, PlanFits, phase = "act", ~ended
  PROVE  SameHand(plan.hands[current_player_index], hands[current_player_index])
<1>1. current_player_index \in ToMove /\ current_player_index \in Players
  BY SeatsToMove DEF AccountInv, TypeOK, TableType, ended
<1>. QED
  BY <1>1 DEF PlanFits, HandMatch

\* A card that the search can name goes where the search puts it.
LEMMA NamedUse ==
  ASSUME GameStateAssumption, AccountInv, AccountInv', PlanFits, phase = "act", ~ended,
         plan' \in SearchState, plan'.max_ranks = plan.max_ranks, plan'.strikes = plan.strikes,
         NEW i \in 1 .. Len(hands[current_player_index]), NEW x \in Identity,
         hands[current_player_index][i] = x, Lands(plan, plan', x),
         \/ StackingButton(x) = "play" /\ PressPlay(i)
         \/ StackingButton(x) = "discard" /\ PressDiscard(i)
  PROVE  SamePoints'
<1>1. /\ plan.play_stacks = play_stacks /\ plan.max_ranks = max_ranks
      /\ plan.clue_tokens = clue_tokens /\ plan.half_clue_token = half_clue_token
      /\ plan.strikes = strikes
  BY DEF PlanFits, SamePoints
<1>2. is_playable(x)
  <2>1. playable_away(plan, x) = 0
    BY DEF Lands, playable
  <2>2. x[1] \in Suits /\ x[2] \in 1 .. Top /\ Top \in Nat
    BY DEF Identity, Ranks, GameStateAssumption
  <2>3. play_stacks[x[1]] \in Int
    BY <2>2 DEF AccountInv, TypeOK, PileType
  <2>. DEFINE r == x[2]
              a == play_stacks[x[1]]
  <2>4. (IF x[1] \in Reversed THEN a - 1 - r ELSE r - (a + 1)) = 0
    BY <1>1, <2>1, Zenon DEF playable_away
  <2>5. r \in Int /\ a \in Int
    BY <2>2, <2>3
  <2>6. is_playable(x) <=> r = a + (IF x[1] \in Reversed THEN -1 ELSE 1)
    BY Zenon DEF is_playable
  <2>. HIDE DEF r, a
  <2>. QED
    BY <2>4, <2>5, <2>6
<1>3. with_play(x) /\ UNCHANGED strikes
  <2>1. CASE x[1] \in Inverted
    <3>1. PressDiscard(i)
      BY <2>1 DEF StackingButton
    <3>2. on_discard(current_player_index, i, FALSE)
      BY <1>2, <3>1 DEF PressDiscard
    <3>. QED
      BY <2>1, <3>2 DEF on_discard
  <2>2. CASE x[1] \notin Inverted
    <3>1. PressPlay(i)
      BY <2>2 DEF StackingButton
    <3>2. on_play(current_player_index, i)
      BY <1>2, <3>1 DEF PressPlay
    <3>. QED
      BY <2>2, <3>2 DEF on_play
  <2>. QED
    BY <2>1, <2>2
<1>4. plan'.play_stacks = play_stacks' /\ plan'.max_ranks = max_ranks'
  BY <1>1, <1>3 DEF with_play, Lands
<1>5. plan'.clue_tokens = clue_tokens' /\ plan'.half_clue_token = half_clue_token'
  <2>1. CASE IsFinal(x)
    <3>1. regain_clue /\ Refunded(plan, plan')
      BY <1>3, <2>1 DEF with_play, Lands
    <3>2. TokenType /\ TokenType' /\ plan'.half_clue_token \in BOOLEAN
      BY SearchFields DEF AccountInv, TypeOK
    <3>. QED
      BY <1>1, <3>1, <3>2, SameRefund
  <2>2. CASE ~IsFinal(x)
    BY <1>1, <1>3, <2>2 DEF with_play, Lands, SameTokens, tokenVars
  <2>. QED
    BY <2>1, <2>2
<1>. QED
  BY <1>1, <1>3, <1>4, <1>5 DEF SamePoints

\* A card that the search cannot name costs nothing that it counts on.
LEMMA UnnamedUse ==
  ASSUME GameStateAssumption, AccountInv, AccountInv', PlanFits, UsefulHeld(plan),
         phase = "act", ~ended,
         plan' \in SearchState, plan'.max_ranks = plan.max_ranks, plan'.strikes = plan.strikes,
         NEW i \in 1 .. Len(hands[current_player_index]),
         plan.hands[current_player_index][i] = Unknown, Throws(plan, plan'), PressDiscard(i)
  PROVE  SamePoints'
<1>. DEFINE p == current_player_index
            x == hands[p][i]
<1>1. /\ plan.play_stacks = play_stacks /\ plan.max_ranks = max_ranks
      /\ plan.clue_tokens = clue_tokens /\ plan.half_clue_token = half_clue_token
      /\ plan.strikes = strikes
  BY DEF PlanFits, SamePoints
<1>2. p \in Players /\ x \in Identity /\ SameHand(plan.hands[p], hands[p])
  BY MoverMatches, HeldIsUnplaced DEF AccountInv, TypeOK, TableType
<1>3. x[1] \notin Inverted
  BY <1>2, NoName DEF SameHand, Same
<1>4. on_discard(p, i, FALSE)
  BY <1>3 DEF PressDiscard
<1>5. regain_clue /\ with_discard(x) /\ UNCHANGED strikes
  BY <1>3, <1>4 DEF on_discard
<1>6. ~(x \in critical_set /\ InReach(x))
  BY <1>2, UnknownIsSpare
<1>7. max_ranks' = max_ranks
  <2>1. PileType /\ PileType'
    BY DEF AccountInv, TypeOK
  <2>2. max_ranks \in [Suits -> 0 .. Top + 1] /\ max_ranks' \in [Suits -> 0 .. Top + 1]
    BY <2>1 DEF PileType
  <2>3. ASSUME NEW u \in Suits PROVE max_ranks'[u] = max_ranks[u]
    <3>1. max_played(u)' = max_played(u)
      <4>1. max_played(u)' = (IF u = x[1] /\ x \in critical_set /\ K(x) - 1 < max_played(u)
                              THEN K(x) - 1 ELSE max_played(u))
        BY <1>2, <1>5, <2>1, DiscardMoves
      <4>2. K(x) \in Int /\ max_played(u) \in Int
        <5>1. K(x) \in Int
          BY <1>2, <2>1, Coordinates
        <5>2. StacksInv
          BY DEF AccountInv, PilesInv
        <5>. QED
          BY <5>1, <5>2 DEF StacksInv
      <4>3. u = x[1] /\ x \in critical_set => ~(K(x) <= max_played(u))
        BY <1>6 DEF InReach
      <4>. HIDE DEF x
      <4>. QED
        BY <4>1, <4>2, <4>3
    <3>2. max_ranks[u] \in Int /\ max_ranks'[u] \in Int /\ Top \in Int
      BY <2>2 DEF GameStateAssumption
    <3>. QED
      BY <3>1, <3>2 DEF max_played
  <2>. QED
    BY <2>2, <2>3
<1>8. plan'.play_stacks = play_stacks' /\ plan'.max_ranks = max_ranks'
  BY <1>1, <1>5, <1>7 DEF with_discard, Throws
<1>9. plan'.clue_tokens = clue_tokens' /\ plan'.half_clue_token = half_clue_token'
  <2>1. Refunded(plan, plan')
    BY DEF Throws
  <2>2. TokenType /\ TokenType' /\ plan'.half_clue_token \in BOOLEAN
    BY SearchFields DEF AccountInv, TypeOK
  <2>. QED
    BY <1>1, <1>5, <2>1, <2>2, SameRefund
<1>. QED
  BY <1>1, <1>5, <1>8, <1>9 DEF SamePoints

\* A clue is imagined as it is given.
LEMMA ClueFits ==
  ASSUME GameStateAssumption, AccountInv, PlanFits, phase = "act", ~ended,
         plan'.max_ranks = plan.max_ranks, plan'.strikes = plan.strikes,
         GiveClue, Clues(plan, plan')
  PROVE  /\ SamePoints' /\ phase' = "act"
         /\ plan'.endgame_turns = endgame_turns' /\ plan'.cards_left = cards_left'
         /\ current_player_index' = next_player_index(current_player_index)
         /\ \A q \in Players : HandMatch(q)'
<1>1. /\ on_clue /\ phase' = "act" /\ SpendEndgameTurn
      /\ current_player_index' = next_player_index(current_player_index)
      /\ clue_tokens' = clue_tokens - 1 /\ hands' = hands /\ cards_left' = cards_left
      /\ half_clue_token' = half_clue_token /\ strikes' = strikes
      /\ play_stacks' = play_stacks /\ max_ranks' = max_ranks
  BY DEF GiveClue, on_clue, pileVars
<1>2. /\ plan'.clue_tokens = plan.clue_tokens - 1 /\ plan'.half_clue_token = plan.half_clue_token
      /\ plan'.play_stacks = plan.play_stacks /\ plan'.cards_left = plan.cards_left
      /\ plan'.hands = plan.hands
      /\ plan'.endgame_turns = IF plan.endgame_turns = NoTurns THEN NoTurns ELSE plan.endgame_turns - 1
  BY DEF Clues
<1>3. plan'.endgame_turns = endgame_turns' /\ plan'.cards_left = cards_left'
  BY <1>1, <1>2 DEF PlanFits, SameRound, SpendEndgameTurn
<1>4. ToMove' \subseteq ToMove
  BY <1>1, TurnPasses DEF AccountInv, ended
<1>5. \A q \in Players : HandMatch(q)'
  BY <1>1, <1>2, <1>4 DEF PlanFits, HandMatch
<1>6. SamePoints'
  BY <1>1, <1>2 DEF PlanFits, SamePoints
<1>. QED
  BY <1>1, <1>3, <1>5, <1>6

\* A card is used as it is imagined, and the next one imagined before it is drawn.
LEMMA UseFits ==
  ASSUME GameStateAssumption, AccountInv, CountdownInv, PlanFits, phase = "act", ~ended,
         NEW i \in 1 .. Len(hands[current_player_index]), CardUse(i),
         Replaces(plan, plan', current_player_index, i)
  PROVE  /\ \A q \in Players : HandMatch(q)'
         /\ phase' = "act" =>
              /\ plan'.endgame_turns = endgame_turns' /\ plan'.cards_left = cards_left'
              /\ current_player_index' = next_player_index(current_player_index)
         /\ phase' = "draw" =>
              /\ plan'.cards_left = cards_left' - 1
              /\ plan'.endgame_turns = (IF cards_left' = 1 THEN NumPlayers ELSE NoTurns)
              /\ current_player_index' = current_player_index
              /\ Ahead(plan'.hands[current_player_index], hands'[current_player_index])
         /\ phase' \in {"act", "draw"}
<1>. DEFINE p == current_player_index
            g == plan.hands[p]
            h == hands[p]
<1>1. /\ drop_from_hand(p, i) /\ SpendEndgameTurn /\ PassTurn /\ cards_left' = cards_left
  BY DEF CardUse
<1>2. /\ p \in Players /\ hands \in [Players -> Seq(Identity)] /\ TypeOK
      /\ endgame_turns \in Int /\ cards_left \in Nat /\ endgame_turns # 0
      /\ cards_left > 0 <=> endgame_turns = NoTurns
      /\ plan.hands \in [Players -> Seq(Identity \cup {Unknown})]
      /\ plan.endgame_turns = endgame_turns /\ plan.cards_left = cards_left
  BY SearchFields DEF AccountInv, TypeOK, TableType, CountdownInv, PlanFits, SameRound, ended
<1>3. /\ cards_left > 0 => phase' = "draw" /\ current_player_index' = p
      /\ cards_left = 0 => phase' = "act" /\ current_player_index' = next_player_index(p)
  BY <1>1, <1>2 DEF PassTurn
<1>4. ToMove' \subseteq ToMove /\ p \notin ToMove'
  BY <1>1, <1>2, <1>3, TurnPasses
<1>5. /\ plan'.hands = [plan.hands EXCEPT ![p] = <<Unknown>> \o Without(g, i)]
      /\ plan'.cards_left = (IF cards_left = 0 THEN 0 ELSE cards_left - 1)
      /\ plan'.endgame_turns = (IF endgame_turns # NoTurns THEN endgame_turns - 1
                                ELSE IF cards_left = 1 THEN NumPlayers ELSE NoTurns)
  BY <1>2 DEF Replaces
<1>6. hands' = [hands EXCEPT ![p] = Without(h, i)]
  BY <1>1 DEF drop_from_hand
<1>7. Ahead(<<Unknown>> \o Without(g, i), Without(h, i))
  <2>1. SameHand(g, h)
    BY MoverMatches
  <2>2. g \in Seq(Identity \cup {Unknown}) /\ h \in Seq(Identity)
    BY <1>2
  <2>. QED
    BY <2>1, <2>2, UsedHands
<1>8. ASSUME NEW q \in Players PROVE HandMatch(q)'
  <2>1. CASE q = p
    <3>1. plan'.hands[q] = <<Unknown>> \o Without(g, i) /\ hands'[q] = Without(h, i)
      BY <1>2, <1>5, <1>6, <2>1
    <3>2. q \notin ToMove' /\ Ahead(plan'.hands[q], hands'[q])
      BY <1>4, <1>7, <2>1, <3>1
    <3>. QED
      BY <3>2 DEF HandMatch
  <2>2. CASE q # p
    <3>1. plan'.hands[q] = plan.hands[q] /\ hands'[q] = hands[q]
      BY <1>2, <1>5, <1>6, <2>2
    <3>. QED
      BY <1>4, <3>1 DEF PlanFits, HandMatch
  <2>. QED
    BY <2>1, <2>2
<1>9. endgame_turns' = IF endgame_turns = NoTurns THEN NoTurns ELSE endgame_turns - 1
  BY <1>1 DEF SpendEndgameTurn
<1>. HIDE DEF g, h
<1>10. NoTurns = -1
  BY DEF NoTurns
<1>11. CASE cards_left = 0
  <2>1. /\ phase' = "act" /\ current_player_index' = next_player_index(p)
        /\ plan'.cards_left = cards_left' /\ plan'.endgame_turns = endgame_turns'
    BY <1>1, <1>2, <1>3, <1>5, <1>9, <1>11
  <2>. QED
    BY <1>8, <2>1
<1>12. CASE cards_left > 0
  <2>1. /\ phase' = "draw" /\ current_player_index' = p
        /\ plan'.cards_left = cards_left' - 1
        /\ plan'.endgame_turns = (IF cards_left' = 1 THEN NumPlayers ELSE NoTurns)
    BY <1>1, <1>2, <1>3, <1>5, <1>12
  <2>2. plan'.hands[p] = <<Unknown>> \o Without(g, i) /\ hands'[p] = Without(h, i)
    BY <1>2, <1>5, <1>6
  <2>3. Ahead(plan'.hands[p], hands'[p])
    BY <1>7, <2>2
  <2>. QED
    BY <1>8, <2>1, <2>3
<1>. QED
  BY <1>2, <1>11, <1>12

\* A move of the plan, taken.
LEMMA FollowFits ==
  ASSUME GameStateAssumption, AccountInv, AccountInv', CountdownInv, PlanFits, phase = "act", ~ended,
         NEW move \in winning_moves(plan, current_player_index),
         plan' = advance_state(plan, move, current_player_index), promised' = promised,
         CASE move[1] = "play" -> PressPlay(move[2])
           [] move[1] = "discard" -> PressDiscard(move[2])
           [] OTHER -> GiveClue
  PROVE  PlanFits' /\ (GiveClue \/ \E i : CardUse(i))
<1>. DEFINE p == current_player_index
<1>1. /\ plan \in SearchState /\ Sane(plan) /\ p \in Players
      /\ plan.endgame_turns = endgame_turns /\ endgame_turns # 0
      /\ clueless_winnable[<<plan, p>>]
  BY DEF PlanFits, SameRound, AccountInv, TypeOK, TableType, ended
<1>2. UsefulHeld(plan)
  BY <1>1, WinIsHeld
<1>3. /\ move \in clueless_moves(plan, p)
      /\ clueless_winnable[<<plan', next_player_index(p)>>]
  BY DEF winning_moves
<1>4. Moves(plan, plan', p, move)
  BY <1>1, <1>3, Advances
<1>5. /\ plan' \in SearchState /\ Sane(plan')
      /\ plan'.max_ranks = plan.max_ranks /\ plan'.strikes = plan.strikes
  BY <1>1, <1>4, StaysSane DEF Moves
<1>6. SUFFICES /\ SamePoints' /\ SameRound' /\ \A q \in Players : HandMatch(q)'
               /\ GiveClue \/ \E i : CardUse(i)
  <2>1. ASSUME SamePoints' PROVE promised' = max_score'
    <3>1. max_ranks' = max_ranks
      BY <1>5, <2>1 DEF SamePoints, PlanFits
    <3>2. max_score' = max_score
      BY <3>1 DEF max_score, max_played
    <3>. QED
      BY <3>2 DEF PlanFits
  <2>. QED
    BY <1>5, <2>1 DEF PlanFits
<1>7. CASE move = DummyClue /\ Clues(plan, plan')
  <2>1. GiveClue
    BY <1>7 DEF DummyClue
  <2>2. /\ SamePoints' /\ phase' = "act"
        /\ plan'.endgame_turns = endgame_turns' /\ plan'.cards_left = cards_left'
        /\ current_player_index' = next_player_index(p)
        /\ \A q \in Players : HandMatch(q)'
    BY <1>5, <1>7, <2>1, ClueFits
  <2>. QED
    BY <1>3, <2>1, <2>2 DEF SameRound
<1>8. ASSUME NEW i \in 1 .. Len(plan.hands[p]), Replaces(plan, plan', p, i),
             \/ /\ plan.hands[p][i] # Unknown /\ move = <<StackingButton(plan.hands[p][i]), i>>
                /\ Lands(plan, plan', plan.hands[p][i])
             \/ plan.hands[p][i] = Unknown /\ move = <<"discard", i>> /\ Throws(plan, plan')
      PROVE  /\ SamePoints' /\ SameRound' /\ \A q \in Players : HandMatch(q)'
             /\ CardUse(i)
  <2>1. SameHand(plan.hands[p], hands[p])
    BY MoverMatches
  <2>2. i \in 1 .. Len(hands[p])
    BY <1>8, <2>1 DEF SameHand
  <2>3. move[2] = i /\ (PressPlay(i) \/ PressDiscard(i))
    BY <1>8 DEF StackingButton
  <2>4. CardUse(i)
    BY <2>3, PressIsUse
  <2>5. SamePoints'
    <3>1. CASE plan.hands[p][i] = Unknown
      <4>1. PressDiscard(i) /\ Throws(plan, plan')
        BY <1>8, <3>1
      <4>. QED
        BY <1>2, <1>5, <2>2, <3>1, <4>1, UnnamedUse
    <3>2. CASE plan.hands[p][i] # Unknown
      <4>. DEFINE x == hands[p][i]
      <4>1. plan.hands[p][i] = x
        BY <2>1, <2>2, <3>2 DEF SameHand, Same
      <4>2. /\ Lands(plan, plan', x) /\ x \in Identity
            /\ \/ StackingButton(x) = "play" /\ PressPlay(i)
               \/ StackingButton(x) = "discard" /\ PressDiscard(i)
        BY <1>8, <3>2, <4>1 DEF Lands, StackingButton
      <4>. QED
        BY <1>5, <2>2, <4>2, NamedUse
    <3>. QED
      BY <3>1, <3>2
  <2>6. /\ \A q \in Players : HandMatch(q)'
        /\ phase' = "act" =>
              /\ plan'.endgame_turns = endgame_turns' /\ plan'.cards_left = cards_left'
              /\ current_player_index' = next_player_index(p)
        /\ phase' = "draw" =>
              /\ plan'.cards_left = cards_left' - 1
              /\ plan'.endgame_turns = (IF cards_left' = 1 THEN NumPlayers ELSE NoTurns)
              /\ current_player_index' = p /\ Ahead(plan'.hands[p], hands'[p])
    BY <1>8, <2>2, <2>4, UseFits
  <2>7. SameRound'
    BY <1>3, <2>6 DEF SameRound
  <2>. QED
    BY <2>4, <2>5, <2>6, <2>7
<1>. QED
  BY <1>4, <1>7, <1>8 DEF Moves

\* The card that was imagined is drawn.
LEMMA DrawFits ==
  ASSUME GameStateAssumption, AccountInv, CountdownInv, DeckPlain, PlanFits, Draw,
         plan' = plan, promised' = promised
  PROVE  PlanFits'
<1>. DEFINE p == current_player_index
<1>1. PICK c \in InDeck : on_draw(p, c)
  BY DEF Draw
<1>2. /\ phase = "draw" /\ cards_left > 0 /\ phase' = "act"
      /\ current_player_index' = next_player_index(p)
  BY DEF Draw
<1>3. /\ hands' = [hands EXCEPT ![p] = <<c>> \o hands[p]] /\ cards_left' = cards_left - 1
      /\ endgame_turns' = IF cards_left = 1 /\ endgame_turns = NoTurns THEN NumPlayers
                          ELSE endgame_turns
      /\ play_stacks' = play_stacks /\ max_ranks' = max_ranks
      /\ clue_tokens' = clue_tokens /\ half_clue_token' = half_clue_token /\ strikes' = strikes
  BY <1>1 DEF on_draw, pileVars, tokenVars
<1>4. /\ p \in Players /\ hands \in [Players -> Seq(Identity)] /\ cards_left \in Nat
      /\ endgame_turns = NoTurns /\ c \in Identity /\ c[1] \notin Inverted
  BY <1>1, <1>2 DEF AccountInv, TypeOK, TableType, CountdownInv, DeckPlain, InDeck
<1>5. ToMove = Players \ {p}
  BY <1>2, <1>4 DEF ToMove
<1>6. ASSUME NEW q \in Players PROVE SameHand(plan.hands[q], hands'[q])
  <2>1. CASE q = p
    <3>1. hands'[q] = <<c>> \o hands[p]
      BY <1>3, <1>4, <2>1
    <3>2. hands[p] \in Seq(Identity)
      BY <1>4
    <3>3. Ahead(plan.hands[p], hands[p])
      BY <1>2 DEF PlanFits, SameRound
    <3>. QED
      BY <1>4, <2>1, <3>1, <3>2, <3>3, DrawnHands
  <2>2. CASE q # p
    <3>1. hands'[q] = hands[q] /\ q \in ToMove
      BY <1>3, <1>4, <1>5, <2>2
    <3>. QED
      BY <3>1 DEF PlanFits, HandMatch
  <2>. QED
    BY <2>1, <2>2
<1>7. SamePoints'
  BY <1>3 DEF PlanFits, SamePoints
<1>8. SameRound'
  BY <1>2, <1>3, <1>4 DEF PlanFits, SameRound
<1>9. promised' = max_score'
  BY <1>3 DEF PlanFits, max_score, max_played
<1>. QED
  BY <1>6, <1>7, <1>8, <1>9 DEF PlanFits, HandMatch

LEMMA PromiseFits ==
  ASSUME GameStateAssumption, AccountInv, CountdownInv, Promise
  PROVE  PlanFits'
<1>1. /\ plan' = Now /\ promised' = max_score /\ UNCHANGED vars /\ phase = "act"
      /\ clueless_winnable[<<Now, current_player_index>>]
  BY DEF Promise
<1>2. /\ play_stacks' = play_stacks /\ max_ranks' = max_ranks
      /\ clue_tokens' = clue_tokens /\ half_clue_token' = half_clue_token /\ strikes' = strikes
      /\ endgame_turns' = endgame_turns /\ cards_left' = cards_left /\ hands' = hands
      /\ current_player_index' = current_player_index /\ phase' = "act"
  BY <1>1 DEF vars, pileVars, setVars, tokenVars, tableVars
<1>3. SamePoints' /\ SameRound'
  BY <1>1, <1>2 DEF SamePoints, SameRound, Now
<1>4. \A q \in Players : SameHand(plan'.hands[q], hands'[q])
  BY <1>1, <1>2 DEF SameHand, Same, Now
<1>5. promised' = max_score'
  BY <1>1, <1>2 DEF max_score, max_played
<1>6. plan' \in SearchState /\ Sane(plan')
  BY <1>1, NowIsSane
<1>. QED
  BY <1>3, <1>4, <1>5, <1>6 DEF PlanFits, HandMatch

LEMMA PlanStep ==
  ASSUME GameStateAssumption, PlanInv, [EndNext]_endVars
  PROVE  PlanInv'
<1>1. [Next]_vars /\ AccountInv /\ CountdownInv /\ DeckPlain
  BY EndSteps DEF PlanInv
<1>2. AccountInv'
  BY <1>1, AccountStep
<1>3. CountdownInv'
  BY <1>1, CountdownStep DEF Countdown, CountdownInv
<1>4. CASE Wander
  <2>1. GiveClue \/ Draw \/ \E i : CardUse(i)
    BY <1>4, PressIsUse DEF Wander
  <2>2. plan' = NoPlan
    BY <1>4 DEF Wander
  <2>. QED
    BY <1>1, <1>2, <1>3, <2>1, <2>2, DeckStaysPlain DEF PlanInv
<1>5. CASE Promise
  <2>1. UNCHANGED vars
    BY <1>5 DEF Promise
  <2>. QED
    BY <1>1, <1>2, <1>3, <1>5, <2>1, DeckStaysPlain, PromiseFits DEF PlanInv
<1>6. CASE Follow
  <2>1. PICK move \in winning_moves(plan, current_player_index) :
          /\ plan' = advance_state(plan, move, current_player_index)
          /\ CASE move[1] = "play" -> PressPlay(move[2])
               [] move[1] = "discard" -> PressDiscard(move[2])
               [] OTHER -> GiveClue
    BY <1>6 DEF Follow
  <2>2. plan # NoPlan /\ phase = "act" /\ ~ended /\ promised' = promised
    BY <1>6 DEF Follow
  <2>3. PlanFits
    BY <2>2 DEF PlanInv
  <2>4. PlanFits' /\ (GiveClue \/ \E i : CardUse(i))
    BY <1>1, <1>2, <2>1, <2>2, <2>3, FollowFits
  <2>. QED
    BY <1>1, <1>2, <1>3, <2>4, DeckStaysPlain DEF PlanInv
<1>7. CASE FollowDraw
  <2>1. plan # NoPlan /\ Draw /\ plan' = plan /\ promised' = promised
    BY <1>7 DEF FollowDraw
  <2>2. PlanFits'
    BY <1>1, <2>1, DrawFits DEF PlanInv
  <2>. QED
    BY <1>1, <1>2, <1>3, <2>1, <2>2, DeckStaysPlain DEF PlanInv
<1>8. CASE UNCHANGED endVars
  <2>1. /\ UNCHANGED vars /\ plan' = plan /\ promised' = promised
        /\ play_stacks' = play_stacks /\ max_ranks' = max_ranks
        /\ clue_tokens' = clue_tokens /\ half_clue_token' = half_clue_token /\ strikes' = strikes
        /\ endgame_turns' = endgame_turns /\ cards_left' = cards_left /\ hands' = hands
        /\ current_player_index' = current_player_index /\ phase' = phase
    BY <1>8 DEF endVars, vars, pileVars, setVars, tokenVars, tableVars
  <2>2. DeckPlain'
    BY <1>1, <2>1, DeckStaysPlain
  <2>3. ToMove' = ToMove /\ max_score' = max_score
    BY <2>1 DEF ToMove, max_score, max_played
  <2>4. ASSUME PlanFits PROVE PlanFits'
    <3>1. SamePoints' /\ SameRound' /\ \A q \in Players : HandMatch(q)'
      BY <2>1, <2>3, <2>4 DEF PlanFits, SamePoints, SameRound, HandMatch
    <3>2. plan' \in SearchState /\ Sane(plan') /\ promised' = max_score'
      BY <2>1, <2>3, <2>4 DEF PlanFits
    <3>. QED
      BY <3>1, <3>2 DEF PlanFits
  <2>. QED
    BY <1>2, <1>3, <2>1, <2>2, <2>4 DEF PlanInv
<1>. QED
  BY <1>4, <1>5, <1>6, <1>7, <1>8 DEF EndNext, EndOfGame

LEMMA PlanInit ==
  ASSUME GameStateAssumption, EndingsAssumption, PlainDecks, EndInit
  PROVE  PlanInv
<1>1. PICK e \in Endings : \A x \in InDeck : \E i \in DOMAIN e.deck : e.deck[i] = x
  BY EndAccount
<1>2. DeckPlain
  BY <1>1 DEF PlainDecks, DeckPlain
<1>3. plan = NoPlan
  BY DEF EndInit
<1>. QED
  BY <1>2, <1>3, EndAccount DEF PlanInv

\* The invariant says what the two properties ask.
LEMMA PlanIsKept ==
  ASSUME GameStateAssumption, PlanInv
  PROVE  ImaginedIsReal /\ PromiseKept
<1>. SUFFICES ASSUME plan # NoPlan, phase = "act" PROVE ImaginedIsReal /\ PromiseKept
  BY DEF ImaginedIsReal, PromiseKept
<1>1. /\ PlanFits /\ AccountInv /\ plan \in SearchState
      /\ plan.play_stacks = play_stacks /\ plan.max_ranks = max_ranks
      /\ plan.clue_tokens = clue_tokens /\ plan.half_clue_token = half_clue_token
      /\ plan.strikes = strikes
      /\ plan.endgame_turns = endgame_turns /\ plan.cards_left = cards_left
      /\ clueless_winnable[<<plan, current_player_index>>] /\ promised = max_score
      /\ current_player_index \in Players
  BY DEF PlanInv, PlanFits, SamePoints, SameRound, AccountInv, TypeOK, TableType
<1>2. ImaginedIsReal
  <2>1. DOMAIN plan \ {"hands", "discard_stacks", "base_count", "critical_set"}
          \subseteq {"play_stacks", "max_ranks", "clue_tokens", "half_clue_token", "strikes",
                     "endgame_turns", "cards_left"}
    BY <1>1 DEF SearchState
  <2>2. \A f \in {"play_stacks", "max_ranks", "clue_tokens", "half_clue_token", "strikes",
                  "endgame_turns", "cards_left"} : plan[f] = Now[f]
    BY <1>1 DEF Now
  <2>3. ASSUME NEW q \in Players, NEW i \in 1 .. HandSize, i \in DOMAIN hands[q],
               Len(hands[q]) = Len(plan.hands[q])
        PROVE  plan.hands[q][i] \in {Unknown, hands[q][i]}
    <3>1. hands[q] \in Seq(Identity) /\ Len(hands[q]) \in Nat /\ DOMAIN hands[q] = 1 .. Len(hands[q])
      BY <1>1 DEF AccountInv, TypeOK, TableType
    <3>2. SameHand(plan.hands[q], hands[q])
      BY <1>1, <2>3, <3>1 DEF PlanFits, HandMatch, Ahead
    <3>. QED
      BY <2>3, <3>1, <3>2 DEF SameHand, Same
  <2>. QED
    BY <2>1, <2>2, <2>3 DEF ImaginedIsReal
<1>3. PromiseKept
  <2>1. score_of(plan) = score /\ max_score_of(plan) = max_score
    BY <1>1 DEF score_of, max_score_of, score, max_score, InPlayOrder, played_count, max_played
  <2>2. \/ score_of(plan) = max_score_of(plan)
        \/ ~unwinnable_state(plan, current_player_index)
           /\ winning_moves(plan, current_player_index) # {}
    BY <1>1, Winnable
  <2>3. ~unwinnable_state(plan, current_player_index) => ~ended
    BY <1>1, <2>1 DEF unwinnable_state, ended_in, ended
  <2>. QED
    BY <1>1, <2>1, <2>2, <2>3 DEF PromiseKept
<1>. QED
  BY <1>2, <1>3

\* ImaginedIsReal of the code: as long as no inverted card is left in the deck, the state
\* that clueless_winnable imagines move by move is the state the game comes to.
THEOREM ImaginedIsAlwaysReal ==
  ASSUME PlainDecks
  PROVE  EndSpec => []ImaginedIsReal
<1>1. EndInit => PlanInv
  BY PlanInit, GameStateAssumption, EndingsAssumption
<1>2. PlanInv /\ [EndNext]_endVars => PlanInv'
  BY PlanStep, GameStateAssumption
<1>3. PlanInv => ImaginedIsReal
  BY PlanIsKept, GameStateAssumption
<1>. QED
  BY <1>1, <1>2, <1>3, PTL DEF EndSpec

\* A win promised by clueless_winnable is a win: it needs no card that is still in the
\* deck, and no draw takes it away.
THEOREM PromisesAreKept ==
  ASSUME PlainDecks
  PROVE  EndSpec => []PromiseKept
<1>1. EndInit => PlanInv
  BY PlanInit, GameStateAssumption, EndingsAssumption
<1>2. PlanInv /\ [EndNext]_endVars => PlanInv'
  BY PlanStep, GameStateAssumption
<1>3. PlanInv => PromiseKept
  BY PlanIsKept, GameStateAssumption
<1>. QED
  BY <1>1, <1>2, <1>3, PTL DEF EndSpec

-----------------------------------------------------------------------------
(* The last round. *)

\* Counting up to N.
LEMMA Counting ==
  ASSUME NEW N \in Nat, NEW S, 0 \in S, \A n \in 0 .. N - 1 : n \in S => n + 1 \in S
  PROVE  \A n \in 0 .. N : n \in S
<1>. DEFINE B == {n \in Nat : n <= N /\ n \notin S}
<1>1. SUFFICES ASSUME NEW b \in B PROVE FALSE
  OBVIOUS
<1>2. B \in SUBSET Nat
  OBVIOUS
<1>3. PICK m \in B : \A k \in B : ~(k < m)
  <2>. HIDE DEF B
  <2>. QED
    BY <1>1, <1>2, Least
<1>4. m \in Nat /\ m <= N /\ m \notin S /\ m # 0
  OBVIOUS
<1>5. m - 1 \in 0 .. N - 1 /\ m - 1 < m /\ (m - 1) + 1 = m
  BY <1>4
<1>6. m - 1 \in S
  BY <1>3, <1>5
<1>. QED
  BY <1>4, <1>5, <1>6

\* The seats of the last round, each once.
Seat(p, k) == (p + k) % NumPlayers
LEMMA SeatsInTurn ==
  ASSUME GameStateAssumption, NEW p \in Players, NEW j \in 0 .. NumPlayers - 1
  PROVE  /\ Seat(p, j) \in Players /\ Seat(p, 0) = p
         /\ j < NumPlayers - 1 => Seat(next_player_index(p), j) = Seat(p, j + 1)
         /\ \A k \in 0 .. NumPlayers - 1 : Seat(p, j) = Seat(p, k) => j = k
<1>1. NumPlayers \in Nat \ {0} /\ Players = 0 .. NumPlayers - 1
  BY DEF GameStateAssumption, Players
<1>2. /\ Seat(p, j) \in Players /\ Seat(p, 0) = p
      /\ Seat(next_player_index(p), j) = Seat(p, j + 1)
  <2>1. p \in 0 .. NumPlayers - 1
    BY <1>1
  <2>2. /\ \A k \in 0 .. NumPlayers - 1 : (p + k) % NumPlayers \in 0 .. NumPlayers - 1
        /\ \A k \in 0 .. NumPlayers - 1 :
             (((p + 1) % NumPlayers) + k) % NumPlayers = (p + (k + 1)) % NumPlayers
        /\ (p + 0) % NumPlayers = p
    BY <1>1, <2>1, Passing, Zenon
  <2>. QED
    BY <1>1, <2>2, Zenon DEF Seat, next_player_index
<1>3. ASSUME NEW k \in 0 .. NumPlayers - 1
      PROVE  Seat(p, k) = IF p + k < NumPlayers THEN p + k ELSE p + k - NumPlayers
  <2>1. CASE p + k < NumPlayers
    <3>1. p + k \in 0 .. NumPlayers - 1
      BY <1>1, <2>1
    <3>. QED
      BY <1>1, <2>1, <3>1, SmallMod DEF Seat
  <2>2. CASE ~(p + k < NumPlayers)
    <3>1. p + k - NumPlayers \in 0 .. NumPlayers - 1 /\ (p + k - NumPlayers) + NumPlayers = p + k
      BY <1>1, <2>2
    <3>2. ((p + k - NumPlayers) + NumPlayers) % NumPlayers = p + k - NumPlayers
      BY <1>1, <3>1, SmallMod
    <3>. QED
      BY <2>2, <3>1, <3>2 DEF Seat
  <2>. QED
    BY <2>1, <2>2
<1>4. ASSUME NEW k \in 0 .. NumPlayers - 1, Seat(p, j) = Seat(p, k) PROVE j = k
  <2>1. /\ Seat(p, k) = IF p + k < NumPlayers THEN p + k ELSE p + k - NumPlayers
        /\ Seat(p, j) = IF p + j < NumPlayers THEN p + j ELSE p + j - NumPlayers
    BY <1>3
  <2>. QED
    BY <1>1, <1>4, <2>1
<1>. QED
  BY <1>2, <1>4

\* Whoever still has a turn holds a full hand.
FullHands ==
  /\ \A q \in Players : q \in ToMove => Len(hands[q]) = HandSize
  /\ phase = "draw" => Len(hands[current_player_index]) = HandSize - 1
SeatsInv == AccountInv /\ CountdownInv /\ FullHands

LEMMA SeatsInit ==
  ASSUME GameStateAssumption, EndingsAssumption, EndInit
  PROVE  SeatsInv
<1>1. AccountInv /\ CountdownInv
  BY EndAccount
<1>2. PICK e \in Endings : hands = e.hands
  BY DEF EndInit
<1>3. HandSize \in Nat /\ phase = "act"
  BY DEF GameStateAssumption, EndInit
<1>4. ASSUME NEW q \in Players PROVE Len(hands[q]) = HandSize
  <2>1. hands[q] \in [1 .. HandSize -> Identity]
    BY <1>2 DEF EndingsAssumption
  <2>. QED
    BY <1>3, <2>1, HandIsSeq
<1>. QED
  BY <1>1, <1>3, <1>4, SeatsToMove DEF SeatsInv, FullHands, AccountInv

LEMMA SeatsStep ==
  ASSUME GameStateAssumption, SeatsInv, [EndNext]_endVars
  PROVE  SeatsInv'
<1>1. [Next]_vars /\ AccountInv /\ CountdownInv /\ FullHands
  BY EndSteps DEF SeatsInv
<1>2. AccountInv'
  BY <1>1, AccountStep
<1>3. CountdownInv'
  BY <1>1, CountdownStep DEF Countdown, CountdownInv
<1>. DEFINE p == current_player_index
<1>4. /\ TypeOK /\ p \in Players /\ hands \in [Players -> Seq(Identity)] /\ ToMove \subseteq Players
      /\ HandSize \in Nat
  BY <1>1, SeatsToMove DEF AccountInv, TypeOK, TableType, GameStateAssumption
<1>5. CASE GiveClue
  <2>1. /\ phase = "act" /\ endgame_turns # 0 /\ SpendEndgameTurn /\ hands' = hands /\ phase' = "act"
        /\ current_player_index' = next_player_index(p)
    BY <1>5 DEF GiveClue, on_clue, ended
  <2>2. ToMove' \subseteq ToMove
    BY <1>4, <2>1, TurnPasses
  <2>. QED
    BY <1>1, <1>2, <1>3, <2>1, <2>2 DEF SeatsInv, FullHands
<1>6. CASE \E i : CardUse(i)
  <2>1. PICK i : CardUse(i)
    BY <1>6
  <2>2. /\ phase = "act" /\ endgame_turns # 0 /\ SpendEndgameTurn /\ PassTurn
        /\ i \in 1 .. Len(hands[p]) /\ hands' = [hands EXCEPT ![p] = Without(hands[p], i)]
    BY <2>1 DEF CardUse, ended, drop_from_hand
  <2>3. /\ cards_left > 0 => phase' = "draw" /\ current_player_index' = p /\ endgame_turns = NoTurns
        /\ ~(cards_left > 0) => phase' = "act" /\ current_player_index' = next_player_index(p)
                                /\ endgame_turns # NoTurns
    BY <1>1, <2>2 DEF PassTurn, CountdownInv
  <2>4. ToMove' \subseteq ToMove /\ p \notin ToMove'
    BY <1>4, <2>2, <2>3, TurnPasses
  <2>5. p \in ToMove
    BY <1>4, <2>2, SeatsToMove
  <2>6. hands'[p] = Without(hands[p], i) /\ \A q \in Players \ {p} : hands'[q] = hands[q]
    BY <1>4, <2>2
  <2>7. Len(hands'[p]) = HandSize - 1
    <3>1. Len(hands[p]) = HandSize /\ HandSize > 0
      BY <1>1, <1>4, <2>2, <2>5 DEF FullHands
    <3>2. Len(Without(hands[p], i)) = HandSize - 1
      BY <1>4, <3>1 DEF Without
    <3>. QED
      BY <2>6, <3>2
  <2>8. \A q \in Players : q \in ToMove' => Len(hands'[q]) = HandSize
    BY <1>1, <1>4, <2>4, <2>6 DEF FullHands
  <2>. QED
    BY <1>2, <1>3, <2>3, <2>7, <2>8 DEF SeatsInv, FullHands
<1>7. CASE Draw
  <2>1. PICK c \in InDeck : on_draw(p, c)
    BY <1>7 DEF Draw
  <2>2. /\ phase = "draw" /\ cards_left > 0 /\ phase' = "act" /\ endgame_turns = NoTurns
        /\ hands' = [hands EXCEPT ![p] = <<c>> \o hands[p]]
    BY <1>1, <1>7, <2>1 DEF Draw, on_draw, CountdownInv
  <2>3. Len(hands[p]) = HandSize - 1 /\ hands[p] \in Seq(Identity)
    BY <1>1, <1>4, <2>2 DEF FullHands
  <2>4. Len(hands'[p]) = HandSize
    <3>1. Len(<<c>> \o hands[p]) = 1 + Len(hands[p])
      BY <2>3
    <3>. QED
      BY <1>4, <2>2, <2>3, <3>1
  <2>5. ASSUME NEW q \in Players PROVE Len(hands'[q]) = HandSize
    <3>1. CASE q # p
      BY <1>1, <1>4, <2>2, <3>1 DEF FullHands, ToMove
    <3>. QED
      BY <2>4, <3>1
  <2>. QED
    BY <1>2, <1>3, <2>2, <2>5 DEF SeatsInv, FullHands
<1>8. CASE UNCHANGED vars
  <2>1. hands' = hands /\ phase' = phase /\ current_player_index' = p /\ endgame_turns' = endgame_turns
    BY <1>8 DEF vars, tableVars
  <2>2. ToMove' = ToMove
    BY <2>1 DEF ToMove
  <2>. QED
    BY <1>1, <1>2, <1>3, <2>1, <2>2 DEF SeatsInv, FullHands
<1>9. GiveClue \/ Draw \/ UNCHANGED vars \/ \E i : CardUse(i)
  <2>1. ASSUME Follow PROVE GiveClue \/ \E i : PressPlay(i) \/ PressDiscard(i)
    <3>1. PICK move \in winning_moves(plan, p) :
            CASE move[1] = "play" -> PressPlay(move[2])
              [] move[1] = "discard" -> PressDiscard(move[2])
              [] OTHER -> GiveClue
      BY <2>1 DEF Follow
    <3>. QED
      BY <3>1
  <2>. QED
    BY <2>1, PressIsUse DEF EndNext, Wander, Promise, FollowDraw, EndOfGame, endVars
<1>. QED
  BY <1>5, <1>6, <1>7, <1>8, <1>9

\* A sure move stacks a card that can be stacked, and that the suit needs.
LEMMA SureCard ==
  ASSUME GameStateAssumption, AccountInv, CountdownInv,
         NEW insights, NEW q \in Players, SureMove(Now, Readings(insights), q) # NoMove
  PROVE  \E i \in 1 .. Len(hands[q]) :
           /\ SureMove(Now, Readings(insights), q) = <<StackingButton(hands[q][i]), i>>
           /\ hands[q][i] \in Identity /\ playable(Now, hands[q][i])
<1>. DEFINE reads == Readings(insights)
            S == obvious_playables(Now, reads, q)
            i == Leftmost(S)
<1>1. hands \in [Players -> Seq(Identity)] /\ Now.hands = hands
  BY DEF AccountInv, TypeOK, TableType, Now
<1>2. S \subseteq 1 .. Len(hands[q]) /\ S # {} /\ DOMAIN hands[q] = 1 .. Len(hands[q])
  <2>1. DOMAIN hands[q] = 1 .. Len(hands[q])
    BY <1>1
  <2>. QED
    BY <1>1, <2>1 DEF SureMove, obvious_playables
<1>3. SureMove(Now, reads, q) = <<StackingButton(hands[q][i]), i>>
  BY <1>1, <1>2 DEF SureMove
<1>4. i \in S
  <2>1. S \in SUBSET Nat
    BY <1>2
  <2>. HIDE DEF S
  <2>2. \E m \in S : \A k \in S : ~(k < m)
    BY <1>2, <2>1, Least
  <2>3. \E m \in S : \A k \in S : m <= k
    BY <2>1, <2>2
  <2>. QED
    BY <2>3 DEF Leftmost
<1>5. i \in 1 .. Len(hands[q]) /\ sure(Now, reads[q][i])
  BY <1>2, <1>4 DEF obvious_playables
<1>. HIDE DEF i
<1>6. hands[q][i] \in Identity
  BY <1>1, <1>5
<1>7. reads[q][i] = Reading(hands[q][i], insights[q])
  BY <1>2, <1>5 DEF Readings
<1>8. hands[q][i] \in reads[q][i]
  BY <1>6, <1>7 DEF Reading
<1>. QED
  BY <1>3, <1>5, <1>6, <1>8 DEF sure

\* Points of the engine, when no suit is reversed.
LEMMA Upward ==
  ASSUME GameStateAssumption, AccountInv, CountdownInv, Reversed = {}
  PROVE  /\ \A u \in Suits : /\ play_stacks[u] \in 0 .. Top /\ max_ranks[u] \in 0 .. Top
                             /\ play_stacks[u] <= max_ranks[u]
         /\ \A x \in Identity : /\ playable(Now, x) => x[2] = play_stacks[x[1]] + 1
                                /\ playable(Now, x) /\ Sees(Now, x) => x[2] <= max_ranks[x[1]]
<1>1. \A u \in Suits : /\ Height(Now, u) = play_stacks[u] /\ Limit(Now, u) = max_ranks[u]
                       /\ Height(Now, u) \in 0 .. Top /\ Limit(Now, u) \in 0 .. Top
                       /\ Height(Now, u) <= Limit(Now, u)
  BY NowIsSane DEF Sane, Height, Limit, InPlayOrder, Now
<1>2. ASSUME NEW x \in Identity, playable(Now, x)
      PROVE  /\ x[2] = play_stacks[x[1]] + 1
             /\ Sees(Now, x) => x[2] <= max_ranks[x[1]]
  <2>1. x[1] \in Suits /\ K(x) = x[2] /\ K(x) = Height(Now, x[1]) + 1
    BY <1>2, NowIsSane, SearchOrder DEF Identity, K, KthRank
  <2>2. Sees(Now, x) => K(x) # Limit(Now, x[1]) + 1
    BY NowIsSane DEF Sane
  <2>3. Height(Now, x[1]) \in Int /\ Limit(Now, x[1]) \in Int /\ Height(Now, x[1]) <= Limit(Now, x[1])
    BY <1>1, <2>1
  <2>. QED
    BY <1>1, <2>1, <2>2, <2>3
<1>. QED
  BY <1>1, <1>2

\* A card thrown away changes the piles and what they still allow, nothing else.
LEMMA DiscardedFields ==
  ASSUME GameStateAssumption, NEW s \in SearchState, NEW id \in Identity
  PROVE  LET t == discarded(s, id)
         IN  /\ t \in SearchState /\ t.play_stacks = s.play_stacks /\ t.strikes = s.strikes
             /\ t.endgame_turns = s.endgame_turns /\ t.hands = s.hands
<1>. DEFINE ds == [s.discard_stacks EXCEPT ![id[1]][id[2]] = @ + 1]
            bc == [s.base_count EXCEPT ![id[1]][id[2]] = @ + 1]
            u == [s EXCEPT !.discard_stacks = ds, !.base_count = bc]
<1>1. u = [s EXCEPT !.discard_stacks[id[1]][id[2]] = @ + 1, !.base_count[id[1]][id[2]] = @ + 1]
  BY DEF SearchState
<1>2. ds \in [Suits -> [Ranks -> Nat]] /\ bc \in [Suits -> [Ranks -> Nat]]
  BY OneMoreCopy DEF SearchState, Identity
<1>3. capped_rank(s, id) \in Int /\ id[1] \in Suits
  BY SearchFields DEF capped_rank, Larger, Smaller, Identity, Ranks, GameStateAssumption
<1>. HIDE DEF ds, bc
<1>4. ASSUME NEW m \in [Suits -> Int], NEW c \in SUBSET Identity
      PROVE  LET t == [u EXCEPT !.max_ranks = m, !.critical_set = c]
             IN  /\ t \in SearchState /\ t.play_stacks = s.play_stacks /\ t.strikes = s.strikes
                 /\ t.endgame_turns = s.endgame_turns /\ t.hands = s.hands
  BY <1>2 DEF SearchState
<1>5. u.max_ranks \in [Suits -> Int] /\ u.critical_set \in SUBSET Identity
      /\ u.critical_set = s.critical_set
      /\ u = [u EXCEPT !.max_ranks = u.max_ranks, !.critical_set = u.critical_set]
  BY <1>2 DEF SearchState
<1>6. \E m \in [Suits -> Int], c \in SUBSET Identity :
         discarded(s, id) = [u EXCEPT !.max_ranks = m, !.critical_set = c]
  <2>1. CASE id \in s.critical_set
    <3>. DEFINE m == [u.max_ranks EXCEPT ![id[1]] = capped_rank(s, id)]
                c == u.critical_set \ {id}
    <3>1. discarded(s, id) = [u EXCEPT !.max_ranks[id[1]] = capped_rank(s, id), !.critical_set = @ \ {id}]
      BY <1>1, <2>1 DEF discarded
    <3>2. m \in [Suits -> Int] /\ c \in SUBSET Identity
      BY <1>3, <1>5
    <3>3. discarded(s, id) = [u EXCEPT !.max_ranks = m, !.critical_set = c]
      BY <3>1
    <3>. QED
      BY <3>2, <3>3
  <2>2. CASE id \notin s.critical_set
    <3>1. \/ discarded(s, id) = [u EXCEPT !.critical_set = @ \cup {id}]
          \/ discarded(s, id) = u
      BY <1>1, <2>2 DEF discarded
    <3>2. [u EXCEPT !.critical_set = @ \cup {id}]
            = [u EXCEPT !.max_ranks = u.max_ranks, !.critical_set = u.critical_set \cup {id}]
      BY DEF SearchState
    <3>3. u.critical_set \cup {id} \in SUBSET Identity
      BY <1>5
    <3>. QED
      BY <1>5, <3>1, <3>2, <3>3, Zenon
  <2>. QED
    BY <2>1, <2>2
<1>7. PICK m \in [Suits -> Int], c \in SUBSET Identity :
         discarded(s, id) = [u EXCEPT !.max_ranks = m, !.critical_set = c]
  BY <1>6
<1>. HIDE DEF u
<1>8. LET t == [u EXCEPT !.max_ranks = m, !.critical_set = c]
      IN  /\ t \in SearchState /\ t.play_stacks = s.play_stacks /\ t.strikes = s.strikes
          /\ t.endgame_turns = s.endgame_turns /\ t.hands = s.hands
  BY <1>4
<1>. QED
  BY <1>7, <1>8

\* A state of the last round: n turns of it taken from p on, nothing struck, each suit at
\* most one card further, those of the cards that are credited to who has moved.
Along(r, reads, p, n) ==
  /\ r \in SearchState /\ r.strikes = strikes /\ r.endgame_turns = endgame_turns - n
  /\ \A k \in n .. endgame_turns - 1 : r.hands[Seat(p, k)] = hands[Seat(p, k)]
  /\ \A u \in Suits : /\ r.play_stacks[u] \in {play_stacks[u], play_stacks[u] + 1}
                       /\ r.play_stacks[u] <= max_ranks[u]
  /\ \A k \in 0 .. n - 1 :
       LET q == Seat(p, k)
           move == SureMove(Now, reads, q)
       IN  move # NoMove =>
             LET u == hands[q][move[2]][1] IN r.play_stacks[u] = play_stacks[u] + 1

\* The last round is no longer than a turn of each.
LEMMA LastRound ==
  ASSUME GameStateAssumption, AccountInv, ~ended, endgame_turns # NoTurns
  PROVE  endgame_turns \in 1 .. NumPlayers /\ NumPlayers \in Nat \ {0}
  BY DEF AccountInv, TypeOK, TableType, ended, NoTurns, GameStateAssumption

\* A card of the seat whose turn it is, stacked or not.
LEMMA AlongOn ==
  ASSUME GameStateAssumption, AccountInv, CountdownInv, ~ended, endgame_turns # NoTurns, Reversed = {},
         NEW insights, NEW p \in Players, NEW n \in 0 .. endgame_turns - 1,
         NEW r, NEW t, Along(r, Readings(insights), p, n),
         t \in SearchState, t.strikes = r.strikes, t.endgame_turns = r.endgame_turns - 1,
         \A q \in Players \ {Seat(p, n)} : t.hands[q] = r.hands[q],
         \/ /\ t.play_stacks = r.play_stacks
            /\ LET move == SureMove(Now, Readings(insights), Seat(p, n))
               IN  move # NoMove => ~playable(r, hands[Seat(p, n)][move[2]])
         \/ \E i \in 1 .. Len(hands[Seat(p, n)]) :
              LET x == hands[Seat(p, n)][i]
                  move == SureMove(Now, Readings(insights), Seat(p, n))
              IN  /\ playable(Now, x) /\ playable(r, x)
                  /\ t.play_stacks = [r.play_stacks EXCEPT ![x[1]] = x[2]]
                  /\ move # NoMove => move[2] = i
  PROVE  Along(t, Readings(insights), p, n + 1)
<1>. DEFINE q == Seat(p, n)
            reads == Readings(insights)
            T == endgame_turns
            card(k) == hands[Seat(p, k)][SureMove(Now, reads, Seat(p, k))[2]]
            sures(k) == SureMove(Now, reads, Seat(p, k)) # NoMove
<1>1. T \in 1 .. NumPlayers /\ NumPlayers \in Nat \ {0}
  BY LastRound
<1>2. /\ r \in SearchState /\ r.strikes = strikes /\ r.endgame_turns = T - n
      /\ \A k \in n .. T - 1 : r.hands[Seat(p, k)] = hands[Seat(p, k)]
      /\ \A u \in Suits : /\ r.play_stacks[u] \in {play_stacks[u], play_stacks[u] + 1}
                           /\ r.play_stacks[u] <= max_ranks[u]
      /\ \A k \in 0 .. n - 1 : sures(k) => r.play_stacks[card(k)[1]] = play_stacks[card(k)[1]] + 1
  BY DEF Along
<1>3. \A k \in 0 .. T - 1 : Seat(p, k) \in Players /\ (Seat(p, k) = q => k = n)
  BY <1>1, SeatsInTurn
<1>4. t.strikes = strikes /\ t.endgame_turns = T - (n + 1)
  BY <1>1, <1>2
<1>5. \A k \in n + 1 .. T - 1 : t.hands[Seat(p, k)] = hands[Seat(p, k)]
  BY <1>1, <1>2, <1>3
<1>6. \A k \in 0 .. T - 1 : sures(k) => card(k) \in Identity /\ playable(Now, card(k))
                                        /\ Sees(Now, card(k)) /\ card(k)[1] \in Suits
  <2>. SUFFICES ASSUME NEW k \in 0 .. T - 1, sures(k)
                PROVE  card(k) \in Identity /\ playable(Now, card(k)) /\ Sees(Now, card(k))
                       /\ card(k)[1] \in Suits
    OBVIOUS
  <2>1. Seat(p, k) \in Players
    BY <1>3
  <2>2. PICK i \in 1 .. Len(hands[Seat(p, k)]) :
           /\ SureMove(Now, reads, Seat(p, k)) = <<StackingButton(hands[Seat(p, k)][i]), i>>
           /\ hands[Seat(p, k)][i] \in Identity /\ playable(Now, hands[Seat(p, k)][i])
    BY <2>1, SureCard
  <2>3. card(k) = hands[Seat(p, k)][i]
    BY <2>2
  <2>. QED
    BY <2>1, <2>2, <2>3 DEF Sees, Now, Identity
<1>7. CASE /\ t.play_stacks = r.play_stacks
           /\ sures(n) => ~playable(r, card(n))
  <2>1. ASSUME sures(n) PROVE r.play_stacks[card(n)[1]] = play_stacks[card(n)[1]] + 1
    <3>1. card(n) \in Identity /\ card(n)[1] \in Suits /\ card(n)[2] = play_stacks[card(n)[1]] + 1
      BY <1>1, <1>6, <2>1, Upward
    <3>2. card(n)[2] # r.play_stacks[card(n)[1]] + 1
      <4>1. playable_away(r, card(n)) # 0
        BY <1>7, <2>1 DEF playable
      <4>2. playable_away(r, card(n)) = card(n)[2] - (r.play_stacks[card(n)[1]] + 1)
        BY DEF playable_away
      <4>3. r.play_stacks[card(n)[1]] \in Int
        BY <3>1, <1>2, SearchFields
      <4>. DEFINE c == card(n)[2]
                  b == r.play_stacks[card(n)[1]]
      <4>4. c - (b + 1) # 0 /\ b \in Int
        BY <4>1, <4>2, <4>3
      <4>5. c \in Int
        BY <3>1 DEF Identity, Ranks, GameStateAssumption
      <4>. HIDE DEF c, b
      <4>6. c # b + 1
        BY <4>4, <4>5
      <4>. QED
        BY <4>6 DEF c, b
    <3>. QED
      BY <1>2, <3>1, <3>2
  <2>2. \A k \in 0 .. n : sures(k) => t.play_stacks[card(k)[1]] = play_stacks[card(k)[1]] + 1
    BY <1>2, <1>7, <2>1
  <2>. HIDE DEF q, reads, T, card, sures
  <2>3. \A k \in 0 .. (n + 1) - 1 : sures(k) => t.play_stacks[card(k)[1]] = play_stacks[card(k)[1]] + 1
    BY <2>2
  <2>. QED
    BY <1>2, <1>4, <1>5, <1>7, <2>3 DEF Along, reads, T, card, sures
<1>8. CASE \E i \in 1 .. Len(hands[q]) :
              LET x == hands[q][i]
              IN  /\ playable(Now, x) /\ playable(r, x)
                  /\ t.play_stacks = [r.play_stacks EXCEPT ![x[1]] = x[2]]
                  /\ sures(n) => card(n) = x
  <2>1. PICK i \in 1 .. Len(hands[q]) :
              LET x == hands[q][i]
              IN  /\ playable(Now, x) /\ playable(r, x)
                  /\ t.play_stacks = [r.play_stacks EXCEPT ![x[1]] = x[2]]
                  /\ sures(n) => card(n) = x
    BY <1>8
  <2>. DEFINE x == hands[q][i]
  <2>2. q \in Players /\ x \in Identity
    BY <1>1, <1>3 DEF AccountInv, TypeOK, TableType
  <2>3. Sees(Now, x)
    BY <2>2 DEF Sees, Now
  <2>4. x[1] \in Suits /\ x[2] = play_stacks[x[1]] + 1 /\ x[2] <= max_ranks[x[1]]
    BY <2>1, <2>2, <2>3, Upward DEF Identity
  <2>5. \A u \in Suits : t.play_stacks[u] = IF u = x[1] THEN play_stacks[u] + 1 ELSE r.play_stacks[u]
    <3>1. r.play_stacks \in [Suits -> Int]
      BY <1>2, SearchFields
    <3>. QED
      BY <2>1, <2>4, <3>1
  <2>6. sures(n) => card(n) = x
    BY <2>1
  <2>. HIDE DEF x
  <2>7. \A u \in Suits : /\ t.play_stacks[u] \in {play_stacks[u], play_stacks[u] + 1}
                         /\ t.play_stacks[u] <= max_ranks[u]
    BY <1>2, <2>4, <2>5
  <2>8. ASSUME NEW k \in 0 .. n, sures(k)
        PROVE  t.play_stacks[card(k)[1]] = play_stacks[card(k)[1]] + 1
    <3>1. card(k)[1] \in Suits
      BY <1>1, <1>6, <2>8
    <3>2. CASE k = n
      BY <2>4, <2>5, <2>6, <2>8, <3>2
    <3>3. CASE k # n
      <4>1. r.play_stacks[card(k)[1]] = play_stacks[card(k)[1]] + 1
        BY <1>2, <2>8, <3>3
      <4>. HIDE DEF card
      <4>. QED
        BY <2>5, <3>1, <4>1
    <3>. QED
      BY <3>2, <3>3
  <2>. HIDE DEF q, reads, T, card, sures
  <2>9. \A k \in 0 .. (n + 1) - 1 : sures(k) => t.play_stacks[card(k)[1]] = play_stacks[card(k)[1]] + 1
    BY <2>8
  <2>. QED
    BY <1>4, <1>5, <2>7, <2>9 DEF Along, reads, T, card, sures
<1>. QED
  BY <1>7, <1>8

\* What a seat of the last round does with its card, and with what it draws in its place.
LEMMA CardTurn ==
  ASSUME GameStateAssumption, AccountInv, CountdownInv, ~ended, endgame_turns # NoTurns, Reversed = {},
         NEW insights, NEW p \in Players, NEW n \in 0 .. endgame_turns - 1,
         NEW r, NEW u, NEW t, NEW i, Along(r, Readings(insights), p, n),
         u \in SearchState, u.hands = r.hands, u.endgame_turns = r.endgame_turns, u.strikes = r.strikes,
         i \in 1 .. Len(hands[Seat(p, n)]), t = remove_and_draw(u, Seat(p, n), i),
         \/ /\ u.play_stacks = r.play_stacks
            /\ LET move == SureMove(Now, Readings(insights), Seat(p, n))
               IN  move # NoMove => ~playable(r, hands[Seat(p, n)][move[2]])
         \/ LET x == hands[Seat(p, n)][i]
                move == SureMove(Now, Readings(insights), Seat(p, n))
            IN  /\ playable(Now, x) /\ playable(r, x)
                /\ u.play_stacks = [r.play_stacks EXCEPT ![x[1]] = x[2]]
                /\ move # NoMove => move[2] = i
  PROVE  Along(t, Readings(insights), p, n + 1)
<1>. DEFINE q == Seat(p, n)
<1>1. endgame_turns \in 1 .. NumPlayers /\ NumPlayers \in Nat \ {0}
  BY LastRound
<1>2. q \in Players
  BY <1>1, SeatsInTurn
<1>3. /\ r.endgame_turns = endgame_turns - n /\ r.hands[q] = hands[q]
  BY <1>1 DEF Along
<1>4. u.endgame_turns # 0 /\ u.endgame_turns # NoTurns /\ i \in 1 .. Len(u.hands[q])
  BY <1>1, <1>3 DEF NoTurns
<1>. HIDE DEF q
<1>5. LET v == remove_and_draw(u, q, i)
      IN  /\ v \in SearchState /\ Replaces(u, v, q, i) /\ v.play_stacks = u.play_stacks
          /\ v.strikes = u.strikes
  BY <1>2, <1>4, ReplacedFields
<1>6. /\ t \in SearchState /\ Replaces(u, t, q, i) /\ t.play_stacks = u.play_stacks
      /\ t.strikes = u.strikes
  BY <1>5 DEF q
<1>7. /\ t.strikes = r.strikes /\ t.endgame_turns = r.endgame_turns - 1
      /\ \A other \in Players \ {q} : t.hands[other] = r.hands[other]
  BY <1>4, <1>6 DEF Replaces
<1>8. CASE /\ u.play_stacks = r.play_stacks
           /\ LET move == SureMove(Now, Readings(insights), q)
              IN  move # NoMove => ~playable(r, hands[q][move[2]])
  BY <1>6, <1>7, <1>8, AlongOn DEF q
<1>9. CASE LET x == hands[q][i]
               move == SureMove(Now, Readings(insights), q)
           IN  /\ playable(Now, x) /\ playable(r, x)
               /\ u.play_stacks = [r.play_stacks EXCEPT ![x[1]] = x[2]]
               /\ move # NoMove => move[2] = i
  <2>1. \E k \in 1 .. Len(hands[q]) :
          LET x == hands[q][k]
              move == SureMove(Now, Readings(insights), q)
          IN  /\ playable(Now, x) /\ playable(r, x)
              /\ t.play_stacks = [r.play_stacks EXCEPT ![x[1]] = x[2]]
              /\ move # NoMove => move[2] = k
    BY <1>6, <1>9 DEF q
  <2>. QED
    BY <1>6, <1>7, <2>1, AlongOn DEF q
<1>. QED
  BY <1>8, <1>9 DEF q

\* The button that trivially_winnable answers: the card credited to p, or one that is
\* sure to strike nothing.
LEMMA FirstTurn ==
  ASSUME GameStateAssumption, AccountInv, CountdownInv, FullHands, phase = "act", ~ended,
         endgame_turns # NoTurns, Reversed = {},
         NEW insights,
         trivially_winnable(Now, Readings(insights), current_player_index) # NoMove
  PROVE  Along(advance_state(Now, trivially_winnable(Now, Readings(insights), current_player_index),
                             current_player_index),
               Readings(insights), current_player_index, 1)
<1>. DEFINE p == current_player_index
            reads == Readings(insights)
            move == trivially_winnable(Now, reads, p)
            t == advance_state(Now, move, p)
            T == endgame_turns
            hand == hands[p]
<1>1. /\ T \in 1 .. NumPlayers /\ NumPlayers \in Nat \ {0} /\ p \in Players
      /\ hands \in [Players -> Seq(Identity)] /\ strikes \in Nat
  BY LastRound DEF AccountInv, TypeOK, TableType
<1>2. /\ Now \in SearchState /\ Now.hands = hands /\ Now.play_stacks = play_stacks
      /\ Now.strikes = strikes /\ Now.endgame_turns = T /\ Now.endgame_turns # 0
  BY <1>1, NowIsSane DEF Now
<1>3. Seat(p, 0) = p
  BY <1>1, SeatsInTurn
<1>4. Along(Now, reads, p, 0)
  BY <1>1, <1>2, Upward DEF Along
<1>5. Len(hand) = HandSize /\ 1 \in 1 .. Len(hand) /\ DOMAIN hand = 1 .. Len(hand)
  <2>1. p \in ToMove
    BY <1>1, SeatsToMove DEF AccountInv
  <2>. QED
    BY <1>1, <2>1 DEF FullHands, GameStateAssumption
<1>6. ASSUME NEW i \in 1 .. Len(hand), NEW u \in SearchState, NEW v,
             u.hands = hands, u.endgame_turns = T, u.strikes = strikes,
             v = remove_and_draw(u, p, i),
             \/ u.play_stacks = play_stacks /\ SureMove(Now, reads, p) = NoMove
             \/ /\ playable(Now, hand[i]) /\ u.play_stacks = [play_stacks EXCEPT ![hand[i][1]] = hand[i][2]]
                /\ SureMove(Now, reads, p) # NoMove => SureMove(Now, reads, p)[2] = i
      PROVE  Along(v, reads, p, 1)
  <2>1. 0 \in 0 .. T - 1 /\ 0 + 1 = 1 /\ p \in Players
    BY <1>1
  <2>2. i \in 1 .. Len(hands[Seat(p, 0)]) /\ v = remove_and_draw(u, Seat(p, 0), i)
    BY <1>3, <1>6
  <2>3. \/ /\ u.play_stacks = Now.play_stacks
           /\ LET m == SureMove(Now, Readings(insights), Seat(p, 0))
              IN  m # NoMove => ~playable(Now, hands[Seat(p, 0)][m[2]])
        \/ LET x == hands[Seat(p, 0)][i]
               m == SureMove(Now, Readings(insights), Seat(p, 0))
           IN  /\ playable(Now, x) /\ playable(Now, x)
               /\ u.play_stacks = [Now.play_stacks EXCEPT ![x[1]] = x[2]]
               /\ m # NoMove => m[2] = i
    BY <1>2, <1>3, <1>6, Zenon
  <2>4. u.hands = Now.hands /\ u.endgame_turns = Now.endgame_turns /\ u.strikes = Now.strikes
    BY <1>2, <1>6
  <2>. HIDE DEF p, T, hand
  <2>5. Along(v, Readings(insights), p, 0 + 1)
    BY <1>4, <2>1, <2>2, <2>3, <2>4, CardTurn DEF T, reads
  <2>. QED
    BY <2>1, <2>5
<1>7. CASE SureMove(Now, reads, p) # NoMove
  <2>1. move = SureMove(Now, reads, p)
    BY <1>7 DEF trivially_winnable
  <2>2. PICK i \in 1 .. Len(hand) :
          /\ SureMove(Now, reads, p) = <<StackingButton(hand[i]), i>>
          /\ hand[i] \in Identity /\ playable(Now, hand[i])
    BY <1>1, <1>7, SureCard
  <2>. DEFINE u == played(Now, hand[i])
  <2>3. u \in SearchState /\ SameTable(Now, u) /\ Lands(Now, u, hand[i])
    BY <1>2, <2>2, PlayedFields
  <2>4. t = remove_and_draw(u, p, i)
    BY <1>2, <2>1, <2>2, NoName DEF advance_state, StackingButton, pressed_play, pressed_discard
  <2>5. /\ u.hands = hands /\ u.endgame_turns = T /\ u.strikes = strikes
        /\ u.play_stacks = [play_stacks EXCEPT ![hand[i][1]] = hand[i][2]]
    BY <1>2, <2>3 DEF SameTable, Lands
  <2>6. SureMove(Now, reads, p)[2] = i
    BY <2>2
  <2>. HIDE DEF u, t, reads, move, hand, p, T
  <2>9. Along(t, reads, p, 1)
    BY <1>6, <2>2, <2>3, <2>4, <2>5, <2>6
  <2>. QED
    BY <2>9 DEF t, reads, p, move
<1>8. CASE SureMove(Now, reads, p) = NoMove
  <2>. DEFINE x == hand[1]
              eyes == reads[p][1]
  <2>1. x \in Identity
    BY <1>1, <1>5
  <2>2. eyes = Reading(x, insights[p]) /\ x \in eyes
    <3>1. eyes = Reading(x, insights[p])
      BY <1>1, <1>5 DEF Readings
    <3>. QED
      BY <2>1, <3>1 DEF Reading
  <2>3. ~filler_unsafe(Now, reads, p) /\ move = Filler(Now, reads, p)
    BY <1>8 DEF trivially_winnable
  <2>4. ASSUME x[1] \in Inverted, ~playable(Now, x) PROVE \E id \in eyes : eyes = {id} /\ id[1] \in Inverted
    <3>1. Cardinality(eyes) = 1
      BY <2>2, <2>3, <2>4 DEF filler_unsafe
    <3>2. eyes \subseteq Identity
      BY <2>1, <2>2 DEF Reading
    <3>3. IsFiniteSet(eyes)
      BY <3>2, IdentityFinite, FS_Subset
    <3>4. \E id : eyes = {id}
      <4>. HIDE DEF eyes
      <4>. QED
        BY <3>1, <3>3, FS_Singleton
    <3>. QED
      BY <2>2, <2>4, <3>4
  <2>5. CASE \E id \in eyes : eyes = {id} /\ id[1] \in Inverted
    <3>1. x[1] \in Inverted /\ move = <<"play", 1>>
      BY <2>2, <2>3, <2>5 DEF Filler
    <3>. DEFINE d == discarded(Now, x)
                u == regained(d)
    <3>2. t = remove_and_draw(u, p, 1)
      BY <1>2, <2>1, <3>1, NoName DEF advance_state, pressed_play
    <3>3. /\ d \in SearchState /\ d.play_stacks = play_stacks /\ d.strikes = strikes
          /\ d.endgame_turns = T /\ d.hands = hands
      BY <1>2, <2>1, DiscardedFields
    <3>. HIDE DEF d
    <3>4. u \in SearchState /\ SameTable(d, u) /\ Throws(d, u)
      BY <3>3, RegainedFields
    <3>5. /\ u.hands = hands /\ u.endgame_turns = T /\ u.strikes = strikes
          /\ u.play_stacks = play_stacks
      BY <3>3, <3>4 DEF SameTable, Throws
    <3>. HIDE DEF u, t, reads, move, hand, p, T
    <3>9. Along(t, reads, p, 1)
      BY <1>5, <1>6, <1>8, <3>2, <3>4, <3>5
    <3>. QED
      BY <3>9 DEF t, reads, p, move
  <2>6. CASE ~ \E id \in eyes : eyes = {id} /\ id[1] \in Inverted
    <3>1. move = <<"discard", 1>> /\ (x[1] \in Inverted => playable(Now, x))
      BY <2>3, <2>4, <2>6 DEF Filler
    <3>2. CASE x[1] \in Inverted
      <4>. DEFINE u == played(Now, x)
      <4>1. u \in SearchState /\ SameTable(Now, u) /\ Lands(Now, u, x)
        BY <1>2, <2>1, <3>1, <3>2, PlayedFields
      <4>2. t = remove_and_draw(u, p, 1)
        BY <1>2, <2>1, <3>1, <3>2, NoName DEF advance_state, pressed_discard
      <4>3. /\ u.hands = hands /\ u.endgame_turns = T /\ u.strikes = strikes
            /\ u.play_stacks = [play_stacks EXCEPT ![x[1]] = x[2]]
        BY <1>2, <4>1 DEF SameTable, Lands
      <4>. HIDE DEF u, t, reads, move, hand, p, T
      <4>9. Along(t, reads, p, 1)
        BY <1>5, <1>6, <1>8, <3>1, <3>2, <4>1, <4>2, <4>3
      <4>. QED
        BY <4>9 DEF t, reads, p, move
    <3>3. CASE x[1] \notin Inverted
      <4>. DEFINE d == discarded(Now, x)
                  u == regained(d)
      <4>1. t = remove_and_draw(u, p, 1)
        BY <1>2, <2>1, <3>1, <3>3, NoName DEF advance_state, pressed_discard
      <4>2. /\ d \in SearchState /\ d.play_stacks = play_stacks /\ d.strikes = strikes
            /\ d.endgame_turns = T /\ d.hands = hands
        BY <1>2, <2>1, DiscardedFields
      <4>. HIDE DEF d
      <4>3. u \in SearchState /\ SameTable(d, u) /\ Throws(d, u)
        BY <4>2, RegainedFields
      <4>4. /\ u.hands = hands /\ u.endgame_turns = T /\ u.strikes = strikes
            /\ u.play_stacks = play_stacks
        BY <4>2, <4>3 DEF SameTable, Throws
      <4>. HIDE DEF u, t, reads, move, hand, p, T
      <4>9. Along(t, reads, p, 1)
        BY <1>5, <1>6, <1>8, <4>1, <4>3, <4>4
      <4>. QED
        BY <4>9 DEF t, reads, p, move
    <3>. QED
      BY <3>2, <3>3
  <2>. QED
    BY <2>5, <2>6
<1>. QED
  BY <1>7, <1>8

\* A turn after the first.
LEMMA NextTurn ==
  ASSUME GameStateAssumption, AccountInv, CountdownInv, ~ended, endgame_turns # NoTurns, Reversed = {},
         NEW insights, NEW p \in Players, NEW n \in 0 .. endgame_turns - 1,
         NEW r, Along(r, Readings(insights), p, n)
  PROVE  Along(turn_taken(r, Seat(p, n), SureMove(Now, Readings(insights), Seat(p, n))),
               Readings(insights), p, n + 1)
<1>. DEFINE reads == Readings(insights)
            q == Seat(p, n)
            move == SureMove(Now, reads, q)
            t == turn_taken(r, q, move)
<1>1. endgame_turns \in 1 .. NumPlayers /\ NumPlayers \in Nat \ {0}
  BY LastRound
<1>2. q \in Players
  BY <1>1, SeatsInTurn
<1>3. /\ r \in SearchState /\ r.endgame_turns = endgame_turns - n /\ r.hands[q] = hands[q]
  BY <1>1 DEF Along
<1>. HIDE DEF q
<1>4. CASE move # NoMove /\ playable(r, r.hands[q][move[2]])
  <2>1. PICK i \in 1 .. Len(hands[q]) :
          /\ SureMove(Now, Readings(insights), q) = <<StackingButton(hands[q][i]), i>>
          /\ hands[q][i] \in Identity /\ playable(Now, hands[q][i])
    BY <1>2, <1>4, SureCard
  <2>. DEFINE x == hands[q][i]
              u == played(r, x)
  <2>2. move[2] = i /\ playable(r, x)
    BY <1>3, <1>4, <2>1
  <2>3. u \in SearchState /\ SameTable(r, u) /\ Lands(r, u, x)
    BY <1>3, <2>1, <2>2, PlayedFields
  <2>4. t = advance_state(r, move, q)
    BY <1>4 DEF turn_taken
  <2>5. t = remove_and_draw(u, q, i)
    BY <1>3, <2>1, <2>2, <2>4, NoName DEF advance_state, StackingButton, pressed_play, pressed_discard
  <2>6. /\ u.hands = r.hands /\ u.endgame_turns = r.endgame_turns /\ u.strikes = r.strikes
        /\ u.play_stacks = [r.play_stacks EXCEPT ![x[1]] = x[2]]
    BY <2>3 DEF SameTable, Lands
  <2>7. LET y == hands[q][i]
            m == SureMove(Now, Readings(insights), q)
        IN  /\ playable(Now, y) /\ playable(r, y)
            /\ u.play_stacks = [r.play_stacks EXCEPT ![y[1]] = y[2]]
            /\ m # NoMove => m[2] = i
    BY <2>1, <2>2, <2>6
  <2>. HIDE DEF u, t, move, x
  <2>8. Along(t, Readings(insights), p, n + 1)
    BY <2>3, <2>5, <2>6, <2>7, CardTurn DEF q
  <2>. QED
    BY <2>8 DEF t, move, q
<1>5. CASE ~(move # NoMove /\ playable(r, r.hands[q][move[2]]))
  <2>1. t = [r EXCEPT !.endgame_turns = r.endgame_turns - 1]
    BY <1>5 DEF turn_taken
  <2>2. r.endgame_turns - 1 \in Nat
    BY <1>1, <1>3
  <2>. DEFINE e == r.endgame_turns - 1
  <2>. HIDE DEF e
  <2>3. LET v == [r EXCEPT !.endgame_turns = e]
        IN  /\ v \in SearchState /\ v.strikes = r.strikes /\ v.endgame_turns = e
            /\ v.hands = r.hands /\ v.play_stacks = r.play_stacks
    <3>1. e \in Nat /\ e # NoTurns
      BY <2>2 DEF e, NoTurns
    <3>. QED
      BY <1>3, <3>1 DEF SearchState
  <2>4. /\ t \in SearchState /\ t.strikes = r.strikes /\ t.endgame_turns = r.endgame_turns - 1
        /\ t.hands = r.hands /\ t.play_stacks = r.play_stacks
    BY <2>1, <2>3 DEF e
  <2>5. LET m == SureMove(Now, Readings(insights), q)
        IN  m # NoMove => ~playable(r, hands[q][m[2]])
    BY <1>3, <1>5
  <2>. HIDE DEF t
  <2>6. Along(t, Readings(insights), p, n + 1)
    BY <2>4, <2>5, AlongOn DEF q
  <2>. QED
    BY <2>6 DEF t, q
<1>. QED
  BY <1>4, <1>5

\* A last round that was played out is one with every credited card laid.
LEMMA RoundScores ==
  ASSUME GameStateAssumption, AccountInv, CountdownInv, ~ended, endgame_turns # NoTurns, Reversed = {},
         NEW insights, NEW p \in Players, TrivialCase(Now, Readings(insights), p),
         NEW r, Along(r, Readings(insights), p, endgame_turns)
  PROVE  r.strikes < 3 /\ score_of(r) = max_score
<1>. DEFINE reads == Readings(insights)
            T == endgame_turns
            ids == credited(Now, reads, p)
            L == laid(Now, ids)
            M == [u \in Suits |-> InPlayOrder(u, Now.max_ranks[u])]
            E == [u \in Suits |-> InPlayOrder(u, r.play_stacks[u])]
<1>1. T \in 1 .. NumPlayers /\ NumPlayers \in Nat \ {0}
  BY LastRound
<1>2. /\ r.strikes = strikes
      /\ \A u \in Suits : /\ r.play_stacks[u] \in {play_stacks[u], play_stacks[u] + 1}
                           /\ r.play_stacks[u] <= max_ranks[u]
      /\ \A k \in 0 .. T - 1 :
           LET q == Seat(p, k)
               move == SureMove(Now, reads, q)
           IN  move # NoMove =>
                 LET u == hands[q][move[2]][1] IN r.play_stacks[u] = play_stacks[u] + 1
  BY DEF Along
<1>3. r.strikes < 3
  BY <1>2 DEF AccountInv, TypeOK, TableType, ended
<1>4. ASSUME NEW id \in ids
      PROVE  /\ id \in Identity /\ id[2] = play_stacks[id[1]] + 1
             /\ r.play_stacks[id[1]] = play_stacks[id[1]] + 1
  <2>1. PICK k \in 0 .. T - 1 :
          LET q == Seat(p, k)
          IN  SureMove(Now, reads, q) # NoMove /\ id = Now.hands[q][SureMove(Now, reads, q)[2]]
    <3>1. PICK q \in LastSeats(Now, p) :
            SureMove(Now, reads, q) # NoMove /\ id = Now.hands[q][SureMove(Now, reads, q)[2]]
      BY DEF credited
    <3>2. \E k \in 0 .. T - 1 : q = Seat(p, k)
      BY <3>1 DEF LastSeats, Seat, Now
    <3>. QED
      BY <3>1, <3>2
  <2>. DEFINE q == Seat(p, k)
  <2>2. q \in Players /\ Now.hands = hands
    BY <1>1, SeatsInTurn DEF Now
  <2>. HIDE DEF reads
  <2>3. PICK i \in 1 .. Len(hands[q]) :
          /\ SureMove(Now, Readings(insights), q) = <<StackingButton(hands[q][i]), i>>
          /\ hands[q][i] \in Identity /\ playable(Now, hands[q][i])
    BY <2>1, <2>2, SureCard DEF reads
  <2>4. id = hands[q][i]
    BY <2>1, <2>2, <2>3 DEF reads
  <2>5. id \in Identity /\ id[2] = play_stacks[id[1]] + 1
    BY <2>3, <2>4, Upward
  <2>. HIDE DEF q
  <2>6. r.play_stacks[id[1]] = play_stacks[id[1]] + 1
    BY <1>2, <2>1, <2>2 DEF q
  <2>. QED
    BY <2>5, <2>6
<1>5. ASSUME NEW u \in Suits
      PROVE  /\ L[u] \in Nat /\ E[u] \in Nat /\ M[u] \in Nat
             /\ L[u] <= E[u] /\ E[u] <= M[u]
  <2>1. play_stacks[u] \in Nat /\ max_ranks[u] \in Nat
    <3>1. play_stacks[u] \in 0 .. Top /\ max_ranks[u] \in 0 .. Top
      BY Upward
    <3>. QED
      BY <3>1 DEF GameStateAssumption
  <2>2. E[u] = r.play_stacks[u] /\ M[u] = max_ranks[u]
    BY DEF InPlayOrder, Now
  <2>3. E[u] \in {play_stacks[u], play_stacks[u] + 1} /\ E[u] <= M[u]
    BY <1>2, <2>2
  <2>4. L[u] \in Nat /\ L[u] <= E[u]
    <3>. HIDE DEF ids
    <3>1. CASE \E id \in ids : id[1] = u
      <4>1. PICK id \in ids : id[1] = u /\ L[u] = id[2]
        BY <3>1 DEF laid
      <4>2. L[u] = play_stacks[u] + 1 /\ r.play_stacks[u] = play_stacks[u] + 1
        BY <1>4, <4>1
      <4>. QED
        BY <2>1, <2>2, <4>2
    <3>2. CASE ~ \E id \in ids : id[1] = u
      <4>1. L[u] = play_stacks[u]
        BY <3>2 DEF laid, Now
      <4>. QED
        BY <2>1, <2>3, <4>1
    <3>. QED
      BY <3>1, <3>2
  <2>. HIDE DEF L, E, M
  <2>. QED
    BY <2>1, <2>2, <2>3, <2>4
<1>6. /\ DOMAIN L = Suits /\ DOMAIN E = Suits /\ DOMAIN M = Suits /\ IsFiniteSet(Suits)
  BY DEF laid, GameStateAssumption
<1>7. /\ SumFunction(L) = SumFunctionOnSet(L, Suits) /\ SumFunction(E) = SumFunctionOnSet(E, Suits)
      /\ SumFunction(M) = SumFunctionOnSet(M, Suits)
  <2>. HIDE DEF L, E, M
  <2>. QED
    BY <1>6 DEF SumFunction
<1>8. SumFunction(L) = SumFunction(M) /\ score_of(r) = SumFunction(E) /\ max_score = SumFunction(M)
  BY SearchReads DEF AccountInv, TrivialCase, score_of, max_score_of
<1>. HIDE DEF L, E, M
<1>9. /\ SumFunctionOnSet(L, Suits) <= SumFunctionOnSet(E, Suits)
      /\ SumFunctionOnSet(E, Suits) <= SumFunctionOnSet(M, Suits)
  BY <1>5, <1>6, SumOrder
<1>10. /\ SumFunctionOnSet(L, Suits) \in Nat /\ SumFunctionOnSet(E, Suits) \in Nat
       /\ SumFunctionOnSet(M, Suits) \in Nat
  BY <1>5, <1>6, SumNat
<1>. QED
  BY <1>3, <1>7, <1>8, <1>9, <1>10

\* The turns after the first, one seat after the other.
LEMMA RoundIsPlayed ==
  ASSUME GameStateAssumption, AccountInv, CountdownInv, ~ended, endgame_turns # NoTurns, Reversed = {},
         NEW insights, NEW p \in Players, NEW s, Along(s, Readings(insights), p, 1),
         NEW moves, moves = [q \in Players |-> SureMove(Now, Readings(insights), q)]
  PROVE  Along(PlayedOut(s, next_player_index(p), moves), Readings(insights), p, endgame_turns)
<1>. DEFINE reads == Readings(insights)
            N == s.endgame_turns
            np == next_player_index(p)
            seat(n) == (np + n - 1) % NumPlayers
            Onward(x, n) == turn_taken(x, seat(n), moves[seat(n)])
            Run(f, m) == f = [n \in 0 .. m |-> IF n = 0 THEN s ELSE Onward(f[n - 1], n)]
            Runs == {m \in Nat : \E f : Run(f, m)}
<1>1. endgame_turns \in 1 .. NumPlayers /\ NumPlayers \in Nat \ {0}
  BY LastRound
<1>2. N = endgame_turns - 1 /\ N \in Nat /\ N + 1 = endgame_turns
  BY <1>1 DEF Along
<1>3. ASSUME NEW n \in 1 .. N PROVE seat(n) = Seat(p, n) /\ Seat(p, n) \in Players
  <2>1. n - 1 \in 0 .. NumPlayers - 1 /\ n - 1 < NumPlayers - 1 /\ (n - 1) + 1 = n
        /\ n \in 0 .. NumPlayers - 1
    BY <1>1, <1>2
  <2>2. Seat(np, n - 1) = Seat(p, n) /\ Seat(p, n) \in Players
    BY <2>1, SeatsInTurn
  <2>3. np \in Int
    BY NextPlayerType, <1>1 DEF Players
  <2>4. np + n - 1 = np + (n - 1)
    <3>. HIDE DEF np
    <3>. QED
      BY <2>1, <2>3
  <2>5. seat(n) = Seat(np, n - 1)
    <3>. HIDE DEF np
    <3>. QED
      BY <2>4 DEF Seat
  <2>. QED
    BY <2>2, <2>5
<1>4. N \in Runs
  <2>1. 0 \in Runs
    <3>. DEFINE f == [n \in 0 .. 0 |-> s]
    <3>. HIDE DEF Onward
    <3>1. Run(f, 0)
      OBVIOUS
    <3>. HIDE DEF f, Run
    <3>. QED
      BY <3>1
  <2>2. ASSUME NEW m \in 0 .. N - 1, m \in Runs PROVE m + 1 \in Runs
    <3>. HIDE DEF Onward
    <3>1. PICK f : Run(f, m)
      BY <2>2
    <3>2. m \in Nat /\ m + 1 \in Nat
      BY <1>2
    <3>. DEFINE g == [n \in 0 .. m + 1 |-> IF n = m + 1 THEN Onward(f[m], m + 1) ELSE f[n]]
    <3>3. ASSUME NEW n \in 0 .. m + 1
          PROVE  g[n] = IF n = 0 THEN s ELSE Onward(g[n - 1], n)
      <4>1. CASE n = m + 1
        <5>1. g[n] = Onward(f[m], m + 1) /\ g[m] = f[m] /\ n # 0 /\ n - 1 = m
          BY <3>2, <4>1
        <5>. QED
          BY <4>1, <5>1
      <4>2. CASE n # m + 1
        <5>1. n \in 0 .. m /\ g[n] = f[n] /\ (n # 0 => n - 1 \in 0 .. m + 1 /\ n - 1 # m + 1)
          BY <3>2, <4>2
        <5>2. f[n] = IF n = 0 THEN s ELSE Onward(f[n - 1], n)
          BY <3>1, <5>1
        <5>3. n # 0 => g[n - 1] = f[n - 1]
          BY <5>1
        <5>. QED
          BY <5>1, <5>2, <5>3
      <4>. QED
        BY <4>1, <4>2
    <3>4. Run(g, m + 1)
      <4>1. g = [n \in 0 .. m + 1 |-> g[n]]
        OBVIOUS
      <4>. HIDE DEF g
      <4>. QED
        BY <3>3, <4>1
    <3>. HIDE DEF g, Run
    <3>. QED
      BY <3>2, <3>4
  <2>. HIDE DEF Runs
  <2>3. \A n \in 0 .. N : n \in Runs
    <3>. HIDE DEF N
    <3>. QED
      BY <1>2, <2>1, <2>2, Counting
  <2>. QED
    BY <1>2, <2>3
<1>. DEFINE after == CHOOSE f : Run(f, N)
<1>5. PlayedOut(s, np, moves) = after[N]
  BY DEF PlayedOut
<1>6. Run(after, N)
  <2>1. \E f : Run(f, N)
    BY <1>4
  <2>. HIDE DEF Run
  <2>. QED
    BY <2>1
<1>. HIDE DEF after
<1>7. ASSUME NEW n \in 0 .. N PROVE after[n] = IF n = 0 THEN s ELSE Onward(after[n - 1], n)
  <2>. HIDE DEF Onward, N
  <2>. QED
    BY <1>6
<1>. DEFINE Fits == {n \in 0 .. N : Along(after[n], reads, p, n + 1)}
<1>8. 0 \in Fits
  <2>1. after[0] = s /\ 0 + 1 = 1 /\ 0 \in 0 .. N
    <3>. HIDE DEF Onward, N
    <3>. QED
      BY <1>2, <1>7
  <2>. HIDE DEF N
  <2>. QED
    BY <2>1
<1>9. ASSUME NEW n \in 0 .. N - 1, n \in Fits PROVE n + 1 \in Fits
  <2>1. /\ n + 1 \in 1 .. N /\ n + 1 \in 0 .. N /\ n + 1 # 0 /\ (n + 1) - 1 = n
        /\ n + 1 \in 0 .. endgame_turns - 1
    BY <1>2
  <2>2. after[n + 1] = Onward(after[n], n + 1)
    <3>. HIDE DEF Onward, N
    <3>. QED
      BY <1>7, <2>1
  <2>3. /\ seat(n + 1) = Seat(p, n + 1) /\ Seat(p, n + 1) \in Players
        /\ moves[Seat(p, n + 1)] = SureMove(Now, Readings(insights), Seat(p, n + 1))
    <3>. HIDE DEF N, seat
    <3>. QED
      BY <1>3, <2>1
  <2>4. after[n + 1] = turn_taken(after[n], Seat(p, n + 1), SureMove(Now, Readings(insights), Seat(p, n + 1)))
    <3>. HIDE DEF seat, after
    <3>. QED
      BY <2>2, <2>3
  <2>5. Along(after[n], Readings(insights), p, n + 1)
    BY <1>9
  <2>6. Along(after[n + 1], Readings(insights), p, (n + 1) + 1)
    BY <2>1, <2>4, <2>5, NextTurn
  <2>. HIDE DEF N
  <2>. QED
    BY <2>1, <2>6
<1>10. N \in Fits
  <2>. HIDE DEF N, Fits
  <2>1. \A n \in 0 .. N : n \in Fits
    BY <1>2, <1>8, <1>9, Counting
  <2>. QED
    BY <1>2, <2>1
<1>. QED
  <2>. HIDE DEF N
  <2>. QED
    BY <1>2, <1>5, <1>10

\* Within a step: the answer of trivially_winnable brings the maximum.
LEMMA TrivialHere ==
  ASSUME GameStateAssumption, SeatsInv, Reversed = {}
  PROVE  TrivialWinIsWin
<1>. DEFINE p == current_player_index
<1>1. /\ AccountInv /\ CountdownInv /\ FullHands /\ p \in Players
  BY DEF SeatsInv, AccountInv, TypeOK, TableType
<1>2. SUFFICES ASSUME phase = "act", ~ended, endgame_turns # NoTurns,
                      NEW insights,
                      trivially_winnable(Now, Readings(insights), p) # NoMove
               PROVE  LET moves == [q \in Players |-> SureMove(Now, Readings(insights), q)]
                          move == trivially_winnable(Now, Readings(insights), p)
                          end == PlayedOut(advance_state(Now, move, p), next_player_index(p), moves)
                      IN  end.strikes < 3 /\ score_of(end) = max_score
  BY DEF TrivialWinIsWin
<1>. DEFINE moves == [q \in Players |-> SureMove(Now, Readings(insights), q)]
            s == advance_state(Now, trivially_winnable(Now, Readings(insights), p), p)
<1>3. Along(s, Readings(insights), p, 1)
  BY <1>1, <1>2, FirstTurn
<1>4. TrivialCase(Now, Readings(insights), p)
  BY <1>2 DEF trivially_winnable
<1>. HIDE DEF s, moves, p
<1>5. Along(PlayedOut(s, next_player_index(p), moves), Readings(insights), p, endgame_turns)
  BY <1>1, <1>2, <1>3, RoundIsPlayed DEF moves
<1>6. LET end == PlayedOut(s, next_player_index(p), moves)
      IN  end.strikes < 3 /\ score_of(end) = max_score
  BY <1>1, <1>2, <1>4, <1>5, RoundScores
<1>. QED
  BY <1>6 DEF s, moves, p

\* Where no suit is reversed, a trivial win is a win: whoever follows trivially_winnable
\* and one sure play of every seat after it scores the maximum without a third strike,
\* whatever the seats know of their hands.
THEOREM TrivialWinsAreWins ==
  ASSUME Reversed = {}
  PROVE  EndSpec => []TrivialWinIsWin
<1>. USE GameStateAssumption, EndingsAssumption
<1>1. EndInit => SeatsInv
  BY SeatsInit
<1>2. SeatsInv /\ [EndNext]_endVars => SeatsInv'
  BY SeatsStep
<1>3. SeatsInv => TrivialWinIsWin
  BY TrivialHere
<1>. QED
  BY <1>1, <1>2, <1>3, PTL DEF EndSpec
=============================================================================
