---------------------------- MODULE EndgameProofs ----------------------------
(***************************************************************************)
(* Proofs about the endgame search: what it gives up is lost, in any game  *)
(* of any variant, with any number of players and cards.                   *)
(*                                                                         *)
(* The reasons of unwinnable_state are no invariant as they stand: a       *)
(* position it gives up for one is lost for another a move later.  Doomed  *)
(* is what every move keeps: it counts the turns that are not paid for by  *)
(* a draw, and names the cards the maximum needs that only a seat without  *)
(* the turns for them can play.                                            *)
(***************************************************************************)
EXTENDS Endgame, GameStateProofs

(* The inductive invariant. *)

\* A card the maximum still needs, and one of which no copy is left outside of q's hand.
Useful(x) == ~Played(x) /\ InReach(x)
Keeps(q, x) ==
  /\ x \notin InDeck
  /\ \A p \in Players \ {q} : \A i \in 1 .. Len(hands[p]) : hands[p][i] # x

\* q alone can play two cards the maximum needs.
NeedsTwoTurns(q) ==
  \E x, y \in Identity : x # y /\ Useful(x) /\ Useful(y) /\ Keeps(q, x) /\ Keeps(q, y)

VoidSeat(q) == \A i \in 1 .. Len(hands[q]) : ~Useful(hands[q][i])

\* The seats whose next card, if they use one, is not paid for by a draw.
ToMove ==
  IF endgame_turns # NoTurns
  THEN {(current_player_index + i) % NumPlayers : i \in 0 .. endgame_turns - 1}
  ELSE {q \in Players : phase = "draw" => q # current_player_index}
Movers == {q \in ToMove : ~VoidSeat(q)}

\* A point for each card drawn and for each of those seats that holds anything
\* useful do not add up to m.
TooSlow(m) == score + cards_left + Cardinality(Movers) < m

\* A card that is needed is in the hand of a seat that has no turn left.
Stranded ==
  /\ endgame_turns # NoTurns
  /\ \E q \in Players \ ToMove, x \in Identity : Useful(x) /\ Keeps(q, x)

\* A seat that needs two turns will have one: the last card is drawn by another.
Overloaded ==
  \E q \in Players :
     /\ NeedsTwoTurns(q)
     /\ \/ endgame_turns # NoTurns
        \/ cards_left = 1 /\ phase = "draw" /\ q # current_player_index
        \/ /\ cards_left = 1 /\ phase = "act"
           /\ \/ hops(current_player_index, q) > clue_tokens
              \/ \E r \in Players \ {q} : NeedsTwoTurns(r)

\* The score m is out of reach.
Doomed(m) ==
  /\ max_score <= m
  /\ max_score < m \/ TooSlow(m) \/ Stranded \/ Overloaded

\* The deck and the countdown of an ending.
CountdownInv ==
  /\ phase # "deal"
  /\ cards_left > 0 <=> endgame_turns = NoTurns

\* The same of a whole game: a deck may be empty before it is dealt.
Countdown == /\ cards_left > 0 => endgame_turns = NoTurns
             /\ phase # "deal" => CountdownInv

GivenUpInv ==
  /\ AccountInv /\ CountdownInv
  /\ given_up \in Int /\ (given_up # -1 => Doomed(given_up))

-----------------------------------------------------------------------------
(* Seats around the table. *)

\* A number from 0 to N - 1 is its own remainder, and that of the one N higher or lower.
LEMMA SmallMod ==
  ASSUME NEW N \in Nat \ {0}, NEW a \in 0 .. N - 1
  PROVE  a % N = a /\ (a + N) % N = a /\ (a - N) % N = a
<1>1. ASSUME NEW b \in Int, NEW k \in Int, NEW r \in 0 .. N - 1, b = N * k + r,
             NEW j \in {-1, 0, 1}, b = N * j + a
      PROVE  r = a
  <2>1. k < j + 1
    <3>1. ASSUME k >= j + 1 PROVE FALSE
      <4>1. N * k >= N * (j + 1)
        BY <3>1
      <4>. QED
        BY <4>1, <1>1
    <3>. QED
      BY <3>1, <1>1
  <2>2. k > j - 1
    <3>1. ASSUME k <= j - 1 PROVE FALSE
      <4>1. N * k <= N * (j - 1)
        BY <3>1
      <4>. QED
        BY <4>1, <1>1
    <3>. QED
      BY <3>1, <1>1
  <2>3. k = j
    BY <2>1, <2>2, <1>1
  <2>. QED
    BY <2>3, <1>1
<1>2. ASSUME NEW b \in Int
      PROVE  b \div N \in Int /\ b % N \in 0 .. N - 1 /\ b = N * (b \div N) + (b % N)
  OBVIOUS
<1>3. a \in Int /\ a + N \in Int /\ a - N \in Int
  OBVIOUS
<1>4. a % N = a
  BY <1>1, <1>2, <1>3
<1>5. (a + N) % N = a
  BY <1>1, <1>2, <1>3
<1>6. (a - N) % N = a
  BY <1>1, <1>2, <1>3
<1>. QED
  BY <1>4, <1>5, <1>6

\* Where the seat after a is, and how far each seat is from it.
LEMMA Passing ==
  ASSUME NEW N \in Nat \ {0}, NEW a \in 0 .. N - 1
  PROVE  /\ (a + 1) % N \in 0 .. N - 1
         /\ \A k \in 0 .. N - 1 : (a + k) % N \in 0 .. N - 1
         /\ \A k \in 0 .. N - 1 : (((a + 1) % N) + k) % N = (a + (k + 1)) % N
         /\ \A k \in 1 .. N - 1 : (a + k) % N # a
         /\ (a + 0) % N = a
         /\ \A q \in 0 .. N - 1 : \E k \in 0 .. N - 1 : q = (a + k) % N
         /\ \A q \in 0 .. N - 1 : (q - a) % N \in 0 .. N - 1
         /\ (a - a) % N = 0
         /\ \A q \in 0 .. N - 1 : q # a => (q - ((a + 1) % N)) % N = ((q - a) % N) - 1
<1>. DEFINE M(b) == IF b >= N THEN b - N ELSE IF b < 0 THEN b + N ELSE b
<1>1. ASSUME NEW b \in Int, b < 2 * N, b >= -N PROVE b % N = M(b)
  <2>1. CASE b >= N
    <3>1. b - N \in 0 .. N - 1 /\ b = (b - N) + N
      BY <1>1, <2>1
    <3>. QED
      BY <2>1, <3>1, SmallMod
  <2>2. CASE b < 0
    <3>1. b + N \in 0 .. N - 1 /\ b = (b + N) - N
      BY <1>1, <2>2
    <3>2. b % N = b + N
      BY <3>1, SmallMod
    <3>. QED
      BY <2>2, <3>2
  <2>3. CASE b \in 0 .. N - 1
    BY <2>3, SmallMod
  <2>. QED
    BY <1>1, <2>1, <2>2, <2>3
<1>2. (a + 1) % N = M(a + 1) /\ (a + 0) % N = M(a) /\ (a - a) % N = 0
  BY <1>1
<1>3. ASSUME NEW k \in 0 .. N - 1
      PROVE  (a + k) % N = M(a + k) /\ (a + (k + 1)) % N = M(a + k + 1)
  <2>1. (a + k) % N = M(a + k) /\ (a + (k + 1)) % N = M(a + (k + 1))
    BY <1>1
  <2>. QED
    BY <2>1
<1>4. \A q \in 0 .. N - 1 : (q - a) % N = M(q - a)
  BY <1>1
<1>5. ASSUME NEW q \in 0 .. N - 1 PROVE \E k \in 0 .. N - 1 : q = (a + k) % N
  <2>1. M(q - a) \in 0 .. N - 1 /\ q = M(a + M(q - a))
    OBVIOUS
  <2>. QED
    BY <1>3, <2>1
<1>6. /\ (a + 1) % N \in 0 .. N - 1
      /\ \A k \in 0 .. N - 1 : (a + k) % N \in 0 .. N - 1
      /\ \A q \in 0 .. N - 1 : (q - a) % N \in 0 .. N - 1
  BY <1>2, <1>3, <1>4
<1>. DEFINE b == (a + 1) % N
<1>7. \A k \in 0 .. N - 1 : (b + k) % N = (a + (k + 1)) % N
  <2>1. b \in 0 .. N - 1 /\ b = M(a + 1)
    BY <1>2, <1>6
  <2>. SUFFICES ASSUME NEW k \in 0 .. N - 1 PROVE (b + k) % N = (a + (k + 1)) % N
    OBVIOUS
  <2>. HIDE DEF b
  <2>2. (b + k) % N = M(b + k)
    <3>1. b + k \in Int /\ b + k < 2 * N /\ b + k >= -N
      BY <2>1
    <3>. HIDE DEF M
    <3>. QED
      BY <1>1, <3>1
  <2>3. M(b + k) = M(a + k + 1)
    BY <2>1
  <2>. QED
    BY <1>3, <2>2, <2>3
<1>8. \A k \in 1 .. N - 1 : (a + k) % N # a
  BY <1>3
<1>9. \A q \in 0 .. N - 1 : q # a => (q - b) % N = ((q - a) % N) - 1
  <2>1. b \in 0 .. N - 1 /\ b = M(a + 1)
    BY <1>2, <1>6
  <2>. SUFFICES ASSUME NEW q \in 0 .. N - 1, q # a PROVE (q - b) % N = ((q - a) % N) - 1
    OBVIOUS
  <2>. HIDE DEF b
  <2>2. (q - b) % N = M(q - b)
    <3>1. q - b \in Int /\ q - b < 2 * N /\ q - b >= -N
      BY <2>1
    <3>. HIDE DEF M
    <3>. QED
      BY <1>1, <3>1
  <2>3. M(q - b) = M(q - a) - 1
    BY <2>1
  <2>. QED
    BY <1>4, <2>2, <2>3
<1>10. (a + 0) % N = a /\ (a - a) % N = 0
  BY <1>2
<1>. HIDE DEF M
<1>. QED
  BY <1>5, <1>6, <1>7, <1>8, <1>9, <1>10

-----------------------------------------------------------------------------
(* The seats to move. *)

\* They are seats of the table, and whoever is to act is one of them.
LEMMA SeatsToMove ==
  ASSUME GameStateAssumption, TypeOK
  PROVE  /\ ToMove \subseteq Players
         /\ IsFiniteSet(ToMove)
         /\ IsFiniteSet(Movers) /\ Cardinality(Movers) \in Nat
         /\ Cardinality(Movers) <= NumPlayers
         /\ phase = "act" /\ endgame_turns # 0 => current_player_index \in ToMove
<1>1. /\ NumPlayers \in Nat \ {0} /\ current_player_index \in 0 .. NumPlayers - 1
      /\ endgame_turns \in -1 .. NumPlayers /\ Players = 0 .. NumPlayers - 1
  BY DEF GameStateAssumption, TypeOK, TableType, Players
<1>2. /\ \A k \in 0 .. NumPlayers - 1 : (current_player_index + k) % NumPlayers \in Players
      /\ (current_player_index + 0) % NumPlayers = current_player_index
  BY <1>1, Passing
<1>3. /\ ToMove \subseteq Players
      /\ phase = "act" /\ endgame_turns # 0 => current_player_index \in ToMove
  <2>1. CASE endgame_turns # NoTurns
    <3>1. ToMove = {(current_player_index + i) % NumPlayers : i \in 0 .. endgame_turns - 1}
      BY <2>1 DEF ToMove
    <3>2. \A i \in 0 .. endgame_turns - 1 : i \in 0 .. NumPlayers - 1
      BY <1>1
    <3>3. endgame_turns # 0 => 0 \in 0 .. endgame_turns - 1
      BY <1>1, <2>1 DEF NoTurns
    <3>. QED
      BY <1>2, <3>1, <3>2, <3>3
  <2>2. CASE endgame_turns = NoTurns
    BY <1>1, <2>2 DEF ToMove
  <2>. QED
    BY <2>1, <2>2
<1>4. IsFiniteSet(Players) /\ Cardinality(Players) = NumPlayers
  BY <1>1, FS_Interval
<1>5. Movers \in SUBSET Players
  BY <1>3 DEF Movers
<1>. QED
  BY <1>3, <1>4, <1>5, FS_Subset, FS_CardinalityType

\* Once a player has moved, no other seat joins them; it has left them itself when
\* the countdown runs, and when it has yet to draw.
LEMMA TurnPasses ==
  ASSUME GameStateAssumption, TypeOK, phase = "act", endgame_turns # 0, SpendEndgameTurn,
         \/ phase' = "act" /\ current_player_index' = next_player_index(current_player_index)
         \/ /\ phase' = "draw" /\ current_player_index' = current_player_index
            /\ endgame_turns = NoTurns
  PROVE  /\ ToMove' \subseteq ToMove
         /\ endgame_turns # NoTurns \/ phase' = "draw" => current_player_index \notin ToMove'
<1>1. /\ NumPlayers \in Nat \ {0} /\ current_player_index \in 0 .. NumPlayers - 1
      /\ endgame_turns \in -1 .. NumPlayers /\ Players = 0 .. NumPlayers - 1
  BY DEF GameStateAssumption, TypeOK, TableType, Players
<1>2. CASE endgame_turns = NoTurns
  <2>1. endgame_turns' = NoTurns
    BY <1>2 DEF SpendEndgameTurn
  <2>. QED
    BY <1>2, <2>1 DEF ToMove
<1>3. CASE endgame_turns # NoTurns
  <2>. DEFINE c == current_player_index
              d == (c + 1) % NumPlayers
  <2>1. /\ endgame_turns' = endgame_turns - 1 /\ endgame_turns' # NoTurns
        /\ endgame_turns \in 1 .. NumPlayers
        /\ current_player_index' = d
    BY <1>1, <1>3 DEF SpendEndgameTurn, NoTurns, next_player_index
  <2>2. /\ ToMove = {(c + i) % NumPlayers : i \in 0 .. endgame_turns - 1}
        /\ ToMove' = {(d + i) % NumPlayers : i \in 0 .. endgame_turns - 2}
    BY <1>3, <2>1 DEF ToMove
  <2>3. /\ \A k \in 0 .. NumPlayers - 1 : (d + k) % NumPlayers = (c + (k + 1)) % NumPlayers
        /\ \A k \in 1 .. NumPlayers - 1 : (c + k) % NumPlayers # c
    <3>1. c \in 0 .. NumPlayers - 1
      BY <1>1
    <3>. HIDE DEF c
    <3>2. \A k \in 0 .. NumPlayers - 1 :
            (((c + 1) % NumPlayers) + k) % NumPlayers = (c + (k + 1)) % NumPlayers
      BY <1>1, <3>1, Passing, ZenonT(60)
    <3>3. \A k \in 1 .. NumPlayers - 1 : (c + k) % NumPlayers # c
      BY <1>1, <3>1, Passing, ZenonT(60)
    <3>. QED
      BY <3>2, <3>3
  <2>. HIDE DEF c, d
  <2>4. ASSUME NEW i \in 0 .. endgame_turns - 2
        PROVE  /\ i \in 0 .. NumPlayers - 1 /\ i + 1 \in 1 .. NumPlayers - 1
               /\ i + 1 \in 0 .. endgame_turns - 1
    BY <1>1, <2>1
  <2>5. ASSUME NEW q \in ToMove' PROVE q \in ToMove /\ q # c
    <3>1. PICK i \in 0 .. endgame_turns - 2 : q = (d + i) % NumPlayers
      BY <2>2
    <3>2. q = (c + (i + 1)) % NumPlayers
      BY <2>3, <2>4, <3>1
    <3>. QED
      BY <2>2, <2>3, <2>4, <3>2
  <2>. QED
    BY <2>5 DEF c
<1>. QED
  BY <1>2, <1>3


-----------------------------------------------------------------------------
(* The score and the maximum. *)

\* Sums over the suits, of numbers in order.
LEMMA SuitSums ==
  ASSUME GameStateAssumption, NEW f, NEW g, DOMAIN f = Suits, DOMAIN g = Suits,
         \A s \in Suits : f[s] \in 0 .. Top /\ g[s] \in 0 .. Top /\ f[s] <= g[s]
  PROVE  /\ SumFunction(f) \in Nat /\ SumFunction(g) \in Nat /\ SumFunction(f) <= SumFunction(g)
         /\ SumFunction(f) = SumFunction(g) => \A s \in Suits : f[s] = g[s]
         /\ \A s \in Suits : g[s] = f[s] + 1 /\ (\A u \in Suits \ {s} : g[u] = f[u])
                               => SumFunction(g) = SumFunction(f) + 1
<1>1. IsFiniteSet(Suits) /\ Top \in Nat
  BY DEF GameStateAssumption
<1>2. /\ SumFunction(f) = SumFunctionOnSet(f, Suits) /\ SumFunction(g) = SumFunctionOnSet(g, Suits)
  BY DEF SumFunction
<1>3. \A s \in Suits : f[s] \in Nat /\ g[s] \in Nat /\ f[s] <= g[s]
  BY <1>1
<1>4. SumFunctionOnSet(f, Suits) \in Nat /\ SumFunctionOnSet(g, Suits) \in Nat
  BY <1>1, <1>3, SumNat
<1>5. /\ SumFunctionOnSet(f, Suits) <= SumFunctionOnSet(g, Suits)
      /\ SumFunctionOnSet(f, Suits) = SumFunctionOnSet(g, Suits) => \A s \in Suits : f[s] = g[s]
  BY <1>1, <1>3, SumOrder
<1>6. ASSUME NEW s \in Suits, g[s] = f[s] + 1, \A u \in Suits \ {s} : g[u] = f[u]
      PROVE  SumFunctionOnSet(g, Suits) = SumFunctionOnSet(f, Suits) + 1
  <2>1. SumFunctionOnSet(g, Suits) = SumFunctionOnSet(f, Suits) - f[s] + g[s]
    BY <1>1, <1>3, <1>6, SumChange
  <2>. QED
    BY <1>3, <1>4, <1>6, <2>1
<1>. QED
  BY <1>2, <1>4, <1>5, <1>6

\* The score is at most the maximum, and below it while a card is still needed.
LEMMA ScoreBound ==
  ASSUME GameStateAssumption, StacksInv
  PROVE  /\ score \in Nat /\ max_score \in Nat /\ score <= max_score
         /\ \A x \in Identity : Useful(x) => score < max_score
<1>. DEFINE f == [s \in Suits |-> played_count(s)]
            g == [s \in Suits |-> max_played(s)]
<1>1. /\ DOMAIN f = Suits /\ DOMAIN g = Suits
      /\ \A s \in Suits : f[s] \in 0 .. Top /\ g[s] \in 0 .. Top /\ f[s] <= g[s]
  BY DEF StacksInv
<1>2. score = SumFunction(f) /\ max_score = SumFunction(g)
  BY DEF score, max_score
<1>3. ASSUME NEW x \in Identity, Useful(x) PROVE f[x[1]] # g[x[1]] /\ x[1] \in Suits
  <2>1. x[1] \in Suits /\ K(x) \in Int
    BY DEF Identity, Ranks, K, KthRank, GameStateAssumption
  <2>2. ~ (K(x) <= played_count(x[1])) /\ K(x) <= max_played(x[1])
    BY <1>3 DEF Useful, Played, InReach
  <2>. QED
    BY <2>1, <2>2
<1>. HIDE DEF f, g
<1>4. /\ SumFunction(f) \in Nat /\ SumFunction(g) \in Nat /\ SumFunction(f) <= SumFunction(g)
      /\ SumFunction(f) = SumFunction(g) => \A s \in Suits : f[s] = g[s]
  BY <1>1, SuitSums
<1>. QED
  BY <1>2, <1>3, <1>4

\* A card that leaves a hand scores a point if it was useful, or none; the maximum
\* falls, or what was useful still is.
LEMMA UseScores ==
  ASSUME GameStateAssumption, PileType, StacksInv, StacksInv', NEW id \in Identity,
         (with_play(id) /\ is_playable(id)) \/ with_discard(id)
  PROVE  /\ max_score' \in Nat /\ max_score' <= max_score
         /\ score' = score \/ (score' = score + 1 /\ Useful(id))
         /\ \A x \in Identity : Useful(x)' => Useful(x)
         /\ max_score' = max_score => \A x \in Identity \ {id} : Useful(x) => Useful(x)'
<1>. DEFINE f == [s \in Suits |-> played_count(s)]
            g == [s \in Suits |-> max_played(s)]
            f2 == [s \in Suits |-> played_count(s)']
            g2 == [s \in Suits |-> max_played(s)']
<1>0. Top \in Nat
  BY DEF GameStateAssumption
<1>1. /\ \A s \in Suits : /\ played_count(s) \in 0 .. Top /\ max_played(s) \in 0 .. Top
                          /\ played_count(s) <= max_played(s)
      /\ \A s \in Suits : /\ played_count(s)' \in 0 .. Top /\ max_played(s)' \in 0 .. Top
                          /\ played_count(s)' <= max_played(s)'
  BY DEF StacksInv
<1>2. /\ id[1] \in Suits /\ K(id) \in 1 .. Top
      /\ is_playable(id) <=> K(id) = played_count(id[1]) + 1
  BY Coordinates
<1>3. /\ score = SumFunction(f) /\ max_score = SumFunction(g)
      /\ score' = SumFunction(f2) /\ max_score' = SumFunction(g2)
  BY DEF score, max_score
<1>4. /\ DOMAIN f = Suits /\ DOMAIN g = Suits /\ DOMAIN f2 = Suits /\ DOMAIN g2 = Suits
      /\ \A s \in Suits : /\ f[s] = played_count(s) /\ g[s] = max_played(s)
                          /\ f2[s] = played_count(s)' /\ g2[s] = max_played(s)'
  OBVIOUS
<1>5. ASSUME NEW x \in Identity
      PROVE  /\ x[1] \in Suits /\ K(x) \in 1 .. Top
             /\ Useful(x) <=> ~ (K(x) <= f[x[1]]) /\ K(x) <= g[x[1]]
             /\ Useful(x)' <=> ~ (K(x) <= f2[x[1]]) /\ K(x) <= g2[x[1]]
  <2>1. x[1] \in Suits /\ K(x) \in 1 .. Top
    BY Coordinates
  <2>2. K(x)' = K(x)
    BY DEF K, KthRank
  <2>3. /\ f[x[1]] = played_count(x[1]) /\ g[x[1]] = max_played(x[1])
        /\ f2[x[1]] = played_count(x[1])' /\ g2[x[1]] = max_played(x[1])'
    BY <2>1
  <2>. HIDE DEF f, g, f2, g2
  <2>. QED
    BY <2>1, <2>2, <2>3 DEF Useful, Played, InReach
<1>6. \A s \in Suits : /\ f[s] \in 0 .. Top /\ g[s] \in 0 .. Top /\ f[s] <= g[s]
                       /\ f2[s] \in 0 .. Top /\ g2[s] \in 0 .. Top /\ f2[s] <= g2[s]
  BY <1>1
<1>n. max_score' \in Nat
  <2>. HIDE DEF f, g, f2, g2
  <2>1. \A s \in Suits : g2[s] \in 0 .. Top /\ g2[s] <= g2[s]
    BY <1>0, <1>6
  <2>. QED
    BY <1>3, <1>4, <2>1, SuitSums
<1>7. CASE with_play(id) /\ is_playable(id)
  <2>1. \A s \in Suits : /\ f2[s] = (IF s = id[1] THEN f[s] + 1 ELSE f[s])
                         /\ g2[s] = g[s]
    BY <1>7, PlayMoves
  <2>2. f[id[1]] = played_count(id[1])
    BY <1>2
  <2>. HIDE DEF f, g, f2, g2
  <2>3. SumFunction(f2) = SumFunction(f) + 1
    <3>1. ASSUME NEW s \in Suits PROVE f[s] \in 0 .. Top /\ f2[s] \in 0 .. Top /\ f[s] <= f2[s]
      <4>1. f[s] \in 0 .. Top /\ f2[s] \in 0 .. Top /\ (f2[s] = f[s] \/ f2[s] = f[s] + 1)
        BY <1>6, <2>1
      <4>. QED
        BY <4>1, <1>0
    <3>2. f2[id[1]] = f[id[1]] + 1 /\ \A u \in Suits \ {id[1]} : f2[u] = f[u]
      BY <2>1, <1>2
    <3>. QED
      BY <1>2, <1>4, <3>1, <3>2, SuitSums
  <2>4. SumFunction(g2) <= SumFunction(g)
    <3>1. \A s \in Suits : g2[s] \in 0 .. Top /\ g[s] \in 0 .. Top /\ g2[s] <= g[s]
      BY <1>0, <1>6, <2>1
    <3>. QED
      BY <1>4, <3>1, SuitSums
  <2>5. Useful(id)
    <3>1. K(id) <= g[id[1]]
      BY <1>2, <1>6, <1>7, <2>1, <2>2
    <3>. QED
      BY <1>2, <1>5, <1>6, <1>7, <2>2, <3>1
  <2>6. ASSUME NEW x \in Identity PROVE /\ Useful(x)' => Useful(x)
                                        /\ x # id /\ Useful(x) => Useful(x)'
    <3>1. x # id => x[1] # id[1] \/ K(x) # K(id)
      BY PlaceNames
    <3>2. /\ x[1] \in Suits /\ f2[x[1]] = (IF x[1] = id[1] THEN f[x[1]] + 1 ELSE f[x[1]]) /\ g2[x[1]] = g[x[1]]
          /\ f[x[1]] \in 0 .. Top /\ K(x) \in 1 .. Top /\ (x[1] = id[1] => K(id) = f[x[1]] + 1)
      BY <1>2, <1>5, <1>6, <1>7, <2>1, <2>2
    <3>. QED
      BY <1>0, <1>2, <1>5, <3>1, <3>2, SMTT(30)
  <2>. QED
    BY <1>n, <1>3, <2>3, <2>4, <2>5, <2>6
<1>8. CASE with_discard(id)
  <2>1. \A s \in Suits :
           /\ f2[s] = f[s]
           /\ g2[s] = (IF s = id[1] /\ id \in critical_set /\ K(id) - 1 < g[s]
                                THEN K(id) - 1 ELSE g[s])
    BY <1>8, DiscardMoves
  <2>2. f2 = f
    BY <2>1
  <2>. HIDE DEF f, g, f2, g2
  <2>3. \A s \in Suits : g2[s] \in 0 .. Top /\ g[s] \in 0 .. Top /\ g2[s] <= g[s]
    <3>. SUFFICES ASSUME NEW s \in Suits
                  PROVE  g2[s] \in 0 .. Top /\ g[s] \in 0 .. Top /\ g2[s] <= g[s]
      OBVIOUS
    <3>1. g2[s] \in 0 .. Top /\ g[s] \in 0 .. Top
      BY <1>6
    <3>2. (g2[s] = K(id) - 1 /\ K(id) - 1 < g[s]) \/ g2[s] = g[s]
      BY <2>1
    <3>3. K(id) \in 1 .. Top /\ Top \in Nat
      BY <1>0, <1>2
    <3>4. K(id) - 1 < g[s] => K(id) - 1 <= g[s]
      BY <3>1, <3>3
    <3>5. g2[s] <= g[s]
      BY <3>1, <3>2, <3>3
    <3>. QED
      BY <3>1, <3>5
  <2>4. /\ SumFunction(g2) <= SumFunction(g)
        /\ SumFunction(g2) = SumFunction(g) => \A s \in Suits : g2[s] = g[s]
    BY <1>4, <2>3, SuitSums
  <2>5. \A x \in Identity : Useful(x)' => Useful(x)
    <3>. SUFFICES ASSUME NEW x \in Identity, Useful(x)' PROVE Useful(x)
      OBVIOUS
    <3>1. K(x) \in 1 .. Top /\ g2[x[1]] \in 0 .. Top /\ g[x[1]] \in 0 .. Top /\ g2[x[1]] <= g[x[1]]
          /\ f2[x[1]] = f[x[1]]
      BY <1>5, <2>1, <2>3
    <3>. QED
      BY <1>0, <1>5, <3>1
  <2>6. (\A s \in Suits : g2[s] = g[s]) => \A x \in Identity : Useful(x) => Useful(x)'
    <3>. SUFFICES ASSUME \A s \in Suits : g2[s] = g[s], NEW x \in Identity, Useful(x)
                  PROVE  Useful(x)'
      OBVIOUS
    <3>1. g2[x[1]] = g[x[1]] /\ f2[x[1]] = f[x[1]]
      BY <1>5, <2>1
    <3>. QED
      BY <1>5, <3>1
  <2>. QED
    BY <1>n, <1>3, <2>2, <2>4, <2>5, <2>6
<1>. QED
  BY <1>7, <1>8

-----------------------------------------------------------------------------
(* What a hand keeps. *)

\* The player to act uses its i-th card: both buttons do, on any card.
CardUse(i) ==
  LET p == current_player_index
  IN  /\ phase = "act" /\ ~ended /\ i \in 1 .. Len(hands[p])
      /\ drop_from_hand(p, i) /\ SpendEndgameTurn /\ PassTurn /\ cards_left' = cards_left
      /\ \/ with_play(hands[p][i]) /\ is_playable(hands[p][i])
         \/ with_discard(hands[p][i])

LEMMA PressIsUse ==
  ASSUME NEW i, PressPlay(i) \/ PressDiscard(i)
  PROVE  CardUse(i)
<1>. DEFINE id == hands[current_player_index][i]
            failed == id[1] \in Inverted /\ ~is_playable(id)
<1>1. CASE PressPlay(i)
  <2>1. /\ phase = "act" /\ ~ended /\ i \in 1 .. Len(hands[current_player_index]) /\ PassTurn
        /\ IF id[1] \in Inverted \/ is_playable(id)
           THEN on_play(current_player_index, i)
           ELSE on_discard(current_player_index, i, TRUE)
    BY <1>1 DEF PressPlay
  <2>2. CASE id[1] \in Inverted \/ is_playable(id)
    <3>1. /\ drop_from_hand(current_player_index, i) /\ cards_left' = cards_left
          /\ SpendEndgameTurn
          /\ (id[1] \notin Inverted /\ with_play(id)) \/ with_discard(id)
      BY <2>1, <2>2 DEF on_play
    <3>. QED
      BY <2>1, <2>2, <3>1 DEF CardUse
  <2>3. CASE ~(id[1] \in Inverted \/ is_playable(id))
    <3>1. /\ drop_from_hand(current_player_index, i) /\ cards_left' = cards_left
          /\ SpendEndgameTurn /\ with_discard(id)
      BY <2>1, <2>3 DEF on_discard
    <3>. QED
      BY <2>1, <3>1 DEF CardUse
  <2>. QED
    BY <2>2, <2>3
<1>2. CASE PressDiscard(i)
  <2>1. /\ phase = "act" /\ ~ended /\ i \in 1 .. Len(hands[current_player_index]) /\ PassTurn
        /\ on_discard(current_player_index, i, failed)
    BY <1>2 DEF PressDiscard
  <2>2. /\ drop_from_hand(current_player_index, i) /\ cards_left' = cards_left
        /\ SpendEndgameTurn
        /\ (id[1] \in Inverted /\ ~failed /\ with_play(id)) \/ with_discard(id)
    <3>. HIDE DEF failed
    <3>. QED
      BY <2>1 DEF on_discard
  <2>. QED
    BY <2>1, <2>2 DEF CardUse
<1>. QED
  BY <1>1, <1>2

\* A card no copy of which is left outside of a hand is still there after any other
\* card has been used or drawn, and after a clue.
LEMMA UseKeeps ==
  ASSUME GameStateAssumption, AccountInv, NEW i, CardUse(i),
         NEW q \in Players, NEW x \in Identity, Keeps(q, x)
  PROVE  Keeps(q, x)' /\ (q # current_player_index => hands[current_player_index][i] # x)
<1>. DEFINE p == current_player_index
<1>1. /\ p \in Players /\ i \in 1 .. Len(hands[p]) /\ hands \in [Players -> Seq(Identity)]
      /\ hands' = [hands EXCEPT ![p] = Without(@, i)]
  BY DEF AccountInv, TypeOK, TableType, CardUse, drop_from_hand
<1>2. OutOfDeck(x)' = OutOfDeck(x)
  BY UsedCard DEF CardUse, AccountInv, TypeOK, TableType
<1>3. x \notin InDeck'
  BY <1>2 DEF Keeps, InDeck, OutOfDeck
<1>4. q # p => hands[p][i] # x
  BY <1>1 DEF Keeps
<1>5. ASSUME NEW r \in Players \ {q}, NEW j \in 1 .. Len(hands'[r]) PROVE hands'[r][j] # x
  <2>1. \A k \in 1 .. Len(hands[r]) : hands[r][k] # x
    BY DEF Keeps
  <2>2. CASE r # p
    BY <1>1, <1>5, <2>1, <2>2
  <2>3. CASE r = p
    <3>1. Len(hands[p]) \in Nat
      BY <1>1
    <3>2. hands'[r] = [k \in 1 .. Len(hands[p]) - 1 |-> IF k < i THEN hands[p][k] ELSE hands[p][k + 1]]
      BY <1>1, <2>3 DEF Without
    <3>3. j \in 1 .. Len(hands[p]) - 1
      <4>1. Len(hands[p]) - 1 \in Nat
        BY <1>1, <3>1
      <4>2. Len(hands'[r]) = Len(hands[p]) - 1
        BY <3>2, <4>1
      <4>. QED
        BY <1>5, <4>2
    <3>4. j \in 1 .. Len(hands[p]) /\ j + 1 \in 1 .. Len(hands[p])
      BY <3>1, <3>3
    <3>. QED
      BY <2>1, <2>3, <3>2, <3>3, <3>4
  <2>. QED
    BY <2>2, <2>3
<1>. QED
  BY <1>3, <1>4, <1>5 DEF Keeps

LEMMA DrawKeeps ==
  ASSUME GameStateAssumption, AccountInv, Draw, NEW q \in Players, NEW x \in Identity, Keeps(q, x)
  PROVE  Keeps(q, x)'
<1>. DEFINE p == current_player_index
<1>1. PICK c \in InDeck : on_draw(p, c)
  BY DEF Draw
<1>2. /\ p \in Players /\ hands \in [Players -> Seq(Identity)] /\ cards_left > 0
      /\ hands' = [hands EXCEPT ![p] = <<c>> \o @] /\ c \in Identity
      /\ Len(hands[p]) < HandSize
  BY <1>1 DEF AccountInv, TypeOK, TableType, HandsInv, on_draw, InDeck, Draw
<1>3. c # x
  BY DEF Keeps
<1>4. OutOfDeck(x)' = OutOfDeck(x)
  <2>1. OutOfDeck(x)' = OutOfDeck(x) + (IF x = c THEN 1 ELSE 0)
    BY <1>1, <1>2, DrawnCard
  <2>2. OutOfDeck(x) \in Nat
    <3>1. Base(x) \in Nat
      BY Coordinates DEF AccountInv, TypeOK
    <3>2. OutOfDeck(x) = Base(x) + InHands(x) /\ InHands(x) \in Nat
      BY InHandsIsPlaces DEF OutOfDeck, Base
    <3>. QED
      BY <3>1, <3>2
  <2>. QED
    BY <1>3, <2>1, <2>2
<1>5. x \notin InDeck'
  BY <1>4 DEF Keeps, InDeck, OutOfDeck
<1>6. ASSUME NEW r \in Players \ {q}, NEW j \in 1 .. Len(hands'[r]) PROVE hands'[r][j] # x
  <2>1. \A k \in 1 .. Len(hands[r]) : hands[r][k] # x
    BY DEF Keeps
  <2>2. CASE r # p
    BY <1>2, <1>6, <2>1, <2>2
  <2>3. CASE r = p
    <3>1. Len(hands[p]) \in Nat /\ hands[p] \in Seq(Identity)
      BY <1>2
    <3>2. hands'[r] = <<c>> \o hands[p]
      BY <1>2, <2>3
    <3>3. /\ Len(hands'[r]) = Len(hands[p]) + 1 /\ hands'[r][1] = c
          /\ \A k \in 1 .. Len(hands[p]) : hands'[r][k + 1] = hands[p][k]
      BY <1>2, <3>1, <3>2
    <3>4. CASE j = 1
      BY <1>3, <3>3, <3>4
    <3>5. CASE j # 1
      <4>1. j - 1 \in 1 .. Len(hands[p]) /\ j = (j - 1) + 1
        BY <1>6, <3>1, <3>3, <3>5
      <4>. QED
        BY <2>1, <2>3, <3>3, <4>1
    <3>. QED
      BY <3>4, <3>5
  <2>. QED
    BY <2>2, <2>3
<1>. QED
  BY <1>5, <1>6 DEF Keeps

\* With the same piles the score, the maximum and what is useful are the same, and
\* with the same hands what is kept.
LEMMA SameScores ==
  ASSUME UNCHANGED pileVars
  PROVE  /\ score' = score /\ max_score' = max_score
         /\ \A x : Useful(x)' <=> Useful(x)
         /\ hands' = hands => \A q, x : Keeps(q, x)' <=> Keeps(q, x)
<1>1. /\ play_stacks' = play_stacks /\ max_ranks' = max_ranks /\ base_count' = base_count
  BY DEF pileVars
<1>2. score' = score /\ max_score' = max_score
  BY <1>1 DEF score, max_score, played_count, max_played
<1>3. \A x : Useful(x)' <=> Useful(x)
  BY <1>1 DEF Useful, Played, InReach, K, KthRank, played_count, max_played
<1>4. hands' = hands => InDeck' = InDeck
  BY <1>1 DEF InDeck, InHands
<1>. QED
  BY <1>2, <1>3, <1>4 DEF Keeps

-----------------------------------------------------------------------------
(* What is out of reach stays out of reach. *)

\* The seats to move that hold something useful do not become more when no seat joins
\* and none gets anything useful, and become fewer when one of them leaves.
LEMMA FewerMovers ==
  ASSUME GameStateAssumption, TypeOK, ToMove' \subseteq ToMove,
         \A q \in ToMove' : VoidSeat(q) => VoidSeat(q)'
  PROVE  /\ Cardinality(Movers)' \in Nat /\ Cardinality(Movers)' <= Cardinality(Movers)
         /\ \A q \in Movers : q \notin ToMove' => Cardinality(Movers)' < Cardinality(Movers)
<1>1. Movers' \in SUBSET Movers /\ \A q \in Movers : q \notin ToMove' => q \notin Movers'
  BY DEF Movers
<1>2. IsFiniteSet(Movers) /\ Cardinality(Movers) \in Nat
  BY SeatsToMove
<1>3. /\ IsFiniteSet(Movers') /\ Cardinality(Movers') <= Cardinality(Movers)
      /\ Cardinality(Movers) = Cardinality(Movers') => Movers = Movers'
  BY <1>1, <1>2, FS_Subset
<1>4. Cardinality(Movers') \in Nat
  BY <1>3, FS_CardinalityType
<1>. QED
  BY <1>1, <1>2, <1>3, <1>4

\* A clue spends a turn and a token.
LEMMA ClueDoomed ==
  ASSUME GameStateAssumption, AccountInv, CountdownInv, GiveClue, NEW m \in Int, Doomed(m)
  PROVE  Doomed(m)'
<1>. DEFINE p == current_player_index
<1>1. /\ TypeOK /\ phase = "act" /\ phase' = "act" /\ endgame_turns # 0
      /\ endgame_turns \in -1 .. NumPlayers
      /\ clue_tokens \in Nat /\ clue_tokens' = clue_tokens - 1 /\ clue_tokens > 0
      /\ SpendEndgameTurn /\ p' = next_player_index(p)
      /\ UNCHANGED pileVars /\ hands' = hands /\ cards_left' = cards_left
      /\ p \in Players
  BY DEF GiveClue, on_clue, ended, AccountInv, TypeOK, TokenType, TableType
<1>2. /\ ToMove' \subseteq ToMove
      /\ endgame_turns # NoTurns => endgame_turns' # NoTurns
  BY <1>1, TurnPasses DEF SpendEndgameTurn, NoTurns
<1>3. /\ score' = score /\ max_score' = max_score
      /\ \A x : Useful(x)' <=> Useful(x)
      /\ \A q, x : Keeps(q, x)' <=> Keeps(q, x)
  BY <1>1, SameScores
<1>4. \A q : /\ NeedsTwoTurns(q) => NeedsTwoTurns(q)'
             /\ VoidSeat(q) => VoidSeat(q)'
  BY <1>1, <1>3 DEF NeedsTwoTurns, VoidSeat
<1>5. TooSlow(m) => TooSlow(m)'
  <2>1. Cardinality(Movers)' \in Nat /\ Cardinality(Movers)' <= Cardinality(Movers)
    BY <1>1, <1>2, <1>4, FewerMovers
  <2>2. Cardinality(Movers) \in Nat /\ score \in Nat /\ cards_left \in Nat
    BY <1>1, SeatsToMove, ScoreBound DEF AccountInv, PilesInv, TypeOK, TableType
  <2>. QED
    BY <1>1, <1>3, <2>1, <2>2 DEF TooSlow
<1>6. Stranded => Stranded'
  BY <1>2, <1>3 DEF Stranded
<1>7. Overloaded => Overloaded'
  <2>. SUFFICES ASSUME NEW q \in Players, NeedsTwoTurns(q),
                       \/ endgame_turns # NoTurns
                       \/ cards_left = 1 /\ hops(p, q) > clue_tokens
                       \/ cards_left = 1 /\ \E r \in Players \ {q} : NeedsTwoTurns(r)
                PROVE  Overloaded'
    BY <1>1 DEF Overloaded
  <2>1. CASE endgame_turns # NoTurns
    BY <1>2, <1>4, <2>1 DEF Overloaded
  <2>2. CASE cards_left = 1 /\ hops(p, q) > clue_tokens
    <3>1. /\ NumPlayers \in Nat \ {0} /\ p \in 0 .. NumPlayers - 1 /\ q \in 0 .. NumPlayers - 1
      BY <1>1 DEF GameStateAssumption, Players
    <3>2. hops(p, q) \in 0 .. NumPlayers - 1 /\ hops(p, p) = 0
      <4>. HIDE DEF p
      <4>. QED
        BY <3>1, Passing, Zenon DEF hops
    <3>3. q # p
      BY <1>1, <2>2, <3>2
    <3>4. hops(p', q) = hops(p, q) - 1
      <4>1. (q - ((p + 1) % NumPlayers)) % NumPlayers = ((q - p) % NumPlayers) - 1
        <5>. HIDE DEF p
        <5>1. \A r \in 0 .. NumPlayers - 1 :
                r # p => (r - ((p + 1) % NumPlayers)) % NumPlayers = ((r - p) % NumPlayers) - 1
          BY <3>1, Passing, Zenon
        <5>. QED
          BY <3>1, <3>3, <5>1
      <4>. QED
        BY <1>1, <4>1 DEF hops, next_player_index
    <3>5. hops(p', q) > clue_tokens'
      BY <1>1, <2>2, <3>2, <3>4
    <3>. QED
      BY <1>1, <1>4, <2>2, <3>5 DEF Overloaded, hops
  <2>3. CASE cards_left = 1 /\ \E r \in Players \ {q} : NeedsTwoTurns(r)
    BY <1>1, <1>4, <2>3 DEF Overloaded
  <2>. QED
    BY <2>1, <2>2, <2>3
<1>. QED
  BY <1>3, <1>5, <1>6, <1>7 DEF Doomed

\* A card that is used scores at most one point, and its seat has used the last turn
\* there was for it, or draws.
LEMMA UseDoomed ==
  ASSUME GameStateAssumption, AccountInv, AccountInv', CountdownInv, NEW i, CardUse(i),
         NEW m \in Int, Doomed(m)
  PROVE  Doomed(m)'
<1>. DEFINE p == current_player_index
            id == hands[p][i]
<1>1. /\ TypeOK /\ phase = "act" /\ endgame_turns # 0 /\ endgame_turns \in -1 .. NumPlayers
      /\ p \in Players /\ i \in 1 .. Len(hands[p]) /\ hands \in [Players -> Seq(Identity)]
      /\ SpendEndgameTurn /\ cards_left' = cards_left /\ cards_left \in Nat
      /\ hands' = [hands EXCEPT ![p] = Without(@, i)]
  BY DEF CardUse, drop_from_hand, ended, AccountInv, TypeOK, TableType
<1>2. \/ /\ endgame_turns # NoTurns /\ endgame_turns' # NoTurns
         /\ phase' = "act" /\ p' = next_player_index(p)
      \/ /\ endgame_turns = NoTurns /\ endgame_turns' = NoTurns /\ cards_left > 0
         /\ phase' = "draw" /\ p' = p
  BY <1>1 DEF CardUse, PassTurn, CountdownInv, SpendEndgameTurn, NoTurns
<1>3. p \in ToMove /\ ToMove' \subseteq ToMove /\ p \notin ToMove'
  BY <1>1, <1>2, TurnPasses, SeatsToMove
<1>4. id \in Identity
  BY <1>1
<1>5. /\ max_score' \in Nat /\ max_score' <= max_score
      /\ score' = score \/ (score' = score + 1 /\ Useful(id))
      /\ \A x \in Identity : Useful(x)' => Useful(x)
      /\ max_score' = max_score => \A x \in Identity \ {id} : Useful(x) => Useful(x)'
  BY <1>4, UseScores DEF CardUse, AccountInv, PilesInv, TypeOK
<1>6. score \in Nat /\ max_score \in Nat /\ max_score' \in Int
  BY <1>5, ScoreBound DEF AccountInv, PilesInv
<1>7. CASE max_score' < m
  BY <1>6, <1>7 DEF Doomed
<1>8. CASE ~ (max_score' < m)
  <2>1. max_score = m /\ max_score' = m /\ max_score' = max_score
    BY <1>5, <1>6, <1>8 DEF Doomed
  <2>2. \A x \in Identity : x # id /\ Useful(x) => Useful(x)'
    BY <1>5, <2>1
  <2>3. \A q \in Players, x \in Identity : Keeps(q, x) => Keeps(q, x)' /\ (q # p => x # id)
    BY UseKeeps
  <2>4. TooSlow(m) => TooSlow(m)'
    <3>1. \A q \in ToMove' : VoidSeat(q) => VoidSeat(q)'
      <4>. SUFFICES ASSUME NEW q \in ToMove', VoidSeat(q), NEW j \in 1 .. Len(hands'[q])
                    PROVE  ~ Useful(hands[q][j])'
        BY DEF VoidSeat
      <4>1. q \in Players /\ q # p
        BY <1>1, <1>3, SeatsToMove
      <4>2. hands'[q] = hands[q] /\ hands[q] \in Seq(Identity)
        BY <1>1, <4>1
      <4>3. PICK x \in Identity : x = hands[q][j] /\ x = hands'[q][j] /\ ~ Useful(x)
        BY <4>2 DEF VoidSeat
      <4>4. Useful(hands[q][j])' <=> Useful(x)'
        BY <4>3 DEF Useful, Played, InReach, K, KthRank, played_count, max_played
      <4>. QED
        BY <1>5, <4>3, <4>4
    <3>2. /\ Cardinality(Movers)' \in Nat /\ Cardinality(Movers)' <= Cardinality(Movers)
          /\ p \in Movers => Cardinality(Movers)' < Cardinality(Movers)
      BY <1>1, <1>3, <3>1, FewerMovers
    <3>3. Useful(id) => p \in Movers
      BY <1>1, <1>3 DEF Movers, VoidSeat
    <3>4. Cardinality(Movers) \in Nat
      BY <1>1, SeatsToMove
    <3>. QED
      BY <1>1, <1>5, <1>6, <3>2, <3>3, <3>4 DEF TooSlow
  <2>5. Stranded => Stranded'
    <3>. SUFFICES ASSUME endgame_turns # NoTurns, NEW q \in Players \ ToMove,
                         NEW x \in Identity, Useful(x), Keeps(q, x)
                  PROVE  Stranded'
      BY DEF Stranded
    <3>1. q # p /\ q \in Players \ ToMove'
      BY <1>3
    <3>. QED
      BY <1>2, <2>2, <2>3, <3>1 DEF Stranded
  <2>6. \A q \in Players : q # p /\ NeedsTwoTurns(q) => NeedsTwoTurns(q)'
    BY <2>2, <2>3 DEF NeedsTwoTurns
  <2>7. Overloaded => Stranded' \/ Overloaded'
    <3>. SUFFICES ASSUME NEW q \in Players, NeedsTwoTurns(q),
                         \/ endgame_turns # NoTurns
                         \/ cards_left = 1 /\ hops(p, q) > clue_tokens
                         \/ cards_left = 1 /\ \E r \in Players \ {q} : NeedsTwoTurns(r)
                  PROVE  Stranded' \/ Overloaded'
      BY <1>1 DEF Overloaded
    <3>1. CASE endgame_turns # NoTurns /\ q # p
      BY <1>2, <2>6, <3>1 DEF Overloaded
    <3>2. CASE endgame_turns # NoTurns /\ q = p
      <4>1. PICK x \in Identity : Useful(x) /\ Keeps(p, x) /\ x # id
        BY <3>2 DEF NeedsTwoTurns
      <4>. QED
        BY <1>1, <1>2, <1>3, <2>2, <2>3, <3>2, <4>1 DEF Stranded
    <3>3. ASSUME endgame_turns = NoTurns, cards_left = 1, NEW r \in Players, r # p, NeedsTwoTurns(r)
          PROVE  Overloaded'
      BY <1>1, <1>2, <2>6, <3>3 DEF Overloaded
    <3>4. CASE endgame_turns = NoTurns /\ cards_left = 1 /\ hops(p, q) > clue_tokens
      <4>1. /\ NumPlayers \in Nat \ {0} /\ p \in 0 .. NumPlayers - 1 /\ clue_tokens \in Nat
        BY <1>1 DEF GameStateAssumption, Players, TypeOK, TokenType
      <4>2. hops(p, p) = 0
        <5>. HIDE DEF p
        <5>. QED
          BY <4>1, Passing, Zenon DEF hops
      <4>3. q # p
        BY <3>4, <4>1, <4>2
      <4>. QED
        BY <3>3, <3>4, <4>3
    <3>5. CASE endgame_turns = NoTurns /\ cards_left = 1 /\ \E r \in Players \ {q} : NeedsTwoTurns(r)
      BY <3>3, <3>5
    <3>. QED
      BY <3>1, <3>2, <3>4, <3>5
  <2>. QED
    BY <1>6, <2>1, <2>4, <2>5, <2>7 DEF Doomed
<1>. QED
  BY <1>7, <1>8

\* A draw gives its seat a turn, but the deck a card less.
LEMMA DrawDoomed ==
  ASSUME GameStateAssumption, AccountInv, AccountInv', CountdownInv, Draw, NEW m \in Int, Doomed(m)
  PROVE  Doomed(m)'
<1>. DEFINE p == current_player_index
<1>1. /\ TypeOK /\ TypeOK' /\ phase = "draw" /\ phase' = "act" /\ cards_left \in Nat
      /\ p \in Players /\ hands \in [Players -> Seq(Identity)]
      /\ cards_left > 0 /\ p' = next_player_index(p) /\ endgame_turns = NoTurns
  BY DEF Draw, CountdownInv, AccountInv, TypeOK, TableType
<1>2. PICK c \in InDeck : on_draw(p, c)
  BY DEF Draw
<1>3. /\ UNCHANGED pileVars /\ hands' = [hands EXCEPT ![p] = <<c>> \o @]
      /\ cards_left' = cards_left - 1
      /\ endgame_turns' = IF cards_left = 1 THEN NumPlayers ELSE NoTurns
  BY <1>1, <1>2 DEF on_draw
<1>4. /\ score' = score /\ max_score' = max_score
      /\ \A x : Useful(x)' <=> Useful(x)
  BY <1>3, SameScores
<1>5. \A q \in Players, x \in Identity : Keeps(q, x) => Keeps(q, x)'
  BY DrawKeeps
<1>6. \A q \in Players : NeedsTwoTurns(q) => NeedsTwoTurns(q)'
  BY <1>4, <1>5 DEF NeedsTwoTurns
<1>7. TooSlow(m) => TooSlow(m)'
  <2>1. ToMove = Players \ {p} /\ ToMove' \subseteq Players
    <3>1. NumPlayers \in Nat \ {0} /\ p' \in 0 .. NumPlayers - 1 /\ Players = 0 .. NumPlayers - 1
      BY <1>1 DEF GameStateAssumption, TypeOK, TableType, Players
    <3>2. \A k \in 0 .. NumPlayers - 1 : (p' + k) % NumPlayers \in Players
      BY <3>1, Passing
    <3>. QED
      BY <1>1, <1>3, <3>1, <3>2 DEF ToMove
  <2>2. \A q \in Players \ {p} : VoidSeat(q) => VoidSeat(q)'
    BY <1>1, <1>3, <1>4 DEF VoidSeat
  <2>3. Movers' \in SUBSET (Movers \cup {p})
    BY <2>1, <2>2 DEF Movers
  <2>4. /\ IsFiniteSet(Movers) /\ Cardinality(Movers) \in Nat
        /\ score \in Nat
    BY <1>1, SeatsToMove, ScoreBound DEF AccountInv, PilesInv
  <2>5. /\ IsFiniteSet(Movers \cup {p})
        /\ Cardinality(Movers \cup {p}) \in {Cardinality(Movers), Cardinality(Movers) + 1}
    BY <2>4, FS_AddElement
  <2>6. Cardinality(Movers') \in Nat /\ Cardinality(Movers') <= Cardinality(Movers) + 1
    <3>1. IsFiniteSet(Movers') /\ Cardinality(Movers') <= Cardinality(Movers \cup {p})
      BY <2>3, <2>5, FS_Subset
    <3>2. Cardinality(Movers') \in Nat
      BY <3>1, FS_CardinalityType
    <3>. QED
      BY <2>4, <2>5, <3>1, <3>2
  <2>. QED
    BY <1>1, <1>3, <1>4, <2>4, <2>6 DEF TooSlow
<1>8. ~ Stranded
  BY <1>1 DEF Stranded
<1>9. Overloaded => Overloaded'
  <2>. SUFFICES ASSUME NEW q \in Players, NeedsTwoTurns(q), cards_left = 1 PROVE Overloaded'
    BY <1>1 DEF Overloaded
  <2>1. endgame_turns' # NoTurns
    BY <1>3 DEF NoTurns, GameStateAssumption
  <2>. QED
    BY <1>6, <2>1 DEF Overloaded
<1>. QED
  BY <1>4, <1>7, <1>8, <1>9 DEF Doomed

-----------------------------------------------------------------------------
(* What the search gives up is out of reach. *)

\* The state handed to the search reads as the engine's.
LEMMA SearchReads ==
  ASSUME GameStateAssumption, TypeOK
  PROVE  /\ score_of(Now) = score /\ max_score_of(Now) = max_score
         /\ \A x \in Identity : is_useful(Now, x) <=> Useful(x)
         /\ \A q \in Players : is_void(Now, q) => VoidSeat(q)
<1>1. /\ Now.play_stacks = play_stacks /\ Now.max_ranks = max_ranks /\ Now.hands = hands
  BY DEF Now
<1>2. \A u : /\ InPlayOrder(u, play_stacks[u]) = played_count(u)
             /\ InPlayOrder(u, max_ranks[u]) = max_played(u)
  BY DEF InPlayOrder, played_count, max_played
<1>3. score_of(Now) = score /\ max_score_of(Now) = max_score
  BY <1>1, <1>2 DEF score_of, max_score_of, score, max_score
<1>4. ASSUME NEW x \in Identity PROVE is_useful(Now, x) <=> Useful(x)
  <2>1. is_basic_trash(x) <=> Played(x) \/ ~InReach(x)
    BY Coordinates DEF TypeOK
  <2>2. /\ play_stacks[x[1]] \in Int /\ max_ranks[x[1]] \in Int /\ x[2] \in Int
    BY DEF TypeOK, PileType, Identity, Ranks, GameStateAssumption
  <2>3. is_useful(Now, x) <=> ~is_basic_trash(x)
    BY <1>1, <2>2 DEF is_useful, is_basic_trash
  <2>. QED
    BY <2>1, <2>3 DEF Useful
<1>5. ASSUME NEW q \in Players, is_void(Now, q), NEW i \in 1 .. Len(hands[q])
      PROVE  ~Useful(hands[q][i])
  <2>1. hands[q] \in Seq(Identity) /\ DOMAIN hands[q] = 1 .. Len(hands[q])
    BY DEF TypeOK, TableType
  <2>2. hands[q][i] \in Identity
    BY <2>1
  <2>3. hands[q][i] # Unknown
    <3>1. \A x \in Identity : x = <<x[1], x[2]>>
      BY DEF Identity
    <3>2. \A a, b : <<a, b>> # <<>>
      OBVIOUS
    <3>. QED
      BY <2>2, <3>1, <3>2 DEF Unknown
  <2>. QED
    BY <1>1, <1>4, <1>5, <2>1, <2>2, <2>3 DEF is_void
<1>. QED
  BY <1>3, <1>4, <1>5 DEF VoidSeat

\* A hand that holds as many copies as are not placed has all there are.
LEMMA HeldAreKept ==
  ASSUME GameStateAssumption, AccountInv, NEW q \in Players, NEW x \in Identity,
         HeldCopies(hands[q], x) = Count(x) - Base(x)
  PROVE  Keeps(q, x)
<1>. DEFINE H == {i \in DOMAIN hands[q] : hands[q][i] = x}
            A == Places(hands, x)
            f == [i \in H |-> <<q, i>>]
<1>1. /\ \A p \in Players : /\ hands[p] \in Seq(Identity) /\ DOMAIN hands[p] = 1 .. Len(hands[p])
                            /\ Len(hands[p]) \in Nat /\ Len(hands[p]) <= HandSize
      /\ HandSize \in Nat
  BY DEF AccountInv, HandsInv, TypeOK, TableType, GameStateAssumption
<1>c. Base(x) + InHands(x) <= Count(x) /\ Base(x) \in Nat /\ Count(x) \in Nat
  <2>1. Base(x) \in Nat /\ Count(x) \in Nat
    BY Coordinates DEF AccountInv, TypeOK
  <2>. QED
    BY <2>1 DEF AccountInv, CardsConserved, Base, Count
<1>2. IsFiniteSet(A) /\ InHands(x) = Cardinality(A) /\ InHands(x) \in Nat
  BY PlacesFinite, InHandsIsPlaces
<1>3. f \in Injection(H, A)
  <2>1. \A i \in H : <<q, i>> \in A
    BY <1>1 DEF Places
  <2>2. f \in [H -> A]
    BY <2>1
  <2>3. \A i, j \in H : f[i] = f[j] => i = j
    OBVIOUS
  <2>. HIDE DEF f, H, A
  <2>. QED
    BY <2>2, <2>3 DEF Injection, IsInjective
<1>4. /\ Cardinality(H) <= Cardinality(A)
      /\ Cardinality(H) = Cardinality(A) => f \in Surjection(H, A)
  <2>. HIDE DEF f, H, A
  <2>. QED
    BY <1>2, <1>3, FS_Injection
<1>5. Cardinality(H) = Count(x) - Base(x)
  BY DEF HeldCopies
<1>6. Cardinality(H) = Cardinality(A) /\ Base(x) + InHands(x) = Count(x)
  <2>1. InHands(x) = Cardinality(A)
    BY <1>2
  <2>2. Cardinality(H) <= Cardinality(A)
    BY <1>4
  <2>. HIDE DEF H, A
  <2>3. Cardinality(H) <= InHands(x)
    BY <2>1, <2>2
  <2>4. Cardinality(H) = InHands(x) /\ Base(x) + InHands(x) = Count(x)
    <3>. DEFINE b == Base(x)
                c == Count(x)
                n == InHands(x)
                k == Cardinality(H)
    <3>1. b \in Nat /\ c \in Nat /\ n \in Nat /\ b + n <= c
      BY <1>c, <1>2
    <3>2. k = c - b /\ k <= n
      BY <1>5, <2>3
    <3>. HIDE DEF b, c, n, k
    <3>3. k = n /\ b + n = c
      BY <3>1, <3>2
    <3>. QED
      BY <3>3 DEF b, c, n, k
  <2>. QED
    BY <2>1, <2>4
<1>7. \A at \in A : at[1] = q
  <2>1. \A at \in A : \E i \in H : f[i] = at
    <3>. HIDE DEF f, H, A
    <3>. QED
      BY <1>4, <1>6 DEF Surjection
  <2>2. \A i \in H : f[i] = <<q, i>>
    OBVIOUS
  <2>. HIDE DEF f, H, A
  <2>. QED
    BY <2>1, <2>2
<1>8. x \notin InDeck
  BY <1>c, <1>2, <1>6 DEF InDeck, Base, Count
<1>9. ASSUME NEW p \in Players \ {q}, NEW i \in 1 .. Len(hands[p]), hands[p][i] = x
      PROVE  FALSE
  <2>1. <<p, i>> \in A
    BY <1>1, <1>9 DEF Places
  <2>. QED
    BY <1>7, <2>1
<1>. QED
  BY <1>8, <1>9 DEF Keeps

\* More than one is two.
LEMMA TwoOfThem ==
  ASSUME NEW S, IsFiniteSet(S), Cardinality(S) > 1
  PROVE  \E x, y \in S : x # y
<1>1. Cardinality(S) # 0 /\ Cardinality(S) # 1
  OBVIOUS
<1>2. PICK x \in S : TRUE
  BY <1>1, FS_EmptySet
<1>3. S # {x}
  BY <1>1, FS_Singleton
<1>. QED
  BY <1>2, <1>3

\* A seat the search wants to play two cards needs two turns.
LEMMA MustPlayTwoNeeds ==
  ASSUME GameStateAssumption, AccountInv, NEW q \in Players, MustPlayTwo(Now, q)
  PROVE  NeedsTwoTurns(q)
<1>. DEFINE S == find_must_plays(Now, hands[q])
<1>1. Now.hands = hands /\ Now.base_count = base_count
  BY DEF Now
<1>2. Cardinality(S) > 1
  BY <1>1 DEF MustPlayTwo
<1>3. S \in SUBSET Identity
  BY DEF find_must_plays
<1>4. ASSUME NEW x \in S PROVE x \in Identity /\ Useful(x) /\ Keeps(q, x)
  <2>1. /\ x \in Identity /\ is_useful(Now, x)
        /\ HeldCopies(hands[q], x) = Count(x) - Base(x)
    BY <1>1 DEF find_must_plays, Count, Base
  <2>2. Useful(x)
    BY <2>1, SearchReads DEF AccountInv
  <2>. QED
    BY <2>1, <2>2, HeldAreKept
<1>. HIDE DEF S
<1>5. IsFiniteSet(S)
  BY <1>3, IdentityFinite, FS_Subset
<1>6. PICK x \in S, y \in S : x # y
  BY <1>2, <1>5, TwoOfThem
<1>. QED
  BY <1>4, <1>6 DEF NeedsTwoTurns

\* Where unwinnable_state gives up, the maximum is out of reach.
LEMMA GiveUpIsSound ==
  ASSUME GameStateAssumption, AccountInv, CountdownInv, phase = "act", ~ended,
         unwinnable_state(Now, current_player_index)
  PROVE  Doomed(max_score)
<1>. DEFINE p == current_player_index
            s == Now
<1>1. /\ s.cards_left = cards_left /\ s.endgame_turns = endgame_turns /\ s.strikes = strikes
      /\ s.clue_tokens = clue_tokens
      /\ score_of(s) = score /\ max_score_of(s) = max_score
      /\ \A q \in Players : is_void(s, q) => VoidSeat(q)
  <2>1. /\ s.cards_left = cards_left /\ s.endgame_turns = endgame_turns /\ s.strikes = strikes
        /\ s.clue_tokens = clue_tokens
    BY DEF Now
  <2>. QED
    BY <2>1, SearchReads DEF AccountInv
<1>2. /\ TypeOK /\ NumPlayers \in Nat \ {0} /\ cards_left \in Nat
      /\ score \in Nat /\ max_score \in Nat
      /\ ToMove \subseteq Players /\ IsFiniteSet(ToMove)
      /\ IsFiniteSet(Movers) /\ Cardinality(Movers) \in Nat /\ Cardinality(Movers) <= NumPlayers
  BY SeatsToMove, ScoreBound DEF AccountInv, PilesInv, TypeOK, TableType, GameStateAssumption
<1>. HIDE DEF s
<1>3. ~ ended_in(s)
  BY <1>1 DEF ended_in, ended
<1>4. ASSUME NEW S, S \in SUBSET ToMove, \A q \in ToMove \ S : is_void(s, q)
      PROVE  Cardinality(S) \in Nat /\ Cardinality(Movers) <= Cardinality(S)
  <2>1. Movers \in SUBSET S
    BY <1>1, <1>2, <1>4 DEF Movers
  <2>2. IsFiniteSet(S)
    BY <1>2, <1>4, FS_Subset
  <2>. QED
    BY <2>1, <2>2, FS_Subset, FS_CardinalityType
<1>5. CASE pace(s) < 0
  BY <1>1, <1>2, <1>5 DEF pace, TooSlow, Doomed
<1>6. CASE s.endgame_turns # NoTurns /\ FinalRoundLost(s, p)
  <2>. DEFINE seats == {(p + i) % NumPlayers : i \in 0 .. s.endgame_turns - 1}
  <2>1. seats = ToMove /\ cards_left = 0
    BY <1>1, <1>2, <1>6 DEF ToMove, CountdownInv
  <2>. HIDE DEF seats
  <2>2. CASE Cardinality({q \in seats : ~is_void(s, q)}) + score_of(s) < max_score_of(s)
    <3>. DEFINE S == {q \in seats : ~is_void(s, q)}
    <3>1. S \in SUBSET ToMove /\ \A q \in ToMove \ S : is_void(s, q)
      BY <2>1
    <3>2. Cardinality(S) \in Nat /\ Cardinality(Movers) <= Cardinality(S)
      <4>. HIDE DEF S
      <4>. QED
        BY <1>4, <3>1
    <3>. QED
      BY <1>1, <1>2, <2>1, <2>2, <3>2 DEF TooSlow, Doomed
  <2>3. CASE \E q \in seats : MustPlayTwo(s, q)
    <3>1. PICK q \in Players : NeedsTwoTurns(q)
      BY <1>2, <2>1, <2>3, MustPlayTwoNeeds DEF s
    <3>. QED
      BY <1>1, <1>2, <1>6, <3>1 DEF Overloaded, Doomed
  <2>. QED
    BY <1>6, <2>2, <2>3 DEF FinalRoundLost, seats
<1>7. CASE s.cards_left = 1 /\ LastCardLost(s, p)
  <2>. DEFINE starters == {q \in Players : MustPlayTwo(s, q)}
  <2>1. \A q \in starters : q \in Players /\ NeedsTwoTurns(q)
    BY MustPlayTwoNeeds DEF s
  <2>. HIDE DEF starters
  <2>2. CASE Cardinality(starters) > 1
    <3>1. IsFiniteSet(Players) /\ starters \in SUBSET Players
      BY <2>1, FS_Interval DEF Players, GameStateAssumption
    <3>2. PICK q \in starters, r \in starters : q # r
      BY <2>2, <3>1, FS_Subset, TwoOfThem
    <3>3. q \in Players /\ r \in Players \ {q} /\ NeedsTwoTurns(q) /\ NeedsTwoTurns(r)
      BY <2>1, <3>2
    <3>4. cards_left = 1
      BY <1>1, <1>7
    <3>5. Overloaded
      BY <3>3, <3>4 DEF Overloaded
    <3>. QED
      BY <1>2, <3>5 DEF Doomed
  <2>3. CASE \E q \in starters : hops(p, q) > s.clue_tokens
    <3>1. Overloaded
      BY <1>1, <1>7, <2>1, <2>3 DEF Overloaded
    <3>. QED
      BY <1>2, <3>1 DEF Doomed
  <2>. QED
    BY <1>7, <2>2, <2>3 DEF LastCardLost, starters
<1>8. CASE /\ s.cards_left # 1 /\ s.endgame_turns = NoTurns
           /\ Cardinality({q \in Players : is_void(s, q)}) > pace(s)
  <2>. DEFINE V == {q \in Players : is_void(s, q)}
              S == Players \ V
  <2>1. ToMove = Players
    BY <1>1, <1>8 DEF ToMove
  <2>2. Cardinality(S) \in Nat /\ Cardinality(Movers) <= Cardinality(S)
    <3>1. S \in SUBSET ToMove /\ \A q \in ToMove \ S : is_void(s, q)
      BY <2>1
    <3>. HIDE DEF S
    <3>. QED
      BY <1>4, <3>1
  <2>3. IsFiniteSet(Players) /\ Cardinality(Players) = NumPlayers
    <3>1. Players = 0 .. NumPlayers - 1 /\ NumPlayers \in Int /\ NumPlayers > 0
      BY <1>2 DEF Players
    <3>. QED
      BY <3>1, FS_Interval
  <2>4. /\ Cardinality(S) = NumPlayers - Cardinality(V) /\ Cardinality(V) \in Nat
    <3>1. Players \cap V = V /\ V \in SUBSET Players
      OBVIOUS
    <3>. HIDE DEF V
    <3>2. Cardinality(V) \in Nat
      BY <2>3, <3>1, FS_Subset, FS_CardinalityType
    <3>. QED
      BY <2>3, <3>1, <3>2, FS_Difference
  <2>. HIDE DEF V, S
  <2>5. Cardinality(V) > score + cards_left + NumPlayers - max_score
    BY <1>1, <1>8 DEF pace, V
  <2>. QED
    BY <1>2, <2>2, <2>4, <2>5 DEF TooSlow, Doomed
<1>. QED
  BY <1>3, <1>5, <1>6, <1>7, <1>8 DEF unwinnable_state, s

-----------------------------------------------------------------------------
(* Where an ending starts. *)

\* A finite set of numbers has a greatest and a least.
LEMMA Extremes ==
  ASSUME NEW S, IsFiniteSet(S), S \subseteq Int, S # {}
  PROVE  /\ Max(S) \in S /\ \A y \in S : Max(S) >= y
         /\ Min(S) \in S /\ \A y \in S : Min(S) <= y
<1>. DEFINE P(s) == (\E x \in s : \A y \in s : x >= y) /\ (\E x \in s : \A y \in s : x <= y)
            Good == {s \in SUBSET S : s = {} \/ P(s)}
<1>1. ASSUME NEW s \in SUBSET S, \A u \in SUBSET s : u # s => u \in Good
      PROVE  s \in Good
  <2>. SUFFICES ASSUME NEW t \in s PROVE P(s)
    OBVIOUS
  <2>. DEFINE u == s \ {t}
  <2>1. u \in Good
    BY <1>1
  <2>2. CASE u = {}
    <3>1. s = {t} /\ t \in Int
      BY <2>2
    <3>. QED
      BY <3>1
  <2>3. CASE P(u)
    <3>1. PICK a \in u : \A y \in u : a >= y
      BY <2>3
    <3>2. PICK b \in u : \A y \in u : b <= y
      BY <2>3
    <3>3. a \in Int /\ b \in Int /\ t \in Int /\ \A y \in s : y \in Int /\ (y \in u \/ y = t)
      OBVIOUS
    <3>4. \E x \in s : \A y \in s : x >= y
      <4>1. CASE a >= t
        BY <3>1, <3>3, <4>1
      <4>2. CASE t >= a
        BY <3>1, <3>3, <4>2
      <4>. QED
        BY <3>3, <4>1, <4>2
    <3>5. \E x \in s : \A y \in s : x <= y
      <4>1. CASE b <= t
        BY <3>2, <3>3, <4>1
      <4>2. CASE t <= b
        BY <3>2, <3>3, <4>2
      <4>. QED
        BY <3>3, <4>1, <4>2
    <3>. QED
      BY <3>4, <3>5
  <2>. QED
    BY <2>1, <2>2, <2>3
<1>2. S \in Good
  <2>. HIDE DEF Good
  <2>1. \A s \in SUBSET S : s \in Good
    BY <1>1, SubsetInduction
  <2>. QED
    BY <2>1
<1>3. P(S)
  BY <1>2
<1>4. Max(S) \in S /\ \A y \in S : Max(S) >= y
  <2>1. \E x \in S : \A y \in S : x >= y
    BY <1>3
  <2>. QED
    BY <2>1 DEF Max
<1>5. Min(S) \in S /\ \A y \in S : Min(S) <= y
  <2>1. \E x \in S : \A y \in S : x <= y
    BY <1>3
  <2>. QED
    BY <2>1 DEF Min
<1>. QED
  BY <1>4, <1>5

\* The copies of each card that a deck d of the cards at D leaves.
Remaining(d, D) == [x \in Identity |-> Count(x) - Cardinality({i \in D : d[i] = x})]

\* They and the deck are all the cards.
LEMMA DeckCounted ==
  ASSUME GameStateAssumption, NEW D, IsFiniteSet(D), NEW d, \A i \in D : d[i] \in Identity,
         \A x \in Identity : Cardinality({i \in D : d[i] = x}) <= Count(x)
  PROVE  SumFunctionOnSet(Remaining(d, D), Identity) + Cardinality(D) = DeckSize
<1>. DEFINE f(s) == [x \in Identity |-> Count(x) - Cardinality({i \in s : d[i] = x})]
            Good == {s \in SUBSET D : SumFunctionOnSet(f(s), Identity) + Cardinality(s) = DeckSize}
<1>0. IsFiniteSet(Identity) /\ DeckSize \in Nat
  BY IdentityFinite, DeckSizeType
<1>1. \A x \in Identity : Count(x) \in Nat
  BY DEF Count, Identity, Ranks, GameStateAssumption
<1>2. ASSUME NEW s \in SUBSET D
      PROVE  /\ IsFiniteSet(s) /\ Cardinality(s) \in Nat
             /\ \A x \in Identity : f(s)[x] \in Nat
  <2>1. IsFiniteSet(s)
    BY FS_Subset
  <2>2. ASSUME NEW x \in Identity PROVE f(s)[x] \in Nat
    <3>. DEFINE A == {i \in s : d[i] = x}
                B == {i \in D : d[i] = x}
    <3>1. A \in SUBSET B /\ B \in SUBSET D
      OBVIOUS
    <3>2. f(s)[x] = Count(x) - Cardinality(A) /\ Cardinality(B) <= Count(x)
      OBVIOUS
    <3>. HIDE DEF A, B, f
    <3>3. IsFiniteSet(B)
      BY <3>1, FS_Subset
    <3>4. IsFiniteSet(A) /\ Cardinality(A) <= Cardinality(B)
      BY <3>1, <3>3, FS_Subset
    <3>5. Cardinality(A) \in Nat /\ Cardinality(B) \in Nat
      BY <3>3, <3>4, FS_CardinalityType
    <3>. QED
      BY <1>1, <3>2, <3>4, <3>5
  <2>. QED
    BY <2>1, <2>2, FS_CardinalityType
<1>3. ASSUME NEW s \in SUBSET D, \A u \in SUBSET s : u # s => u \in Good
      PROVE  s \in Good
  <2>1. CASE s = {}
    <3>1. \A x \in Identity : f(s)[x] = Count(x) - Cardinality({})
      <4>1. \A x \in Identity : {i \in s : d[i] = x} = {}
        BY <2>1
      <4>. QED
        BY <4>1
    <3>2. f(s) = [x \in Identity |-> CardCount[x[1]][x[2]]]
      <4>1. \A x \in Identity : f(s)[x] = CardCount[x[1]][x[2]]
        <5>1. Cardinality({}) = 0
          BY FS_EmptySet
        <5>. HIDE DEF f
        <5>. QED
          BY <1>1, <3>1, <5>1 DEF Count
      <4>2. f(s) = [x \in Identity |-> f(s)[x]]
        OBVIOUS
      <4>. HIDE DEF f
      <4>. QED
        BY <4>1, <4>2
    <3>3. SumFunctionOnSet(f(s), Identity) = DeckSize
      <4>. DEFINE g == [x \in Identity |-> CardCount[x[1]][x[2]]]
      <4>1. f(s) = g /\ DOMAIN g = Identity
        BY <3>2
      <4>2. DeckSize = SumFunction(g)
        BY DEF DeckSize
      <4>. HIDE DEF f, g
      <4>. QED
        BY <4>1, <4>2 DEF SumFunction
    <3>4. Cardinality(s) = 0
      BY <2>1, FS_EmptySet
    <3>. HIDE DEF f
    <3>. QED
      BY <1>0, <3>3, <3>4
  <2>2. ASSUME NEW t \in s PROVE s \in Good
    <3>. DEFINE u == s \ {t}
                y == d[t]
    <3>1. u \in SUBSET s /\ u # s /\ u \in SUBSET D /\ y \in Identity
      OBVIOUS
    <3>2. SumFunctionOnSet(f(u), Identity) + Cardinality(u) = DeckSize
      BY <1>3, <3>1
    <3>3. Cardinality(s) = Cardinality(u) + 1 /\ Cardinality(u) \in Nat
      <4>1. Cardinality(u) = Cardinality(s) - 1
        BY <1>2, <2>2, FS_RemoveElement
      <4>. HIDE DEF u
      <4>. QED
        BY <1>2, <3>1, <4>1
    <3>4. \A x \in Identity \ {y} : f(u)[x] = f(s)[x]
      <4>1. ASSUME NEW x \in Identity \ {y} PROVE {i \in u : d[i] = x} = {i \in s : d[i] = x}
        OBVIOUS
      <4>. QED
        BY <4>1
    <3>5. f(u)[y] = f(s)[y] + 1
      <4>. DEFINE A == {i \in s : d[i] = y}
                  B == {i \in u : d[i] = y}
      <4>1. B = A \ {t} /\ t \in A /\ A \in SUBSET s
        OBVIOUS
      <4>2. f(u)[y] = Count(y) - Cardinality(B) /\ f(s)[y] = Count(y) - Cardinality(A)
        BY <3>1
      <4>. HIDE DEF A, B, f, u, y
      <4>3. IsFiniteSet(A)
        BY <1>2, <4>1, FS_Subset
      <4>4. Cardinality(B) = Cardinality(A) - 1 /\ Cardinality(A) \in Nat
        BY <4>1, <4>3, FS_RemoveElement, FS_CardinalityType
      <4>. QED
        BY <1>1, <3>1, <4>2, <4>4
    <3>. HIDE DEF f, u, y
    <3>6. \A x \in Identity : f(u)[x] \in Nat /\ f(s)[x] \in Nat
      BY <1>2, <3>1
    <3>7. SumFunctionOnSet(f(u), Identity) = SumFunctionOnSet(f(s), Identity) - f(s)[y] + f(u)[y]
      <4>1. \A x \in Identity \ {y} : f(s)[x] = f(u)[x]
        BY <3>4
      <4>. QED
        BY <1>0, <3>1, <3>6, <4>1, SumChange
    <3>8. SumFunctionOnSet(f(s), Identity) \in Nat /\ f(s)[y] \in Nat
      BY <1>0, <3>1, <3>6, SumNat
    <3>9. SumFunctionOnSet(f(s), Identity) + Cardinality(s) = DeckSize
      BY <1>0, <3>2, <3>3, <3>5, <3>7, <3>8
    <3>. QED
      BY <3>9
  <2>. QED
    BY <2>1, <2>2
<1>4. D \in Good
  <2>. HIDE DEF Good
  <2>1. \A s \in SUBSET D : s \in Good
    BY <1>3, SubsetInduction
  <2>. QED
    BY <2>1
<1>5. f(D) = Remaining(d, D)
  BY DEF Remaining
<1>. QED
  BY <1>4, <1>5

\* LastRank is where a suit still goes to, in play order.
LEMMA LastRankIsReach ==
  ASSUME GameStateAssumption, NEW u \in Suits, NEW gone,
         \A r \in Ranks : gone[r] \in Nat /\ gone[r] <= CardCount[u][r]
  PROVE  \E n \in 0 .. Top :
           /\ InPlayOrder(u, LastRank(u, gone)) = n /\ LastRank(u, gone) \in 0 .. Top + 1
           /\ \A r \in Ranks : KthRank(u, r) <= n => gone[r] < CardCount[u][r]
           /\ \A r \in Ranks : KthRank(u, r) = n + 1 => gone[r] = CardCount[u][r]
<1>. DEFINE dead == {r \in Ranks : gone[r] = CardCount[u][r]}
<1>1. /\ Top \in Nat \ {0} /\ Ranks = 1 .. Top /\ IsFiniteSet(Ranks)
      /\ \A r \in Ranks : CardCount[u][r] \in Nat
  BY IdentityFinite DEF GameStateAssumption, Ranks
<1>2. IsFiniteSet(dead) /\ dead \in SUBSET Ranks
  BY <1>1, FS_Subset
<1>3. \A r \in Ranks : (r \in dead <=> gone[r] = CardCount[u][r])
                        /\ (r \notin dead => gone[r] < CardCount[u][r])
  BY <1>1
<1>4. CASE u \in Reversed
  <2>. DEFINE S == {0} \cup dead
              m == Max(S)
  <2>1. IsFiniteSet(S) /\ S \subseteq Int /\ S # {}
    <3>1. S = dead \cup {0} /\ 0 \in Int
      BY <1>1
    <3>2. dead \subseteq Int
      BY <1>1
    <3>. HIDE DEF dead
    <3>3. IsFiniteSet(dead \cup {0})
      BY <1>2, FS_AddElement
    <3>. HIDE DEF S
    <3>. QED
      BY <3>1, <3>2, <3>3
  <2>2. m \in S /\ \A y \in S : m >= y
    <3>. HIDE DEF S
    <3>. QED
      BY <2>1, Extremes
  <2>3. LastRank(u, gone) = m + 1
    BY <1>4 DEF LastRank
  <2>. HIDE DEF m, dead
  <2>4. m \in 0 .. Top /\ (m # 0 => m \in dead) /\ \A r \in dead : r <= m
    BY <1>1, <1>2, <2>2
  <2>5. InPlayOrder(u, LastRank(u, gone)) = Top - m /\ Top - m \in 0 .. Top
    BY <1>1, <1>4, <2>3, <2>4 DEF InPlayOrder
  <2>6. ASSUME NEW r \in Ranks
        PROVE  /\ KthRank(u, r) <= Top - m => gone[r] < CardCount[u][r]
               /\ KthRank(u, r) = (Top - m) + 1 => gone[r] = CardCount[u][r]
    <3>1. KthRank(u, r) = Top + 1 - r /\ r \in 1 .. Top
      BY <1>1, <1>4 DEF KthRank
    <3>2. KthRank(u, r) <= Top - m => r \notin dead
      BY <1>1, <2>4, <3>1
    <3>3. KthRank(u, r) = (Top - m) + 1 => r = m /\ m # 0
      BY <1>1, <2>4, <3>1
    <3>. QED
      BY <1>3, <2>4, <3>2, <3>3
  <2>7. LastRank(u, gone) \in 0 .. Top + 1
    BY <1>1, <2>3, <2>4
  <2>. QED
    BY <2>5, <2>6, <2>7
<1>5. CASE u \notin Reversed
  <2>. DEFINE S == {Top + 1} \cup dead
              m == Min(S)
  <2>1. IsFiniteSet(S) /\ S \subseteq Int /\ S # {}
    <3>1. S = dead \cup {Top + 1} /\ Top + 1 \in Int
      BY <1>1
    <3>2. dead \subseteq Int
      BY <1>1
    <3>. HIDE DEF dead
    <3>3. IsFiniteSet(dead \cup {Top + 1})
      BY <1>2, FS_AddElement
    <3>. HIDE DEF S
    <3>. QED
      BY <3>1, <3>2, <3>3
  <2>2. m \in S /\ \A y \in S : m <= y
    <3>. HIDE DEF S
    <3>. QED
      BY <2>1, Extremes
  <2>3. LastRank(u, gone) = m - 1
    BY <1>5 DEF LastRank
  <2>. HIDE DEF m, dead
  <2>4. m \in 1 .. Top + 1 /\ (m # Top + 1 => m \in dead) /\ \A r \in dead : m <= r
    BY <1>1, <1>2, <2>2
  <2>5. InPlayOrder(u, LastRank(u, gone)) = m - 1 /\ m - 1 \in 0 .. Top
    BY <1>1, <1>5, <2>3, <2>4 DEF InPlayOrder
  <2>6. ASSUME NEW r \in Ranks
        PROVE  /\ KthRank(u, r) <= m - 1 => gone[r] < CardCount[u][r]
               /\ KthRank(u, r) = (m - 1) + 1 => gone[r] = CardCount[u][r]
    <3>1. KthRank(u, r) = r /\ r \in 1 .. Top
      BY <1>1, <1>5 DEF KthRank
    <3>2. KthRank(u, r) <= m - 1 => r \notin dead
      BY <1>1, <2>4, <3>1
    <3>3. KthRank(u, r) = (m - 1) + 1 => r = m /\ m # Top + 1
      BY <1>1, <2>4, <3>1
    <3>. QED
      BY <1>3, <2>4, <3>2, <3>3
  <2>7. LastRank(u, gone) \in 0 .. Top + 1
    BY <1>1, <2>3, <2>4
  <2>. QED
    BY <2>5, <2>6, <2>7
<1>. QED
  BY <1>4, <1>5

\* A hand of n cards is a sequence of length n.
LEMMA HandIsSeq ==
  ASSUME NEW S, NEW n \in Nat, NEW h \in [1 .. n -> S]
  PROVE  Len(h) = n /\ h \in Seq(S)
OBVIOUS

\* An ending is a position the accounting of the engine knows.
LEMMA EndAccount ==
  ASSUME GameStateAssumption, EndingsAssumption, EndInit
  PROVE  /\ AccountInv /\ CountdownInv
         /\ \E e \in Endings : \A x \in InDeck : \E i \in DOMAIN e.deck : e.deck[i] = x
<1>1. PICK e \in Endings :
        /\ play_stacks = e.play_stacks /\ hands = e.hands
        /\ clue_tokens = e.clue_tokens /\ cards_left = Len(e.deck)
        /\ discard_stacks = [u \in Suits |-> [r \in Ranks |-> Thrown(e, <<u, r>>)]]
  BY DEF EndInit
<1>2. /\ e.play_stacks \in [Suits -> 0 .. Top + 1]
      /\ \A u \in Suits : InPlayOrder(u, e.play_stacks[u]) \in 0 .. Top
      /\ e.hands \in [Players -> [1 .. HandSize -> Identity]]
      /\ e.deck \in Seq(Identity) /\ e.deck # <<>>
      /\ e.clue_tokens \in 0 .. MaxTokens
      /\ \A id \in Identity : Thrown(e, id) >= 0
  BY DEF EndingsAssumption
<1>3. /\ half_clue_token = FALSE /\ strikes = 2 /\ endgame_turns = NoTurns
      /\ base_count = [u \in Suits |-> [r \in Ranks |->
           discard_stacks[u][r] + (IF InPlayOrder(u, r) <= InPlayOrder(u, play_stacks[u]) THEN 1 ELSE 0)]]
      /\ max_ranks = [u \in Suits |-> LastRank(u, discard_stacks[u])]
      /\ playable_set = {id \in Identity : playable(Board, id)}
      /\ critical_set = {id \in Identity : critical(Board, id)}
      /\ trash_set = {id \in Identity : ~is_useful(Board, id)}
      /\ current_player_index = 0 /\ phase = "act"
  BY DEF EndInit
<1>. DEFINE D == DOMAIN e.deck
            dealt(id) == Cardinality({i \in D : e.deck[i] = id})
<1>4. /\ Top \in Nat \ {0} /\ HandSize \in Nat \ {0} /\ NumPlayers \in Nat \ {0}
      /\ MaxTokens \in Nat \ {0}
  BY Zenon DEF GameStateAssumption
<1>5. /\ D = 1 .. Len(e.deck) /\ Len(e.deck) \in Nat /\ Len(e.deck) > 0
      /\ IsFiniteSet(D) /\ Cardinality(D) = Len(e.deck) /\ \A i \in D : e.deck[i] \in Identity
  <2>1. D = 1 .. Len(e.deck) /\ Len(e.deck) \in Nat /\ Len(e.deck) > 0
    BY <1>2
  <2>2. IsFiniteSet(D) /\ Cardinality(D) = Len(e.deck)
    <3>1. Len(e.deck) \in Int /\ 1 \in Int /\ ~ (1 > Len(e.deck))
      BY <2>1
    <3>2. IsFiniteSet(1 .. Len(e.deck)) /\ Cardinality(1 .. Len(e.deck)) = Len(e.deck) - 1 + 1
      BY <3>1, FS_Interval
    <3>. QED
      BY <2>1, <3>2
  <2>. QED
    BY <1>2, <2>1, <2>2
<1>6. /\ \A p \in Players : Len(hands[p]) = HandSize /\ hands[p] \in Seq(Identity)
      /\ hands \in [Players -> Seq(Identity)]
  <2>1. \A p \in Players : hands[p] \in [1 .. HandSize -> Identity]
    BY <1>1, <1>2
  <2>2. ASSUME NEW h \in [1 .. HandSize -> Identity]
        PROVE  Len(h) = HandSize /\ h \in Seq(Identity)
    <3>1. HandSize \in Nat
      BY <1>4
    <3>. QED
      BY <3>1, HandIsSeq
  <2>. QED
    BY <1>1, <1>2, <2>1, <2>2
<1>. HIDE DEF D, dealt
<1>7. \A s \in Suits : /\ played_count(s) = InPlayOrder(s, play_stacks[s])
                       /\ max_played(s) = InPlayOrder(s, max_ranks[s])
                       /\ played_count(s) \in 0 .. Top
  BY <1>1, <1>2 DEF played_count, max_played, InPlayOrder
<1>8. ASSUME NEW x \in Identity
      PROVE  /\ x[1] \in Suits /\ x[2] \in Ranks /\ x = <<x[1], x[2]>> /\ K(x) \in 1 .. Top
             /\ K(x) = InPlayOrder(x[1], x[2])
             /\ Count(x) \in Nat \ {0} /\ InHands(x) \in Nat /\ dealt(x) \in Nat
             /\ Lost(x) \in Nat /\ Lost(x) = Thrown(e, x)
             /\ Lost(x) = Count(x) - (IF Played(x) THEN 1 ELSE 0) - InHands(x) - dealt(x)
             /\ Base(x) = Lost(x) + (IF Played(x) THEN 1 ELSE 0)
  <2>1. /\ x[1] \in Suits /\ x[2] \in Ranks /\ x = <<x[1], x[2]>> /\ x[2] \in 1 .. Top
    BY DEF Identity, Ranks
  <2>2. K(x) = InPlayOrder(x[1], x[2]) /\ K(x) \in 1 .. Top
    BY <1>4, <2>1 DEF K, KthRank, InPlayOrder
  <2>3. Count(x) \in Nat \ {0}
    BY <2>1 DEF Count, Ranks, GameStateAssumption
  <2>4. Played(x) <=> InPlayOrder(x[1], x[2]) <= InPlayOrder(x[1], play_stacks[x[1]])
    BY <1>7, <2>1, <2>2 DEF Played
  <2>5. InHands(x) = Cardinality({at \in Players \X (1 .. HandSize) : e.hands[at[1]][at[2]] = x})
    <3>1. {at \in Players \X (1 .. HandSize) : /\ at[2] <= Len(hands[at[1]])
                                               /\ hands[at[1]][at[2]] = x}
            = {at \in Players \X (1 .. HandSize) : e.hands[at[1]][at[2]] = x}
      <4>1. \A at \in Players \X (1 .. HandSize) : at[2] <= Len(hands[at[1]])
        BY <1>4, <1>6
      <4>. QED
        BY <1>1, <4>1
    <3>. QED
      BY <3>1 DEF InHands
  <2>6. InHands(x) \in Nat
    BY InHandsIsPlaces
  <2>7. dealt(x) \in Nat
    <3>. DEFINE A == {i \in D : e.deck[i] = x}
    <3>1. A \in SUBSET D
      OBVIOUS
    <3>. HIDE DEF A
    <3>2. Cardinality(A) \in Nat
      BY <1>5, <3>1, FS_Subset, FS_CardinalityType
    <3>. QED
      BY <3>2 DEF A, dealt
  <2>8. Lost(x) = Thrown(e, x)
    BY <1>1, <2>1 DEF Lost
  <2>9. Thrown(e, x) = Count(x) - (IF Played(x) THEN 1 ELSE 0) - InHands(x) - dealt(x)
    BY <1>1, <2>4, <2>5 DEF Thrown, Count, dealt, D
  <2>10. Lost(x) \in Nat
    <3>1. Thrown(e, x) >= 0
      BY <1>2
    <3>2. Thrown(e, x) \in Int
      BY <2>3, <2>6, <2>7, <2>9
    <3>. QED
      BY <2>8, <3>1, <3>2
  <2>11. Base(x) = Lost(x) + (IF Played(x) THEN 1 ELSE 0)
    BY <1>3, <2>1, <2>4 DEF Base, Lost
  <2>. QED
    BY <2>1, <2>2, <2>3, <2>6, <2>7, <2>8, <2>9, <2>10, <2>11
<1>9. ASSUME NEW x \in Identity
      PROVE  /\ Lost(x) <= Count(x) /\ (Played(x) => Lost(x) < Count(x))
             /\ Base(x) \in Nat /\ Base(x) + InHands(x) = Count(x) - dealt(x)
             /\ dealt(x) <= Count(x)
  <2>. DEFINE l == Lost(x)
              c == Count(x)
              h == InHands(x)
              t == dealt(x)
              b == Base(x)
              n == IF Played(x) THEN 1 ELSE 0
  <2>1. /\ l \in Nat /\ c \in Nat /\ h \in Nat /\ t \in Nat
        /\ l = c - n - h - t /\ b = l + n
    BY <1>8
  <2>2. n \in 0 .. 1 /\ (Played(x) => n = 1)
    OBVIOUS
  <2>. HIDE DEF l, c, h, t, b, n
  <2>3. l <= c /\ (n = 1 => l < c) /\ b \in Nat /\ b + h = c - t /\ t <= c
    BY <2>1, <2>2
  <2>. QED
    BY <2>2, <2>3 DEF l, c, h, t, b
<1>10. PileType
  <2>1. play_stacks \in [Suits -> 0 .. Top + 1]
    BY <1>1, <1>2
  <2>2. ASSUME NEW u \in Suits, NEW r \in Ranks
        PROVE  /\ <<u, r>> \in Identity /\ discard_stacks[u][r] = Lost(<<u, r>>)
               /\ base_count[u][r] = Base(<<u, r>>)
    BY DEF Identity, Lost, Base
  <2>3. discard_stacks \in [Suits -> [Ranks -> Nat]]
    <3>1. discard_stacks = [u \in Suits |-> [r \in Ranks |-> discard_stacks[u][r]]]
      BY <1>1
    <3>2. ASSUME NEW u \in Suits, NEW r \in Ranks PROVE discard_stacks[u][r] \in Nat
      <4>1. <<u, r>> \in Identity /\ discard_stacks[u][r] = Lost(<<u, r>>)
        BY <2>2
      <4>. QED
        BY <1>8, <4>1
    <3>. QED
      BY <3>1, <3>2
  <2>4. base_count \in [Suits -> [Ranks -> Nat]]
    <3>1. base_count = [u \in Suits |-> [r \in Ranks |-> base_count[u][r]]]
      BY <1>3
    <3>2. ASSUME NEW u \in Suits, NEW r \in Ranks PROVE base_count[u][r] \in Nat
      <4>1. <<u, r>> \in Identity /\ base_count[u][r] = Base(<<u, r>>)
        BY <2>2
      <4>. QED
        BY <1>9, <4>1
    <3>. QED
      BY <3>1, <3>2
  <2>5. max_ranks \in [Suits -> 0 .. Top + 1]
    <3>1. ASSUME NEW u \in Suits PROVE LastRank(u, discard_stacks[u]) \in 0 .. Top + 1
      <4>1. \A r \in Ranks : discard_stacks[u][r] \in Nat /\ discard_stacks[u][r] <= CardCount[u][r]
        <5>1. ASSUME NEW r \in Ranks
              PROVE  discard_stacks[u][r] \in Nat /\ discard_stacks[u][r] <= CardCount[u][r]
          <6>1. <<u, r>> \in Identity /\ discard_stacks[u][r] = Lost(<<u, r>>)
            BY <2>2
          <6>2. CardCount[u][r] = Count(<<u, r>>)
            BY DEF Count
          <6>. QED
            BY <1>8, <1>9, <6>1, <6>2
        <5>. QED
          BY <5>1
      <4>. QED
        BY <4>1, LastRankIsReach
    <3>. QED
      BY <1>3, <3>1
  <2>. QED
    BY <2>1, <2>3, <2>4, <2>5 DEF PileType
<1>11. TypeOK
  <2>1. SetType
    BY <1>3 DEF SetType
  <2>2. TokenType
    BY <1>1, <1>2, <1>3, Zenon DEF TokenType
  <2>3. TableType
    BY <1>1, <1>3, <1>4, <1>5, <1>6 DEF TableType, Players, NoTurns
  <2>. QED
    BY <1>10, <2>1, <2>2, <2>3 DEF TypeOK
<1>12. ASSUME NEW u \in Suits
       PROVE  /\ max_played(u) \in 0 .. Top /\ played_count(u) <= max_played(u)
              /\ \A x \in Identity : x[1] = u =>
                   /\ InReach(x) => Lost(x) < Count(x)
                   /\ K(x) = max_played(u) + 1 => Lost(x) = Count(x)
  <2>. DEFINE gone == discard_stacks[u]
  <2>1. ASSUME NEW r \in Ranks
        PROVE  /\ <<u, r>> \in Identity /\ gone[r] = Lost(<<u, r>>)
               /\ CardCount[u][r] = Count(<<u, r>>) /\ K(<<u, r>>) = KthRank(u, r)
    BY DEF Identity, Lost, Count, K
  <2>2. ASSUME NEW r \in Ranks PROVE gone[r] \in Nat /\ gone[r] <= CardCount[u][r]
    <3>. DEFINE x == <<u, r>>
    <3>1. x \in Identity /\ gone[r] = Lost(x) /\ CardCount[u][r] = Count(x)
      BY <2>1
    <3>. HIDE DEF gone, x
    <3>2. Lost(x) \in Nat /\ Lost(x) <= Count(x)
      BY <1>8, <1>9, <3>1
    <3>. QED
      BY <3>1, <3>2
  <2>3. max_ranks[u] = LastRank(u, gone)
    BY <1>3
  <2>. HIDE DEF gone
  <2>4. PICK n \in 0 .. Top :
          /\ InPlayOrder(u, LastRank(u, gone)) = n /\ LastRank(u, gone) \in 0 .. Top + 1
          /\ \A r \in Ranks : KthRank(u, r) <= n => gone[r] < CardCount[u][r]
          /\ \A r \in Ranks : KthRank(u, r) = n + 1 => gone[r] = CardCount[u][r]
    BY <2>2, LastRankIsReach
  <2>5. max_played(u) = n
    BY <1>7, <2>3, <2>4
  <2>6. ASSUME NEW x \in Identity, x[1] = u
        PROVE  /\ InReach(x) => Lost(x) < Count(x)
               /\ K(x) = max_played(u) + 1 => Lost(x) = Count(x)
    <3>1. x = <<u, x[2]>> /\ x[2] \in Ranks
      BY <1>8, <2>6
    <3>2. /\ gone[x[2]] = Lost(x) /\ CardCount[u][x[2]] = Count(x) /\ K(x) = KthRank(u, x[2])
      BY <2>1, <3>1
    <3>3. InReach(x) <=> K(x) <= n
      BY <2>5, <2>6 DEF InReach
    <3>. QED
      BY <2>4, <2>5, <3>1, <3>2, <3>3
  <2>7. played_count(u) <= max_played(u)
    <3>. SUFFICES ASSUME ~ (played_count(u) <= n) PROVE FALSE
      BY <2>5
    <3>1. n + 1 \in 1 .. Top /\ n + 1 <= played_count(u) /\ played_count(u) \in 0 .. Top
      BY <1>4, <1>7
    <3>. DEFINE x == <<u, KthRank(u, n + 1)>>
    <3>2. x \in Identity /\ K(x) = n + 1 /\ x[1] = u
      BY <3>1, LostInOrder
    <3>. HIDE DEF x
    <3>3. Played(x)
      BY <3>1, <3>2 DEF Played
    <3>4. Lost(x) = Count(x) /\ Lost(x) < Count(x)
      BY <1>9, <2>5, <2>6, <3>2, <3>3
    <3>. QED
      BY <1>8, <3>2, <3>4
  <2>. QED
    BY <2>5, <2>6, <2>7
<1>13. StacksInv /\ PlacedInv /\ ReachInv
  <2>1. ReachInv
    BY <1>8, <1>12 DEF ReachInv
  <2>. QED
    BY <1>7, <1>8, <1>12, <2>1 DEF StacksInv, PlacedInv
<1>14. ASSUME NEW x \in Identity
       PROVE  /\ x \in playable_set <=> K(x) = played_count(x[1]) + 1
              /\ x \in critical_set <=> ~Played(x) /\ InReach(x) /\ Lost(x) = Count(x) - 1
              /\ x \in trash_set <=> Played(x) \/ ~InReach(x)
  <2>1. /\ is_basic_trash(x) <=> Played(x) \/ ~InReach(x)
        /\ is_playable(x) <=> K(x) = played_count(x[1]) + 1
    BY <1>10, Coordinates
  <2>2. play_stacks[x[1]] \in Int /\ max_ranks[x[1]] \in Int /\ x[2] \in Int
    BY <1>8, <1>10 DEF PileType, Ranks
  <2>3. /\ Board.play_stacks = play_stacks /\ Board.max_ranks = max_ranks
        /\ Board.discard_stacks = discard_stacks
    BY DEF Board
  <2>4. is_useful(Board, x) <=> ~is_basic_trash(x)
    <3>1. CASE x[1] \in Reversed
      <4>1. /\ is_useful(Board, x) <=> x[2] < play_stacks[x[1]] /\ x[2] >= max_ranks[x[1]]
            /\ is_basic_trash(x) <=> x[2] >= play_stacks[x[1]] \/ x[2] < max_ranks[x[1]]
        BY <2>3, <3>1 DEF is_useful, is_basic_trash
      <4>. QED
        BY <2>2, <4>1
    <3>2. CASE x[1] \notin Reversed
      <4>1. /\ is_useful(Board, x) <=> x[2] > play_stacks[x[1]] /\ x[2] <= max_ranks[x[1]]
            /\ is_basic_trash(x) <=> x[2] <= play_stacks[x[1]] \/ x[2] > max_ranks[x[1]]
        BY <2>3, <3>2 DEF is_useful, is_basic_trash
      <4>. QED
        BY <2>2, <4>1
    <3>. QED
      BY <3>1, <3>2
  <2>5. playable(Board, x) <=> is_playable(x)
    <3>1. CASE x[1] \in Reversed
      <4>1. /\ playable(Board, x) <=> play_stacks[x[1]] - 1 - x[2] = 0
            /\ is_playable(x) <=> x[2] = play_stacks[x[1]] + (-1)
        BY <2>3, <3>1 DEF playable, playable_away, is_playable
      <4>. QED
        BY <2>2, <4>1
    <3>2. CASE x[1] \notin Reversed
      <4>1. /\ playable(Board, x) <=> x[2] - (play_stacks[x[1]] + 1) = 0
            /\ is_playable(x) <=> x[2] = play_stacks[x[1]] + 1
        BY <2>3, <3>2 DEF playable, playable_away, is_playable
      <4>. QED
        BY <2>2, <4>1
    <3>. QED
      BY <3>1, <3>2
  <2>6. critical(Board, x) <=> ~is_basic_trash(x) /\ Lost(x) = Count(x) - 1
    BY <2>3, <2>4 DEF critical, Lost, Count
  <2>. QED
    BY <1>3, <2>1, <2>4, <2>5, <2>6
<1>15. PilesInv
  <2>1. CriticalInv
    BY <1>8, <1>14 DEF CriticalInv
  <2>2. PlayableInv
    BY <1>14 DEF PlayableInv
  <2>3. trash_set \subseteq Identity
    BY <1>11 DEF TypeOK, SetType
  <2>4. TrashInv
    BY <1>14, <2>3 DEF TrashInv
  <2>. QED
    BY <1>13, <2>1, <2>2, <2>4 DEF PilesInv
<1>16. HandsInv
  BY <1>3, <1>4, <1>6 DEF HandsInv
<1>17. CardsConserved
  <2>. DEFINE f == [x \in Identity |-> base_count[x[1]][x[2]] + InHands(x)]
              g == [x \in Identity |-> Count(x) - Cardinality({i \in D : e.deck[i] = x})]
  <2>1. \A x \in Identity : dealt(x) <= Count(x)
    BY <1>9
  <2>2. SumFunctionOnSet(g, Identity) + Cardinality(D) = DeckSize
    <3>1. \A x \in Identity : Cardinality({i \in D : e.deck[i] = x}) <= Count(x)
      BY <2>1 DEF dealt
    <3>. DEFINE d == e.deck
    <3>2. \A x \in Identity : Cardinality({i \in D : d[i] = x}) <= Count(x)
      BY <3>1
    <3>3. IsFiniteSet(D) /\ \A i \in D : d[i] \in Identity
      BY <1>5
    <3>. HIDE DEF d
    <3>4. SumFunctionOnSet(Remaining(d, D), Identity) + Cardinality(D) = DeckSize
      BY <3>2, <3>3, DeckCounted, Zenon
    <3>. QED
      BY <3>4 DEF d, Remaining
  <2>3. f = g
    <3>1. \A x \in Identity : base_count[x[1]][x[2]] + InHands(x)
                                = Count(x) - Cardinality({i \in D : e.deck[i] = x})
      BY <1>9 DEF Base, dealt
    <3>. QED
      BY <3>1
  <2>4. SumFunction(f) = SumFunctionOnSet(f, Identity)
    BY DEF SumFunction
  <2>5. SumFunctionOnSet(g, Identity) \in Nat
    <3>1. ASSUME NEW x \in Identity PROVE g[x] \in Nat
      <4>. DEFINE t == dealt(x)
                  c == Count(x)
      <4>1. g[x] = c - t
        BY DEF dealt
      <4>2. c \in Nat /\ t \in Nat /\ t <= c
        BY <1>8, <1>9
      <4>. HIDE DEF c, t
      <4>. QED
        BY <4>1, <4>2
    <3>. HIDE DEF g
    <3>. QED
      BY <3>1, IdentityFinite, SumNat
  <2>6. \A x \in Identity : base_count[x[1]][x[2]] + InHands(x) <= CardCount[x[1]][x[2]]
    BY <1>8, <1>9 DEF Base, Count
  <2>7. cards_left + SumFunction(f) = DeckSize
    <3>. HIDE DEF f, g
    <3>. QED
      BY <1>1, <1>5, <2>2, <2>3, <2>4, <2>5
  <2>. QED
    BY <2>6, <2>7 DEF CardsConserved
<1>18. CountdownInv
  BY <1>1, <1>3, <1>5 DEF CountdownInv
<1>19. ASSUME NEW x \in InDeck PROVE \E i \in DOMAIN e.deck : e.deck[i] = x
  <2>1. x \in Identity /\ Base(x) + InHands(x) < Count(x)
    BY DEF InDeck, Base, Count
  <2>2. dealt(x) # 0
    BY <1>8, <1>9, <2>1
  <2>. DEFINE A == {i \in D : e.deck[i] = x}
  <2>3. A # {}
    <3>. SUFFICES ASSUME A = {} PROVE FALSE
      OBVIOUS
    <3>1. dealt(x) = Cardinality(A)
      BY DEF dealt
    <3>. HIDE DEF A
    <3>. QED
      BY <2>2, <3>1, FS_EmptySet
  <2>. QED
    BY <2>3 DEF D
<1>. QED
  BY <1>11, <1>15, <1>16, <1>17, <1>18, <1>19 DEF AccountInv

-----------------------------------------------------------------------------
(* What a step of the game keeps. *)

\* The last card of the deck, played from it, is in no hand, and scores a point for a
\* card less.
LEMMA DeckDoomed ==
  ASSUME GameStateAssumption, AccountInv, AccountInv', CountdownInv, PressDeck,
         NEW m \in Int, Doomed(m)
  PROVE  Doomed(m)'
<1>1. /\ TypeOK /\ phase = "act" /\ cards_left = 1 /\ endgame_turns = NoTurns
      /\ NumPlayers \in Nat \ {0} /\ phase' = "act"
      /\ current_player_index' = next_player_index(current_player_index)
      /\ endgame_turns' = NumPlayers /\ cards_left' = 0 /\ hands' = hands
      /\ hands \in [Players -> Seq(Identity)]
  BY DEF PressDeck, on_deck_play, CountdownInv, AccountInv, TypeOK, TableType, GameStateAssumption
<1>2. PICK id \in InDeck : (with_play(id) /\ is_playable(id)) \/ with_discard(id)
  BY DEF PressDeck, on_deck_play
<1>3. /\ id \in Identity /\ PileType /\ SetType /\ PilesInv /\ StacksInv /\ StacksInv'
      /\ Base(id) + InHands(id) < Count(id)
  BY DEF InDeck, Base, Count, AccountInv, TypeOK, PilesInv
<1>4. /\ max_score' \in Nat /\ max_score' <= max_score
      /\ score' = score \/ (score' = score + 1 /\ Useful(id))
      /\ \A x \in Identity : Useful(x)' => Useful(x)
      /\ max_score' = max_score => \A x \in Identity \ {id} : Useful(x) => Useful(x)'
  BY <1>2, <1>3, UseScores
<1>5. ASSUME NEW x \in Identity
      PROVE  Base(x)' = (IF x = id THEN Base(x) + 1 ELSE Base(x))
  <2>1. Base(id) < Count(id)
    <3>1. Base(id) \in Nat /\ Count(id) \in Nat /\ InHands(id) \in Nat
      BY <1>3, Coordinates, InHandsIsPlaces
    <3>. QED
      BY <1>3, <3>1
  <2>2. CASE with_play(id) /\ is_playable(id)
    BY <1>3, <2>1, <2>2, PlayMoves
  <2>3. CASE with_discard(id)
    BY <1>3, <2>1, <2>3, DiscardMoves
  <2>. QED
    BY <1>2, <2>2, <2>3
<1>6. ASSUME NEW q \in Players, NEW x \in Identity, Keeps(q, x)
      PROVE  Keeps(q, x)' /\ x # id
  <2>1. x # id
    BY <1>2, <1>6 DEF Keeps
  <2>2. base_count'[x[1]][x[2]] = base_count[x[1]][x[2]] /\ InHands(x)' = InHands(x)
    BY <1>1, <1>5, <2>1, InHandsIsPlaces DEF Base
  <2>3. x \notin InDeck'
    BY <1>6, <2>2 DEF Keeps, InDeck
  <2>. QED
    BY <1>1, <1>6, <2>1, <2>3 DEF Keeps
<1>7. score \in Nat /\ max_score \in Nat
  BY <1>3, ScoreBound
<1>8. CASE max_score' < m
  BY <1>4, <1>7, <1>8 DEF Doomed
<1>9. CASE ~ (max_score' < m)
  <2>1. max_score = m /\ max_score' = m /\ max_score' = max_score
    BY <1>4, <1>7, <1>9 DEF Doomed
  <2>2. TooSlow(m) => TooSlow(m)'
    <3>1. ToMove = Players /\ ToMove' \subseteq Players
      <4>1. AccountInv' => TypeOK'
        BY DEF AccountInv
      <4>2. TypeOK' => ToMove' \subseteq Players
        <5>1. /\ TypeOK' => current_player_index' \in 0 .. NumPlayers - 1
              /\ Players = 0 .. NumPlayers - 1
          BY DEF TypeOK, TableType, Players
        <5>2. TypeOK' => \A k \in 0 .. NumPlayers - 1 : (current_player_index' + k) % NumPlayers \in Players
          BY <1>1, <5>1, Passing
        <5>. QED
          BY <1>1, <5>2 DEF ToMove, NoTurns
      <4>. QED
        BY <1>1, <4>1, <4>2 DEF ToMove
    <3>2. \A q \in ToMove' : VoidSeat(q) => VoidSeat(q)'
      <4>1. \A q \in Players : \A i \in 1 .. Len(hands[q]) : hands[q][i] \in Identity
        BY <1>1
      <4>2. \A q \in Players : VoidSeat(q) => \A i \in 1 .. Len(hands[q]) : ~ Useful(hands[q][i])'
        <5>. SUFFICES ASSUME NEW q \in Players, VoidSeat(q), NEW i \in 1 .. Len(hands[q])
                      PROVE  ~ Useful(hands[q][i])'
          OBVIOUS
        <5>1. PICK x \in Identity : x = hands[q][i] /\ x = hands'[q][i] /\ ~ Useful(x)
          BY <1>1, <4>1 DEF VoidSeat
        <5>2. Useful(hands[q][i])' <=> Useful(x)'
          BY <5>1 DEF Useful, Played, InReach, K, KthRank, played_count, max_played
        <5>. QED
          BY <1>4, <5>1, <5>2
      <4>. QED
        BY <1>1, <3>1, <4>2 DEF VoidSeat
    <3>3. /\ Cardinality(Movers)' \in Nat /\ Cardinality(Movers)' <= Cardinality(Movers)
          /\ Cardinality(Movers) \in Nat
      BY <1>1, <3>1, <3>2, FewerMovers, SeatsToMove
    <3>. QED
      BY <1>1, <1>4, <1>7, <3>3 DEF TooSlow
  <2>3. Overloaded => Overloaded'
    <3>1. \A q \in Players : NeedsTwoTurns(q) => NeedsTwoTurns(q)'
      BY <1>4, <1>6, <2>1 DEF NeedsTwoTurns
    <3>2. endgame_turns' # NoTurns
      BY <1>1 DEF NoTurns
    <3>. QED
      BY <3>1, <3>2 DEF Overloaded
  <2>4. ~ Stranded
    BY <1>1 DEF Stranded
  <2>. QED
    BY <1>7, <2>1, <2>2, <2>3, <2>4 DEF Doomed
<1>. QED
  BY <1>8, <1>9

\* The countdown starts when the deck is empty and stops the game at nought.
LEMMA CountdownStep ==
  ASSUME GameStateAssumption, AccountInv, Countdown, [Next]_vars
  PROVE  Countdown' /\ (CountdownInv => CountdownInv')
<1>1. /\ endgame_turns \in -1 .. NumPlayers /\ cards_left \in Nat /\ NumPlayers \in Nat \ {0}
      /\ cards_left > 0 => endgame_turns = -1
      /\ phase # "deal" => (cards_left > 0 <=> endgame_turns = -1)
  BY DEF AccountInv, TypeOK, TableType, GameStateAssumption, Countdown, CountdownInv, NoTurns
<1>2. ASSUME phase # "deal", ~ended, SpendEndgameTurn, cards_left' = cards_left, phase' # "deal"
      PROVE  Countdown' /\ CountdownInv'
  <2>1. endgame_turns # 0
    BY <1>2 DEF ended
  <2>2. endgame_turns' = -1 <=> endgame_turns = -1
    BY <1>1, <1>2, <2>1 DEF SpendEndgameTurn, NoTurns
  <2>. QED
    BY <1>1, <1>2, <2>2 DEF Countdown, CountdownInv, NoTurns
<1>3. ASSUME cards_left > 0, NEW p, NEW c, on_draw(p, c)
      PROVE  Countdown' /\ (phase' # "deal" => CountdownInv')
  <2>1. /\ cards_left' = cards_left - 1
        /\ endgame_turns' = IF cards_left = 1 THEN NumPlayers ELSE -1
    BY <1>1, <1>3 DEF on_draw, NoTurns
  <2>. QED
    BY <1>1, <1>3, <2>1 DEF Countdown, CountdownInv, NoTurns
<1>4. CASE Deal
  BY <1>3, <1>4 DEF Deal, CountdownInv
<1>5. CASE GiveClue
  BY <1>2, <1>5 DEF GiveClue, on_clue
<1>6. ASSUME NEW i \in 1 .. HandSize, PressPlay(i) \/ PressDiscard(i)
      PROVE  Countdown' /\ CountdownInv'
  <2>1. CardUse(i)
    BY <1>6, PressIsUse
  <2>. QED
    BY <1>2, <2>1 DEF CardUse, PassTurn
<1>7. CASE PressDeck
  <2>1. /\ phase' # "deal" /\ cards_left' = 0 /\ endgame_turns' = NumPlayers
    BY <1>7 DEF PressDeck, on_deck_play
  <2>. QED
    BY <1>1, <2>1 DEF Countdown, CountdownInv, NoTurns
<1>8. CASE Draw
  BY <1>3, <1>8 DEF Draw
<1>9. CASE UNCHANGED vars
  BY <1>1, <1>9 DEF vars, tableVars, Countdown, CountdownInv, NoTurns
<1>. QED
  BY <1>4, <1>5, <1>6, <1>7, <1>8, <1>9 DEF Next, GameOver

\* A score that is out of reach stays so, whatever the engine takes.
LEMMA DoomedStep ==
  ASSUME GameStateAssumption, AccountInv, AccountInv', CountdownInv, [Next]_vars,
         NEW m \in Int, Doomed(m)
  PROVE  Doomed(m)'
<1>1. CASE GiveClue
  BY <1>1, ClueDoomed
<1>2. CASE Draw
  BY <1>2, DrawDoomed
<1>3. ASSUME NEW i \in 1 .. HandSize, PressPlay(i) \/ PressDiscard(i) PROVE Doomed(m)'
  <2>1. CardUse(i)
    BY <1>3, PressIsUse
  <2>. QED
    BY <2>1, UseDoomed
<1>4. CASE PressDeck
  BY <1>4, DeckDoomed
<1>5. CASE UNCHANGED vars
  <2>1. UNCHANGED <<pileVars, hands, cards_left, endgame_turns, current_player_index, phase,
                    tokenVars>>
    BY <1>5 DEF vars, tableVars
  <2>2. /\ score' = score /\ max_score' = max_score
        /\ \A x : Useful(x)' <=> Useful(x)
        /\ \A q, x : Keeps(q, x)' <=> Keeps(q, x)
    BY <2>1, SameScores
  <2>3. \A q : (NeedsTwoTurns(q)' <=> NeedsTwoTurns(q)) /\ (VoidSeat(q)' <=> VoidSeat(q))
    BY <2>1, <2>2 DEF NeedsTwoTurns, VoidSeat
  <2>4. ToMove' = ToMove
    BY <2>1 DEF ToMove
  <2>5. Movers' = Movers
    BY <2>3, <2>4 DEF Movers
  <2>6. TooSlow(m)' <=> TooSlow(m)
    BY <2>1, <2>2, <2>5 DEF TooSlow
  <2>7. Stranded' <=> Stranded
    BY <2>1, <2>2, <2>4 DEF Stranded
  <2>8. Overloaded' <=> Overloaded
    BY <2>1, <2>3 DEF Overloaded, tokenVars
  <2>. QED
    BY <2>2, <2>6, <2>7, <2>8 DEF Doomed
<1>6. ~ Deal
  BY DEF Deal, CountdownInv
<1>. QED
  BY <1>1, <1>2, <1>3, <1>4, <1>5, <1>6 DEF Next, GameOver

\* Everything the search and the players do is a step of the engine.
LEMMA EndSteps ==
  ASSUME GameStateAssumption, AccountInv, [EndNext]_endVars
  PROVE  /\ [Next]_vars
         /\ \/ given_up' = given_up
            \/ /\ given_up' = max_score /\ phase = "act" /\ ~ended
               /\ unwinnable_state(Now, current_player_index)
<1>1. \A i : PressPlay(i) \/ PressDiscard(i) => i \in 1 .. HandSize
  <2>1. /\ HandSize \in Nat /\ current_player_index \in Players
        /\ \A p \in Players : Len(hands[p]) \in Nat /\ Len(hands[p]) <= HandSize
    BY DEF AccountInv, HandsInv, TypeOK, TableType, GameStateAssumption
  <2>2. \A i : PressPlay(i) \/ PressDiscard(i) => i \in 1 .. Len(hands[current_player_index])
    BY DEF PressPlay, PressDiscard
  <2>. QED
    BY <2>1, <2>2
<1>2. CASE Wander
  <2>1. GiveClue \/ Draw \/ \E i \in 1 .. HandSize : PressPlay(i) \/ PressDiscard(i)
    BY <1>2 DEF Wander
  <2>2. \/ given_up' = given_up
        \/ /\ given_up' = max_score /\ phase = "act" /\ ~ended
           /\ unwinnable_state(Now, current_player_index)
    <3>1. phase = "act" => ~ended
      BY <2>1 DEF GiveClue, Draw, PressPlay, PressDiscard
    <3>. QED
      BY <1>2, <3>1 DEF Wander, GiveUp
  <2>. QED
    BY <2>1, <2>2 DEF Next
<1>3. CASE Promise
  BY <1>3 DEF Promise
<1>4. CASE Follow
  <2>1. PICK move : CASE move[1] = "play" -> PressPlay(move[2])
                      [] move[1] = "discard" -> PressDiscard(move[2])
                      [] OTHER -> GiveClue
    BY <1>4 DEF Follow
  <2>2. PressPlay(move[2]) \/ PressDiscard(move[2]) \/ GiveClue
    BY <2>1
  <2>3. Next
    BY <1>1, <2>2 DEF Next
  <2>. QED
    BY <1>4, <2>3 DEF Follow
<1>5. CASE FollowDraw
  BY <1>5 DEF FollowDraw, Next
<1>6. CASE EndOfGame \/ UNCHANGED endVars
  BY <1>6 DEF EndOfGame, endVars
<1>. QED
  BY <1>2, <1>3, <1>4, <1>5, <1>6 DEF EndNext

\* A doomed score is not reached.
LEMMA DoomedIsLost ==
  ASSUME GameStateAssumption, AccountInv, NEW m \in Int, Doomed(m)
  PROVE  score < m
<1>1. /\ score \in Nat /\ max_score \in Nat /\ score <= max_score
      /\ \A x \in Identity : Useful(x) => score < max_score
  BY ScoreBound DEF AccountInv, PilesInv
<1>2. max_score <= m
  BY DEF Doomed
<1>3. CASE max_score < m
  BY <1>1, <1>3
<1>4. CASE TooSlow(m)
  <2>1. Cardinality(Movers) \in Nat /\ cards_left \in Nat
    BY SeatsToMove DEF AccountInv, TypeOK, TableType
  <2>. QED
    BY <1>1, <1>4, <2>1 DEF TooSlow
<1>5. CASE Stranded \/ Overloaded
  <2>1. \E x \in Identity : Useful(x)
    BY <1>5 DEF Stranded, Overloaded, NeedsTwoTurns
  <2>. QED
    BY <1>1, <1>2, <2>1
<1>. QED
  BY <1>3, <1>4, <1>5 DEF Doomed

LEMMA GivenUpStep ==
  ASSUME GameStateAssumption, GivenUpInv, [EndNext]_endVars
  PROVE  GivenUpInv'
<1>1. /\ AccountInv /\ CountdownInv /\ given_up \in Int
      /\ given_up # -1 => Doomed(given_up)
  BY DEF GivenUpInv
<1>2. /\ [Next]_vars
      /\ \/ given_up' = given_up
         \/ /\ given_up' = max_score /\ phase = "act" /\ ~ended
            /\ unwinnable_state(Now, current_player_index)
  BY <1>1, EndSteps
<1>3. AccountInv' /\ CountdownInv'
  BY <1>1, <1>2, AccountStep, CountdownStep DEF Countdown, CountdownInv
<1>4. CASE given_up' = given_up
  <2>1. PICK n \in Int : n = given_up
    BY <1>1
  <2>2. n # -1 => Doomed(n)
    BY <1>1, <2>1
  <2>3. n # -1 => Doomed(n)'
    BY <1>1, <1>2, <1>3, <2>2, DoomedStep
  <2>4. given_up' \in Int /\ (given_up' # -1 => Doomed(given_up)')
    BY <1>4, <2>1, <2>3 DEF Doomed, TooSlow
  <2>. QED
    BY <1>3, <2>4 DEF GivenUpInv
<1>5. CASE given_up' = max_score /\ phase = "act" /\ ~ended
           /\ unwinnable_state(Now, current_player_index)
  <2>1. max_score \in Int
    BY <1>1, ScoreBound DEF AccountInv, PilesInv
  <2>2. PICK n \in Int : n = max_score
    BY <2>1
  <2>3. Doomed(n)
    <3>1. Doomed(max_score)
      BY <1>1, <1>5, GiveUpIsSound
    <3>. QED
      BY <2>2, <3>1
  <2>4. Doomed(n)'
    BY <1>1, <1>2, <1>3, <2>3, DoomedStep
  <2>5. given_up' \in Int /\ Doomed(given_up)'
    BY <1>5, <2>2, <2>4 DEF Doomed, TooSlow
  <2>. QED
    BY <1>3, <2>5 DEF GivenUpInv
<1>. QED
  BY <1>2, <1>4, <1>5

-----------------------------------------------------------------------------
(* The theorems. *)

\* The accounting of the engine, the search's countdown and the reason of every give-up
\* hold throughout an ending, played by anyone or along a plan.
THEOREM GiveUpsHaveReasons == EndSpec => []GivenUpInv
<1>1. EndInit => GivenUpInv
  <2>1. EndInit => given_up = -1
    BY DEF EndInit
  <2>. QED
    BY <2>1, EndAccount, GameStateAssumption, EndingsAssumption DEF GivenUpInv
<1>2. GivenUpInv /\ [EndNext]_endVars => GivenUpInv'
  BY GivenUpStep, GameStateAssumption
<1>. QED
  BY <1>1, <1>2, PTL DEF EndSpec

\* A position that unwinnable_state gives up is lost, in any variant, with any number of
\* players and cards, whatever is played and drawn after it.
THEOREM GivenUpIsAlwaysLost == EndSpec => []GivenUpIsLost
<1>1. GivenUpInv => GivenUpIsLost
  <2>. SUFFICES ASSUME GivenUpInv, given_up # -1 PROVE score < given_up
    BY DEF GivenUpIsLost
  <2>. QED
    BY DoomedIsLost, GameStateAssumption DEF GivenUpInv
<1>. QED
  BY <1>1, GiveUpsHaveReasons, PTL

\* From an ending on, as from the deal, the caches of State agree with its predicates, no
\* card is lost or counted twice, and max_ranks is how far each suit can go.
THEOREM EndingsKeepAccounts == EndSpec => [](CachesExact /\ CardsConserved /\ MaxRanksReachable)
<1>1. GivenUpInv => CachesExact /\ CardsConserved /\ MaxRanksReachable
  BY CachesFromPiles, ReachFromPiles, GameStateAssumption DEF GivenUpInv, AccountInv, TypeOK
<1>. QED
  BY <1>1, GiveUpsHaveReasons, PTL

\* Giving up is final in any game of the engine, dealt from the start, with deck plays
\* where the table allows them: once unwinnable_state finds the maximum m out of reach
\* for the player to act, the score stays below m for ever.
THEOREM GivingUpIsFinal ==
  ASSUME NEW CONSTANT m \in Int
  PROVE  Spec => []( /\ phase = "act" /\ ~ended /\ max_score = m
                     /\ unwinnable_state(Now, current_player_index)
                     => [](score < m))
<1>. DEFINE Inv == AccountInv /\ Countdown
            GivesUp == /\ phase = "act" /\ ~ended /\ max_score = m
                       /\ unwinnable_state(Now, current_player_index)
            Gone == AccountInv /\ CountdownInv /\ Doomed(m)
<1>1. Init => Inv
  <2>1. Init => Countdown
    BY DEF Init, Countdown, CountdownInv
  <2>. QED
    BY <2>1, AccountInit, GameStateAssumption
<1>2. Inv /\ [Next]_vars => Inv'
  BY AccountStep, CountdownStep, GameStateAssumption
<1>3. Inv /\ GivesUp => Gone
  <2>. SUFFICES ASSUME Inv, GivesUp PROVE Gone
    OBVIOUS
  <2>1. CountdownInv
    BY DEF Countdown
  <2>2. Doomed(max_score)
    BY <2>1, GiveUpIsSound, GameStateAssumption
  <2>. QED
    BY <2>1, <2>2
<1>4. Gone /\ [Next]_vars => Gone'
  BY AccountStep, CountdownStep, DoomedStep, GameStateAssumption DEF Countdown, CountdownInv
<1>5. Gone => score < m
  BY DoomedIsLost, GameStateAssumption
<1>. QED
  BY <1>1, <1>2, <1>3, <1>4, <1>5, PTL DEF Spec
=============================================================================
