----------------------------- MODULE HanabiRules -----------------------------
(***************************************************************************)
(* The game the server plays, without the bot's bookkeeping: what the      *)
(* bot's State is meant to track.  Cards of a suit are numbered by the     *)
(* order they are played in, so a reversed suit looks like any other, and  *)
(* a card lands, is scrapped or strikes, whatever button did it, so an     *)
(* inverted suit does too.  Clue tokens are counted in half tokens: a clue *)
(* costs two, and a refund is two, or one in Clue Starved.                 *)
(***************************************************************************)
EXTENDS Integers, Sequences, FiniteSets, Functions

CONSTANTS Suits,
          Top,          \* cards to play per suit
          Copies,       \* Copies[s][k]: copies of the k-th card of s
          NumPlayers,
          HandSize,
          MaxTokens,
          Refund        \* half tokens a refund is worth

VARIABLES credits,      \* half clue tokens
          progress,     \* progress[s]: cards of s played
          lost,         \* lost[s][k]: copies in the discard pile
          strikes,
          left,         \* cards in the deck
          turns,        \* turns to go once the deck is empty, -1 before
          hands,        \* hands[p]: cards of player p as <<suit, k>>, newest first
          turn,         \* who is to act
          phase         \* "deal", "act" or "draw"

vars == <<credits, progress, lost, strikes, left, turns, hands, turn, phase>>

Players == 0 .. NumPlayers - 1
Steps == 1 .. Top
NextPlayer(p) == (p + 1) % NumPlayers

InHands(s, k) == Cardinality({at \in Players \X (1 .. HandSize) :
                               /\ at[2] <= Len(hands[at[1]])
                               /\ hands[at[1]][at[2]] = <<s, k>>})
Unseen(s, k) == Copies[s][k] - lost[s][k] - InHands(s, k)
                  - (IF k <= progress[s] THEN 1 ELSE 0)

\* How far a suit can still go: up to the first card all of whose copies are
\* in the discard pile.
Reach(s) == CHOOSE n \in 0 .. Top :
               /\ \A k \in 1 .. n : lost[s][k] < Copies[s][k]
               /\ n < Top => lost[s][n + 1] = Copies[s][n + 1]

\* Three strikes, nothing left to play, or the last turn taken.
Over == strikes = 3 \/ (\A s \in Suits : progress[s] = Reach(s)) \/ turns = 0

Without(h, i) == [j \in 1 .. Len(h) - 1 |-> IF j < i THEN h[j] ELSE h[j + 1]]
Capped(n) == IF n < 2 * MaxTokens THEN n ELSE 2 * MaxTokens

Init == /\ credits = 2 * MaxTokens
        /\ progress = [s \in Suits |-> 0]
        /\ lost = [s \in Suits |-> [k \in Steps |-> 0]]
        /\ strikes = 0 /\ turns = -1
        /\ left = SumFunction([c \in Suits \X Steps |-> Copies[c[1]][c[2]]])
        /\ hands = [p \in Players |-> <<>>]
        /\ turn = 0 /\ phase = "deal"

\* Card c comes off the deck; the last one starts the final round.
TakeCard(p, c) ==
  /\ left > 0 /\ Unseen(c[1], c[2]) > 0
  /\ hands' = [hands EXCEPT ![p] = <<c>> \o @]
  /\ left' = left - 1
  /\ turns' = IF left = 1 /\ turns = -1 THEN NumPlayers ELSE turns

Deal(p, c) == /\ phase = "deal" /\ TakeCard(p, c)
              /\ phase' = IF \A q \in Players : Len(hands'[q]) = HandSize THEN "act" ELSE "deal"
              /\ UNCHANGED <<credits, progress, lost, strikes, turn>>

Clue == /\ phase = "act" /\ ~Over /\ credits >= 2
        /\ credits' = credits - 2
        /\ turn' = NextPlayer(turn)
        /\ turns' = (IF turns = -1 THEN -1 ELSE turns - 1)
        /\ UNCHANGED <<progress, lost, strikes, left, hands, phase>>

\* What becomes of card c when it leaves a hand.
Land(c) == /\ c[2] = progress[c[1]] + 1
           /\ progress' = [progress EXCEPT ![c[1]] = @ + 1]
           /\ credits' = (IF c[2] = Top THEN Capped(credits + Refund) ELSE credits)
           /\ UNCHANGED <<lost, strikes>>

Scrap(c) == /\ lost' = [lost EXCEPT ![c[1]][c[2]] = @ + 1]
            /\ credits' = Capped(credits + Refund)
            /\ UNCHANGED <<progress, strikes>>

Strike(c) == /\ c[2] # progress[c[1]] + 1
             /\ lost' = [lost EXCEPT ![c[1]][c[2]] = @ + 1]
             /\ strikes' = strikes + 1
             /\ UNCHANGED <<progress, credits>>

UseCard(i) == /\ phase = "act" /\ ~Over
              /\ i \in 1 .. Len(hands[turn])
              /\ LET c == hands[turn][i] IN Land(c) \/ Scrap(c) \/ Strike(c)
              /\ hands' = [hands EXCEPT ![turn] = Without(@, i)]
              /\ turns' = (IF turns = -1 THEN -1 ELSE turns - 1)
              /\ phase' = (IF left > 0 THEN "draw" ELSE "act")
              /\ turn' = (IF left > 0 THEN turn ELSE NextPlayer(turn))
              /\ UNCHANGED left

\* With the deck-plays option the last card of the deck can be played unseen.
UseDeckCard(c) == /\ phase = "act" /\ ~Over /\ left = 1 /\ Unseen(c[1], c[2]) > 0
                  /\ Land(c) \/ Scrap(c)
                  /\ left' = 0 /\ turns' = NumPlayers
                  /\ turn' = NextPlayer(turn)
                  /\ UNCHANGED <<hands, phase>>

Draw(c) == /\ phase = "draw" /\ TakeCard(turn, c)
           /\ turn' = NextPlayer(turn) /\ phase' = "act"
           /\ UNCHANGED <<credits, progress, lost, strikes>>

Next == \/ \E p \in Players, c \in Suits \X Steps : Deal(p, c)
        \/ Clue
        \/ \E i \in 1 .. HandSize : UseCard(i)
        \/ \E c \in Suits \X Steps : UseDeckCard(c) \/ Draw(c)

Spec == Init /\ [][Next]_vars
=============================================================================
