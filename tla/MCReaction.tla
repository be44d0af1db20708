----------------------------- MODULE MCReaction -----------------------------
(***************************************************************************)
(* Small tables for Reaction: two suits of three ranks, three cards a      *)
(* hand.  Three deals, each with every order of Bob's hand and two orders  *)
(* of Cathy's, two heights of the stacks, and nothing known before the     *)
(* clue, a call that stands, or an older clue.                             *)
(***************************************************************************)
EXTENDS Reaction

CONSTANTS a, b

MCSuits == {a, b}
MCCardCount == [i \in MCSuits \X (1 .. 3) |-> <<3, 2, 1>>[i[2]]]
MCDrawn == {<<a, 1>>, <<a, 2>>, <<b, 2>>}

\* The oldest orders are the giver's; slot 1 is the newest card.
Hands == (0 :> <<3, 2, 1>>) @@ (1 :> <<6, 5, 4>>) @@ (2 :> <<9, 8, 7>>)
Orders == {<<1, 2, 3>>, <<2, 3, 1>>, <<3, 1, 2>>, <<1, 3, 2>>, <<2, 1, 3>>, <<3, 2, 1>>}
Arranged(h, order) == [i \in 1 .. 3 |-> h[order[i]]]
Alice == << <<a, 1>>, <<b, 1>>, <<b, 1>> >>
Deals ==
  {<< << <<a, 1>>, <<b, 1>>, <<a, 3>> >>, << <<b, 2>>, <<a, 2>>, <<b, 3>> >> >>,
   << << <<a, 2>>, <<b, 1>>, <<b, 2>> >>, << <<b, 2>>, <<a, 2>>, <<a, 3>> >> >>,
   << << <<a, 2>>, <<b, 2>>, <<a, 3>> >>, << <<b, 2>>, <<a, 1>>, <<a, 2>> >> >>}
Decks == UNION {{Alice \o Arranged(d[1], x) \o Arranged(d[2], y) :
                   x \in Orders, y \in {<<1, 2, 3>>, <<3, 1, 2>>}} : d \in Deals}

Calls == {[play |-> {}, discard |-> {}]} \cup [play : {{4}, {6}, {9}}, discard : {{}}]
           \cup [play : {{}}, discard : {{5}, {8}}]
Known ==
  {<<calls, <<>> >> : calls \in Calls} \cup
  {<<[play |-> {}, discard |-> {}], <<[target |-> Bob, kind |-> "rank", value |-> r]>> >> : r \in 1 .. 2}

\* No more copies than there are, and an older call or clue is one that could be made.
Possible(pos) ==
  LET id(o) == pos.deck[o]
      copies(i) == Cardinality({o \in DOMAIN pos.deck : id(o) = i}) + (IF i[2] <= pos.stacks[i[1]] THEN 1 ELSE 0)
  IN  /\ \A i \in DOMAIN MCCardCount : copies(i) <= MCCardCount[i]
      /\ \A o \in pos.calls.play : id(o)[2] = pos.stacks[id(o)[1]] + 1
      /\ \A o \in pos.calls.discard : id(o)[2] <= pos.stacks[id(o)[1]] \/ id(o)[2] # 3
      /\ \A k \in DOMAIN pos.clues : \E o \in ToSet(Hands[Bob]) : id(o)[2] = pos.clues[k].value

NoneGone == [i \in DOMAIN MCCardCount |-> 0]

\* Two positions in which giver and reacter part: elim takes the reacter's call away and an
\* older call hides that (CallStands); the reacter's card follows one of Bob's (Unlinked).
Parted ==
  {[stacks |-> (a :> 1) @@ (b :> 0), gone |-> NoneGone, hands |-> Hands,
    deck |-> <<<<b, 2>>, <<a, 2>>, <<b, 1>>, <<b, 2>>, <<a, 2>>, <<b, 1>>, <<b, 1>>, <<a, 3>>, <<a, 1>> >>,
    calls |-> [play |-> {2}, discard |-> {5}],
    clues |-> <<[target |-> Bob, kind |-> "colour", value |-> b]>>],
   [stacks |-> (a :> 0) @@ (b :> 1), gone |-> NoneGone, hands |-> Hands,
    deck |-> <<<<a, 1>>, <<a, 1>>, <<b, 1>>, <<a, 1>>, <<b, 2>>, <<b, 2>>, <<a, 2>>, <<b, 3>>, <<a, 2>> >>,
    calls |-> [play |-> {5}, discard |-> {}],
    clues |-> <<[target |-> Cathy, kind |-> "rank", value |-> 2]>>]}

MCPositions ==
  {pos \in [stacks : {(a :> x) @@ (b :> 0) : x \in 0 .. 1}, gone : {NoneGone},
            hands : {Hands}, deck : Decks, calls : {k[1] : k \in Known}, clues : {k[2] : k \in Known}] :
     <<pos.calls, pos.clues>> \in Known /\ Possible(pos)} \cup Parted
=============================================================================
