--------------------------- MODULE ReactionSlots ---------------------------
(***************************************************************************)
(* The arithmetic of a reactive clue: the slot of the clue's focus, the    *)
(* slot the reacter acts on and the slot meant in the receiver's hand.     *)
(***************************************************************************)
EXTENDS Integers, TLAPS

calc_slot(focus_slot, slot, hand_size) ==
  LET other == (focus_slot + hand_size - slot) % hand_size
  IN  IF other = 0 THEN hand_size ELSE other

\* kHandSize: five cards for two and three players, four, and three for six.
HandSizes == {3, 4, 5}

\* A focus turns each slot of one hand into a slot of the other.
LEMMA SlotInHand ==
  ASSUME NEW n \in HandSizes, NEW f \in 1 .. n, NEW t \in 1 .. n
  PROVE  calc_slot(f, t, n) \in 1 .. n
<1>1. CASE n = 3 BY <1>1, SMT DEF calc_slot
<1>2. CASE n = 4 BY <1>2, SMT DEF calc_slot
<1>3. CASE n = 5 BY <1>3, SMT DEF calc_slot
<1> QED BY <1>1, <1>2, <1>3, SMT DEF HandSizes

\* The reacter's slot is found from the target's (interpret_reactive) and the target's
\* from the reacter's (calc_target_slot) by the same function: what the giver encodes is
\* what the receiver decodes, for every focus, target and hand size.
THEOREM SlotsDecode ==
  ASSUME NEW n \in HandSizes, NEW f \in 1 .. n, NEW t \in 1 .. n
  PROVE  calc_slot(f, calc_slot(f, t, n), n) = t
<1>1. CASE n = 3 BY <1>1, SMT DEF calc_slot
<1>2. CASE n = 4 BY <1>2, SMT DEF calc_slot
<1>3. CASE n = 5 BY <1>3, SMT DEF calc_slot
<1> QED BY <1>1, <1>2, <1>3, SMT DEF HandSizes
=============================================================================
