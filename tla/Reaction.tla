------------------------------ MODULE Reaction ------------------------------
(***************************************************************************)
(* One reactive clue of the reactor convention at a table of three: the    *)
(* giver clues one partner (the receiver) and thereby calls a card of the  *)
(* other (the reacter); which card the reacter acts on, and how, tells the *)
(* receiver which of its own cards was meant.  Every seat reads the clue   *)
(* and the reaction in a Game of its own, and none sees its own hand.      *)
(*                                                                         *)
(* The table: three seats, normal suits, /allplays off, less than eight    *)
(* tokens, nobody locked, not the endgame, no reaction pending before the  *)
(* clue.  Hands are sequences of orders, newest first; newer is larger.    *)
(***************************************************************************)
EXTENDS ReactionSlots, Sequences, FiniteSets, SequencesExt

CONSTANTS
  Suits, Top,        \* the suits, and their last rank
  CardCount,         \* the copies of each card
  HandSize,
  Positions,         \* the games in which the clue is given
  Drawn              \* the cards the deck may deal

VARIABLES
  phase,             \* "clue", "asked", then "done", or "struck" after a misplay
  current,           \* the seat to act
  games,             \* the Game of each seat
  meant              \* what the giver's reading of its clue names

vars == <<phase, current, games, meant>>

giver == 0
Bob == 1
Cathy == 2
Players == {giver, Bob, Cathy}
next_player_index(p) == (p + 1) % 3

Identity == Suits \X (1 .. Top)
next_id(id) == {i \in Identity : i[1] = id[1] /\ i[2] = id[2] + 1}
prev_id(id) == {i \in Identity : i[1] = id[1] /\ i[2] = id[2] - 1}
one(S) == Cardinality(S) = 1
the(S) == CHOOSE x \in S : TRUE

-----------------------------------------------------------------------------
(* State.  It holds the whole deal; a Game looks at it through seen only. *)

playable_away(t, id) == id[2] - (t.stacks[id[1]] + 1)
playable(t, id) == playable_away(t, id) = 0
is_useful(t, id) ==
  /\ id[2] > t.stacks[id[1]]
  /\ \A r \in t.stacks[id[1]] + 1 .. id[2] : t.gone[<<id[1], r>>] < CardCount[<<id[1], r>>]
critical(t, id) == is_useful(t, id) /\ t.gone[id] = CardCount[id] - 1
base_count(t, id) == t.gone[id] + (IF id[2] <= t.stacks[id[1]] THEN 1 ELSE 0)

playable_set(t) == {id \in Identity : playable(t, id) /\ is_useful(t, id)}
critical_set(t) == {id \in Identity : critical(t, id)}
trash_set(t) == {id \in Identity : ~is_useful(t, id)}

try_play(t, id) == IF playable(t, id) THEN [t EXCEPT !.stacks[id[1]] = id[2]] ELSE t

\* What this seat's state.deck knows of a card: none of its own, unless a clue named it.
seen(g, o) ==
  IF g.state.holders[o] # g.me \/ o \in g.state.named THEN {g.state.deck[o]} ELSE {}

held(g, p) == ToSet(g.state.hands[p])
all_held(g) == UNION {held(g, p) : p \in Players}

-----------------------------------------------------------------------------
(* What the team knows of a card: Thought and ConvData. *)

id_of(c) == IF one(c.possible) THEN c.possible ELSE {}
id_infer(c) == IF one(c.possible) THEN c.possible ELSE IF one(c.inferred) THEN c.inferred ELSE {}
possibilities(c) == IF c.inferred # {} THEN c.inferred ELSE c.possible

\* An empty lock is no lock, an empty old reading no old reading.
reset_inferences(c) ==
  IF c.reset THEN c
  ELSE LET lock == c.lock \cap c.possible
       IN  [c EXCEPT !.reset = TRUE, !.lock = lock,
                     !.inferred = IF lock # {} THEN lock ELSE c.possible]

\* A reading left empty starts over, and the call that rested on it is void.
recovered(c) ==
  IF c.inferred = {} /\ ~c.reset THEN [reset_inferences(c) EXCEPT !.status = "none"] ELSE c

cleared(c) == [c EXCEPT !.status = "none", !.urgent = FALSE, !.trash = FALSE, !.signal = 99]

Fresh == [possible |-> Identity, inferred |-> Identity, lock |-> {}, old |-> {}, reset |-> FALSE,
          status |-> "none", urgent |-> FALSE, trash |-> FALSE, signal |-> 99]

-----------------------------------------------------------------------------
(* Player: what the team holds for trash and for playable. *)

order_kt(g, o) ==
  LET t == g.state
      dupes == UNION {id_of(g.card[o2]) : o2 \in held(g, t.holders[o]) \ {o}}
  IN  \/ g.card[o].trash /\ \A i \in g.card[o].possible : ~critical(t, i)
      \/ \A i \in g.card[o].possible : ~is_useful(t, i) \/ i \in dupes

is_duped(g, i, o) ==
  \E o2 \in held(g, g.state.holders[o]) \ {o} :
     id_infer(g.card[o2]) = {i} /\ seen(g, o2) \subseteq {i}

order_trash(g, o) ==
  LET c == g.card[o]
      all_trash(S) == \A i \in S : ~is_useful(g.state, i) \/ is_duped(g, i, o)
  IN  \/ order_kt(g, o)
      \/ /\ \E i \in c.possible : ~critical(g.state, i)
         /\ \/ c.trash \/ c.status = "CTD"
            \/ all_trash(c.possible) \/ (c.lock # {} /\ all_trash(c.lock))
            \/ all_trash(possibilities(c))

order_kp(g, o) ==
  LET c == g.card[o]
      ps == playable_set(g.state)
      all_playable(S) == S # {} /\ S \subseteq ps
  IN  /\ \E i \in c.possible : playable(g.state, i)
      /\ IF c.status = "CTP"
         THEN c.possible \cap ps # {} /\ (c.lock = {} \/ c.lock \cap ps # {})
         ELSE all_playable(c.possible) \/ all_playable(c.lock)

obvious_playables(g, p) == SelectSeq(g.state.hands[p], LAMBDA o : order_kp(g, o))
thinks_trash(g, p) == {o \in held(g, p) : order_trash(g, o)}

has_consistent_infs(g, o) == one(g.card[o].possible) \/ seen(g, o) \subseteq g.card[o].inferred

\* update_hypo_stacks: everything obvious is played, seat by seat, under the names ids gives
\* the cards.  A play without a name counts but moves no stack.
RECURSIVE hypo(_, _, _, _)
hypo(g, ids, tried, plays) ==
  LET hands == g.state.hands
      ready == SelectSeq(hands[0] \o hands[1] \o hands[2],
                         LAMBDA o : o \notin tried /\ order_kp(g, o) /\ has_consistent_infs(g, o))
      o == Head(ready)
  IN  IF ready = <<>> THEN [stacks |-> g.state.stacks, plays |-> plays]
      ELSE IF ids[o] = {} THEN hypo(g, ids, tried \cup {o}, plays \cup {o})
      ELSE IF playable(g.state, the(ids[o]))
      THEN hypo([g EXCEPT !.state = try_play(@, the(ids[o]))], ids, tried \cup {o}, plays \cup {o})
      ELSE hypo(g, ids, tried \cup {o}, plays)

\* Under the names of the team, and under those of this seat's own Player.
common_hypo(g) == hypo(g, [o \in all_held(g) |-> id_infer(g.card[o])], {}, {})
own_hypo(g) ==
  hypo(g, [o \in all_held(g) |-> IF seen(g, o) # {} THEN seen(g, o) ELSE id_infer(g.card[o])], {}, {})

-----------------------------------------------------------------------------
(* Game::elim. *)

\* Identities whose copies are all played, thrown away or among the cards that can be
\* nothing else: no other card is one of them.
CopiesLeft(g, ids) ==
  FoldLeft(LAMBDA n, i : n + CardCount[i] - base_count(g.state, i), 0, SetToSeq(ids))
Members(g, ids) == {o \in all_held(g) : g.card[o].possible \subseteq ids}
Groups(g) ==
  LET readings == {g.card[o].possible : o \in all_held(g)}
      small == {ids \in readings : CopiesLeft(g, ids) <= Cardinality(all_held(g))}
  IN  {UNION F : F \in SUBSET small} \cup {{i} : i \in Identity}
Exhausted(g) ==
  {ids \in Groups(g) : Cardinality(Members(g, ids)) = CopiesLeft(g, ids)}

\* update_map for one card; a reset undoes a call to play, unless the card is plainly trash.
strike(g, c, id, o) ==
  LET left == [c EXCEPT !.possible = @ \ {id}, !.inferred = @ \ {id}, !.lock = @ \ {id}]
      kept == \E i \in seen(g, o) : ~is_useful(g.state, i)
  IN  IF left.inferred # {} \/ left.reset THEN left
      ELSE [reset_inferences(left) EXCEPT !.status = IF @ = "CTP" /\ ~kept THEN "none" ELSE @]

RECURSIVE card_elim(_)
card_elim(g) ==
  LET exhausted == Exhausted(g)
      struck == [o \in all_held(g) |->
                   LET possible == g.card[o].possible
                   IN  possible \cap UNION {ids \in exhausted : ~possible \subseteq ids}]
      hit == {o \in all_held(g) : struck[o] # {}}
      left(o) == FoldLeft(LAMBDA c, id : strike(g, c, id, o), g.card[o], SetToSeq(struck[o]))
  IN  IF hit = {} THEN g ELSE card_elim([g EXCEPT !.card = [o \in hit |-> left(o)] @@ @])

elim(g) ==
  card_elim([g EXCEPT !.card = [o \in all_held(g) |-> recovered(g.card[o])] @@ @])

-----------------------------------------------------------------------------
(* Reading a clue: the helpers. *)

Clues(target) ==
  [target : {target}, kind : {"colour"}, value : Suits] \cup
  [target : {target}, kind : {"rank"}, value : 1 .. Top]
touches(clue, id) == clue.value = IF clue.kind = "colour" THEN id[1] ELSE id[2]
clue_touched(t, clue) == {o \in ToSet(t.hands[clue.target]) : touches(clue, t.deck[o])}

\* The newest touched card, but the first slot last of all.
reactive_focus(t, clue) ==
  LET hand == t.hands[clue.target]
      touched == {i \in DOMAIN hand : hand[i] \in clue_touched(t, clue)}
  IN  CHOOSE i \in touched : \A j \in touched : j = i \/ j = 1 \/ (i # 1 /\ i < j)

on_clue(g, clue) ==
  LET list == clue_touched(g.state, clue)
      masked(o) ==
        LET mask == {i \in Identity : touches(clue, i) <=> o \in list}
        IN  [g.card[o] EXCEPT !.possible = @ \cap mask, !.inferred = @ \cap mask, !.lock = @ \cap mask]
      card == [o \in held(g, clue.target) |-> recovered(masked(o))] @@ g.card
  IN  [g EXCEPT !.card = card, !.state.clued = @ \cup list,
                !.state.named = @ \cup {o \in list : one(card[o].possible)}]

\* An urgent card of this hand that was not the one pressed: its call is withdrawn.
check_missed(g, p, pressed) ==
  LET late == SelectSeq(g.state.hands[p], LAMBDA o : g.card[o].urgent /\ o # pressed)
      c == g.card[Head(late)]
  IN  IF late = <<>> THEN g
      ELSE [g EXCEPT !.card[Head(late)] =
              cleared([c EXCEPT !.inferred = c.old, !.old = {}, !.lock = {}])]

\* The card that plays before the holder's turn, and what it then makes playable.
connector(g, p) ==
  LET urgent == SelectSeq(g.state.hands[p], LAMBDA o : g.card[o].urgent)
      obvious == obvious_playables(g, p)
  IN  IF urgent # <<>> THEN {Head(urgent)} \ {o \in DOMAIN g.card : g.card[o].status = "CTD"}
      ELSE IF Len(obvious) = 1 THEN {Head(obvious)} ELSE {}
delayed_plays(g, holder) ==
  LET first == UNION {connector(g, p) : p \in Bob .. holder - 1}
      readings(o) == IF id_infer(g.card[o]) # {} THEN id_infer(g.card[o])
                     ELSE g.card[o].inferred \ trash_set(g.state)
  IN  UNION {{<<o, i>> : i \in UNION {next_id(j) : j \in readings(o)}} : o \in first}
conn_ids(g, holder) == {x[2] : x \in delayed_plays(g, holder)}

\* A reading of the clue so far: "reading" while the walk goes on, then how it ended.
Outcome(result, g) == [result |-> result, game |-> g, react |-> 0, target |-> 0, call |-> "none"]

\* A call to play: a card one card ahead of its turn commits the card before it.
called_to_play(g, o, conns) ==
  LET narrowed == g.card[o].inferred \cap (playable_set(g.state) \cup {x[2] : x \in conns})
      links == {x \in conns : seen(g, o) = {x[2]}}
      broken == \E x \in links : ~seen(g, x[1]) \subseteq prev_id(x[2])
      linked == [o2 \in {x[1] : x \in links} |->
                   [g.card[o2] EXCEPT !.old = g.card[o2].inferred, !.urgent = TRUE, !.status = "CTP",
                                      !.inferred = prev_id(the(seen(g, o)))]] @@ g.card
      called == [g.card[o] EXCEPT !.old = g.card[o].inferred, !.inferred = narrowed,
                                  !.lock = narrowed, !.signal = 1]
      fits == narrowed # {} /\ id_of(called) \subseteq narrowed
  IN  IF broken THEN [ok |-> FALSE, game |-> g]
      ELSE [ok |-> fits,
            game |-> [g EXCEPT !.card = [linked EXCEPT ![o] =
                        IF fits THEN [called EXCEPT !.status = "CTP", !.urgent = TRUE]
                        ELSE reset_inferences(called)]]]
target_play(g, o) == called_to_play(g, o, delayed_plays(g, g.state.holders[o]))

\* A call to discard: the stamp stays on the card even when nothing is left to read.
target_discard(g, o) ==
  LET c == g.card[o]
      called == [c EXCEPT !.old = c.inferred, !.inferred = @ \ critical_set(g.state),
                          !.status = "CTD", !.urgent = TRUE, !.signal = 1]
      fits == called.inferred # {}
  IN  [ok |-> fits, game |-> [g EXCEPT !.card[o] = IF fits THEN called ELSE reset_inferences(called)]]

-----------------------------------------------------------------------------
(* Reading a clue: the targets. *)

receiver_hand(g) == g.state.hands[Head(g.waiting).receiver]
Slots == 1 .. HandSize

\* The reacter's card for this slot of the receiver's hand.
react_order(g, slot) ==
  LET wc == Head(g.waiting) IN g.state.hands[wc.reacter][calc_slot(wc.focus, slot, HandSize)]

RECURSIVE played_out(_, _, _)
played_out(g, queue, t) ==
  LET next == {o \in queue : playable(t, the(seen(g, o)))}
  IN  IF next = {} THEN t ELSE played_out(g, queue, try_play(t, the(seen(g, the(next)))))

\* The stacks once the seats before the reacter, and then the receiver, have played what
\* they already hold for playable: what the receiver can name, then every standing call.
reactive_context(prev, g) ==
  LET wc == Head(g.waiting)
      before(t, p) ==
        LET plays == obvious_playables([prev EXCEPT !.state = t], p)
            urgent == SelectSeq(plays, LAMBDA o : prev.card[o].urgent)
        IN  IF plays = <<>> THEN t
            ELSE try_play(t, the(seen(g, Head(urgent \o plays))))
      others == FoldLeft(before, prev.state, [k \in 1 .. wc.reacter - Bob |-> Bob + k - 1])
      sure == SelectSeq(obvious_playables([prev EXCEPT !.state = others], wc.receiver),
                        LAMBDA o : prev.card[o].status # "CTD" /\ id_of(prev.card[o]) # {})
      named == FoldLeft(LAMBDA t, o : try_play(t, the(id_of(prev.card[o]))), others, sure)
  IN  played_out(g, {o \in held(g, wc.receiver) : prev.card[o].status = "CTP"}, named)

\* Playable cards of the receiver, the rightmost copy of each first of all.
play_targets(g, after) ==
  LET hand == receiver_hand(g)
      ready == {i \in Slots :
                  /\ \A id \in id_of(g.card[hand[i]]) : ~playable(g.state, id)
                  /\ g.card[hand[i]].status # "CTP"
                  /\ playable(after, the(seen(g, hand[i])))}
      primary == {i \in ready : \A j \in ready : seen(g, hand[i]) = seen(g, hand[j]) => j <= i}
  IN  SetToSortSeq(primary, <) \o SetToSortSeq(ready \ primary, >)

\* The reading of the target once it is called to play.
call_target(g, o, reading) ==
  [g EXCEPT !.card[o] = [@ EXCEPT !.old = g.card[o].inferred, !.inferred = reading,
                                  !.status = "CTP", !.signal = 1]]

Found(g, react, target, call) ==
  [result |-> "REACTIVE", game |-> g, react |-> react, target |-> target, call |-> call]

\* Colour, a play target: the reacter discards.
colour_play(prev, g, after, slot) ==
  LET react == react_order(g, slot)
      target == receiver_hand(g)[slot]
      marked == [g EXCEPT !.card[react].old = g.card[react].inferred]
      called == target_discard(marked, react)
      reading == called.game.card[target].inferred \cap
                   (playable_set(after) \cup conn_ids(called.game, Head(g.waiting).receiver))
  IN  IF g.card[react].possible \subseteq critical_set(g.state) THEN Outcome("reading", g)
      ELSE IF ~called.ok \/ reading = {} THEN Outcome("reading", called.game)
      ELSE Found(call_target(called.game, target, reading), react, target, "play")

sacrifice_targets(prev, g, prev_kt) ==
  LET hand == receiver_hand(g)
      stacks == common_hypo(prev).stacks
      id(i) == the(seen(g, hand[i]))
      key(i) == (stacks[id(i)[1]] + 1 - id(i)[2]) * 10 + (5 - id(i)[2])
  IN  SetToSortSeq({i \in Slots : hand[i] \notin prev_kt /\ ~critical(g.state, id(i))},
                   LAMBDA i, j : key(i) < key(j) \/ (key(i) = key(j) /\ i < j))

\* The cards the receiver can best do without, in the order of the convention.
discard_targets(prev, g) ==
  LET receiver == Head(g.waiting).receiver
      hand == receiver_hand(g)
      id(i) == the(seen(g, hand[i]))
      prev_kt == thinks_trash(prev, receiver)
      unknown == {i \in Slots : hand[i] \notin prev_kt}
      clued == {i \in Slots : hand[i] \in prev.state.clued}
      basic_trash == {i \in Slots : ~is_useful(g.state, id(i))}
      copies == {i \in Slots : \E j \in Slots : hand[j] < hand[i] /\ id(j) = id(i)}
      unknown_trash == unknown \cap (basic_trash \cup copies)
      unknown_dupes == {i \in unknown : \E o \in all_held(g) \ {hand[i]} : id_infer(g.card[o]) = {id(i)}}
      pre_clued_trash == {i \in unknown \cap clued : hand[i] \in thinks_trash(g, receiver)}
      sorted(S) == SetToSortSeq(S, <)
      sacrifices == sacrifice_targets(prev, g, prev_kt)
      pool == IF pre_clued_trash # {} THEN sorted(pre_clued_trash)
              ELSE IF unknown_trash # {} THEN sorted(unknown_trash \cap clued) \o sorted(unknown_trash \ clued)
              ELSE IF basic_trash # {} THEN sorted(basic_trash)
              ELSE IF unknown_dupes # {} THEN sorted(unknown_dupes)
              ELSE sacrifices
      free(s) == SelectSeq(s, LAMBDA i : \A j \in Slots : id(j) = id(i) => g.card[hand[j]].status # "CTD")
  IN  IF free(pool) # <<>> THEN free(pool) ELSE free(sacrifices)

\* Colour, a discard target: the reacter plays.
colour_discard(prev, g, conns, slot) ==
  LET wc == Head(g.waiting)
      react == react_order(g, slot)
      target == receiver_hand(g)[slot]
      called == target_play([g EXCEPT !.card[react].old = g.card[react].inferred], react)
  IN  IF \/ wc.reacter # Bob /\ g.card[target].status = "CTP"
         \/ order_kp(prev, react)
         \/ g.card[react].possible \cap (playable_set(g.state) \cup conns) = {}
      THEN Outcome("reading", g)
      ELSE IF ~called.ok THEN Outcome("reading", called.game)
      ELSE Found(called.game, react, target, "discard")

interpret_reactive_colour(prev, g) ==
  LET after == reactive_context(prev, g)
      conns == conn_ids(g, Head(g.waiting).receiver)
      play(w, i) == IF w.result = "reading" THEN colour_play(prev, w.game, after, i) ELSE w
      discard(w, i) == IF w.result = "reading" THEN colour_discard(prev, w.game, conns, i) ELSE w
      discards(w) == FoldLeft(discard, w, discard_targets(prev, w.game))
  IN  discards(FoldLeft(play, Outcome("reading", g), play_targets(g, after)))

\* Mutant: cards in the holder's own hand are counted too.
effective_possible_for_all(g, o) ==
  {i \in g.card[o].possible :
     base_count(g.state, i) + Cardinality({o2 \in all_held(g) : seen(g, o2) = {i}}) < CardCount[i]}

\* The copies its holder can count: played, thrown away, or in another hand.
effective_possible_for(g, o) ==
  LET others == UNION {held(g, p) : p \in Players \ {g.state.holders[o]}}
  IN  {i \in g.card[o].possible :
         base_count(g.state, i) + Cardinality({o2 \in others : seen(g, o2) = {i}}) < CardCount[i]}

\* Rank, a play target: both play, unless an older call of the receiver comes first.
rank_play(prev, g, after, conns, slot) ==
  LET wc == Head(g.waiting)
      hand == receiver_hand(g)
      target == hand[slot]
      react == react_order(g, slot)
      blocked == /\ playable(g.state, the(seen(g, target)))
                 /\ \E i \in slot + 1 .. HandSize : g.card[hand[i]].status = "CTP"
      called == target_play(g, react)
      reading == possibilities(called.game.card[target]) \cap
                   (playable_set(after) \cup conn_ids(called.game, wc.receiver))
      stamped == call_target(called.game, target, reading)
  IN  IF \/ blocked
         \/ order_kp(prev, react)
         \/ effective_possible_for(g, react) \cap (playable_set(g.state) \cup conns) = {}
      THEN Outcome("reading", g)
      ELSE IF ~called.ok \/ reading = {} THEN Outcome("reading", called.game)
      ELSE Found([stamped EXCEPT !.card[react].inferred = @ \ seen(g, target)], react, target, "play")

\* Rank, a finesse: the reacter's card is the one before the receiver's.  A seat that sees
\* it is another gives the clue up.
finesse(prev, g, conns, react_slot) ==
  LET wc == Head(g.waiting)
      slot == calc_slot(wc.focus, react_slot, HandSize)
      target == receiver_hand(g)[slot]
      id == the(seen(g, target))
      react == g.state.hands[wc.reacter][react_slot]
      effective == effective_possible_for(g, react)
      called == target_play([g EXCEPT !.card[react].old = g.card[react].inferred], react)
  IN  IF \/ playable_away(g.state, id) # 1
         \/ order_kp(prev, react)
         \/ effective \cap (playable_set(g.state) \cup conns) = {}
         \/ ~prev_id(id) \subseteq effective
      THEN Outcome("reading", g)
      ELSE IF ~seen(g, react) \subseteq prev_id(id) THEN Outcome("MISTAKE", g)
      ELSE IF ~called.ok THEN Outcome("MISTAKE", called.game)
      ELSE Found([called.game EXCEPT !.card[react].inferred = prev_id(id)], react, target, "play")

interpret_reactive_rank(prev, g) ==
  LET after == reactive_context(prev, g)
      conns == conn_ids(g, Head(g.waiting).receiver)
      play(w, i) == IF w.result = "reading" THEN rank_play(prev, w.game, after, conns, i) ELSE w
      finesses(w, i) == IF w.result = "reading" THEN finesse(prev, w.game, conns, i) ELSE w
      played == FoldLeft(play, Outcome("reading", g), play_targets(g, after))
  IN  FoldLeft(finesses, played, <<1>> \o [k \in 1 .. HandSize - 1 |-> HandSize + 1 - k])

-----------------------------------------------------------------------------
(* The clue: interpret_clue, and the giver's choice. *)

\* The first seat the clue leaves without a play it had; a receiver that had none is passed over.
reacters(prev, g, target) ==
  LET kept(p) == held(g, p) \cap ToSet(obvious_playables(prev, p)) \cap ToSet(obvious_playables(g, p))
      passed(p) == obvious_playables(prev, p) = <<>> /\ p = target /\ p # Bob
  IN  SelectSeq(<<Bob, Cathy>>, LAMBDA p : kept(p) = {} /\ ~passed(p))

\* Cards of the receiver the clue corrects.
check_fix(prev, g, clue) ==
  LET known_dupe(o, o2) == /\ id_of(g.card[o]) # {} /\ id_of(prev.card[o]) = {}
                           /\ {o, o2} \subseteq prev.state.clued /\ o # o2
                           /\ seen(g, o) \cap seen(g, o2) # {}
      blind_play(o) == /\ prev.card[o].status = "CTP" /\ o \notin prev.state.clued
                       /\ g.card[o].lock # {} /\ g.card[o].lock \subseteq trash_set(g.state)
      revealed(o) == o \in prev.state.clued /\ ~prev.card[o].reset /\ order_kt(g, o)
  IN  {o \in clue_touched(g.state, clue) :
         /\ ~order_kt(prev, o)
         /\ \/ blind_play(o) \/ revealed(o)
            \/ \E o2 \in clue_touched(g.state, clue) : known_dupe(o, o2)}

\* The clue is reactive: a seat other than the receiver has nothing it was about to play.
\* A clue to Bob that corrects a card it held for playable is a fix.
reacts(prev, g, clue) ==
  LET first == reacters(prev, g, clue.target)
  IN  /\ first # <<>> /\ Head(first) # clue.target
      /\ clue.target = Bob => check_fix(prev, g, clue) \cap ToSet(obvious_playables(prev, Bob)) = {}

\* The receiver reads nothing yet.
interpret_reactive(prev, g, clue, reacter) ==
  LET wc == [reacter |-> reacter, receiver |-> clue.target, hand |-> g.state.hands[clue.target],
             focus |-> reactive_focus(g.state, clue), even |-> clue.kind = "rank"]
      asked == [g EXCEPT !.waiting = <<wc>>]
  IN  IF clue.target = g.me THEN Found(asked, 0, 0, "unread")
      ELSE IF wc.even THEN interpret_reactive_rank(prev, asked)
      ELSE interpret_reactive_colour(prev, asked)

\* A walk that found no target is a mistake, and so is a clue that leaves, after elim, fewer
\* calls to play than it made.
settled(prev, read, known) ==
  LET plays(g) == {o \in all_held(g) : g.card[o].status = "CTP"}
      fewer == Cardinality(plays(known)) < Cardinality(plays(read.game) \ plays(prev))
  IN  [read EXCEPT !.game = known,
                   !.result = IF @ = "reading" \/ fewer THEN "MISTAKE" ELSE @]

interpret_clue(g, clue) ==
  LET read_in(clued) == interpret_reactive(g, clued, clue, Head(reacters(g, clued, clue.target)))
      after_elim(read) == settled(g, read, elim(read.game))
  IN  after_elim(read_in(check_missed(on_clue(g, clue), giver, 0)))

\* What find_all_clues keeps of the clues the giver simulates.
useful(g, clue, read) ==
  LET held_now == all_held(g)
      stamped(status) == {o \in held_now : read.game.card[o].status = status /\ g.card[o].status # status}
  IN  /\ read.result = "REACTIVE"
      /\ \A o \in stamped("CTD") : \A id \in seen(g, o) : ~critical(g.state, id)
      /\ stamped("CTP") \subseteq own_hypo(read.game).plays
      /\ ~\A o \in clue_touched(g.state, clue) :
            o \in g.state.clued /\ \A id \in seen(g, o) : ~is_useful(g.state, id)

-----------------------------------------------------------------------------
(* The reaction. *)

\* What this seat could do about its urgent cards, leftmost first; a call to play a card it
\* can see is trash is passed over.
Answer(g) ==
  LET calls == SelectSeq(g.state.hands[g.me], LAMBDA o :
        /\ g.card[o].urgent
        /\ ~(g.card[o].status = "CTP" /\ effective_possible_for(g, o) \subseteq trash_set(g.state)))
      o == Head(calls)
  IN  IF calls = <<>> THEN [button |-> "none", order |-> 0]
      ELSE IF g.card[o].status = "CTP" THEN [button |-> "play", order |-> o]
      ELSE IF g.card[o].status = "CTD" /\ ~effective_possible_for(g, o) \subseteq critical_set(g.state)
      THEN [button |-> "discard", order |-> o]
      ELSE [button |-> "none", order |-> 0]

target_i_discard(prev, g, o) ==
  LET c == g.card[o]
      reading == c.inferred \ critical_set(prev.state)
  IN  [g EXCEPT !.card[o] = [c EXCEPT !.old = c.inferred, !.inferred = reading, !.status = "CTD",
                                      !.trash = reading = {}, !.signal = 2]]

target_i_play(g, o) ==
  LET c == g.card[o]
      queued == UNION {g.card[o2].inferred : o2 \in ToSet(obvious_playables(g, g.state.holders[o]))}
      reading == c.inferred \cap (playable_set(g.state) \cup UNION {next_id(i) : i \in queued})
      called == [c EXCEPT !.status = "CTP", !.signal = 2]
  IN  [g EXCEPT !.card[o] =
         IF reading = {} THEN called
         ELSE [called EXCEPT !.old = c.inferred, !.inferred = reading, !.lock = reading]]

\* Had an earlier slot been meant, the reacter would have acted on another card: what the
\* slots passed over cannot be.
passed_over(g, wc, slots) == {i \in slots : g.card[wc.hand[i]].status \notin {"CTP", "CTD"}}
acted_for(prev, wc, slot) == prev.state.hands[wc.reacter][calc_slot(wc.focus, slot, HandSize)]
reread(g, wc, read) ==
  [g EXCEPT !.card = [o \in {wc.hand[i] : i \in DOMAIN read} |->
                        read[CHOOSE i \in DOMAIN read : wc.hand[i] = o]] @@ @]
\* mark_trash_if_empty
left_with(c, reading) == [c EXCEPT !.inferred = reading, !.trash = @ \/ reading = {}]

elim_play_play(prev, g, wc, upto) ==
  LET ps == playable_set(prev.state)
      both(i) == g.card[acted_for(prev, wc, i)].possible \cap ps
      slots == {i \in passed_over(g, wc, 1 .. upto) : both(i) # {}}
  IN  reread(g, wc, [i \in slots |->
        LET c == g.card[wc.hand[i]]
        IN  left_with(c, c.inferred \ (IF one(both(i)) THEN ps \ both(i) ELSE ps))])

elim_dc_play(prev, g, wc, upto) ==
  LET slots == {i \in passed_over(g, wc, 1 .. upto) :
                  ~g.card[acted_for(prev, wc, i)].possible \subseteq critical_set(prev.state)}
  IN  reread(g, wc, [i \in slots |->
        LET c == g.card[wc.hand[i]] IN left_with(c, c.inferred \ playable_set(prev.state))])

\* elim_play_dc and elim_dc_dc: a slot passed over is no trash, if the reacter could have
\* answered for it; could holds the slots where it could.
elim_trash(prev, g, wc, upto, could) ==
  LET played == elim_play_play(prev, g, wc, HandSize)
      slots == {i \in passed_over(g, wc, 1 .. upto) \cap could :
                  wc.hand[upto + 1] \in prev.state.clued => wc.hand[i] \in prev.state.clued}
  IN  reread(played, wc,
        [i \in slots |-> [played.card[wc.hand[i]] EXCEPT !.inferred = @ \ trash_set(prev.state)]])

elim_play_dc(prev, g, wc, upto) ==
  elim_trash(prev, g, wc, upto,
    {i \in Slots : LET c == g.card[acted_for(prev, wc, i)]
                   IN  c.status # "CTP" /\ \E id \in c.possible : playable(prev.state, id)})
elim_dc_dc(prev, g, wc, upto) ==
  elim_trash(prev, g, wc, upto,
    {i \in Slots : ~g.card[acted_for(prev, wc, i)].possible \subseteq critical_set(prev.state)})

\* Mutant: the receiver looks at the slot the reacter acted on.
calc_target_slot_same(prev, wc, o) ==
  CHOOSE i \in Slots : prev.state.hands[wc.reacter][i] = o

\* The card the receiver finds from the one the reacter acted on.
calc_target_slot(prev, wc, o) ==
  calc_slot(wc.focus, CHOOSE i \in Slots : prev.state.hands[wc.reacter][i] = o, HandSize)

\* react_play and react_discard: the receiver's card that was meant is called.
reaction(prev, g, o, button) ==
  LET wc == Head(g.waiting)
      slot == calc_target_slot(prev, wc, o)
      target == wc.hand[slot]
      called == IF wc.even <=> button = "play" THEN target_i_play(g, target)
                ELSE target_i_discard(prev, g, target)
  IN  IF target \notin held(g, wc.receiver) THEN g
      ELSE IF wc.even
      THEN IF button = "play" THEN elim_play_play(prev, called, wc, slot - 1)
           ELSE elim_dc_dc(prev, called, wc, slot - 1)
      ELSE IF button = "play" THEN elim_play_dc(prev, called, wc, slot - 1)
           ELSE elim_dc_play(prev, called, wc, slot - 1)

\* on_play and on_discard: the card is named and leaves the hand.
leave_hand(g, p, o, button) ==
  LET id == g.state.deck[o]
      gone == button = "discard" \/ ~playable(g.state, id)
      c == g.card[o]
  IN  [g EXCEPT !.state.hands[p] = SelectSeq(@, LAMBDA o2 : o2 # o),
                !.state.named = @ \cup {o},
                !.state.gone[id] = IF gone THEN @ + 1 ELSE @,
                !.state.stacks[id[1]] = IF gone THEN @ ELSE id[2],
                !.card[o] = [c EXCEPT !.old = c.inferred, !.inferred = {id}, !.possible = {id}]]

\* interpret_play and interpret_discard.  A strike takes back every reading but those of
\* cards called to play, and the reaction with them.
strike_reset(g) ==
  [g EXCEPT !.waiting = <<>>,
            !.card = [o \in {o \in all_held(g) : g.card[o].status # "CTP"} |->
              cleared([g.card[o] EXCEPT !.inferred = g.card[o].possible, !.old = {}, !.lock = {}])] @@ @]

interpret_action(g, p, o, button) ==
  LET left == check_missed(leave_hand(g, p, o, button), p, o)
      failed == button = "play" /\ ~playable(g.state, g.state.deck[o])
  IN  elim(IF failed THEN strike_reset(left)
           ELSE IF left.waiting = <<>> THEN left
           ELSE IF Head(left.waiting).reacter # p THEN left
           ELSE reaction(g, left, o, button))

on_draw(g, p, o, id) ==
  elim([g EXCEPT !.state.hands[p] = <<o>> \o @,
                 !.state.deck = @ @@ (o :> id),
                 !.state.holders = @ @@ (o :> p),
                 !.card = @ @@ (o :> Fresh)])

\* The seat's first call in the queue is read again on the stacks of now; a reaction whose
\* seat has had its turn is over.
update_turn(g, p) ==
  LET queue == {o \in held(g, p) : g.card[o].status = "CTP" /\ id_infer(g.card[o]) = {}}
      first(o) == \A o2 \in queue : \/ g.card[o].signal < g.card[o2].signal
                                    \/ g.card[o].signal = g.card[o2].signal /\ o >= o2
      narrowed(o) == g.card[o].inferred \cap playable_set(g.state)
      card == [o \in {o \in queue : first(o) /\ narrowed(o) # {}} |->
                 [g.card[o] EXCEPT !.inferred = narrowed(o)]] @@ g.card
  IN  elim([g EXCEPT !.card = card,
                     !.waiting = SelectSeq(@, LAMBDA wc : next_player_index(wc.reacter) # p)])

-----------------------------------------------------------------------------

\* A Game of this seat at a position: the clue given before, and the call that stands.
start(pos, seat) ==
  LET orders == DOMAIN pos.deck
      state == [stacks |-> pos.stacks, gone |-> pos.gone, hands |-> pos.hands, deck |-> pos.deck,
                holders |-> [o \in orders |-> CHOOSE p \in Players : o \in ToSet(pos.hands[p])],
                clued |-> {}, named |-> {}]
      dealt == elim([me |-> seat, state |-> state, card |-> [o \in orders |-> Fresh], waiting |-> <<>>])
      clued == FoldLeft(on_clue, dealt, pos.clues)
      call(g, o) ==
        LET c == g.card[o]
            reading == c.inferred \cap playable_set(g.state)
        IN  [g EXCEPT !.card[o] =
               IF o \in pos.calls.play
               THEN [c EXCEPT !.inferred = reading, !.lock = reading, !.status = "CTP", !.signal = 0]
               ELSE [c EXCEPT !.inferred = @ \ critical_set(g.state), !.status = "CTD", !.signal = 0]]
  IN  elim(FoldLeft(call, clued, SetToSeq(pos.calls.play \cup pos.calls.discard)))

Init ==
  /\ phase = "clue"
  /\ current = giver
  /\ \E pos \in Positions : \E g \in {[p \in Players |-> start(pos, p)]} : games = g
  /\ meant = <<>>

\* The giver gives a reactive clue that its own reading finds useful; all three read it.
GiveClue(target, clue) ==
  LET g == games[giver]
  IN  /\ phase = "clue"
      /\ clue_touched(g.state, clue) # {}
      /\ reacts(g, check_missed(on_clue(g, clue), giver, 0), clue)
      /\ \E read \in {[p \in Players |-> interpret_clue(games[p], clue)]} :
           /\ useful(g, clue, read[giver])
           /\ games' = [p \in Players |-> update_turn(read[p].game, Bob)]
           /\ meant' = <<[target |-> read[giver].target, call |-> read[giver].call,
                          react |-> read[giver].react, reacter |-> Head(read[giver].game.waiting).reacter]>>
      /\ phase' = "asked"
      /\ current' = Bob

\* The seat whose turn it is presses a card and draws the next one.
Press(o, button, drawn) ==
  LET t == games[giver].state
      next == next_player_index(current)
      out == Cardinality({o2 \in all_held(games[giver]) : t.deck[o2] = drawn})
      new == Cardinality(DOMAIN games[giver].card) + 1
      lands == button = "discard" \/ playable(t, t.deck[o])
  IN  /\ out + base_count(t, drawn) < CardCount[drawn]
      /\ games' = [p \in Players |->
                     update_turn(on_draw(interpret_action(games[p], current, o, button), current, new, drawn), next)]
      /\ current' = next
      /\ phase' = IF ~lands THEN "struck" ELSE IF meant[1].reacter = current THEN "done" ELSE phase
      /\ UNCHANGED meant

\* Bob, clued and loaded, plays a card it holds for playable before Cathy reacts.
BobPlays(o, drawn) ==
  /\ phase = "asked"
  /\ meant[1].reacter # current
  /\ o \in ToSet(obvious_playables(games[current], current))
  /\ Press(o, "play", drawn)

\* The reacter follows the call it reads in its own Game.
React(drawn) ==
  LET answer == Answer(games[current])
  IN  /\ phase = "asked"
      /\ meant[1].reacter = current
      /\ answer.button # "none"
      /\ Press(answer.order, answer.button, drawn)

Next ==
  \/ \E target \in {Bob, Cathy} : \E clue \in Clues(target) : GiveClue(target, clue)
  \/ \E drawn \in Drawn :
       \/ \E o \in DOMAIN games[giver].card : BobPlays(o, drawn)
       \/ React(drawn)

Spec == Init /\ [][Next]_vars

-----------------------------------------------------------------------------
(* Properties. *)

\* None of the reacter's cards follows one that Bob is about to play: a giver that sees one
\* follow checks what it follows (target_play), which the reacter cannot.
Unlinked(reacter) ==
  LET g == games[giver]
  IN  \A o \in held(g, reacter) : seen(g, o) \cap conn_ids(g, reacter) = {}

\* elim has left the call on the reacter's card in the giver's reading.
CallStands == games[giver].card[meant[1].react].status \in {"CTP", "CTD"}

\* The reacter, who does not see its own hand, and the giver, who does not see its own,
\* walk through the same targets to the same card and the same button: the reacter's answer
\* to the clue is the one the giver counted on.
OneReading ==
  phase = "asked" /\ current = Bob /\ Unlinked(meant[1].reacter) /\ CallStands =>
    Answer(games[meant[1].reacter]) =
      [order |-> meant[1].react,
       button |-> IF games[giver].card[meant[1].react].status = "CTP" THEN "play" ELSE "discard"]

\* What the receiver may count on once the call is obeyed: a card called to play follows,
\* at most, cards it holds for playable itself, and a card called to discard can be spared.
Sound(call, o) ==
  LET t == games[giver].state
      id == t.deck[o]
      receiver == t.holders[o]
  IN  IF call = "discard" THEN ~critical(t, id)
      ELSE \A r \in t.stacks[id[1]] + 1 .. id[2] - 1 :
             \E o2 \in held(games[receiver], receiver) :
                t.deck[o2] = <<id[1], r>> /\ order_kp(games[receiver], o2)

\* The receiver finds, from the card the reacter acted on and how, the card the giver
\* meant: once the reacter has obeyed, every seat, the receiver included, holds that card
\* called as the giver meant it, and the call can be obeyed.
MeantIsCalled ==
  LET held_now == all_held(games[giver])
  IN  phase = "done" /\ meant[1].react \notin held_now /\ meant[1].target \in held_now =>
        /\ \A p \in Players :
             games[p].card[meant[1].target].status = IF meant[1].call = "play" THEN "CTP" ELSE "CTD"
        /\ Sound(meant[1].call, meant[1].target)
=============================================================================
