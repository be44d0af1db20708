------------------------------- MODULE Empathy -------------------------------
(***************************************************************************)
(* Empathy: the sets of identities a card can still have, as everyone      *)
(* together sees it (`common', view -1) and as the bot models each player  *)
(* (`players', views 0 ..), and their elimination by counting copies:      *)
(* Game::elim and card_elim.  One step is one pass over the hands          *)
(* (update_map).  Conventions (inferred, info_lock, links, statuses),      *)
(* which only ever narrow `inferred', and Throw It in a Hole are left out; *)
(* a player's turn is any move of any player.                              *)
(***************************************************************************)
EXTENDS Integers, FiniteSets, Functions

CONSTANTS NumPlayers, HandSize,
          Us,                    \* our_player_index
          Ids,                   \* identities, as ordinals
          CardCount,             \* card_count: the copies of each identity
          Clues,                 \* for each clue, the identities it touches
          MaxMoves               \* bound: clues, plays and discards

Players == 0 .. NumPlayers - 1
Common  == -1
Views   == Players \cup {Common}
Nobody  == -1
Unknown == -1

\* The physical cards of the deck with an identity in I.
Copies(I) == UNION {{id} \X (1 .. CardCount[id]) : id \in I}
multiplicity(I) == Cardinality(Copies(I))
Orders == 0 .. multiplicity(Ids) - 1

ASSUME EmpathyAssumption ==
  /\ NumPlayers \in Nat \ {0} /\ HandSize \in Nat /\ Us \in Players
  /\ Ids \subseteq Nat /\ IsFiniteSet(Ids) /\ CardCount \in [Ids -> Nat \ {0}]
  /\ Clues \subseteq SUBSET Ids /\ MaxMoves \in Nat

VARIABLES
  \* table
  card,                 \* what each card of the deck is
  drawn,                \* cards drawn so far: their orders are 0 .. drawn - 1
  holder, hands,        \* State::holders, State::hands
  to_draw,              \* the player who has to draw
  moves,
  \* State, Player
  deck,                 \* State::deck: identities we know
  possible, certain, all_possible,  \* of each view: Thought::possible, certain_map, all_possible
  dirty,                \* common.dirty
  \* the elimination at work
  phase, view,
  todo, rec,            \* identities of the pass; those of the next pass
  entries, ids,         \* entries_vec of perform_cross_elim, and what they may be
  candidates, tried,    \* of cross_elim; the sets of candidates it is done with
  changed, removals     \* of CardElimResult

table  == <<card, drawn, holder, hands, to_draw, moves, deck>>
known  == <<possible, certain, all_possible, dirty>>
search == <<entries, ids, candidates, tried>>
vars   == <<table, known, phase, view, todo, rec, search, changed, removals>>

Entry == [order : Orders, unknown_to : Players \cup {Nobody}]
InHand == UNION {hands[p] : p \in Players}
Single(I) == Cardinality(I) = 1
First(I) == CHOOSE id \in I : \A i \in I : id <= i

Init ==
  /\ card \in {[o \in Orders |-> f[o][1]] : f \in Bijection(Orders, Copies(Ids))}
  /\ drawn = 0 /\ holder = [o \in Orders |-> Nobody] /\ hands = [p \in Players |-> {}]
  /\ to_draw = Nobody /\ moves = 0
  /\ deck = [o \in Orders |-> Unknown]
  /\ possible = [v \in Views |-> [o \in Orders |-> Ids]]
  /\ certain = [v \in Views |-> [id \in Ids |-> {}]]
  /\ all_possible = [v \in Views |-> Ids]
  /\ dirty = {}
  /\ phase = "idle" /\ view = Common /\ todo = {} /\ rec = {}
  /\ entries = {} /\ ids = {} /\ candidates = {} /\ tried = {}
  /\ changed = FALSE /\ removals = {}

-----------------------------------------------------------------------------
(* The moves; each ends in Game::elim. *)

StartElim ==
  /\ phase = "idle" /\ phase' = "certify"
  /\ UNCHANGED <<view, todo, rec, search, changed, removals>>

DrawsNext(p) == IF drawn < NumPlayers * HandSize
                THEN p * HandSize <= drawn /\ drawn < (p + 1) * HandSize
                ELSE to_draw = p

Draw(p) ==
  /\ drawn \in Orders /\ DrawsNext(p)
  /\ drawn' = drawn + 1 /\ to_draw' = Nobody
  /\ holder' = [holder EXCEPT ![drawn] = p]
  /\ hands' = [hands EXCEPT ![p] = @ \cup {drawn}]
  /\ deck' = [deck EXCEPT ![drawn] = IF p = Us THEN Unknown ELSE card[drawn]]
  /\ possible' = [v \in Views |-> [possible[v] EXCEPT ![drawn] = all_possible[v]]]
  /\ dirty' = dirty \cup {drawn}
  /\ StartElim
  /\ UNCHANGED <<card, moves, certain, all_possible>>

Move == /\ drawn >= NumPlayers * HandSize /\ to_draw = Nobody
        /\ moves < MaxMoves /\ moves' = moves + 1

Narrowed(p, clue) ==
  [o \in Orders |-> IF o \notin hands[p] THEN possible[Common][o]
                    ELSE IF card[o] \in clue THEN possible[Common][o] \cap clue
                    ELSE possible[Common][o] \ clue]

\* Our own card is written into the deck once everyone knows it.
OnClue(p, clue) ==
  /\ Move
  /\ \E o \in hands[p] : card[o] \in clue
  /\ possible' = [possible EXCEPT ![Common] = Narrowed(p, clue)]
  /\ deck' = [o \in Orders |->
                IF o \in hands[p] /\ card[o] \in clue /\ deck[o] = Unknown
                     /\ Single(Narrowed(p, clue)[o])
                THEN First(Narrowed(p, clue)[o])
                ELSE deck[o]]
  /\ dirty' = dirty \cup hands[p]
  /\ StartElim
  /\ UNCHANGED <<card, drawn, holder, hands, to_draw, certain, all_possible>>

\* on_play and on_discard show the card to everyone.
Remove(p, o) ==
  /\ Move
  /\ o \in hands[p]
  /\ hands' = [hands EXCEPT ![p] = @ \ {o}]
  /\ deck' = [deck EXCEPT ![o] = card[o]]
  /\ possible' = [possible EXCEPT ![Common][o] = {card[o]}]
  /\ dirty' = dirty \cup {o}
  /\ to_draw' = IF drawn \in Orders THEN p ELSE Nobody
  /\ StartElim
  /\ UNCHANGED <<card, drawn, holder, certain, all_possible>>

-----------------------------------------------------------------------------
(* card_elim of the view at work. *)

\* The identities of a partner's card were dealt to us with it; we credit them
\* to everyone but the holder.
Sees(v, o) == v # Common /\ holder[o] \notin {v, Us}

\* Mutant: a player does not take over what the team has learnt.
Unsynced == possible[view]

Synced == [o \in Orders |-> IF view # Common /\ o \in dirty THEN possible[Common][o]
                            ELSE possible[view][o]]

\* Thought::id, without inference
Named(id) == {o \in dirty : \/ Synced[o] = {id}
                            \/ ~Single(Synced[o]) /\ Sees(view, o) /\ card[o] = id}

\* Mutant of Pin: a second entry for a card that already has one.
Prepend(E, S) == E \cup {[order |-> o, unknown_to |-> Nobody] : o \in S}

\* replace_or_prepend_entry: the cards of S are known to everyone.
Pin(E, S) == {e \in E : e.order \notin S}
               \cup {[order |-> o, unknown_to |-> Nobody] : o \in S}

\* Step 1.
Certified(id) ==
  LET pinned == {o \in Named(id) : Single(Synced[o])}
      new == {o \in Named(id) : \A e \in certain[view][id] : e.order # o}
  IN  Pin(certain[view][id], pinned)
        \cup {[order |-> o, unknown_to |-> holder[o]] : o \in new \ pinned}

Certify ==
  /\ phase = "certify"
  /\ possible' = [possible EXCEPT ![view] = Synced]
  /\ certain' = [certain EXCEPT ![view] = [id \in Ids |-> Certified(id)]]
  /\ phase' = "basic" /\ todo' = Ids /\ rec' = {} /\ entries' = {}
  /\ UNCHANGED <<table, all_possible, dirty, view, ids, candidates, tried, changed, removals>>

\* update_map: the cards that lose id.  Only the cards of the players in
\* exclude are passed over, and never those of the view's own player.
Losers(id, exclude, exclude_own) ==
  {o \in InHand : /\ holder[o] = view \/ holder[o] \notin exclude
                  /\ id \in possible[view][o] /\ o \notin exclude_own
                  /\ \A e \in certain[view][id] : e.order # o /\ e.unknown_to # holder[o]}

update_map(id, lost) ==
  LET left(o) == possible[view][o] \ {id}
      pinned(i) == {o \in lost : left(o) = {i}}
      newly == {o \in lost : Single(left(o))}
  IN  /\ possible' = [possible EXCEPT ![view] =
                        [o \in Orders |-> IF o \in lost THEN left(o) ELSE possible[view][o]]]
      /\ certain' = [certain EXCEPT ![view] = [i \in Ids |-> Pin(certain[view][i], pinned(i))]]
      /\ dirty' = IF view = Common THEN dirty \cup lost ELSE dirty
      /\ changed' = (changed \/ lost # {})
      /\ removals' = removals \cup newly
      /\ rec' = rec \cup UNION {left(o) : o \in newly}
      /\ todo' = todo \ {id}
      /\ UNCHANGED <<table, phase, view, search>>

Counted(id) == Cardinality(certain[view][id]) = CardCount[id]

\* Mutants: every identity is taken for eliminated; the newly pinned identities
\* are not counted again.
BasicElimUncounted ==
  LET id == First(todo)
  IN  /\ phase = "basic" /\ todo # {}
      /\ update_map(id, IF Counted(id) THEN Losers(id, {}, {}) ELSE {})
      /\ all_possible' = [all_possible EXCEPT ![view] = @ \ {id}]

BasicRecursionDropped ==
  /\ phase = "basic" /\ todo = {} /\ rec # {}
  /\ todo' = {} /\ rec' = {}
  /\ UNCHANGED <<table, known, phase, view, search, changed, removals>>

\* Steps 2 and, at the end of perform_cross_elim, 4.
BasicElim ==
  LET id == First(todo)
  IN  /\ phase = "basic" /\ todo # {}
      /\ update_map(id, IF Counted(id) THEN Losers(id, {}, {}) ELSE {})
      /\ all_possible' = IF Counted(id) THEN [all_possible EXCEPT ![view] = @ \ {id}]
                         ELSE all_possible

BasicRecursion ==
  /\ phase = "basic" /\ todo = {} /\ rec # {}
  /\ todo' = rec /\ rec' = {}
  /\ UNCHANGED <<table, known, phase, view, search, changed, removals>>

\* Step 3.
CertainOrders(I) == {e.order : e \in UNION {certain[view][id] : id \in I}}
LimitedTo(n) == IF n < 9 THEN n ELSE 9

CollectCandidates ==
  LET poss == possible[view]
      cross == {o \in InHand : Cardinality(poss[o]) > 1 /\ multiplicity(poss[o]) <= 9}
  IN  /\ phase = "basic" /\ todo = {} /\ rec = {} /\ entries = {}
      /\ candidates' = {o \in cross : multiplicity(poss[o]) - Cardinality(CertainOrders(poss[o]))
                                         <= LimitedTo(Cardinality(cross))}
      /\ tried' = {} /\ phase' = "cross"
      /\ UNCHANGED <<table, known, view, todo, rec, entries, ids, changed, removals>>

\* Step 4: a set of cards that must hold every copy left of what they may be.
MayBe(S) == UNION {possible[view][o] : o \in S}
Locked(S) == /\ Cardinality(S) > 1
             /\ multiplicity(MayBe(S)) - Cardinality(CertainOrders(MayBe(S)) \ S) = Cardinality(S)
Untried == {S \in SUBSET candidates : Locked(S) /\ S \notin tried}

\* The search takes the last player's oldest card first, and goes on with a
\* card before it goes on without it.
Before(o, q) == holder[o] > holder[q] \/ (holder[o] = holder[q] /\ o < q)
Precedes(S, T) ==
  LET diff == (S \ T) \cup (T \ S)
      x == CHOOSE o \in diff : \A q \in diff \ {o} : Before(o, q)
  IN  IF x \in S THEN \E q \in T : Before(x, q) ELSE \A q \in S : ~Before(x, q)

CrossElim(S) ==
  /\ phase = "cross" /\ S \in Untried
  /\ \A T \in Untried \ {S} : Precedes(S, T)
  /\ entries' = S /\ ids' = MayBe(S)
  /\ todo' = {deck[o] : o \in S} \ {Unknown} /\ phase' = "group"
  /\ changed' = FALSE /\ removals' = {}
  /\ UNCHANGED <<table, known, view, rec, candidates, tried>>

\* perform_cross_elim, its first loop: the entries we see to be id.
Group(id) == {o \in entries : deck[o] = id}
GroupClosed(id) ==
  Cardinality(Group(id)) =
    CardCount[id] - Cardinality({e \in certain[view][id] : e.order \notin Group(id)})

GroupElim ==
  LET id == First(todo)
  IN  /\ phase = "group" /\ todo # {}
      /\ update_map(id, IF GroupClosed(id)
                        THEN Losers(id, {holder[o] : o \in Group(id)}, {}) ELSE {})
      /\ UNCHANGED all_possible

\* Mutant: the holders of the entries are not passed over.
LockElimAll ==
  LET id == First(todo)
  IN  /\ phase = "lock" /\ todo # {}
      /\ update_map(id, Losers(id, {}, {}))
      /\ UNCHANGED all_possible

\* ... its second loop: whoever holds no entry has none of ids.
LockElim ==
  LET id == First(todo)
      own == IF view = Common THEN {} ELSE entries \cap hands[view]
  IN  /\ phase = "lock" /\ todo # {}
      /\ update_map(id, Losers(id, {holder[o] : o \in entries}, own))
      /\ UNCHANGED all_possible

\* ... and its last step counts ids again; the identities pinned by the loops
\* are not recounted.
NextLoop ==
  /\ phase \in {"group", "lock"} /\ todo = {}
  /\ todo' = ids /\ rec' = {}
  /\ phase' = IF phase = "group" THEN "lock" ELSE "basic"
  /\ UNCHANGED <<table, known, view, search, changed, removals>>

\* Mutant: it starts over although nothing changed.
CrossElimAgain ==
  /\ phase = "basic" /\ todo = {} /\ rec = {} /\ entries # {}
  /\ candidates' = candidates \ removals
  /\ tried' = {}
  /\ entries' = {} /\ ids' = {} /\ changed' = FALSE /\ removals' = {}
  /\ phase' = "cross"
  /\ UNCHANGED <<table, known, view, todo, rec>>

\* cross_elim starts over after a change, without the cards now known.
CrossElimDone ==
  /\ phase = "basic" /\ todo = {} /\ rec = {} /\ entries # {}
  /\ candidates' = candidates \ removals
  /\ tried' = IF changed THEN {} ELSE tried \cup {entries}
  /\ entries' = {} /\ ids' = {} /\ changed' = FALSE /\ removals' = {}
  /\ phase' = "cross"
  /\ UNCHANGED <<table, known, view, todo, rec>>

\* Mutant: one view too many.
NextViewTooFar ==
  /\ phase = "cross" /\ Untried = {}
  /\ IF view + 1 <= NumPlayers
     THEN view' = view + 1 /\ phase' = "certify" /\ UNCHANGED dirty
     ELSE view' = Common /\ phase' = "idle" /\ dirty' = {}
  /\ candidates' = {} /\ tried' = {} /\ changed' = FALSE /\ removals' = {}
  /\ UNCHANGED <<table, possible, certain, all_possible, todo, rec, entries, ids>>

\* The next player's view, or the end of Game::elim.
NextView ==
  /\ phase = "cross" /\ Untried = {}
  /\ IF view + 1 \in Players
     THEN view' = view + 1 /\ phase' = "certify" /\ UNCHANGED dirty
     ELSE view' = Common /\ phase' = "idle" /\ dirty' = {}
  /\ candidates' = {} /\ tried' = {} /\ changed' = FALSE /\ removals' = {}
  /\ UNCHANGED <<table, possible, certain, all_possible, todo, rec, entries, ids>>

ElimStep == \/ Certify \/ BasicElim \/ BasicRecursion \/ CollectCandidates
            \/ (\E S \in SUBSET candidates : CrossElim(S))
            \/ GroupElim \/ LockElim \/ NextLoop \/ CrossElimDone \/ NextView

Next == \/ \E p \in Players : \/ Draw(p)
                              \/ \E clue \in Clues : OnClue(p, clue)
                              \/ \E o \in hands[p] : Remove(p, o)
        \/ ElimStep

Spec == Init /\ [][Next]_vars
\* elim runs to its end before the next message is handled.
FairSpec == Spec /\ WF_vars(ElimStep)
-----------------------------------------------------------------------------
Phases == {"idle", "certify", "basic", "cross", "group", "lock"}

\* Every variable stays in its type; a Player's sets are sets of identities.
TypeOK ==
  /\ card \in [Orders -> Ids] /\ drawn \in 0 .. Cardinality(Orders)
  /\ holder \in [Orders -> Players \cup {Nobody}] /\ hands \in [Players -> SUBSET Orders]
  /\ to_draw \in Players \cup {Nobody} /\ moves \in 0 .. MaxMoves
  /\ deck \in [Orders -> Ids \cup {Unknown}]
  /\ possible \in [Views -> [Orders -> SUBSET Ids]]
  /\ certain \in [Views -> [Ids -> SUBSET Entry]]
  /\ all_possible \in [Views -> SUBSET Ids] /\ dirty \subseteq Orders
  /\ phase \in Phases /\ view \in Views /\ todo \subseteq Ids /\ rec \subseteq Ids
  /\ entries \subseteq Orders /\ ids \subseteq Ids /\ candidates \subseteq Orders
  /\ tried \subseteq SUBSET Orders /\ changed \in BOOLEAN /\ removals \subseteq Orders

Drawn == {o \in Orders : o < drawn}

\* No elimination, in whatever order its passes strike identities, takes the
\* card's true identity from the team's view or from our own.
TruthStaysPossible ==
  \A v \in {Common, Us} : \A o \in Drawn : card[o] \in possible[v][o]

\* The same of the model of a partner: it names only identities the partner's
\* card can still be.
PartnerTruthStaysPossible ==
  \A v \in Players \ {Us} : \A o \in Drawn : card[o] \in possible[v][o]

\* What is counted as a known copy is one, and no card is counted twice: else
\* an identity would be struck while a copy of it is still out.
CertaintiesAreTrue ==
  \A v \in {Common, Us}, id \in Ids : \A e \in certain[v][id] :
    /\ e.order \in Drawn /\ card[e.order] = id
    /\ \A f \in certain[v][id] : f.order = e.order => f = e

\* An identity that is still in the deck is among those given to a new card.
NextCardPossible ==
  \A v \in {Common, Us} : \A o \in Orders \ Drawn : card[o] \in all_possible[v]

\* After an elimination a player's view is never wider than the team's.
PlayersKnowWhatAllKnow ==
  phase = "idle" =>
    \A p \in Players : \A o \in Drawn : possible[p][o] \subseteq possible[Common][o]

\* When basic_elim returns, what it was asked to count is counted out: an identity whose
\* copies are all accounted for is left to no card but those that account for it and
\* their holders' other cards, who do not see them.  It strikes, pins and counts again
\* until that is so; what perform_cross_elim pins outside of its ids waits for the next
\* elimination, whose certify counts everything.
CountedIsStruck ==
  phase = "basic" /\ todo = {} /\ rec = {} =>
    \A id \in IF entries = {} THEN Ids ELSE ids :
      Cardinality(certain[view][id]) = CardCount[id] =>
        \A o \in InHand : id \in possible[view][o] =>
          \E e \in certain[view][id] : e.order = o \/ e.unknown_to = holder[o]

\* The passes reach a fixed point: card_elim does not go on for ever.
ElimEnds == phase # "idle" ~> phase = "idle"
=============================================================================
