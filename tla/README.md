# hanabi-bot: a TLA+ development

TLA+ modules about the bot in `src/`: a C++ program that logs in to a hanab.live
server, keeps a WebSocket open, follows any number of tables, tracks for each what
every player can know, and decides its own moves with a *convention*. TLC checks the
modules on small instances; TLAPS proves the theorems for every value of the
constants. `PROJECT.json` maps each definition to the source lines it stands for and
each hazard to the properties that watch it.

Paths below are relative to the root of the source tree (`src/net/...` stands for
`src/src/net/...`, headers are under `include/hanabi/`).

## 1. Inventory

| Part | State it keeps | Operations | Talks to |
|---|---|---|---|
| Transport: `net/ws_transport` | run loop (attempt, `stop_`), the published session, two send lanes, the flags of the write path, the gauge `pending_` | connect and retry, read, write with pacing, `queue_send`, `stop` | bot client by callback on the network thread; the compute thread through `queue_send` |
| Bot client: `net/commands` | per table: `Game`, `action_time_`, `everyone_connected_`, logger; `games_in_progress_`; the compute queue; convention settings | one handler per server command; `maybe_take_turn`; chat commands | transport, engine, logger |
| Notes, codec, login: `net/notes`, `net/codec`, `net/auth` | last note per card | write a note, split a frame, log in | transport |
| Engine: `basics/state`, `basics/game` | stacks, discards, tokens, strikes, deck count, hands, turn; caches `playable_set`, `critical_set`, `trash_set`, `max_ranks` | `on_clue`, `on_play`, `on_discard`, `on_draw`, `handle_action`; `rewind`, `simulate_*` | conventions call it and are called by it |
| Empathy: `basics/player*`, `basics/player_elim` | per view (the team's `common`, one `Player` each): `possible`, `inferred`, `certain_map`, `all_possible`, `dirty` | `card_elim`, `good_touch_elim`, links, hypothetical stacks; `Game::elim` runs them in order | engine, conventions |
| Variants: `basics/variant`, `basics/card` | constant tables | which cards a clue touches, copies of a card | engine |
| Conventions: `conventions/reactor`, `reactor0`, `tiiah` | waiting connection, calls, statuses of cards, pending questions | `interpret_clue`, `interpret_reaction`, `take_action`, `update_turn` | engine, empathy |
| Decision: `basics/decide`, `basics/eval` | none | `take_action` for the team: search and weights | engine copies |
| Endgame solver: `endgame/*` | memo tables for one call | `solve`, `winnable` | engine copies |
| Game log and snapshots: `logging/*` | files per table | open, append, rename on the database id, close | bot client |
| Programs: `apps/*` | none | wiring, replay, benches | everything |

How they interact. One network thread runs the io_context: it reads a frame, calls the
handler of the bot client, and the handler may queue frames to send. A decision runs on
one compute thread, on a *copy* of the Game, and sends its action through
`queue_send`. Whatever the conventions do, they do on a Game, inside one handler or one
decision: between the threads go only frames, copies of Games, `stop_` and `pending_`.

What is hard, and what makes each part correct:

- **Transport** - two threads, handlers in any order, losses and reconnections. Messages
  keep their order, none is written twice, none is stranded in a lane, the gauge is
  exact, a lost session is replaced, `stop()` ends `run()`.
- **Bot client** - the order of server messages around a (re)connection, and the
  decision that is still being made meanwhile. A turn is decided once, on a Game that
  saw every turn once; our turn is not forgotten; a game that is over is released.
- **Engine** - incremental accounting in many variants. It equals the rules of the game;
  the caches equal what they cache; the cards add up to the deck.
- **Empathy** - deductions by counting, made from a view that itself sees only part of the
  table. No deduction rules out the truth; nothing is counted twice; what a
  counting pass is asked to count is counted out; the fixed point is reached.
- **Conventions** - a protocol between players with different knowledge. Giver, reacter
  and receiver must derive the same slots, and a call must mean the card it names.
- **Solver** - pure search under a deadline, on states it imagines and over every deal it
  holds possible. What it gives up is lost, what it promises is kept, the rate it reports can
  be had, its shortcuts do not change it, and a rule that answers in its place loses nothing.

## 2. Plan

| Order | Module | Composes | State |
|---|---|---|---|
| 1 | `Transport`, abstract `LossyLink` | `Transport` implements `LossyLink` | done |
| 2 | `BotClient` | abstracts the link by what `Transport` shows of it | done, without chat |
| 3 | `GameState`, abstract `HanabiRules` | `GameState` implements `HanabiRules` | done, without the hole |
| 4 | `Empathy` | the handlers of `GameState` again, seen from their other half | done, without readings |
| 5 | `Settings` | chat commands, `overrides_for`, what a new Game inherits; `games_in_progress_` | next |
| 6 | `Reaction`, `ReactionSlots` | clue, reaction and reading of three players, each with a Game of its own | done: reactive clues of the reactor, three seats |
| 7 | `Rewind` | history and replay on top of a Game | later |
| 8 | `GameLogger` | files, renaming, crash between two steps | later |
| 9 | `Endgame`, `ForcedEndgame` | the search asked while `GameState` plays an ending on; the forced rules on top | done |
| 10 | `Solver` | `solve` over all arrangements of the hidden cards, on top of `Endgame`; its answers are played by `GameState` | done: clues reduced to naming a card |

Proof modules: `TransportProofs`, `BotClientProofs`, `GameStateProofs`, `EmpathyProofs` and
`EndgameProofs`, each about the module it is named after; `PlanProofs` on top of `EndgameProofs`,
about the wins the search promises; `Sums` for the arithmetic they share. `ReactionSlots` proves
about itself. Left to prove: the parts of `Reaction` that need no recursion (that the players count
the same slots once their Games agree), and for them a module that reaches no recursive operator.

Claims in the code's own documents that the plan goes on to examine: `commands.h` says
that applicability of overrides is always tested through `overrides_for`, while `/set`
copies them directly (`commands.cpp:1194`); `/setall` is announced "from next game",
while a reconnection rebuilds a running Game with the new mode (`commands.cpp:384`).

## 3. Modules and code

### Transport

State: the fields of `BotTransport` and `Session`, plus `pc`, the place of the thread in
`run()`. A handler of the io_context runs to its end before the next one starts, so each is
one action: `ReadFrame`, `ReadFails`, `WriteDone`, `WriteFails`, `TimerFires`, `Signal`,
and the posted lambdas `Dispatch`, `Enqueue`, `Close` in the order they were posted.
`queue_send` from another thread is two actions, `CopySession` (under the mutex) and
`PostMessage` (after it), and `stop()` three (`StopFlag`, `StopCopy`, `StopPost`), because
anything may happen in between, up to the replacement of the session. Only the thread in
`run()` may touch the session itself, so one set of session variables suffices; `epoch`
numbers it, and a post to an older epoch lands on an io_context nobody runs. `last`,
`fails` and `epoch` are history. Choices: TLS and plain streams are one; a frame's handler
sends at most one message per frame (a handler that sends several is several frames, and
more interleavings); which lane a message takes is free. A handler posted to a session that
is dead keeps it, and itself, allocated for good (a cycle of `shared_ptr`): no behaviour
depends on it.

### BotClient

State: the maps of `BotClient` by table, the compute queue `jobs` (its head is at work),
the link (`inbox`, `outbox`) and the server's side of the table. A Game is abstracted to
the last turn it saw, whether it saw each once and in order (`sound`), and its flags
`catchup` and `in_progress`. Each handler is one action; `maybe_take_turn` is an operator
that every handler calls where the code does. The messages of one turn are one: between
them `action_time_` is false, so nothing is decided. `Applied` allows `handle_action` to
throw on a Game that missed a turn. The server is external and modelled by what the
handlers expect: it starts a game, answers `getGameInfo1`, `getGameInfo2`, `loaded` and
`tableReattend`, tells those who follow a table, executes an action on its turn and
refuses it otherwise. Tables have variants the bot knows: on any other `on_init` returns after its
first lines (`commands.cpp:360`), no Game is ever made of that table, and the later handlers
that need one pass it over. `ResumeAtReattend` says from when a returning session gets updates.

### GameState and HanabiRules

`GameState` has the accounting of `State` and of the handlers of `Game`; the server
(whose turn, what is legal, which card comes) drives it. Every suit kind the code tells
apart is a constant: `Reversed`, `Inverted`, Clue Starved, deck plays. `HanabiRules` is
the game itself: ranks are counted in play order and a card lands, is scrapped or strikes,
whatever button did it and whatever message said so. `FollowsRules` is the refinement; the
mapping counts half tokens and turns the stacks of reversed suits around. `PressDeck`
models deck plays that land. One that fails reaches `on_discard` with an order past the
end of the deck vector (hazard at `game.cpp:396`), which has no defined state to go on from.

### Empathy

The other half of the same handlers: what a card may be. A *view* is `common` (-1) or a
player (0 ..), and holds `possible`, `certain_map` and `all_possible`; `dirty` is
common's. Each move (`Draw`, `OnClue`, `Remove`) changes the team's view and starts an
elimination, which then runs one `update_map` per step over one view after the other, as
`Game::elim` does: `Certify` (sync from common, then step 1 of `card_elim`), `BasicElim`
and `BasicRecursion`, `CollectCandidates`, `CrossElim` with the two loops of
`perform_cross_elim` (`GroupElim`, `LockElim`), `CrossElimDone`, `NextView`. The recursive
search of `cross_elim` is modelled by its result: it tries sets of candidates that must hold
all copies left of what they may be (`Locked`), in the order `Precedes`, and starts over
after the first that changed something; its pruning never cuts such a set: what
the identities collected so far still need only grows with more cards, as long as no
identity has more certain copies than cards.
Abstractions: `inferred`, `info_lock`, links and hypothetical stacks are left out, so are
`good_touch_elim` and `stack_spent_elim`, which only narrow what is left out or belong to
Throw It in a Hole; the further eliminations conventions ask for are repetitions of this
one. A clue is the set of identities it touches. Any player may move at any time, a
superset of real games. Card orders are deck positions; hands are sets, as order in the
hand only decides the order of the search.

### Endgame and ForcedEndgame

`Endgame` EXTENDS `GameState`: the engine plays on from an ending (`Endings`, a constant), and the
search is asked on the way. A search state is the record `Now`, and `advance_state`,
`unwinnable_state`, `trivially_winnable` and `clueless_winnable` are operators on such
records; the mutators of `State` they call appear a second time, by value. `Wander` is any
legal move, good or bad, before which `given_up` may be set to the maximum that
`unwinnable_state` rules out; `Promise` takes a win of `clueless_winnable` and keeps the
imagined state in `plan`; from then on each `Follow` takes one of the moves that still win,
imagines it (`advance_state` on `plan`) and plays it (the engine's own handlers). The code
returns the first winning move it finds; the model allows each of them.
`ForcedEndgame` holds the rules that act in place of the search, in the order the code asks
them: 0, 0b, 0c, 4, 2, 3 and the stalls 5, 7, 1. Knowledge of one's own hand is a parameter `k`.
Abstractions: every hand is known (the search runs under an assumed arrangement of our own);
deadlines, which only make a branch count as lost, and memo tables are left out; Rule 6
and what else serves Throw It in a Hole.

### Solver

`Solver` EXTENDS `Endgame` by `solve()`. The seat to move asks (`Ask`), acts on the answer (`Act`:
the answer if it wins a deal in a hundred, else any legal move, which stands for the ladder
below) and draws (`TakeCard`). `reads[p][i]` is what `p` may hold at `i`. `solve` counts the cards
it cannot point at (`remaining_ids`), assumes each arrangement of them in its own hand
(`arrangements`, `WaysToDeal`), puts those together that differ in useless cards (`hypos`), asks
`possible_actions` of each, and compares the moves hypo by hypo (`best_over`, `catch_up`). Under a
hypo every card is named, and the search plays on: `winnable` with its shortcuts in the order
of the code, `optimize` over the draws of `gen_arrs` (`drawn`), `winnable_if` to prune.
A probability is a number of deals: with c cards in the deck, 1 is c!. So all weights are
integers, and the equality of two rates is exact, as it is with the code's fractions.
Abstractions: what a clue tells is one card's identity, and `find_all_clues` offers such a clue
for every useful card not yet named, and one that tells nothing; which clue tells what is the
convention's. Standing calls, links and `valid_arr`, the limit on clues in a row, the zero-clue
marker of `chop`, deadlines, the depth limit and the order of equal moves are left out, and so is
what the ladder makes of an answer afterwards (`prefer_certain_play` and the like). A
locked seat discards any card that is least often critical; the code weighs further. `optimize`
stops at the first action that is good enough (`good_enough`: a sure win or, with one critical
card left below the top, a rate of (c - 1)/c); the model orders actions by plays first only, where the
code's order also depends on the rates it has cached.

### Reaction and ReactionSlots

Three seats of the reactor convention, each with a Game of its own: `games[p]` is what seat `p` holds.
Its `state` carries the whole deal, but a Game looks at it through `seen` only: nothing of its own hand
unless a clue or a play named the card. Its `card` is what the team knows of each card (`Thought` and
`ConvData`: `possible`, `inferred`, `lock`, `old`, the status with its flags), its `waiting` the
reaction that is due. `Init` takes one of `Positions`: a deal, the stacks, calls that stand and older clues;
`start` builds each seat's Game of it. Then the actions follow one clue to its end.

- `GiveClue`: the giver clues either partner, Bob or Cathy. The clue must be reactive (`reacts`: the seat
  the dispatcher of `decide.cpp` finds, and no fix) and one that `find_all_clues` keeps
  (`useful`, asked of the giver's own reading). All three read it in that step, each in its own Game
  (`interpret_clue`): the receiver only notes the reaction that is due, the other two walk through
  the receiver's targets (`interpret_reactive_colour`, `interpret_reactive_rank`), call the reacter's card
  and run `elim`. `meant` remembers what the giver's reading names.
- `BobPlays`: when Cathy is the reacter, Bob first plays a card it holds for playable.
- `React`: the reacter follows its urgent call as its own Game reads it (`Answer`). Every seat then
  turns the slot acted on into the slot meant (`reaction`, `calc_target_slot`), calls that card
  and rules out what the slots passed over cannot be.

`BobPlays` and `React` both go through `Press`: the card leaves the hand, the next one is drawn, and `elim` and
`update_turn` run in every Game. `phase` and `current` say how far the clue has come and whose turn it is.
`ReactionSlots` is the arithmetic of the slots and nothing else, so that it can be proved about.
Abstractions: normal suits, fewer than eight tokens, nobody locked, a hand of three;
the rating of clues (`destroyed_plays` and what follows it) is left out, so the giver may give
more clues than the bot would; `allplays` is off; a reacter that gives an urgent clue instead of
reacting, rewinds, deferred and inverted reactions are left out.

## 4. Runs

| Run | Instance | Shows |
|---|---|---|
| `transport_safety` | 2 threads, 2 messages each, 2 sessions | the write path, the gauge, the lanes and the order survive every interleaving and any loss |
| `transport_live` | 1 message per thread, 1 retry, 2 sessions, a foreign `stop()` | lanes drain, sessions are replaced, a `stop()` that finds a session works, `run()` gives up late |
| `transport_lost_stop` | no messages, 1 session | a `stop()` in the gap before publication is lost (finding 1) |
| `bot_steady` | 2 tables, 2 turns, partners that leave, decisions that throw, replays | one decision per turn, and the table waits for it |
| `bot_drops` | 1 table, 4 turns, one loss of connection | decisions are sound, our turn is taken, ended games are released |
| `bot_duplicate` | 1 table, 4 turns, one loss | a reconnection during a decision decides the turn twice (finding 2) |
| `game` | a normal suit and one both reversed and inverted, 3 ranks, 2 players, half tokens, deck plays | the accounting follows the rules; caches and caps are exact; cards are conserved |
| `empathy_ours` | 4 identities, 5 cards, 2 players with 2 cards, 2 moves, every deal | our view and the team's keep the truth, count once, count out what each pass was asked for, and end |
| `endgame` | two suits near the top, 3 players with 2 cards, 1 or 2 cards in the deck, a token: 1 722 endings | lost positions are lost, imagined moves are real, promises are kept, forced moves lose no win |
| `solver` | two suits three points short (or two), 2 players with 2 cards, 1 to 3 cards in the deck, a token, one card of each seat named or none: 606 endings | the rate that is reported can be had with open hands; grouping and giving up early change no rate |
| `reaction` | two suits of three ranks, 3-card hands, three deals in every order of a hand, stacks, known calls and clues, draws `a1`, `a2`, `b2` | the three players read one clue as one, and what is called is what was meant |
| `empathy_partner` | the same as `empathy_ours` | our model of a partner loses the truth (finding 3) |

Why the bounds are enough. *Transport*: two messages per thread are the least that can be
reordered, two sessions the least that can be confused; a third thread only repeats the
second. One retry tells `attempt` reset from not reset. *BotClient*: four turns are two of
ours and two of the partner's, so that a late action can reach the server on a later turn of
ours; one loss at any point is what every handler's assumptions are about; two tables
show that no map is indexed by the wrong table. *GameState*: with three ranks a suit has a
first, a middle and a last card, so caps can come from inside; small hands and decks are
exhausted, so that the final round is played in many ways; tokens reach both ends.
*Empathy*: a suit with two copies of a card beside cards with one copy is where counting
can go wrong; two moves on top of the deal are a clue and a play or two clues, and reach every
phase of the elimination, the loops of `perform_cross_elim` included. *Endgame*: with three
players and two cards each, a seat can have too much to play, nothing to play, or the one
card another waits for; one card in the deck starts the countdown at once, two leave a
move before it; the inverted suit swaps the buttons; with one token a stall is possible
once. Two strikes are on the board, so that a wrong button ends the game. *Solver*: a hidden hand of
two or one beside a deck of one to three gives arrangements that differ in useless cards only,
draws that do, and moves whose worth differs between hypos; the open suit or two make room for
a win that depends on the draw. *Reaction*: three ranks
give a card that plays, one that connects to it and one that is neither; three slots are the
least at which the sum of slots wraps in a way that is not its own inverse; the draws
decide what a played card is replaced by before the receiver counts its slots. The
empathy and reaction runs do not check deadlock: the first stops when its moves are used up, the
second when the reaction has been read. No other run stops.

`bot_drops` assumes `ResumeAtReattend = FALSE`: a returning session gets updates only once it
has asked for the list. With `TRUE` (change the constant in `BotClient_drops.cfg`) both
`DecisionsAreSound` and `OurTurnTaken` fail: `tableReattend` leaves the old Game in `games_`,
and an update that overtakes `init` is applied to it. Nothing in the repository settles what
the server does, so this is recorded as a hazard, not as a finding. A game that ends while
we are disconnected stays in memory, since nothing reports its end afterwards:
`EndedGameReleased` says so by its last disjunct.

The `endgame` run stays inside limits that mark where the search is only approximate. Each of
these is a hazard in `PROJECT.json`; raising the constant shows it.

- *An unnamed discard may be a chuck.* `clueless_winnable` discards a card without identity
  and counts a token (`winnable.cpp:246`). If it is an inverted card, the button plays it. With
  inverted cards among `DeckKinds`, `PromiseKept` and `ImaginedIsReal` fail.
- *Discards at eight tokens.* Neither `clueless_winnable` nor the filler of
  `trivially_winnable` asks for the tokens, while the bot never sends such a discard
  (`helper.cpp:38`). With `MaxTokens = 2` the run deadlocks: the server refuses the
  plan's move.
- *Stacks are summed as they are.* `trivially_winnable` compares the sum of `play_stacks` with
  `max_score` (`helper.cpp:268`), which counts reversed suits from the other end. With a reversed
  suit, `TrivialWinIsWin` fails.
- *Rule 3.* A sole holder is made to play since otherwise it "must play it on their
  final-round turn instead -- and the successor above it can then never be played"
  (`forced_endgame.cpp:508`). The player after the one that draws the last card moves once more
  than that: with stacks n3 and i2, one token, one card left and the hands
  {n1, i3}, {n4, i4}, {n3, i1}, the first player loses the maximum by playing i3 at once
  and keeps it by clueing. `ForcedKeepsTheWin` leaves out the turns Rule 3 answers
  (`SoleHolderAnswers`).
- *Too careful.* `clueless_winnable` never discards a card it can name, and Rule 7 does not count
  what the player knows of its own hand beyond its calls: wins are missed, none is invented.

`CountedIsStruck` speaks of the identities that a pass of `basic_elim` was asked to count, all of them
or those of a group, and of what it went on to by itself, because more does not hold. The glossary has card
elimination "remove identities from `possible` once all copies are accounted for"
(`src/conventions/reactor/GLOSSARY.md:94`). The group loop of `perform_cross_elim` calls `basic_elim` for the
identities of the group only (`player_elim.cpp:125-163`), and pins and identities found meanwhile outside
of them are not followed. Such an identity stays possible elsewhere until the next elimination
certifies it. TLC finds a case with three players with two cards each, eight identities with one copy and
two clues. It is knowledge that comes late, not knowledge that is wrong.

The `solver` run has one more. `BestOfAllDeals` leaves out the turns in which a useless card of an
inverted suit is missing: such a card strikes when it is discarded and a plain one does not, but
`solve` and `gen_arrs` take one useless card for all (`solver.cpp:877`, `helper.cpp:318`). Without
that conjunct TLC finds reported rates that no count of single deals confirms, certainties among
them, which `solver.h:46` calls trustworthy. A rate above what open hands can win has not
been found even there (`NoHallucinatedWin` has no such exception).

The `reaction` run has two such limits, which `OneReading` leaves out. `MCReaction!Parted` has a position for
each, so dropping either conjunct makes TLC produce the case. The convention's document asks that "Every observer must decode
a clue identically" (`CONVENTION.md:453`).

- *A connection only the giver sees* (`Unlinked`). `target_play` accepts a card that is not playable
  yet when it follows one that a seat before its holder is about to play. The giver sees the reacter's
  card and, where it follows, checks what it follows and calls that too; the reacter does not see
  its own hand and cannot (`interpret_clue.cpp:170`), and the two may stop at different targets.
- *A call that is void* (`CallStands`). `elim` takes a call back when nothing is left that the
  card could be played as. The giver counts a mistake only where no other call stands
  (`decide.cpp:455`), so it gives clues whose call does not survive the reading.

### Findings

1. *A lost stop* (`transport_lost_stop`). `ws_transport.h:52`: "Thread-safe; causes run() to
   return cleanly". A `stop()` that comes between the loop's test of `stop_` and the
   publication of the session finds nothing to close, and the new session is served
   although `stop_` is set. In the program as wired, `stop()` comes from signals and from
   the network thread; the gap is open to any other caller.
2. *A turn decided twice* (`bot_duplicate`). `commands.cpp:665` clears `action_time_` so that a
   re-fired `gameActionList` will not post a second job; `commands.cpp:489` sets it again. A
   reconnection while a decision is at work leads to two actions for one turn.
3. *A partner's own card loses its identity* (`empathy_partner`). The first loop of
   `perform_cross_elim` (`player_elim.cpp:130-143`) concludes from cards *we* see that the
   copies of an identity are all in a group, and strikes it from everyone outside the
   group's hands; but `update_map` always includes the view's own player
   (`player_elim.cpp:36`), and this loop, unlike the second, passes no `exclude_own`. In
   the bot's `Player` of a partner who holds the group, the cards of the group lose what
   they are. `players[partner]` is read by decisions.

## 5. Fairness

`Transport!FairSpec`: a running thread is scheduled and a completed operation gets its
handler, each under weak fairness of its own action. A write to a live peer completes, one
to a dead peer fails, a read fails once the socket is closed. Nothing is owed by the
server, the user, or the threads that may call: `ReadFrame`, `PeerLost`, `Signal`,
`CopySession` and `StopFlag` have no fairness.
`BotClient!FairSpec`: messages are handled, decisions end, requests are answered, and a lost
connection comes back, which is what `SessionResumes` shows of the transport while the
server accepts connections. People owe nothing: no fairness for the partner or the table.
`JobThrows` has none either, and in `bot_drops`, where our turn must be taken, decisions do
not throw: a throw leaves the turn untaken on purpose (`commands.cpp:81-84`).
`Empathy!FairSpec`: weak fairness of the elimination's steps. They are one uninterrupted
call in the code.

## 6. What is proved

Each theorem holds for all constants that satisfy the module's assumption
(`TransportAssumption`, `BotClientAssumption`, `GameStateAssumption`, `EmpathyAssumption`), which
say no more than that bounds are numbers, switches are truth values, tables, suits and
identities finite, and every card has a copy. Theorems about endings also use `EndingsAssumption`:
an ending holds no more copies of a card than there are, its hands are full and its deck is not
empty. TLC evaluates all of them in the runs. Two theorems of `PlanProofs` have the hypothesis
`PlainDecks` (no inverted card is left in the deck) and one `Reversed = {}`; with inverted cards in
the deck, or with a reversed suit, TLC shows that what they state is false (section 4). Every inductive
invariant was first checked by TLC on the instances of section 4.

- **TransportProofs.** `TransportInv` is the type invariant with the four facts about the write
  path, strengthened by `SessionShape`: at which places of `run()` a session is
  published, and that one starts and ends with nothing outstanding. Without it
  `NothingOutlivesSession` is not inductive, and without that a fresh session might begin
  with a gauge that is not zero. One lemma is about `TryWriteNext`, which three handlers
  call. `GivesUpLate` needs an invariant of its own (`AttemptInv`: while connecting,
  `attempt` equals the failures in a row). `LowLaneIsLow` is the action property that notes
  never overtake.
  `TransportIsLossyLink` is the refinement of `LossyLink`. `OrderInv` is one
  order over everything a message passes through between `queue_send` and the wire: the
  number last written, the message in flight, its lane, the handlers that will put a message into
  a lane (`enqueue`), those that will post them (`dispatch`), and the call a thread is in the middle
  of. Each stage hands only its oldest message to the next one, so two messages of one thread on one
  lane stay in order, through any number of sessions. `held[Net] = 0` belongs to it: the network
  thread calls `queue_send` from within a handler, so no handler finds that call half done.
- **BotClientProofs.** `TypesHold` first; it needs `NobodyFollowed` (while the link is down
  the server sends to nobody; otherwise it would fill a queue that the types say is empty).
  Then two arguments.
  *No Game misses a turn* (`DecisionsAlwaysSound`, from `SoundInv`). For each table, `MailInv`
  follows the messages that lead to a fresh Game - an opening: `tableReattend`, `tableStart`,
  `getGameInfo1`, `init`, `getGameInfo2`, the list. At most one opening is on its way
  (`OneOpening`), no turn is told meanwhile (`OpeningAlone`), it comes after all that was told
  before (`OpeningLast`), and the turns on their way continue each other and the Game they
  will be applied to (`CountsRise`, `CountsFollow`). This holds through any number of losses if
  updates start with the list; if the server resumes them at `tableReattend`, only until the first
  loss, and TLC shows what happens after it (section 4). The theorem's condition
  `~ResumeAtReattend \/ drops = 0` says exactly this.
  *A turn is decided once* (`TurnDecidedOnce`, `TurnAlwaysWaits`, from `SteadyInv` on top). For each
  table there is at most one decision in the compute queue and the outbox together, made for the
  turn the table is at; while it is on its way `action_time_` is false, and no list, `init` or turn of
  ours is coming that could set it again (`Awaited`, `Playing`, `OurTurnIsNow`). The condition is
  `drops = 0`: after a reconnection the property is false, which is finding 2.
- **Sums.** What `SumFunctionOnSet` of the community modules adds up to. It is a fold over a finite
  set, a recursive function; its recursion is unfolded by induction over the subsets of the set,
  from the library's theorem that strict inclusion among them is well-founded. The library's own
  induction theorems take an operator as a parameter, which the provers cannot instantiate;
  `SubsetInduction` takes a set of subsets instead. From this come the
  facts the accounting needs: what a sum is without one term, after a change of one term, when
  each term grows, and when the terms are renamed (the mapping of reversed suits renames ranks).
- **GameStateProofs.** `StateTypes`: every field stays in its range in every variant. The parts
  that take an argument are the token cap (a half token is kept only below the cap, so
  adding one cannot pass it) and the strikes (only an unfinished game takes another).
  `Accounts`: the inductive invariant `AccountInv`. Ranks are counted in play order, so that
  reversed suits need no case of their own. `PilesInv` says what each cache holds as `with_play` and
  `with_discard` leave it: `base_count` the copies on the table, `max_ranks` the rank before the
  first that is lost, `critical_set` the cards with one copy left *or whose last copy was played*,
  `playable_set` only next cards of a suit and each of them that is not lost, `trash_set` only cards that are played or
  out of reach. `CardsConserved` is part of the induction: that a card in a hand has a copy not yet
  placed is what keeps `base_count` within `card_count` when it is played. `HandsInv` bounds the
  hands and orders the deal. `CachesAlwaysExact` and `MaxRanksAlwaysReachable` follow: the
  caches are refreshed by some handlers only, and still agree with the predicates they stand for on
  every card that is still needed. Of the other cards they say less: `trash_set` never receives the
  cards that a loss below them puts out of reach, and `with_play` adds the next card to `playable_set` even if it is lost.
  `StateFollowsRules` is the refinement of `HanabiRules`, one lemma for each
  handler and each way a card can go. The mapping turns reversed suits round and counts half
  tokens; that it maps steps to steps rests on `AccountInv`, since the rules know no caches.
- **ReactionSlots.** `SlotsDecode`: for every hand size, the receiver's decoding inverts the giver's
  encoding, and a reacter's slot and a receiver's slot determine each other.
- **EmpathyProofs.** `TypeCorrect` first. Then the inductive invariant `IInv`: the truth is
  possible, certain copies are true and entered once, and the next card is possible, for the
  views `Good` = the team and us. These three need each other: a pass strikes an identity
  safely only if the copies counted are different true copies (`CountedRightly`), and a
  counted copy is true only because `possible` still had the truth when it became a
  singleton. To these come `TableInv` (what is in a hand is drawn, and `deck` is right where it
  is known), `OwnInv` and `SearchInv`. `Covering` in `SearchInv` is the heart: while the loops of
  `perform_cross_elim` run, the entries and the certain cards are all the copies there
  are of the identities concerned; it follows from `Locked` by counting (`AllCopies`: a deal
  has `card_count` cards of each identity; `EntriesCount`, `DisjointCount`). `OwnInv` is
  what a partner's view lacks: a card of ours that we can name is pinned in our view, so it is
  never in a group, and the group loop cannot strike it from itself. That is why the theorems
  are about the team's view and ours, and why the same statement about a partner's
  (`PartnerTruthStaysPossible`) is false. `PlayersKeepUp` holds for every view, partners' too:
  where a player's `possible` is wider than the team's, the card is in `dirty` and the player's turn
  in this elimination is still to come (`KeepsUp`). It is what makes `dirty` sound: a card that is
  not marked need not be synchronised. `CountingIsComplete` is about the passes themselves: between two
  passes every identity of `Asked` that is not put off (`todo`, `rec`) is counted out (`Struck`), since
  a pass that pins a card puts its new identity off, and only a new certain copy can undo `Struck`.
- **EndgameProofs.** `GivenUpIsAlwaysLost`. The conditions of `unwinnable_state` are not inductive: a
  position that is lost for too little pace may a move later be lost because a card was thrown
  away, or because a seat has had its turn. `Doomed` is their closure under moves. Either the
  maximum has fallen; or the points, the cards to draw and the seats that can still score (`Movers`)
  do not add up to it (`TooSlow`); or in the final round a needed card sits with a seat that has no
  turn left (`Stranded`); or a seat needs two turns it will not get (`Overloaded`). One lemma
  shows that each reason of `unwinnable_state` is one of these (`GiveUpIsSound`), one lemma per handler
  that a move keeps them; `GiveUpsHaveReasons` is the inductive invariant put together. That `Endings` really are positions of a game, with exact caches and
  all cards accounted for, is `EndingsKeepAccounts`, from `EndingsAssumption`. `GivingUpIsFinal` says the same
  of every game of the whole engine, from the deal on: deck plays, half tokens, reversed and
  inverted suits included.
- **PlanProofs.** `clueless_winnable` is a recursive function over search states. `Fixpoint` shows that
  such a function exists on any set of states and moves, so that it satisfies its own equation
  (`Winnable`); every move takes something from `Weight` (`Lighter`), and over that a least
  counterexample replaces induction. The fact that carries the rest is `WinIsHeld`: in
  a state from which the search wins, every card still needed is one it sees in a hand. So
  when it discards a card it cannot name, that card is never the last copy of one it needs
  (`UnknownIsSpare`), the real discard lowers no maximum, and the engine stays where the search imagines it.
  `PlanInv` ties the two: the same points and tokens (`SamePoints`), hands that agree card by card
  up to unnamed ones (`HandMatch`), and the countdown, which the search moves in
  `remove_and_draw` and the engine a step later, in `on_draw` (`SameRound`). From it come
  `ImaginedIsAlwaysReal` and `PromisesAreKept`. `TrivialWinsAreWins` follows the last round turn by
  turn (`Along`): before each turn every stack has grown by one card at most, and by each card
  credited to a seat that has moved, so a card that is no longer playable has been laid by someone else;
  hence what was summed up is a lower bound of the score, and the maximum an upper one. It
  rests on `SeatsInv`: whoever still has a turn in the last round holds a full hand, so there is a
  card to throw away.

Only model-checked:

- all liveness (`LanesDrain`, `SessionResumes`, `StopOfSessionReturns`, `OurTurnTaken`,
  `EndedGameReleased`, `ElimEnds`): temporal reasoning under fairness and `ENABLED` are out of the
  prover's reach;
- `ForcedKeepsTheWin`, `NoHallucinatedWin`, `BestOfAllDeals`, `OneReading` and `MeantIsCalled`: what the
  forced rules, `solve` and the readings compute is written with recursive operators, and tlapm has no
  SMT backend in a module that reaches one; what they return for every input would need
  induction over that recursion as well;
- that the server accepts each move of a plan: `PromisesAreKept` says that the plan has a move, the
  absence of deadlock in `endgame` that the engine lets it be made;
- what findings 1 to 3 refute.

## 7. Not modelled

- Of the reactor: stable clues (those that ask for no reaction) beyond their effect on who is
  called, locked and loaded hands, rewinds, inverted and deferred reactions, the clue for
  an urgent save in place of a reaction. The conventions `reactor0` and `tiiah`. The weights
  of the decision (`basics/decide`, `basics/eval`) promise nothing that could be stated.
- Of the solver: what a convention reads from a clue beyond a card's name, standing calls, links,
  and everything that depends on the clock.
- Throw It in a Hole, in every module: the identity of a played card is hidden, which changes
  the state of `State` and of the views.
- Chat settings, notes, the log files, `rewind`: planned, see section 2 and the hazards
  without properties in `PROJECT.json`.
- Codec, login, snapshots, timers and the programs: formatting and I/O.
