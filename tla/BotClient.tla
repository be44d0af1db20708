------------------------------ MODULE BotClient ------------------------------
(***************************************************************************)
(* BotClient: what the bot does with the messages of the server.  The      *)
(* handlers run one after the other on the network thread; a decision is   *)
(* posted with a copy of the Game to the compute thread, which works the   *)
(* jobs off in order and sends the chosen action.                          *)
(*                                                                         *)
(* A Game is abstracted to the number of the last turn it has seen and to  *)
(* whether it got to it by applying every turn of the table once and in    *)
(* order ("sound").  The messages of one turn (the move, the draw, the     *)
(* status, the turn) are one "turn" message: in between them action_time_  *)
(* is false.  The server and the link to it are external; see Transport    *)
(* for the link.  Chat is left out.                                         *)
(***************************************************************************)
EXTENDS Integers, Sequences, SequencesExt, FiniteSets

CONSTANTS Tables,                   \* tables of variants the bot knows
          MaxTurns,                 \* bound: turns of a game
          MaxDrops,                 \* bound: times the connection is lost
          MaxAway,                  \* bound: times a partner leaves or returns
          Replays,                  \* is the table reopened as a shared replay?
          Throws,                   \* may take_action throw?
          ResumeAtReattend,         \* updates flow from the reattend on, or from the list on
          disconnect_on_game_end    \* BotConfig

\* The bounds are numbers, and the welcome lists finitely many tables.
ASSUME BotClientAssumption ==
  /\ IsFiniteSet(Tables)
  /\ MaxTurns \in Nat /\ MaxDrops \in Nat /\ MaxAway \in Nat
  /\ {Replays, Throws, ResumeAtReattend, disconnect_on_game_end} \subseteq BOOLEAN

VARIABLES
  \* BotClient
  games,                \* games_
  games_in_progress,
  action_time,
  everyone_connected,
  game_loggers,         \* tables with an open logger
  jobs,                 \* the queue of compute_ioc_, the job at work first
  \* link
  up, inbox, outbox,
  drops,                \* connections lost so far
  \* server
  stage,                \* "lobby", "running", "over", "replay" or "gone"
  turn,                 \* turns taken
  started,              \* the server has our "loaded"
  following,            \* our session gets the table's updates
  partner,              \* the other player is connected
  away                  \* times that changed

clientVars == <<games, games_in_progress, action_time, everyone_connected, game_loggers, jobs>>
linkVars   == <<up, inbox, outbox, drops>>
serverVars == <<stage, turn, started, following, partner, away>>
vars == <<clientVars, linkVars, serverVars>>

\* Turns alternate between our seat and the partner's.
OurTurn(n) == n % 2 = 0

Turns == 0 .. MaxTurns
Game == [applied : Turns, sound : BOOLEAN, catchup : BOOLEAN, in_progress : BOOLEAN]
NoGame == [applied |-> -1, sound |-> TRUE, catchup |-> TRUE, in_progress |-> FALSE]

Job == [tid : Tables, turn : Turns, sound : BOOLEAN]
Inbound == [cmd : {"welcome"}, playing : SUBSET Tables]
             \cup [cmd : {"tableStart", "tableGone", "gameOver", "finishOngoingGame"}, tid : Tables]
             \cup [cmd : {"init"}, tid : Tables, replay : BOOLEAN]
             \cup [cmd : {"turn", "gameActionList"}, tid : Tables, n : Turns]
             \cup [cmd : {"connected"}, tid : Tables, all : BOOLEAN]
Outbound == [cmd : {"tableReattend", "getGameInfo1", "getGameInfo2", "loaded", "tableUnattend"},
             tid : Tables]
              \cup [cmd : {"action"}, tid : Tables, turn : Turns, sound : BOOLEAN]

Init ==
  /\ games = [t \in Tables |-> NoGame] /\ games_in_progress = {}
  /\ action_time = [t \in Tables |-> FALSE]
  /\ everyone_connected = [t \in Tables |-> FALSE]
  /\ game_loggers = {} /\ jobs = <<>>
  /\ up = TRUE /\ inbox = <<>> /\ outbox = <<>> /\ drops = 0
  /\ stage = [t \in Tables |-> "lobby"] /\ turn = [t \in Tables |-> 0]
  /\ started = {} /\ following = {} /\ partner = Tables /\ away = 0

-----------------------------------------------------------------------------
(* Handlers of BotClient. *)

Receive(cmd) == /\ up /\ inbox # <<>> /\ Head(inbox).cmd = cmd
                /\ inbox' = Tail(inbox)
                /\ UNCHANGED <<up, drops, serverVars>>

Request(cmd, t) == outbox' = Append(outbox, [cmd |-> cmd, tid |-> t])

\* playingAtTables: the tables the server still seats us at.
OnWelcome ==
  /\ Receive("welcome")
  /\ outbox' = outbox \o SetToSeq({[cmd |-> "tableReattend", tid |-> t] : t \in Head(inbox).playing})
  /\ UNCHANGED clientVars

OnTableStart ==
  /\ Receive("tableStart")
  /\ Request("getGameInfo1", Head(inbox).tid)
  /\ UNCHANGED clientVars

\* Mutant of OnInit: an old Game is kept.
OnInitKeepsGame ==
  /\ Receive("init")
  /\ LET t == Head(inbox).tid
         fresh == [applied |-> 0, sound |-> TRUE, catchup |-> TRUE,
                   in_progress |-> ~Head(inbox).replay]
     IN  /\ games' = [games EXCEPT ![t] = IF @ = NoGame THEN fresh ELSE @]
         /\ games_in_progress' = (IF Head(inbox).replay THEN games_in_progress
                                  ELSE games_in_progress \cup {t})
         /\ action_time' = [action_time EXCEPT ![t] = FALSE]
         /\ everyone_connected' = [everyone_connected EXCEPT ![t] = FALSE]
         /\ game_loggers' = game_loggers \cup {t}
         /\ Request("getGameInfo2", t)
  /\ UNCHANGED jobs

\* A fresh Game and a fresh logger replace whatever the table had.
OnInit ==
  /\ Receive("init")
  /\ LET t == Head(inbox).tid
         replay == Head(inbox).replay
     IN  /\ games' = [games EXCEPT ![t] = [applied |-> 0, sound |-> TRUE, catchup |-> TRUE,
                                           in_progress |-> ~replay]]
         /\ games_in_progress' = (IF replay THEN games_in_progress
                                  ELSE games_in_progress \cup {t})
         /\ action_time' = [action_time EXCEPT ![t] = FALSE]
         /\ everyone_connected' = [everyone_connected EXCEPT ![t] = FALSE]
         /\ game_loggers' = game_loggers \cup {t}
         /\ Request("getGameInfo2", t)
  /\ UNCHANGED jobs

\* Mutant of maybe_take_turn: action_time_ is not cleared.
maybe_take_turn_again(t, g, at, ec) ==
  LET decide == g # NoGame /\ ~g.catchup /\ g.in_progress /\ ec /\ at /\ OurTurn(g.applied)
  IN  /\ jobs' = (IF decide THEN Append(jobs, [tid |-> t, turn |-> g.applied, sound |-> g.sound])
                  ELSE jobs)
      /\ action_time' = [action_time EXCEPT ![t] = at]

\* maybe_take_turn for the Game g, with the flags at and ec: a decision is posted,
\* and action_time_ cleared, if the Game says it is our turn.
maybe_take_turn(t, g, at, ec) ==
  LET decide == g # NoGame /\ ~g.catchup /\ g.in_progress /\ ec /\ at /\ OurTurn(g.applied)
  IN  /\ jobs' = (IF decide THEN Append(jobs, [tid |-> t, turn |-> g.applied, sound |-> g.sound])
                  ELSE jobs)
      /\ action_time' = [action_time EXCEPT ![t] = at /\ ~decide]

\* handle_action for turn n.  On a Game that is not at turn n - 1 it may throw,
\* and then apply_action returns before it looks at whose turn it is.
Applied(g, n) ==
  IF g = NoGame THEN {NoGame}
  ELSE {[g EXCEPT !.applied = n, !.sound = @ /\ g.applied = n - 1]}
         \cup (IF g.applied = n - 1 /\ g.sound THEN {} ELSE {[g EXCEPT !.sound = FALSE]})

OnTurn ==
  /\ Receive("turn")
  /\ LET t == Head(inbox).tid
         n == Head(inbox).n
     IN  \E g \in Applied(games[t], n) :
            /\ games' = [games EXCEPT ![t] = g]
            /\ maybe_take_turn(t, g, IF g.applied = n THEN OurTurn(n) ELSE action_time[t],
                               everyone_connected[t])
  /\ UNCHANGED <<games_in_progress, everyone_connected, game_loggers, outbox>>

\* The list of all turns so far, applied to the Game the table has.
OnGameActionList ==
  /\ Receive("gameActionList")
  /\ LET t == Head(inbox).tid
         n == Head(inbox).n
         g == [games[t] EXCEPT !.applied = n, !.sound = @ /\ games[t].applied = 0, !.catchup = FALSE]
     IN  /\ Request("loaded", t)
         /\ IF games[t] = NoGame THEN UNCHANGED <<games, jobs, action_time>>
            ELSE /\ games' = [games EXCEPT ![t] = g]
                 /\ maybe_take_turn(t, g, OurTurn(n), everyone_connected[t])
  /\ UNCHANGED <<games_in_progress, everyone_connected, game_loggers>>

\* Mutant of OnConnected: a turn that waited for the others is not taken.
OnConnectedIdle ==
  /\ Receive("connected")
  /\ everyone_connected' = [everyone_connected EXCEPT ![Head(inbox).tid] = Head(inbox).all]
  /\ UNCHANGED <<games, games_in_progress, action_time, game_loggers, jobs, outbox>>

OnConnected ==
  /\ Receive("connected")
  /\ LET t == Head(inbox).tid
     IN  /\ everyone_connected' = [everyone_connected EXCEPT ![t] = Head(inbox).all]
         /\ maybe_take_turn(t, games[t], action_time[t], Head(inbox).all)
  /\ UNCHANGED <<games, games_in_progress, game_loggers, outbox>>

\* Mutant of OnGameOver: handle_action alone, without finish_game.
OnGameOverUnfinished ==
  /\ Receive("gameOver")
  /\ games' = [games EXCEPT ![Head(inbox).tid].in_progress = FALSE]
  /\ UNCHANGED <<games_in_progress, action_time, everyone_connected, game_loggers, jobs, outbox>>

\* The gameOver action, and finish_game.  A table without a Game ignores it.
OnGameOver ==
  /\ Receive("gameOver")
  /\ LET t == Head(inbox).tid
         finish == games[t] # NoGame /\ t \in games_in_progress
     IN  /\ games' = [games EXCEPT ![t] = IF finish THEN NoGame ELSE [@ EXCEPT !.in_progress = FALSE]]
         /\ games_in_progress' = (IF finish THEN games_in_progress \ {t} ELSE games_in_progress)
         /\ IF finish /\ disconnect_on_game_end THEN Request("tableUnattend", t)
            ELSE UNCHANGED outbox
  /\ UNCHANGED <<action_time, everyone_connected, game_loggers, jobs>>

OnTableGone ==
  /\ Receive("tableGone")
  /\ games' = [games EXCEPT ![Head(inbox).tid] = NoGame]
  /\ UNCHANGED <<games_in_progress, action_time, everyone_connected, game_loggers, jobs, outbox>>

\* finishOngoingGame: the log gets its database id and is closed.
OnDatabaseId ==
  /\ Receive("finishOngoingGame")
  /\ game_loggers' = game_loggers \ {Head(inbox).tid}
  /\ UNCHANGED <<games, games_in_progress, action_time, everyone_connected, jobs, outbox>>

\* Mutant of JobDone: the action is kept for the next session.
JobDoneKept ==
  /\ jobs # <<>>
  /\ jobs' = Tail(jobs)
  /\ outbox' = Append(outbox, [cmd |-> "action", tid |-> Head(jobs).tid,
                               turn |-> Head(jobs).turn, sound |-> Head(jobs).sound])
  /\ UNCHANGED <<games, games_in_progress, action_time, everyone_connected, game_loggers,
                 up, inbox, drops, serverVars>>

\* The compute thread is done with a job; queue_send drops the action when the
\* transport has no session.
JobDone ==
  /\ jobs # <<>>
  /\ jobs' = Tail(jobs)
  /\ outbox' = IF up
               THEN Append(outbox, [cmd |-> "action", tid |-> Head(jobs).tid,
                                    turn |-> Head(jobs).turn, sound |-> Head(jobs).sound])
               ELSE outbox
  /\ UNCHANGED <<games, games_in_progress, action_time, everyone_connected, game_loggers,
                 up, inbox, drops, serverVars>>

\* take_action threw: the turn is dropped.
JobThrows ==
  /\ Throws /\ jobs # <<>>
  /\ jobs' = Tail(jobs)
  /\ UNCHANGED <<games, games_in_progress, action_time, everyone_connected, game_loggers,
                 linkVars, serverVars>>

-----------------------------------------------------------------------------
(* The server and the link (external). *)

Lose ==
  /\ up /\ drops < MaxDrops
  /\ up' = FALSE /\ drops' = drops + 1
  /\ inbox' = <<>> /\ outbox' = <<>> /\ following' = {}
  /\ UNCHANGED <<clientVars, stage, turn, started, partner, away>>

Reconnect ==
  /\ ~up
  /\ up' = TRUE
  /\ inbox' = <<[cmd |-> "welcome", playing |-> {t \in Tables : stage[t] = "running"}]>>
  /\ UNCHANGED <<clientVars, outbox, drops, serverVars>>

Tell(t, m) == inbox' = IF t \in following THEN Append(inbox, m) ELSE inbox

StartGame(t) ==
  /\ stage[t] = "lobby" /\ up
  /\ stage' = [stage EXCEPT ![t] = "running"]
  /\ following' = following \cup {t}
  /\ inbox' = Append(inbox, [cmd |-> "tableStart", tid |-> t])
  /\ UNCHANGED <<clientVars, up, outbox, drops, turn, started, partner, away>>

\* Requests other than an action.
Serve ==
  /\ up /\ outbox # <<>> /\ Head(outbox).cmd # "action"
  /\ outbox' = Tail(outbox)
  /\ LET t == Head(outbox).tid
         cmd == Head(outbox).cmd
         live == stage[t] \in {"running", "replay"}
     IN  /\ inbox' =
              CASE cmd = "tableReattend" /\ live -> Append(inbox, [cmd |-> "tableStart", tid |-> t])
                [] cmd = "getGameInfo1" /\ live ->
                     Append(inbox, [cmd |-> "init", tid |-> t, replay |-> stage[t] = "replay"])
                [] cmd = "getGameInfo2" /\ live ->
                     Append(inbox, [cmd |-> "gameActionList", tid |-> t, n |-> turn[t]])
                [] cmd = "loaded" /\ live ->
                     Append(inbox, [cmd |-> "connected", tid |-> t, all |-> t \in partner])
                [] OTHER -> inbox
         /\ following' =
              CASE cmd = "tableReattend" /\ ResumeAtReattend -> following \cup {t}
                [] cmd = "getGameInfo2" -> following \cup {t}
                [] cmd = "tableUnattend" -> following \ {t}
                [] OTHER -> following
         /\ started' = IF cmd = "loaded" /\ stage[t] = "running" THEN started \cup {t} ELSE started
  /\ UNCHANGED <<clientVars, up, drops, stage, turn, partner, away>>

\* Our action: executed on our turn, refused otherwise.  One that was decided
\* for another turn, or on a Game that is off, may be illegal and refused too.
Act ==
  /\ up /\ outbox # <<>> /\ Head(outbox).cmd = "action"
  /\ outbox' = Tail(outbox)
  /\ LET a == Head(outbox)
         t == a.tid
         legal == stage[t] = "running" /\ t \in started /\ OurTurn(turn[t]) /\ turn[t] < MaxTurns
     IN  \/ /\ legal
            /\ turn' = [turn EXCEPT ![t] = @ + 1]
            /\ Tell(t, [cmd |-> "turn", tid |-> t, n |-> turn[t] + 1])
         \/ /\ ~legal \/ a.turn # turn[t] \/ ~a.sound
            /\ UNCHANGED <<turn, inbox>>
  /\ UNCHANGED <<clientVars, up, drops, stage, started, following, partner, away>>

PartnerActs(t) ==
  /\ stage[t] = "running" /\ t \in started /\ ~OurTurn(turn[t]) /\ turn[t] < MaxTurns
  /\ t \in partner
  /\ turn' = [turn EXCEPT ![t] = @ + 1]
  /\ Tell(t, [cmd |-> "turn", tid |-> t, n |-> turn[t] + 1])
  /\ UNCHANGED <<clientVars, up, outbox, drops, stage, started, following, partner, away>>

PartnerComesOrGoes(t) ==
  /\ stage[t] = "running" /\ t \in started /\ away < MaxAway
  /\ away' = away + 1
  /\ partner' = IF t \in partner THEN partner \ {t} ELSE partner \cup {t}
  /\ Tell(t, [cmd |-> "connected", tid |-> t, all |-> t \notin partner])
  /\ UNCHANGED <<clientVars, up, outbox, drops, stage, turn, started, following>>

\* The game ends: played out, out of time or terminated.  The table goes away
\* and the stored game's id is announced.
EndGame(t) ==
  /\ stage[t] = "running" /\ t \in started
  /\ stage' = [stage EXCEPT ![t] = "over"]
  /\ inbox' = IF t \in following
              THEN inbox \o <<[cmd |-> "gameOver", tid |-> t], [cmd |-> "tableGone", tid |-> t],
                              [cmd |-> "finishOngoingGame", tid |-> t]>>
              ELSE inbox
  /\ UNCHANGED <<clientVars, up, outbox, drops, turn, started, following, partner, away>>

\* The shared replay of the game is opened, and closed.
OpenReplay(t) ==
  /\ Replays /\ stage[t] = "over" /\ t \in following
  /\ stage' = [stage EXCEPT ![t] = "replay"]
  /\ Tell(t, [cmd |-> "tableStart", tid |-> t])
  /\ UNCHANGED <<clientVars, up, outbox, drops, turn, started, following, partner, away>>

CloseReplay(t) ==
  /\ stage[t] = "replay"
  /\ stage' = [stage EXCEPT ![t] = "gone"]
  /\ Tell(t, [cmd |-> "tableGone", tid |-> t])
  /\ UNCHANGED <<clientVars, up, outbox, drops, turn, started, following, partner, away>>

Handle == \/ OnWelcome \/ OnTableStart \/ OnInit \/ OnTurn \/ OnGameActionList
          \/ OnConnected \/ OnGameOver \/ OnTableGone \/ OnDatabaseId

\* Nothing is on its way and nobody is about to move.
Quiet == up /\ inbox = <<>> /\ outbox = <<>> /\ jobs = <<>> /\ UNCHANGED vars

Next ==
  \/ Handle \/ JobDone \/ JobThrows
  \/ Lose \/ Reconnect \/ Serve \/ Act
  \/ \E t \in Tables : \/ StartGame(t) \/ PartnerActs(t) \/ PartnerComesOrGoes(t)
                       \/ EndGame(t) \/ OpenReplay(t) \/ CloseReplay(t)
  \/ Quiet

Spec == Init /\ [][Next]_vars

\* Messages are delivered, requests answered, decisions finished and a lost
\* connection replaced (SessionResumes of Transport); people owe nothing.
FairSpec == Spec /\ WF_vars(Handle) /\ WF_vars(JobDone) /\ WF_vars(Reconnect)
                 /\ WF_vars(Serve \/ Act)

-----------------------------------------------------------------------------
(* Properties. *)

\* Every map, flag and message has its type, and a link that is down holds
\* nothing for the next one.
TypeOK ==
  /\ games \in [Tables -> Game \cup {NoGame}] /\ games_in_progress \subseteq Tables
  /\ action_time \in [Tables -> BOOLEAN] /\ everyone_connected \in [Tables -> BOOLEAN]
  /\ game_loggers \subseteq Tables /\ jobs \in Seq(Job)
  /\ up \in BOOLEAN /\ inbox \in Seq(Inbound) /\ outbox \in Seq(Outbound)
  /\ ~up => inbox = <<>> /\ outbox = <<>>
  /\ drops \in 0 .. MaxDrops /\ away \in 0 .. MaxAway
  /\ stage \in [Tables -> {"lobby", "running", "over", "replay", "gone"}]
  /\ turn \in [Tables -> Turns]
  /\ started \subseteq Tables /\ following \subseteq Tables /\ partner \subseteq Tables

\* The decisions on their way to the server: the jobs, then the sent actions.
OnItsWay == jobs \o outbox
Decisions == {i \in DOMAIN OnItsWay : i <= Len(jobs) \/ OnItsWay[i].cmd = "action"}

\* A turn is decided once: "duplicate trigger ... won't post a second job".
OneDecisionPerTurn ==
  \A i, j \in Decisions :
     i # j => <<OnItsWay[i].tid, OnItsWay[i].turn>> # <<OnItsWay[j].tid, OnItsWay[j].turn>>

\* While the game runs, the table stays at the turn a decision on its way was
\* made for: the snapshot is what a synchronous take_action would have seen.
TurnWaitsForDecision ==
  \A i \in Decisions :
     stage[OnItsWay[i].tid] = "running" => OnItsWay[i].turn = turn[OnItsWay[i].tid]

\* No decision is made on a Game that missed a turn or saw one twice.
DecisionsAreSound == \A i \in Decisions : OnItsWay[i].sound

\* Our turn does not go by undecided: with everybody there the game moves on,
\* through a lost connection too.
OurTurnTaken ==
  \A t \in Tables, n \in 0 .. MaxTurns - 1 :
     stage[t] = "running" /\ t \in started /\ turn[t] = n /\ OurTurn(n)
        ~> turn[t] # n \/ stage[t] # "running" \/ t \notin partner

\* A game that ended on a connection that lasted leaves nothing behind in the
\* client: its Game is released and its log is closed.
EndedGameReleased ==
  \A t \in Tables :
     stage[t] = "over" ~> \/ games[t] = NoGame /\ t \notin games_in_progress /\ t \notin game_loggers
                          \/ stage[t] = "replay" \/ drops > 0
=============================================================================
