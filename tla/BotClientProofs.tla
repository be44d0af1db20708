---------------------------- MODULE BotClientProofs ----------------------------
(***************************************************************************)
(* Theorems about BotClient, for any tables, turns, losses of connection   *)
(* and partners.                                                            *)
(*                                                                         *)
(* Two arguments.  The first follows the messages of one table: what leads *)
(* to a fresh Game (an "opening") is on its way at most once, no turn is   *)
(* told meanwhile, and the turns that are told continue each other and the *)
(* Game they will be applied to; so no Game misses a turn, through any     *)
(* number of reconnections.  The second follows the decision of one table  *)
(* while the connection lasts: there is at most one, it was made for the   *)
(* turn the table is at, and nothing on its way could start another.       *)
(***************************************************************************)
EXTENDS BotClient, SequenceTheorems, FiniteSetTheorems, TLAPS

\* Messages about table t: those that lead to a fresh Game, those that bring
\* turns, those that end the game, and the requests on the way to a fresh Game.
Opens(m, t)  == \/ m.cmd = "welcome" /\ t \in m.playing
                \/ m.cmd \in {"tableStart", "init"} /\ m.tid = t
Counts(m, t) == m.cmd \in {"turn", "gameActionList"} /\ m.tid = t
Ends(m, t)   == m.cmd \in {"gameOver", "tableGone"} /\ m.tid = t
Asks(m, t)   == m.cmd \in {"tableReattend", "getGameInfo1", "getGameInfo2"} /\ m.tid = t
Is(m, cmd, t) == m.cmd = cmd /\ m.tid = t

Opening(t) == \/ \E i \in DOMAIN inbox : Opens(inbox[i], t)
              \/ \E i \in DOMAIN outbox : Asks(outbox[i], t)

OneOpening(t) ==
  /\ \A i, j \in DOMAIN inbox : Opens(inbox[i], t) /\ Opens(inbox[j], t) => i = j
  /\ \A i, j \in DOMAIN outbox : Asks(outbox[i], t) /\ Asks(outbox[j], t) => i = j
  /\ \A i \in DOMAIN inbox, j \in DOMAIN outbox : ~(Opens(inbox[i], t) /\ Asks(outbox[j], t))

\* No turn can be told while an opening is on its way.
OpeningAlone(t) ==
  Opening(t) =>
    /\ stage[t] # "lobby"
    /\ t \in following => stage[t] # "over" /\ ~(stage[t] = "running" /\ t \in started)

\* An opening comes after all turns that were told before it.
OpeningLast(t) ==
  /\ \A i, j \in DOMAIN inbox : Opens(inbox[i], t) /\ Counts(inbox[j], t) => j < i
  /\ \A i \in DOMAIN outbox, j \in DOMAIN inbox : ~(Asks(outbox[i], t) /\ Counts(inbox[j], t))

\* A list, and the "loaded" that answers it, is the end of an opening.
LoadedLast(t) ==
  stage[t] = "running" =>
    /\ \A i \in DOMAIN inbox : Is(inbox[i], "gameActionList", t) => ~Opening(t)
    /\ \A i \in DOMAIN outbox : Is(outbox[i], "loaded", t) =>
          ~Opening(t) /\ \A j \in DOMAIN inbox : ~Is(inbox[j], "gameActionList", t)

Untouched(t) ==
  /\ t \notin started => turn[t] = 0
  /\ stage[t] = "lobby" =>
       /\ t \notin started /\ games[t] = NoGame
       /\ \A i \in DOMAIN inbox : ~Counts(inbox[i], t) /\ ~Ends(inbox[i], t)
       /\ \A i \in DOMAIN outbox : ~Is(outbox[i], "loaded", t)

\* Turns are told in order, a list before them all, none twice, none too early.
CountsRise(t) ==
  /\ \A i, j \in DOMAIN inbox :
       i < j /\ Counts(inbox[i], t) /\ Counts(inbox[j], t) =>
         inbox[j].cmd = "turn" /\ inbox[i].n < inbox[j].n
  /\ \A i \in DOMAIN inbox : Counts(inbox[i], t) => inbox[i].n <= turn[t]
  /\ \A i \in DOMAIN inbox : Is(inbox[i], "turn", t) => games[t].applied < inbox[i].n
  /\ games[t].applied <= turn[t]

Blank(t) == games[t] = NoGame \/ games[t].applied = 0

\* A turn that is told continues the Game, or what is told before it; a list
\* will find a fresh Game.
CountsFollow(t) ==
  /\ \A j \in DOMAIN inbox : Is(inbox[j], "turn", t) =>
        \/ games[t] = NoGame \/ games[t].applied = inbox[j].n - 1
        \/ \E i \in DOMAIN inbox : i < j /\ Counts(inbox[i], t) /\ inbox[i].n = inbox[j].n - 1
  /\ \A j \in DOMAIN inbox : Is(inbox[j], "gameActionList", t) => Blank(t)
  /\ \A j \in DOMAIN outbox : Is(outbox[j], "getGameInfo2", t) => Blank(t)

\* Who follows a running table has, or is told, its last turn.
UpToDate(t) ==
  stage[t] = "running" /\ t \in started /\ t \in following =>
    \/ games[t] = NoGame \/ games[t].applied = turn[t]
    \/ \E i \in DOMAIN inbox : Counts(inbox[i], t) /\ inbox[i].n = turn[t]

MailInv(t) == /\ OneOpening(t) /\ OpeningAlone(t) /\ OpeningLast(t) /\ LoadedLast(t)
              /\ Untouched(t) /\ CountsRise(t) /\ CountsFollow(t) /\ UpToDate(t)

AllSound ==
  /\ \A t \in Tables : games[t].sound
  /\ \A i \in DOMAIN jobs : jobs[i].sound
  /\ \A i \in DOMAIN outbox : outbox[i].cmd = "action" => outbox[i].sound

\* A first connection has nothing to come back to.
LinkInv ==
  drops = 0 => /\ up
               /\ \A i \in DOMAIN inbox : inbox[i].cmd # "welcome"
               /\ \A i \in DOMAIN outbox : outbox[i].cmd # "tableReattend"

\* The inductive invariant of the first argument.  It needs a server that sends
\* updates from the list on, or a connection that was never lost.
Ordered == ~ResumeAtReattend \/ drops = 0
SoundInv == LinkInv /\ (Ordered => AllSound /\ \A t \in Tables : MailInv(t))
-----------------------------------------------------------------------------
(* Queues. *)

\* r is q without its first k messages and with some, all different, of N behind.
Moves(q, r, k, N) ==
  /\ \A i \in DOMAIN q : i > k => i - k \in DOMAIN r /\ r[i - k] = q[i]
  /\ \A i \in DOMAIN r : \/ i + k \in DOMAIN q /\ r[i] = q[i + k]
                         \/ r[i] \in N /\ \A j \in DOMAIN q : j < i + k
  /\ \A i, j \in DOMAIN r : i + k \notin DOMAIN q /\ j + k \notin DOMAIN q /\ r[i] = r[j] => i = j
  /\ \A m \in N : \E i \in DOMAIN r : r[i] = m /\ i + k \notin DOMAIN q
  /\ DOMAIN q \subseteq Nat /\ DOMAIN r \subseteq Nat /\ 0 \notin DOMAIN q /\ 0 \notin DOMAIN r

\* A queue that nobody touches.
LEMMA StaysMoves ==
  ASSUME NEW S, NEW q \in Seq(S)
  PROVE  Moves(q, q, 0, {})
<1>1. DOMAIN q = 1 .. Len(q) /\ Len(q) \in Nat
  OBVIOUS
<1>. QED
  BY <1>1 DEF Moves

\* The oldest message is taken.
LEMMA TailMoves ==
  ASSUME NEW S, NEW q \in Seq(S), q # <<>>
  PROVE  /\ Moves(q, Tail(q), 1, {}) /\ Tail(q) \in Seq(S)
         /\ 1 \in DOMAIN q /\ Head(q) = q[1] /\ q[1] \in S
<1>1. /\ DOMAIN q = 1 .. Len(q) /\ Len(q) \in Nat /\ Len(q) >= 1
      /\ Tail(q) \in Seq(S) /\ Len(Tail(q)) = Len(q) - 1 /\ DOMAIN Tail(q) = 1 .. Len(Tail(q))
      /\ Head(q) = q[1]
  OBVIOUS
<1>2. \A i \in 1 .. Len(Tail(q)) : i \in Int /\ i + 1 \in 1 .. Len(q) /\ Tail(q)[i] = q[i + 1]
  BY <1>1
<1>3. \A i \in 1 .. Len(q) : i > 1 => i - 1 \in 1 .. Len(Tail(q)) /\ (i - 1) + 1 = i
  BY <1>1
<1>4. \A i \in 1 .. Len(q) : i > 1 => Tail(q)[i - 1] = q[i]
  BY <1>2, <1>3
<1>5. Moves(q, Tail(q), 1, {})
  BY <1>1, <1>2, <1>3, <1>4 DEF Moves
<1>. QED
  BY <1>1, <1>5

\* Different messages are put at the end.
LEMMA ConcatMoves ==
  ASSUME NEW S, NEW q \in Seq(S), NEW s \in Seq(S), NEW N,
         \A i \in DOMAIN s : s[i] \in N,
         \A m \in N : \E i \in DOMAIN s : s[i] = m,
         \A i, j \in DOMAIN s : s[i] = s[j] => i = j
  PROVE  Moves(q, q \o s, 0, N) /\ q \o s \in Seq(S)
<1>1. /\ DOMAIN q = 1 .. Len(q) /\ Len(q) \in Nat /\ DOMAIN s = 1 .. Len(s) /\ Len(s) \in Nat
      /\ q \o s \in Seq(S) /\ Len(q \o s) = Len(q) + Len(s) /\ DOMAIN (q \o s) = 1 .. Len(q \o s)
  OBVIOUS
<1>2. /\ \A i \in 1 .. Len(q) : (q \o s)[i] = q[i] /\ i \in 1 .. Len(q \o s)
      /\ \A i \in 1 .. Len(q \o s) : i > Len(q) => i - Len(q) \in 1 .. Len(s) /\ (q \o s)[i] = s[i - Len(q)]
  BY <1>1
<1>3. \A i \in 1 .. Len(q \o s) : i \notin 1 .. Len(q) => i > Len(q)
  BY <1>1
<1>4. \A i, j \in 1 .. Len(q \o s) :
        i \notin 1 .. Len(q) /\ j \notin 1 .. Len(q) /\ (q \o s)[i] = (q \o s)[j] => i = j
  <2>. SUFFICES ASSUME NEW i \in 1 .. Len(q \o s), NEW j \in 1 .. Len(q \o s),
                       i \notin 1 .. Len(q), j \notin 1 .. Len(q), (q \o s)[i] = (q \o s)[j]
                PROVE  i = j
    OBVIOUS
  <2>1. /\ i - Len(q) \in DOMAIN s /\ (q \o s)[i] = s[i - Len(q)]
        /\ j - Len(q) \in DOMAIN s /\ (q \o s)[j] = s[j - Len(q)]
    BY <1>1, <1>2, <1>3
  <2>2. i - Len(q) = j - Len(q)
    BY <2>1
  <2>. QED
    BY <1>1, <2>2
<1>5. \A i \in 1 .. Len(s) : /\ i + Len(q) \in 1 .. Len(q \o s) /\ i + Len(q) \notin 1 .. Len(q)
                             /\ (q \o s)[i + Len(q)] = s[i]
  BY <1>1, <1>2
<1>6. \A m \in N : \E i \in 1 .. Len(q \o s) : (q \o s)[i] = m /\ i \notin 1 .. Len(q)
  BY <1>1, <1>5
<1>7. \A i \in 1 .. Len(q \o s) : \/ i \in 1 .. Len(q) /\ (q \o s)[i] = q[i]
                                  \/ (q \o s)[i] \in N /\ \A j \in 1 .. Len(q) : j < i
  BY <1>1, <1>2, <1>3
<1>8. \A i \in 1 .. Len(q \o s) : i + 0 = i /\ i - 0 = i
  BY <1>1
<1>9. \A i \in 1 .. Len(q) : i > 0 /\ i - 0 = i
  BY <1>1
<1>10. \A i \in 1 .. Len(q) : i > 0 => i - 0 \in 1 .. Len(q \o s) /\ (q \o s)[i - 0] = q[i]
  BY <1>2, <1>9
<1>11. \A i \in 1 .. Len(q \o s) : \/ i + 0 \in 1 .. Len(q) /\ (q \o s)[i] = q[i + 0]
                                   \/ (q \o s)[i] \in N /\ \A j \in 1 .. Len(q) : j < i + 0
  BY <1>7, <1>8
<1>12. \A i, j \in 1 .. Len(q \o s) :
         i + 0 \notin 1 .. Len(q) /\ j + 0 \notin 1 .. Len(q) /\ (q \o s)[i] = (q \o s)[j] => i = j
  BY <1>4, <1>8
<1>13. \A m \in N : \E i \in 1 .. Len(q \o s) : (q \o s)[i] = m /\ i + 0 \notin 1 .. Len(q)
  BY <1>6, <1>8
<1>14. 1 .. Len(q) \subseteq Nat /\ 1 .. Len(q \o s) \subseteq Nat /\ 0 \notin 1 .. Len(q) /\ 0 \notin 1 .. Len(q \o s)
  BY <1>1
<1>15. Moves(q, q \o s, 0, N)
  BY <1>1, <1>10, <1>11, <1>12, <1>13, <1>14, Zenon DEF Moves
<1>. QED
  BY <1>1, <1>15

\* A message is put at the end.
LEMMA AppendMoves ==
  ASSUME NEW S, NEW q \in Seq(S), NEW m \in S
  PROVE  Moves(q, Append(q, m), 0, {m}) /\ Append(q, m) \in Seq(S)
<1>. DEFINE s == <<m>>
<1>1. s \in Seq(S) /\ DOMAIN s = {1} /\ s[1] = m /\ Append(q, m) = q \o s
  BY AppendIsConcat
<1>. HIDE DEF s
<1>2. /\ \A i \in DOMAIN s : s[i] \in {m}
      /\ \A x \in {m} : \E i \in DOMAIN s : s[i] = x
      /\ \A i, j \in DOMAIN s : s[i] = s[j] => i = j
  BY <1>1
<1>3. Moves(q, q \o s, 0, {m}) /\ q \o s \in Seq(S)
  BY <1>1, <1>2, ConcatMoves
<1>. QED
  BY <1>1, <1>3

\* SetToSeq lists a finite set, each element once.
LEMMA SetToSeqLists ==
  ASSUME NEW S, IsFiniteSet(S)
  PROVE  /\ SetToSeq(S) \in Seq(S)
         /\ \A i \in DOMAIN SetToSeq(S) : SetToSeq(S)[i] \in S
         /\ \A m \in S : \E i \in DOMAIN SetToSeq(S) : SetToSeq(S)[i] = m
         /\ \A i, j \in DOMAIN SetToSeq(S) : SetToSeq(S)[i] = SetToSeq(S)[j] => i = j
<1>. DEFINE n == Cardinality(S)
<1>1. n \in Nat /\ ExistsBijection(1 .. n, S)
  BY FS_CardinalityType
<1>2. PICK b \in Bijection(1 .. n, S) : TRUE
  BY <1>1 DEF ExistsBijection
<1>3. b \in [1 .. n -> S] /\ IsInjective(b)
  BY <1>2 DEF Bijection, Injection
<1>4. SetToSeq(S) \in [1 .. n -> S] /\ IsInjective(SetToSeq(S))
  BY <1>3 DEF SetToSeq
<1>5. ExistsBijection(1 .. n, S) /\ SetToSeq(S) \in Injection(1 .. n, S)
  BY <1>1, <1>4 DEF Injection
<1>6. IsFiniteSet(1 .. n) /\ Cardinality(1 .. n) = n
  BY <1>1, FS_Interval
<1>7. SetToSeq(S) \in Surjection(1 .. n, S)
  BY <1>4, <1>5, <1>6, FS_Injection
<1>. HIDE DEF n
<1>8. DOMAIN SetToSeq(S) = 1 .. n /\ SetToSeq(S) \in Seq(S)
  BY <1>1, <1>4
<1>. QED
  BY <1>4, <1>7, <1>8 DEF IsInjective, Surjection
-----------------------------------------------------------------------------
(* Types. *)

\* What a message of the server carries.
LEMMA InboundFields ==
  ASSUME NEW m \in Inbound
  PROVE  /\ m.cmd = "welcome" => m.playing \subseteq Tables
         /\ m.cmd # "welcome" => m.tid \in Tables
         /\ m.cmd = "init" => m.replay \in BOOLEAN
         /\ m.cmd \in {"turn", "gameActionList"} => m.n \in Turns
         /\ m.cmd = "connected" => m.all \in BOOLEAN
BY DEF Inbound

\* What a message to the server carries.
LEMMA OutboundFields ==
  ASSUME NEW m \in Outbound
  PROVE  /\ m.tid \in Tables
         /\ m.cmd = "action" => m.turn \in Turns /\ m.sound \in BOOLEAN
BY DEF Outbound

\* Turns are the numbers from 0 to MaxTurns.
LEMMA TurnFields ==
  ASSUME BotClientAssumption
  PROVE  Turns \subseteq Int /\ 0 \in Turns /\ \A n \in Turns : 0 <= n /\ n <= MaxTurns
BY DEF BotClientAssumption, Turns

\* No Game has seen turn -1, and only that one; it counts as sound.
LEMMA GameFields ==
  ASSUME BotClientAssumption, NEW g \in Game \cup {NoGame}
  PROVE  /\ g.applied \in Int /\ g.sound \in BOOLEAN /\ g.catchup \in BOOLEAN /\ g.in_progress \in BOOLEAN
         /\ g = NoGame <=> g.applied = -1
         /\ g # NoGame => g \in Game /\ g.applied \in Turns /\ g.applied >= 0
         /\ g = NoGame => ~g.in_progress /\ g.sound
<1>1. NoGame.applied = -1 /\ NoGame.sound = TRUE /\ NoGame.catchup = TRUE /\ NoGame.in_progress = FALSE
  BY DEF NoGame
<1>2. CASE g = NoGame
  <2>1. g.applied = -1 /\ g.sound = TRUE /\ g.catchup = TRUE /\ g.in_progress = FALSE
    BY <1>1, <1>2
  <2>2. g.applied \in Int
    BY <2>1
  <2>3. g.sound /\ ~g.in_progress /\ g.sound \in BOOLEAN /\ g.catchup \in BOOLEAN /\ g.in_progress \in BOOLEAN
    BY <2>1, Zenon
  <2>. QED
    BY <1>2, <2>1, <2>2, <2>3, Zenon
<1>3. CASE g # NoGame
  <2>1. g \in Game
    BY <1>3
  <2>2. /\ g.applied \in Turns /\ g.sound \in BOOLEAN /\ g.catchup \in BOOLEAN /\ g.in_progress \in BOOLEAN
    BY <2>1 DEF Game
  <2>. QED
    BY <1>3, <2>1, <2>2, TurnFields
<1>. QED
  BY <1>2, <1>3

\* A Game that is not in progress is not changed by saying so.
LEMMA FlagAlreadyFalse ==
  ASSUME NEW h \in [applied : Int, sound : BOOLEAN, catchup : BOOLEAN, in_progress : BOOLEAN],
         h.in_progress = FALSE
  PROVE  [h EXCEPT !.in_progress = FALSE] = h
OBVIOUS

\* A handler takes the oldest message of the server.
LEMMA Received ==
  ASSUME TypeOK, NEW cmd, Receive(cmd)
  PROVE  /\ Moves(inbox, inbox', 1, {}) /\ inbox' \in Seq(Inbound)
         /\ 1 \in DOMAIN inbox /\ Head(inbox) = inbox[1] /\ inbox[1] \in Inbound /\ inbox[1].cmd = cmd
         /\ up /\ UNCHANGED <<up, drops, stage, turn, started, following, partner, away>>
BY TailMoves DEF TypeOK, Receive, serverVars

\* A request is put behind the others.
LEMMA Requested ==
  ASSUME TypeOK, NEW cmd \in {"tableReattend", "getGameInfo1", "getGameInfo2", "loaded", "tableUnattend"},
         NEW t \in Tables, Request(cmd, t)
  PROVE  Moves(outbox, outbox', 0, {[cmd |-> cmd, tid |-> t]}) /\ outbox' \in Seq(Outbound)
<1>1. [cmd |-> cmd, tid |-> t] \in Outbound
  BY DEF Outbound
<1>. QED
  BY <1>1, AppendMoves DEF TypeOK, Request

\* maybe_take_turn found the Game g and the flags at and ec, and posted nothing,
\* or a decision for the turn the Game is at, and took action_time_ back.
Posts(t, g, at, ec) ==
  /\ \A u \in Tables : u # t => action_time'[u] = action_time[u]
  /\ \/ Moves(jobs, jobs', 0, {}) /\ action_time'[t] = at
     \/ /\ g # NoGame /\ g.in_progress /\ ec /\ at /\ OurTurn(g.applied) /\ ~action_time'[t]
        /\ \E d : Moves(jobs, jobs', 0, {d}) /\ d.tid = t /\ d.turn = g.applied /\ d.sound = g.sound

\* maybe_take_turn keeps the types and does what Posts says.
LEMMA MaybeTakeTurn ==
  ASSUME BotClientAssumption, action_time \in [Tables -> BOOLEAN], jobs \in Seq(Job),
         NEW t \in Tables, NEW g \in Game \cup {NoGame}, NEW at, NEW ec,
         at \in BOOLEAN, ec \in BOOLEAN, maybe_take_turn(t, g, at, ec)
  PROVE  /\ jobs' \in Seq(Job) /\ action_time' \in [Tables -> BOOLEAN]
         /\ Posts(t, g, at, ec)
<1>. DEFINE decide == g # NoGame /\ ~g.catchup /\ g.in_progress /\ ec /\ at /\ OurTurn(g.applied)
            job == [tid |-> t, turn |-> g.applied, sound |-> g.sound]
<1>1. /\ jobs' = IF decide THEN Append(jobs, job) ELSE jobs
      /\ action_time' = [action_time EXCEPT ![t] = at /\ ~decide]
  BY DEF maybe_take_turn
<1>2. action_time \in [Tables -> BOOLEAN] /\ jobs \in Seq(Job)
  OBVIOUS
<1>3. /\ action_time' \in [Tables -> BOOLEAN] /\ action_time'[t] = (at /\ ~decide)
      /\ \A u \in Tables : u # t => action_time'[u] = action_time[u]
  BY <1>1, <1>2
<1>4. CASE decide
  <2>1. job \in Job
    BY <1>4, GameFields DEF Job
  <2>2. jobs' = Append(jobs, job)
    BY <1>1, <1>4
  <2>4. job.tid = t /\ job.turn = g.applied /\ job.sound = g.sound
    OBVIOUS
  <2>. HIDE DEF job
  <2>3. Moves(jobs, jobs', 0, {job}) /\ jobs' \in Seq(Job)
    BY <1>2, <2>1, <2>2, AppendMoves
  <2>. QED
    BY <1>3, <1>4, <2>3, <2>4 DEF Posts
<1>5. CASE ~decide
  <2>1. jobs' = jobs /\ Moves(jobs, jobs', 0, {})
    BY <1>1, <1>2, <1>5, StaysMoves
  <2>. QED
    BY <1>2, <1>3, <1>5, <2>1 DEF Posts
<1>. QED
  BY <1>4, <1>5

\* One reattend for each of finitely many tables.
LEMMA ReattendsFinite ==
  ASSUME NEW W, IsFiniteSet(W)
  PROVE  IsFiniteSet({[cmd |-> "tableReattend", tid |-> t] : t \in W})
<1>. DEFINE S == {[cmd |-> "tableReattend", tid |-> t] : t \in W}
            f == [t \in W |-> [cmd |-> "tableReattend", tid |-> t]]
<1>1. f \in Surjection(W, S)
  BY DEF Surjection
<1>. QED
  BY <1>1, FS_Surjection

\* What handle_action may make of a Game.
LEMMA AppliedGame ==
  ASSUME BotClientAssumption, NEW g \in Game \cup {NoGame}, NEW n \in Turns, NEW h \in Applied(g, n)
  PROVE  /\ h \in Game \cup {NoGame}
         /\ g = NoGame <=> h = NoGame
         /\ g # NoGame => h.in_progress = g.in_progress
         /\ g # NoGame /\ g.applied = n - 1 /\ g.sound => h.applied = n /\ h.sound
<1>1. CASE g = NoGame
  BY <1>1, GameFields DEF Applied
<1>2. CASE g # NoGame
  <2>. DEFINE x == [g EXCEPT !.applied = n, !.sound = @ /\ g.applied = n - 1]
              y == [g EXCEPT !.sound = FALSE]
  <2>1. h = x \/ (h = y /\ ~(g.applied = n - 1 /\ g.sound))
    BY <1>2 DEF Applied
  <2>2. g \in Game /\ g.sound \in BOOLEAN
    BY <1>2, GameFields
  <2>3. /\ x \in Game /\ x.applied = n /\ x.sound = (g.sound /\ g.applied = n - 1)
        /\ x.in_progress = g.in_progress
    BY <2>2 DEF Game
  <2>4. y \in Game /\ y.in_progress = g.in_progress
    BY <2>2 DEF Game
  <2>5. NoGame \notin Game
    BY TurnFields DEF NoGame, Game
  <2>. HIDE DEF x, y
  <2>. QED
    BY <1>2, <2>1, <2>2, <2>3, <2>4, <2>5
<1>. QED
  BY <1>1, <1>2

\* A server that reached us would fill a queue that the type says is empty.
NobodyFollowed == ~up => following = {}

\* Every step keeps the types.
LEMMA TypeStep ==
  ASSUME BotClientAssumption, TypeOK, NobodyFollowed, [Next]_vars
  PROVE  TypeOK' /\ NobodyFollowed'
<1>. USE DEF TypeOK, NobodyFollowed
<1>0. CASE UNCHANGED vars
  BY <1>0 DEF vars, clientVars, linkVars, serverVars
<1>1. CASE OnWelcome
  <2>1. Receive("welcome")
    BY <1>1 DEF OnWelcome
  <2>. DEFINE S == {[cmd |-> "tableReattend", tid |-> t] : t \in Head(inbox).playing}
  <2>2. Head(inbox).playing \subseteq Tables
    BY <2>1, Received, InboundFields
  <2>3. IsFiniteSet(S)
    <3>1. IsFiniteSet(Head(inbox).playing)
      BY <2>2, FS_Subset DEF BotClientAssumption
    <3>. QED
      BY <3>1, ReattendsFinite
  <2>4. S \subseteq Outbound
    BY <2>2 DEF Outbound
  <2>5. outbox' = outbox \o SetToSeq(S) /\ UNCHANGED clientVars
    BY <1>1 DEF OnWelcome
  <2>. HIDE DEF S
  <2>6. SetToSeq(S) \in Seq(Outbound)
    BY <2>3, <2>4, SetToSeqLists, SeqMonotonic
  <2>7. /\ up /\ inbox' \in Seq(Inbound)
        /\ UNCHANGED <<up, drops, stage, turn, started, following, partner, away>>
    <3>. HIDE DEF TypeOK, NobodyFollowed
    <3>. QED
      BY <2>1, Received
  <2>8. outbox' \in Seq(Outbound)
    BY <2>5, <2>6
  <2>. QED
    BY <2>5, <2>7, <2>8 DEF clientVars
<1>2. CASE OnTableStart
  <2>1. Receive("tableStart") /\ Request("getGameInfo1", Head(inbox).tid) /\ UNCHANGED clientVars
    BY <1>2 DEF OnTableStart
  <2>2. /\ Head(inbox) = inbox[1] /\ inbox[1] \in Inbound /\ inbox[1].cmd = "tableStart"
        /\ up /\ inbox' \in Seq(Inbound)
        /\ UNCHANGED <<up, drops, stage, turn, started, following, partner, away>>
    <3>. HIDE DEF TypeOK, NobodyFollowed
    <3>. QED
      BY <2>1, Received
  <2>3. Head(inbox).tid \in Tables
    BY <2>2, InboundFields
  <2>4. outbox' \in Seq(Outbound)
    BY <2>1, <2>3, Requested
  <2>. QED
    BY <2>1, <2>2, <2>4 DEF clientVars
<1>3. CASE OnInit
  <2>1. Receive("init") /\ UNCHANGED jobs
    BY <1>3 DEF OnInit
  <2>. DEFINE t == inbox[1].tid
              r == inbox[1].replay
              g == [applied |-> 0, sound |-> TRUE, catchup |-> TRUE, in_progress |-> ~r]
  <2>2. Head(inbox) = inbox[1] /\ t \in Tables /\ r \in BOOLEAN
    <3>1. Head(inbox) = inbox[1] /\ inbox[1] \in Inbound /\ inbox[1].cmd = "init"
      BY <2>1, Received
    <3>. QED
      BY <3>1, InboundFields
  <2>3. g \in Game
    BY <2>2, TurnFields DEF Game
  <2>4. /\ games' = [games EXCEPT ![t] = g]
        /\ games_in_progress' = (IF r THEN games_in_progress ELSE games_in_progress \cup {t})
        /\ action_time' = [action_time EXCEPT ![t] = FALSE]
        /\ everyone_connected' = [everyone_connected EXCEPT ![t] = FALSE]
        /\ game_loggers' = game_loggers \cup {t}
        /\ Request("getGameInfo2", t)
    BY <1>3, <2>2 DEF OnInit
  <2>. HIDE DEF t, r, g
  <2>5. outbox' \in Seq(Outbound)
    BY <2>2, <2>4, Requested
  <2>. QED
    BY <2>1, <2>2, <2>3, <2>4, <2>5, Received
<1>4. CASE OnTurn
  <2>1. Receive("turn")
    BY <1>4 DEF OnTurn
  <2>. DEFINE t == inbox[1].tid
              n == inbox[1].n
  <2>2. Head(inbox) = inbox[1] /\ t \in Tables /\ n \in Turns
    <3>1. Head(inbox) = inbox[1] /\ inbox[1] \in Inbound /\ inbox[1].cmd \in {"turn", "gameActionList"}
      BY <2>1, Received
    <3>. QED
      BY <3>1, InboundFields
  <2>3. PICK g \in Applied(games[t], n) :
           /\ games' = [games EXCEPT ![t] = g]
           /\ maybe_take_turn(t, g, IF g.applied = n THEN OurTurn(n) ELSE action_time[t],
                              everyone_connected[t])
    BY <1>4, <2>2 DEF OnTurn
  <2>4. UNCHANGED <<games_in_progress, everyone_connected, game_loggers, outbox>>
    BY <1>4 DEF OnTurn
  <2>. DEFINE at == IF g.applied = n THEN OurTurn(n) ELSE action_time[t]
              ec == everyone_connected[t]
  <2>. HIDE DEF t, n
  <2>5. g \in Game \cup {NoGame} /\ ec \in BOOLEAN /\ at \in BOOLEAN
    BY <2>2, AppliedGame DEF OurTurn
  <2>7. maybe_take_turn(t, g, at, ec)
    BY <2>3
  <2>. HIDE DEF at, ec
  <2>6. jobs' \in Seq(Job) /\ action_time' \in [Tables -> BOOLEAN]
    <3>1. jobs \in Seq(Job) /\ action_time \in [Tables -> BOOLEAN]
      OBVIOUS
    <3>. HIDE DEF TypeOK, NobodyFollowed
    <3>. QED
      BY <2>2, <2>5, <2>7, <3>1, MaybeTakeTurn
  <2>. QED
    BY <2>1, <2>2, <2>3, <2>4, <2>5, <2>6, Received
<1>5. CASE OnGameActionList
  <2>1. Receive("gameActionList")
    BY <1>5 DEF OnGameActionList
  <2>. DEFINE t == inbox[1].tid
              n == inbox[1].n
              g == [games[t] EXCEPT !.applied = n, !.sound = @ /\ games[t].applied = 0, !.catchup = FALSE]
  <2>2. Head(inbox) = inbox[1] /\ t \in Tables /\ n \in Turns
    BY <2>1, Received, InboundFields
  <2>3. /\ Request("loaded", t)
        /\ IF games[t] = NoGame THEN UNCHANGED <<games, jobs, action_time>>
           ELSE /\ games' = [games EXCEPT ![t] = g]
                /\ maybe_take_turn(t, g, OurTurn(n), everyone_connected[t])
        /\ UNCHANGED <<games_in_progress, everyone_connected, game_loggers>>
    BY <1>5, <2>2 DEF OnGameActionList
  <2>. HIDE DEF t, n
  <2>4. outbox' \in Seq(Outbound)
    BY <2>2, <2>3, Requested
  <2>7. /\ up /\ inbox' \in Seq(Inbound)
        /\ UNCHANGED <<up, drops, stage, turn, started, following, partner, away>>
    <3>. HIDE DEF TypeOK, NobodyFollowed
    <3>. QED
      BY <2>1, Received
  <2>5. CASE games[t] = NoGame
    <3>1. UNCHANGED <<games, games_in_progress, action_time, everyone_connected, game_loggers, jobs>>
      BY <2>3, <2>5
    <3>. QED
      BY <2>4, <2>7, <3>1
  <2>6. CASE games[t] # NoGame
    <3>1. g \in Game
      <4>1. games[t] \in Game
        BY <2>2, <2>6
      <4>2. n \in Turns
        BY <2>2
      <4>. HIDE DEF TypeOK, NobodyFollowed
      <4>. QED
        BY <4>1, <4>2 DEF Game
    <3>. DEFINE at == OurTurn(n)
                ec == everyone_connected[t]
    <3>2. ec \in BOOLEAN /\ at \in BOOLEAN /\ maybe_take_turn(t, g, at, ec)
      BY <2>2, <2>3, <2>6 DEF OurTurn
    <3>. HIDE DEF g, at, ec
    <3>3. jobs' \in Seq(Job) /\ action_time' \in [Tables -> BOOLEAN]
      <4>1. jobs \in Seq(Job) /\ action_time \in [Tables -> BOOLEAN]
        OBVIOUS
      <4>. HIDE DEF TypeOK, NobodyFollowed
      <4>. QED
        BY <2>2, <3>1, <3>2, <4>1, MaybeTakeTurn
    <3>. QED
      BY <2>1, <2>2, <2>3, <2>4, <2>6, <3>1, <3>3, Received
  <2>. QED
    BY <2>5, <2>6
<1>6. CASE OnConnected
  <2>1. Receive("connected")
    BY <1>6 DEF OnConnected
  <2>. DEFINE t == inbox[1].tid
              a == inbox[1].all
  <2>2. Head(inbox) = inbox[1] /\ t \in Tables /\ a \in BOOLEAN
    <3>. HIDE DEF TypeOK, NobodyFollowed, t, a
    <3>1. Head(inbox) = inbox[1] /\ inbox[1] \in Inbound /\ inbox[1].cmd = "connected"
      BY <2>1, Received
    <3>. QED
      BY <3>1, InboundFields DEF t, a
  <2>3. /\ everyone_connected' = [everyone_connected EXCEPT ![t] = a]
        /\ maybe_take_turn(t, games[t], action_time[t], a)
        /\ UNCHANGED <<games, games_in_progress, game_loggers, outbox>>
    BY <1>6, <2>2 DEF OnConnected
  <2>. DEFINE at == action_time[t]
              g == games[t]
  <2>. HIDE DEF t, a
  <2>5. g \in Game \cup {NoGame} /\ at \in BOOLEAN /\ maybe_take_turn(t, g, at, a)
    BY <2>2, <2>3
  <2>. HIDE DEF at, g
  <2>4. jobs' \in Seq(Job) /\ action_time' \in [Tables -> BOOLEAN]
    <3>1. jobs \in Seq(Job) /\ action_time \in [Tables -> BOOLEAN]
      OBVIOUS
    <3>. HIDE DEF TypeOK, NobodyFollowed
    <3>. QED
      BY <2>2, <2>5, <3>1, MaybeTakeTurn
  <2>. QED
    BY <2>1, <2>2, <2>3, <2>4, Received
<1>7. CASE OnGameOver
  <2>1. Receive("gameOver")
    BY <1>7 DEF OnGameOver
  <2>. DEFINE t == inbox[1].tid
              finish == games[t] # NoGame /\ t \in games_in_progress
              g == IF finish THEN NoGame ELSE [games[t] EXCEPT !.in_progress = FALSE]
  <2>2. Head(inbox) = inbox[1] /\ t \in Tables
    <3>. HIDE DEF TypeOK, NobodyFollowed, t
    <3>1. Head(inbox) = inbox[1] /\ inbox[1] \in Inbound /\ inbox[1].cmd = "gameOver"
      BY <2>1, Received
    <3>. QED
      BY <3>1, InboundFields DEF t
  <2>3. /\ games' = [games EXCEPT ![t] = g]
        /\ games_in_progress' = (IF finish THEN games_in_progress \ {t} ELSE games_in_progress)
        /\ IF finish /\ disconnect_on_game_end THEN Request("tableUnattend", t) ELSE UNCHANGED outbox
        /\ UNCHANGED <<action_time, everyone_connected, game_loggers, jobs>>
    BY <1>7, <2>2 DEF OnGameOver
  <2>. HIDE DEF t
  <2>4. g \in Game \cup {NoGame}
    <3>1. games[t] \in Game \cup {NoGame}
      BY <2>2
    <3>2. [NoGame EXCEPT !.in_progress = FALSE] = NoGame
      <4>1. /\ NoGame \in [applied : Int, sound : BOOLEAN, catchup : BOOLEAN, in_progress : BOOLEAN]
            /\ NoGame.in_progress = FALSE
        BY DEF NoGame
      <4>. QED
        BY <4>1, FlagAlreadyFalse
    <3>3. \A h \in Game : [h EXCEPT !.in_progress = FALSE] \in Game
      BY DEF Game
    <3>. HIDE DEF TypeOK
    <3>. QED
      BY <3>1, <3>2, <3>3
  <2>. HIDE DEF g, finish
  <2>5. outbox' \in Seq(Outbound)
    BY <2>2, <2>3, Requested
  <2>. QED
    BY <2>1, <2>2, <2>3, <2>4, <2>5, Received
<1>8. CASE OnTableGone
  BY <1>8, Received, InboundFields DEF OnTableGone
<1>9. CASE OnDatabaseId
  BY <1>9, Received, InboundFields DEF OnDatabaseId
<1>10. CASE JobDone
  <2>. DEFINE m == [cmd |-> "action", tid |-> Head(jobs).tid, turn |-> Head(jobs).turn,
                    sound |-> Head(jobs).sound]
  <2>1. jobs' = Tail(jobs) /\ jobs' \in Seq(Job) /\ Head(jobs) \in Job
    BY <1>10, TailMoves DEF JobDone
  <2>2. m \in Outbound
    BY <2>1 DEF Job, Outbound
  <2>3. outbox' = IF up THEN Append(outbox, m) ELSE outbox
    BY <1>10 DEF JobDone
  <2>. HIDE DEF m
  <2>4. outbox' \in Seq(Outbound)
    BY <2>2, <2>3
  <2>. QED
    BY <1>10, <2>1, <2>3, <2>4 DEF JobDone, serverVars
<1>11. CASE JobThrows
  BY <1>11, TailMoves DEF JobThrows, linkVars, serverVars
<1>12. CASE Lose
  <2>1. UNCHANGED <<clientVars, stage, turn, started, partner, away>>
        /\ up' = FALSE /\ inbox' = <<>> /\ outbox' = <<>> /\ following' = {}
    BY <1>12 DEF Lose
  <2>2. drops' \in 0 .. MaxDrops
    BY <1>12 DEF Lose, BotClientAssumption
  <2>3. inbox' \in Seq(Inbound) /\ outbox' \in Seq(Outbound)
    BY <2>1
  <2>. QED
    BY <2>1, <2>2, <2>3 DEF clientVars
<1>13. CASE Reconnect
  <2>. DEFINE m == [cmd |-> "welcome", playing |-> {t \in Tables : stage[t] = "running"}]
  <2>1. m \in Inbound
    BY DEF Inbound
  <2>2. up' = TRUE /\ inbox' = <<m>> /\ UNCHANGED <<clientVars, outbox, drops, serverVars>>
    BY <1>13 DEF Reconnect
  <2>. HIDE DEF m
  <2>3. inbox' \in Seq(Inbound)
    BY <2>1, <2>2
  <2>. QED
    BY <2>2, <2>3 DEF clientVars, serverVars
<1>14. CASE Serve
  <2>. DEFINE t == Head(outbox).tid
              cmd == Head(outbox).cmd
              live == stage[t] \in {"running", "replay"}
  <2>1. Head(outbox) \in Outbound /\ outbox' = Tail(outbox) /\ outbox' \in Seq(Outbound) /\ up
    BY <1>14, TailMoves DEF Serve
  <2>2. t \in Tables /\ turn[t] \in Turns
    BY <2>1, OutboundFields
  <2>3. inbox' =
              CASE cmd = "tableReattend" /\ live -> Append(inbox, [cmd |-> "tableStart", tid |-> t])
                [] cmd = "getGameInfo1" /\ live ->
                     Append(inbox, [cmd |-> "init", tid |-> t, replay |-> stage[t] = "replay"])
                [] cmd = "getGameInfo2" /\ live ->
                     Append(inbox, [cmd |-> "gameActionList", tid |-> t, n |-> turn[t]])
                [] cmd = "loaded" /\ live ->
                     Append(inbox, [cmd |-> "connected", tid |-> t, all |-> t \in partner])
                [] OTHER -> inbox
    BY <1>14 DEF Serve
  <2>4. /\ [cmd |-> "tableStart", tid |-> t] \in Inbound
        /\ [cmd |-> "init", tid |-> t, replay |-> stage[t] = "replay"] \in Inbound
        /\ [cmd |-> "gameActionList", tid |-> t, n |-> turn[t]] \in Inbound
        /\ [cmd |-> "connected", tid |-> t, all |-> t \in partner] \in Inbound
    BY <2>2 DEF Inbound
  <2>5. following' \subseteq Tables /\ started' \subseteq Tables
    BY <1>14, <2>2 DEF Serve
  <2>6. UNCHANGED <<clientVars, up, drops, stage, turn, partner, away>>
    BY <1>14 DEF Serve
  <2>. HIDE DEF t, cmd, live
  <2>7. inbox' \in Seq(Inbound)
    BY <2>3, <2>4
  <2>. QED
    BY <2>1, <2>5, <2>6, <2>7 DEF clientVars
<1>15. CASE Act
  <2>. DEFINE t == Head(outbox).tid
              m == [cmd |-> "turn", tid |-> t, n |-> turn[t] + 1]
  <2>1. Head(outbox) \in Outbound /\ outbox' = Tail(outbox) /\ outbox' \in Seq(Outbound) /\ up
        /\ UNCHANGED <<clientVars, up, drops, stage, started, following, partner, away>>
    BY <1>15, TailMoves DEF Act
  <2>2. t \in Tables /\ turn[t] \in Turns
    BY <2>1, OutboundFields
  <2>3. \/ turn[t] < MaxTurns /\ turn' = [turn EXCEPT ![t] = @ + 1] /\ Tell(t, m)
        \/ UNCHANGED <<turn, inbox>>
    BY <1>15 DEF Act
  <2>. HIDE DEF t, m
  <2>4. CASE turn[t] < MaxTurns /\ turn' = [turn EXCEPT ![t] = @ + 1] /\ Tell(t, m)
    <3>1. turn[t] + 1 \in Turns /\ turn' \in [Tables -> Turns]
      BY <2>2, <2>4 DEF Turns, BotClientAssumption
    <3>2. m \in Inbound
      BY <2>2, <3>1 DEF m, Inbound
    <3>3. inbox' \in Seq(Inbound)
      BY <2>4, <3>2 DEF Tell
    <3>. QED
      BY <2>1, <3>1, <3>3 DEF clientVars
  <2>5. CASE UNCHANGED <<turn, inbox>>
    BY <2>1, <2>5 DEF clientVars
  <2>. QED
    BY <2>3, <2>4, <2>5
<1>16. ASSUME NEW t \in Tables, StartGame(t)
       PROVE  TypeOK' /\ NobodyFollowed'
  <2>. DEFINE m == [cmd |-> "tableStart", tid |-> t]
  <2>1. m \in Inbound
    BY DEF Inbound
  <2>2. /\ stage' = [stage EXCEPT ![t] = "running"] /\ following' = following \cup {t}
        /\ inbox' = Append(inbox, m) /\ up
        /\ UNCHANGED <<clientVars, up, outbox, drops, turn, started, partner, away>>
    BY <1>16 DEF StartGame
  <2>. HIDE DEF m
  <2>3. inbox' \in Seq(Inbound)
    BY <2>1, <2>2
  <2>. QED
    BY <2>2, <2>3 DEF clientVars
<1>17. ASSUME NEW t \in Tables, PartnerActs(t)
       PROVE  TypeOK' /\ NobodyFollowed'
  <2>. DEFINE m == [cmd |-> "turn", tid |-> t, n |-> turn[t] + 1]
  <2>1. /\ turn[t] < MaxTurns /\ turn' = [turn EXCEPT ![t] = @ + 1] /\ Tell(t, m)
        /\ UNCHANGED <<clientVars, up, outbox, drops, stage, started, following, partner, away>>
    BY <1>17 DEF PartnerActs
  <2>2. turn[t] + 1 \in Turns /\ turn' \in [Tables -> Turns]
    BY <2>1 DEF Turns, BotClientAssumption
  <2>3. m \in Inbound
    BY <2>2 DEF Inbound
  <2>. HIDE DEF m
  <2>4. inbox' \in Seq(Inbound)
    BY <2>1, <2>3 DEF Tell
  <2>. QED
    BY <1>17, <2>1, <2>2, <2>4 DEF clientVars, Tell
<1>18. ASSUME NEW t \in Tables, PartnerComesOrGoes(t)
       PROVE  TypeOK' /\ NobodyFollowed'
  <2>. DEFINE m == [cmd |-> "connected", tid |-> t, all |-> t \notin partner]
  <2>1. m \in Inbound
    BY DEF Inbound
  <2>2. /\ away < MaxAway /\ away' = away + 1 /\ Tell(t, m)
        /\ partner' = IF t \in partner THEN partner \ {t} ELSE partner \cup {t}
        /\ UNCHANGED <<clientVars, up, outbox, drops, stage, turn, started, following>>
    BY <1>18 DEF PartnerComesOrGoes
  <2>. HIDE DEF m
  <2>3. inbox' \in Seq(Inbound) /\ partner' \subseteq Tables /\ away' \in 0 .. MaxAway
    BY <2>1, <2>2 DEF Tell, BotClientAssumption
  <2>. QED
    BY <2>2, <2>3 DEF clientVars, Tell
<1>19. ASSUME NEW t \in Tables, EndGame(t)
       PROVE  TypeOK' /\ NobodyFollowed'
  <2>. DEFINE s == <<[cmd |-> "gameOver", tid |-> t], [cmd |-> "tableGone", tid |-> t],
                     [cmd |-> "finishOngoingGame", tid |-> t]>>
  <2>1. s \in Seq(Inbound)
    BY DEF Inbound
  <2>2. /\ stage' = [stage EXCEPT ![t] = "over"]
        /\ inbox' = IF t \in following THEN inbox \o s ELSE inbox
        /\ UNCHANGED <<clientVars, up, outbox, drops, turn, started, following, partner, away>>
    BY <1>19 DEF EndGame
  <2>. HIDE DEF s
  <2>3. inbox' \in Seq(Inbound)
    BY <2>1, <2>2
  <2>. QED
    BY <2>2, <2>3 DEF clientVars
<1>20. ASSUME NEW t \in Tables, OpenReplay(t)
       PROVE  TypeOK' /\ NobodyFollowed'
  <2>. DEFINE m == [cmd |-> "tableStart", tid |-> t]
  <2>1. m \in Inbound
    BY DEF Inbound
  <2>2. /\ stage' = [stage EXCEPT ![t] = "replay"] /\ Tell(t, m)
        /\ UNCHANGED <<clientVars, up, outbox, drops, turn, started, following, partner, away>>
    BY <1>20 DEF OpenReplay
  <2>. HIDE DEF m
  <2>3. inbox' \in Seq(Inbound)
    BY <2>1, <2>2 DEF Tell
  <2>. QED
    BY <2>2, <2>3 DEF clientVars, Tell
<1>21. ASSUME NEW t \in Tables, CloseReplay(t)
       PROVE  TypeOK' /\ NobodyFollowed'
  <2>. DEFINE m == [cmd |-> "tableGone", tid |-> t]
  <2>1. m \in Inbound
    BY DEF Inbound
  <2>2. /\ stage' = [stage EXCEPT ![t] = "gone"] /\ Tell(t, m)
        /\ UNCHANGED <<clientVars, up, outbox, drops, turn, started, following, partner, away>>
    BY <1>21 DEF CloseReplay
  <2>. HIDE DEF m
  <2>3. inbox' \in Seq(Inbound)
    BY <2>1, <2>2 DEF Tell
  <2>. QED
    BY <2>2, <2>3 DEF clientVars, Tell
<1>. QED
  BY <1>0, <1>1, <1>2, <1>3, <1>4, <1>5, <1>6, <1>7, <1>8, <1>9, <1>10, <1>11, <1>12, <1>13,
     <1>14, <1>15, <1>16, <1>17, <1>18, <1>19, <1>20, <1>21 DEF Next, Handle, Quiet

\* The types hold at the start.
LEMMA TypeInit == Init => TypeOK /\ NobodyFollowed
BY BotClientAssumption, TurnFields DEF Init, TypeOK, NobodyFollowed, BotClientAssumption

\* Every map, flag and message of the client, the link and the server keeps its
\* type, and a link that is down holds nothing for the next one.
THEOREM TypesHold == Spec => []TypeOK
<1>1. Init => TypeOK /\ NobodyFollowed
  BY TypeInit
<1>2. TypeOK /\ NobodyFollowed /\ [Next]_vars => TypeOK' /\ NobodyFollowed'
  BY BotClientAssumption, TypeStep
<1>. QED
  BY <1>1, <1>2, PTL DEF Spec
-----------------------------------------------------------------------------
(* The messages of one table. *)

\* A message that brings turns carries a natural number.
LEMMA CountTypes ==
  ASSUME BotClientAssumption, NEW q \in Seq(Inbound), NEW t
  PROVE  \A i \in DOMAIN q : Counts(q[i], t) => q[i].n \in Int /\ q[i].n >= 0
<1>. SUFFICES ASSUME NEW i \in DOMAIN q, Counts(q[i], t)
              PROVE  q[i].n \in Int /\ q[i].n >= 0
  OBVIOUS
<1>1. q[i] \in Inbound
  OBVIOUS
<1>2. q[i].n \in Turns
  BY <1>1, InboundFields DEF Counts
<1>. QED
  BY <1>2, TurnFields

\* The numbers of a table are integers, before a step and after it.
LEMMA TableTypes ==
  ASSUME BotClientAssumption, TypeOK, TypeOK', NEW t \in Tables
  PROVE  /\ games[t].applied \in Int /\ games[t].applied >= -1 /\ turn[t] \in Int /\ turn[t] >= 0
         /\ games[t] = NoGame <=> games[t].applied = -1
         /\ games'[t].applied \in Int /\ games'[t].applied >= -1 /\ turn'[t] \in Int
         /\ games'[t] = NoGame <=> games'[t].applied = -1
         /\ \A i \in DOMAIN inbox : Counts(inbox[i], t) => inbox[i].n \in Int /\ inbox[i].n >= 0
         /\ \A i \in DOMAIN inbox' : Counts(inbox'[i], t) => inbox'[i].n \in Int /\ inbox'[i].n >= 0
<1>1. /\ games[t] \in Game \cup {NoGame} /\ games'[t] \in Game \cup {NoGame}
      /\ turn[t] \in Turns /\ turn'[t] \in Turns /\ inbox \in Seq(Inbound) /\ inbox' \in Seq(Inbound)
  BY DEF TypeOK
<1>2. /\ games[t].applied \in Int /\ games'[t].applied \in Int
      /\ games[t] = NoGame <=> games[t].applied = -1
      /\ games'[t] = NoGame <=> games'[t].applied = -1
      /\ games[t] # NoGame => games[t].applied >= 0
      /\ games'[t] # NoGame => games'[t].applied >= 0
  BY <1>1, GameFields
<1>3. /\ \A i \in DOMAIN inbox : Counts(inbox[i], t) => inbox[i].n \in Int /\ inbox[i].n >= 0
      /\ \A i \in DOMAIN inbox' : Counts(inbox'[i], t) => inbox'[i].n \in Int /\ inbox'[i].n >= 0
  BY <1>1, CountTypes
<1>. QED
  BY <1>1, <1>2, <1>3, TurnFields

\* A step that neither opens the table nor brings it turns.
LEMMA QuietMail ==
  ASSUME BotClientAssumption, TypeOK, TypeOK', NEW t \in Tables,
         NEW k \in {0, 1}, NEW N, NEW l \in {0, 1}, NEW P,
         Moves(inbox, inbox', k, N), Moves(outbox, outbox', l, P),
         \A m \in N : ~Opens(m, t) /\ ~Counts(m, t) /\ (Ends(m, t) => stage'[t] # "lobby"),
         \A m \in P : ~Asks(m, t) /\ ~Is(m, "loaded", t),
         k = 1 => ~Counts(inbox[1], t),
         \/ stage'[t] = stage[t]
         \/ stage[t] = "running" /\ stage'[t] = "over" /\ t \in started
         \/ stage'[t] = "gone",
         t \in started' <=> t \in started,
         turn'[t] = turn[t],
         t \in following' /\ t \notin following => stage[t] # "running" /\ ~Opening(t)',
         \/ games'[t] = games[t] \/ games'[t] = NoGame
         \/ games[t] # NoGame /\ games'[t] # NoGame /\ games'[t].applied = games[t].applied,
         MailInv(t)
  PROVE  MailInv(t)'
<1>1. /\ \A i \in DOMAIN inbox' : Opens(inbox'[i], t) \/ Counts(inbox'[i], t)
           => i + k \in DOMAIN inbox /\ inbox'[i] = inbox[i + k]
      /\ \A i \in DOMAIN outbox' : Asks(outbox'[i], t) \/ Is(outbox'[i], "loaded", t)
           => i + l \in DOMAIN outbox /\ outbox'[i] = outbox[i + l]
      /\ \A i \in DOMAIN inbox : Counts(inbox[i], t) => i - k \in DOMAIN inbox' /\ inbox'[i - k] = inbox[i]
      /\ DOMAIN inbox \subseteq Int /\ DOMAIN inbox' \subseteq Int
      /\ DOMAIN outbox \subseteq Int /\ DOMAIN outbox' \subseteq Int
  BY DEF Moves
<1>2. Opening(t)' => Opening(t)
  BY <1>1 DEF Opening
<1>3. OneOpening(t)'
  BY <1>1 DEF MailInv, OneOpening
<1>4. OpeningAlone(t)'
  BY <1>2 DEF MailInv, OpeningAlone
<1>5. OpeningLast(t)'
  BY <1>1 DEF MailInv, OpeningLast
<1>6. LoadedLast(t)'
  BY <1>1, <1>2 DEF MailInv, LoadedLast, Is, Counts
<1>7. Untouched(t)'
  BY <1>1 DEF MailInv, Untouched, Moves
<1>8. CountsRise(t)'
  BY <1>1, TableTypes DEF MailInv, CountsRise, Is, Counts
<1>9. CountsFollow(t)'
  BY <1>1, TableTypes DEF MailInv, CountsFollow, Is, Counts, Asks, Blank
<1>10. UpToDate(t)'
  BY <1>1, TableTypes DEF MailInv, UpToDate
<1>. QED
  BY <1>3, <1>4, <1>5, <1>6, <1>7, <1>8, <1>9, <1>10 DEF MailInv

\* The oldest message opens the table: its handler asks for what comes next, and
\* on_init sets up a fresh Game.
LEMMA OpeningHandled ==
  ASSUME BotClientAssumption, TypeOK, TypeOK', NEW t \in Tables, NEW P,
         Moves(inbox, inbox', 1, {}), Moves(outbox, outbox', 0, P),
         1 \in DOMAIN inbox, Opens(inbox[1], t),
         \A m, n \in P : Asks(m, t) /\ Asks(n, t) => m = n,
         \A m \in P : ~Is(m, "loaded", t) /\ (Is(m, "getGameInfo2", t) => Blank(t)'),
         UNCHANGED <<stage, started, turn, following>>,
         games'[t] = games[t] \/ games'[t].applied = 0,
         MailInv(t)
  PROVE  MailInv(t)'
<1>1. /\ \A i \in DOMAIN inbox' : i \in Int /\ i > 0 /\ i + 1 \in DOMAIN inbox /\ inbox'[i] = inbox[i + 1]
      /\ \A i \in DOMAIN outbox' : \/ i \in DOMAIN outbox /\ outbox'[i] = outbox[i]
                                   \/ outbox'[i] \in P /\ i \notin DOMAIN outbox
      /\ \A i, j \in DOMAIN outbox' :
           i \notin DOMAIN outbox /\ j \notin DOMAIN outbox /\ outbox'[i] = outbox'[j] => i = j
      /\ DOMAIN outbox' \subseteq Int /\ DOMAIN inbox \subseteq Int
  BY DEF Moves
<1>2. /\ Opening(t)
      /\ \A i \in DOMAIN inbox' : ~Opens(inbox'[i], t) /\ ~Counts(inbox'[i], t)
      /\ \A i \in DOMAIN outbox : ~Asks(outbox[i], t)
  <2>1. Opening(t) /\ \A i \in DOMAIN outbox : ~Asks(outbox[i], t)
    BY DEF MailInv, Opening, OneOpening
  <2>2. \A i \in DOMAIN inbox' : ~Opens(inbox'[i], t)
    BY <1>1 DEF MailInv, OneOpening
  <2>3. \A i \in DOMAIN inbox' : ~Counts(inbox'[i], t)
    BY <1>1 DEF MailInv, OpeningLast
  <2>. QED
    BY <2>1, <2>2, <2>3
<1>3. OneOpening(t)'
  <2>1. \A i \in DOMAIN outbox' : Asks(outbox'[i], t) => i \notin DOMAIN outbox /\ outbox'[i] \in P
    BY <1>1, <1>2
  <2>2. \A i, j \in DOMAIN outbox' : Asks(outbox'[i], t) /\ Asks(outbox'[j], t) => i = j
    <3>. SUFFICES ASSUME NEW i \in DOMAIN outbox', NEW j \in DOMAIN outbox',
                         Asks(outbox'[i], t), Asks(outbox'[j], t)
                  PROVE  i = j
      OBVIOUS
    <3>1. outbox'[i] = outbox'[j]
      BY <2>1
    <3>. QED
      BY <1>1, <2>1, <3>1
  <2>. QED
    BY <1>2, <2>2 DEF OneOpening
<1>4. OpeningAlone(t)'
  BY <1>2 DEF MailInv, OpeningAlone
<1>5. OpeningLast(t)'
  BY <1>2 DEF OpeningLast
<1>6. LoadedLast(t)'
  BY <1>1, <1>2 DEF MailInv, LoadedLast, Is, Counts
<1>7. Untouched(t)'
  BY <1>2 DEF MailInv, Untouched, OpeningAlone
<1>8. CountsRise(t)'
  BY <1>2, TableTypes DEF MailInv, CountsRise, Is, Counts
<1>9. CountsFollow(t)'
  BY <1>1, <1>2 DEF CountsFollow, Is, Counts, Asks
<1>10. UpToDate(t)'
  BY <1>2 DEF MailInv, UpToDate, OpeningAlone
<1>. QED
  BY <1>3, <1>4, <1>5, <1>6, <1>7, <1>8, <1>9, <1>10 DEF MailInv

\* The server opens the table: in answer to the request on the way to it, at the
\* start of the game, or for its replay.
LEMMA OpeningSent ==
  ASSUME BotClientAssumption, TypeOK, TypeOK', NEW t \in Tables, NEW m, NEW l \in {0, 1},
         Moves(inbox, inbox', 0, {m}), Moves(outbox, outbox', l, {}),
         Opens(m, t), ~Counts(m, t), ~Ends(m, t),
         \/ /\ l = 1 /\ 1 \in DOMAIN outbox /\ Asks(outbox[1], t)
            /\ stage'[t] = stage[t] /\ (t \in following' => t \in following)
         \/ stage[t] = "lobby" /\ stage'[t] = "running"
         \/ stage[t] = "over" /\ stage'[t] = "replay" /\ t \in following,
         UNCHANGED <<games, started, turn>>,
         MailInv(t)
  PROVE  MailInv(t)'
<1>1. /\ \A i \in DOMAIN outbox' : i \in Int /\ i > 0 /\ i + l \in DOMAIN outbox /\ outbox'[i] = outbox[i + l]
      /\ \A i \in DOMAIN inbox' : \/ i \in DOMAIN inbox /\ inbox'[i] = inbox[i]
                                  \/ inbox'[i] = m /\ \A j \in DOMAIN inbox : j < i
      /\ \A i \in DOMAIN inbox : i \in DOMAIN inbox' /\ inbox'[i] = inbox[i]
      /\ \A i, j \in DOMAIN inbox' :
           i \notin DOMAIN inbox /\ j \notin DOMAIN inbox /\ inbox'[i] = inbox'[j] => i = j
      /\ DOMAIN outbox \subseteq Int /\ DOMAIN inbox' \subseteq Int /\ DOMAIN inbox \subseteq Int
  BY DEF Moves
<1>2. /\ \A i \in DOMAIN inbox : ~Opens(inbox[i], t)
      /\ \A i \in DOMAIN outbox' : ~Asks(outbox'[i], t)
  <2>1. CASE l = 1 /\ 1 \in DOMAIN outbox /\ Asks(outbox[1], t)
    BY <1>1, <2>1 DEF MailInv, OneOpening
  <2>2. CASE stage[t] = "lobby" \/ (stage[t] = "over" /\ t \in following)
    BY <1>1, <2>2 DEF MailInv, OpeningAlone, Opening
  <2>. QED
    BY <2>1, <2>2
<1>3. OneOpening(t)'
  BY <1>1, <1>2 DEF OneOpening
<1>4. OpeningAlone(t)'
  BY DEF MailInv, OpeningAlone, Opening, Untouched
<1>5. \A i \in DOMAIN inbox' : Counts(inbox'[i], t) => i \in DOMAIN inbox /\ inbox'[i] = inbox[i]
  BY <1>1
<1>6. OpeningLast(t)'
  BY <1>1, <1>2, <1>5 DEF MailInv, OpeningLast
<1>7. LoadedLast(t)'
  BY <1>1, <1>2, <1>5 DEF MailInv, LoadedLast, Is, Counts, Opening, Untouched
<1>8. Untouched(t)'
  BY <1>1 DEF MailInv, Untouched, Opening, OpeningAlone
<1>9. CountsRise(t)'
  BY <1>5 DEF MailInv, CountsRise, Is, Counts
<1>10. CountsFollow(t)'
  BY <1>1, <1>5 DEF MailInv, CountsFollow, Is, Counts, Blank
<1>11. UpToDate(t)'
  BY <1>1 DEF MailInv, UpToDate, Untouched
<1>. QED
  BY <1>3, <1>4, <1>6, <1>7, <1>8, <1>9, <1>10, <1>11 DEF MailInv

\* The server sends the list of all turns.
LEMMA ListSent ==
  ASSUME BotClientAssumption, TypeOK, TypeOK', NEW t \in Tables, NEW m,
         Moves(inbox, inbox', 0, {m}), Moves(outbox, outbox', 1, {}),
         1 \in DOMAIN outbox, Is(outbox[1], "getGameInfo2", t),
         Is(m, "gameActionList", t), m.n = turn[t], stage[t] # "lobby",
         UNCHANGED <<games, stage, started, turn>>,
         MailInv(t)
  PROVE  MailInv(t)'
<1>1. /\ \A i \in DOMAIN outbox' : i \in Int /\ i > 0 /\ i + 1 \in DOMAIN outbox /\ outbox'[i] = outbox[i + 1]
      /\ \A i \in DOMAIN inbox' : \/ i \in DOMAIN inbox /\ inbox'[i] = inbox[i]
                                  \/ inbox'[i] = m /\ \A j \in DOMAIN inbox : j < i
      /\ \A i \in DOMAIN inbox : i \in DOMAIN inbox' /\ inbox'[i] = inbox[i]
      /\ \A i, j \in DOMAIN inbox' :
           i \notin DOMAIN inbox /\ j \notin DOMAIN inbox /\ inbox'[i] = inbox'[j] => i = j
      /\ \E i \in DOMAIN inbox' : inbox'[i] = m
      /\ DOMAIN outbox \subseteq Int /\ DOMAIN inbox' \subseteq Int /\ DOMAIN inbox \subseteq Int
  BY DEF Moves
<1>2. /\ Opening(t) /\ ~Opening(t)' /\ Asks(outbox[1], t) /\ Blank(t)
      /\ \A i \in DOMAIN inbox : ~Counts(inbox[i], t)
  <2>1. Opening(t) /\ Asks(outbox[1], t) /\ Blank(t) /\ ~Opens(m, t)
    BY DEF MailInv, Opening, Asks, Is, CountsFollow, Opens
  <2>2. \A i \in DOMAIN inbox : ~Counts(inbox[i], t) /\ ~Opens(inbox[i], t)
    BY <2>1 DEF MailInv, OpeningLast, OneOpening
  <2>3. \A i \in DOMAIN outbox' : ~Asks(outbox'[i], t)
    BY <1>1, <2>1 DEF MailInv, OneOpening
  <2>4. ~Opening(t)'
    BY <1>1, <2>1, <2>2, <2>3 DEF Opening
  <2>. QED
    BY <2>1, <2>2, <2>4
<1>3. OneOpening(t)' /\ OpeningAlone(t)' /\ OpeningLast(t)'
  BY <1>2 DEF OneOpening, OpeningAlone, OpeningLast, Opening
<1>4. \A i \in DOMAIN inbox' : Counts(inbox'[i], t) => inbox'[i] = m /\ i \notin DOMAIN inbox
  BY <1>1, <1>2
<1>5. LoadedLast(t)'
  BY <1>1, <1>2 DEF MailInv, LoadedLast, Is
<1>6. Untouched(t)'
  BY DEF MailInv, Untouched
<1>7. CountsRise(t)'
  <2>1. \A i, j \in DOMAIN inbox' : Counts(inbox'[i], t) /\ Counts(inbox'[j], t) => i = j
    BY <1>1, <1>4
  <2>2. \A i \in DOMAIN inbox' : Counts(inbox'[i], t) => inbox'[i].n = turn[t] /\ inbox'[i].cmd # "turn"
    BY <1>4 DEF Is
  <2>. QED
    BY <1>1, <2>1, <2>2, TableTypes DEF MailInv, CountsRise, Is, Counts
<1>8. CountsFollow(t)'
  BY <1>1, <1>2, <1>4 DEF CountsFollow, Is, Counts, Asks, MailInv, OneOpening, Blank
<1>9. UpToDate(t)'
  BY <1>1 DEF UpToDate, Is, Counts
<1>. QED
  BY <1>3, <1>5, <1>6, <1>7, <1>8, <1>9 DEF MailInv

\* The server hears that we are ready, and may start.
LEMMA LoadedHeard ==
  ASSUME BotClientAssumption, TypeOK, TypeOK', NEW t \in Tables, NEW N,
         Moves(inbox, inbox', 0, N), Moves(outbox, outbox', 1, {}),
         1 \in DOMAIN outbox, Is(outbox[1], "loaded", t),
         \A m \in N : ~Opens(m, t) /\ ~Counts(m, t) /\ ~Ends(m, t),
         stage[t] = "running",
         UNCHANGED <<games, stage, turn, following>>, t \in started',
         MailInv(t)
  PROVE  MailInv(t)'
<1>1. /\ \A i \in DOMAIN outbox' : i + 1 \in DOMAIN outbox /\ outbox'[i] = outbox[i + 1]
      /\ \A i \in DOMAIN inbox' : (i \in DOMAIN inbox /\ inbox'[i] = inbox[i]) \/ inbox'[i] \in N
      /\ \A i \in DOMAIN inbox : i \in DOMAIN inbox' /\ inbox'[i] = inbox[i]
      /\ DOMAIN outbox \subseteq Int /\ DOMAIN outbox' \subseteq Int
      /\ DOMAIN inbox' \subseteq Int /\ DOMAIN inbox \subseteq Int
  BY DEF Moves
<1>2. /\ ~Opening(t) /\ ~Opening(t)'
      /\ \A i \in DOMAIN inbox' : Counts(inbox'[i], t) => i \in DOMAIN inbox /\ inbox'[i] = inbox[i]
  BY <1>1 DEF MailInv, LoadedLast, Opening
<1>3. OneOpening(t)' /\ OpeningAlone(t)' /\ OpeningLast(t)'
  BY <1>2 DEF OneOpening, OpeningAlone, OpeningLast, Opening
<1>4. LoadedLast(t)'
  BY <1>1, <1>2 DEF MailInv, LoadedLast, Is, Counts
<1>5. Untouched(t)'
  BY DEF Untouched
<1>6. CountsRise(t)'
  BY <1>2 DEF MailInv, CountsRise, Is, Counts
<1>7. CountsFollow(t)'
  BY <1>1, <1>2 DEF MailInv, CountsFollow, Is, Counts, Blank
<1>8. UpToDate(t)'
  <2>1. CASE t \in started
    BY <1>1, <2>1 DEF MailInv, UpToDate
  <2>2. CASE t \notin started
    BY <2>2, TableTypes DEF MailInv, UpToDate, Untouched, CountsRise
  <2>. QED
    BY <2>1, <2>2
<1>. QED
  BY <1>3, <1>4, <1>5, <1>6, <1>7, <1>8 DEF MailInv

\* A turn is taken, and told to us if we follow the table.
LEMMA TurnTold ==
  ASSUME BotClientAssumption, TypeOK, TypeOK', NEW t \in Tables, NEW N, NEW l \in {0, 1},
         Moves(inbox, inbox', 0, N), Moves(outbox, outbox', l, {}),
         N = IF t \in following THEN {[cmd |-> "turn", tid |-> t, n |-> turn[t] + 1]} ELSE {},
         stage[t] = "running", t \in started, turn'[t] = turn[t] + 1,
         UNCHANGED <<games, stage, started, following>>,
         MailInv(t)
  PROVE  MailInv(t)'
<1>. DEFINE m == [cmd |-> "turn", tid |-> t, n |-> turn[t] + 1]
<1>0. m.cmd = "turn" /\ m.tid = t /\ m.n = turn[t] + 1 /\ N = IF t \in following THEN {m} ELSE {}
  OBVIOUS
<1>. HIDE DEF m
<1>1. /\ \A i \in DOMAIN outbox' : i + l \in DOMAIN outbox /\ outbox'[i] = outbox[i + l]
      /\ \A i \in DOMAIN inbox' : \/ i \in DOMAIN inbox /\ inbox'[i] = inbox[i]
                                  \/ /\ inbox'[i] = m /\ t \in following
                                     /\ i \notin DOMAIN inbox /\ \A j \in DOMAIN inbox : j < i
      /\ \A i \in DOMAIN inbox : i \in DOMAIN inbox' /\ inbox'[i] = inbox[i]
      /\ \A i, j \in DOMAIN inbox' :
           i \notin DOMAIN inbox /\ j \notin DOMAIN inbox /\ inbox'[i] = inbox'[j] => i = j
      /\ t \in following => \E i \in DOMAIN inbox' : inbox'[i] = m
      /\ DOMAIN outbox \subseteq Int /\ DOMAIN outbox' \subseteq Int
      /\ DOMAIN inbox' \subseteq Int /\ DOMAIN inbox \subseteq Int
  <2>1. \A x \in DOMAIN inbox : x < x => FALSE
    BY DEF Moves
  <2>. QED
    BY <1>0, <2>1 DEF Moves
<1>2. /\ Opening(t)' => Opening(t)
      /\ t \in following => ~Opening(t)
  BY <1>0, <1>1 DEF MailInv, Opening, OpeningAlone, Opens
<1>3. OneOpening(t)'
  BY <1>0, <1>1 DEF MailInv, OneOpening, Opens
<1>4. OpeningAlone(t)'
  BY <1>2 DEF MailInv, OpeningAlone
<1>5. OpeningLast(t)'
  <2>1. CASE t \in following
    BY <1>2, <2>1 DEF OpeningLast, Opening
  <2>2. CASE t \notin following
    BY <1>1, <2>2 DEF MailInv, OpeningLast
  <2>. QED
    BY <2>1, <2>2
<1>6. LoadedLast(t)'
  BY <1>0, <1>1, <1>2 DEF MailInv, LoadedLast, Is
<1>7. Untouched(t)'
  BY DEF Untouched
<1>8. CountsRise(t)'
  <2>1. \A i, j \in DOMAIN inbox' :
          i < j /\ Counts(inbox'[i], t) /\ Counts(inbox'[j], t) =>
            inbox'[j].cmd = "turn" /\ inbox'[i].n < inbox'[j].n
    <3>. SUFFICES ASSUME NEW i \in DOMAIN inbox', NEW j \in DOMAIN inbox', i < j,
                         Counts(inbox'[i], t), Counts(inbox'[j], t)
                  PROVE  inbox'[j].cmd = "turn" /\ inbox'[i].n < inbox'[j].n
      OBVIOUS
    <3>1. i \in DOMAIN inbox /\ inbox'[i] = inbox[i]
      BY <1>1
    <3>2. inbox'[i].n \in Int /\ inbox'[i].n <= turn[t] /\ turn[t] \in Int
      BY <3>1, TableTypes DEF MailInv, CountsRise
    <3>3. CASE inbox'[j] = m
      BY <1>0, <3>2, <3>3
    <3>4. CASE j \in DOMAIN inbox /\ inbox'[j] = inbox[j]
      BY <3>1, <3>4 DEF MailInv, CountsRise
    <3>. QED
      BY <1>1, <3>3, <3>4
  <2>2. \A i \in DOMAIN inbox' : Counts(inbox'[i], t) => inbox'[i].n <= turn'[t]
    BY <1>0, <1>1, TableTypes DEF MailInv, CountsRise
  <2>3. \A i \in DOMAIN inbox' : Is(inbox'[i], "turn", t) => games[t].applied < inbox'[i].n
    BY <1>0, <1>1, TableTypes DEF MailInv, CountsRise
  <2>4. games[t].applied <= turn'[t]
    BY TableTypes DEF MailInv, CountsRise
  <2>. QED
    BY <2>1, <2>2, <2>3, <2>4 DEF CountsRise
<1>9. CountsFollow(t)'
  <2>1. ASSUME NEW j \in DOMAIN inbox', Is(inbox'[j], "turn", t)
        PROVE  \/ games[t] = NoGame \/ games[t].applied = inbox'[j].n - 1
               \/ \E i \in DOMAIN inbox' : i < j /\ Counts(inbox'[i], t) /\ inbox'[i].n = inbox'[j].n - 1
    <3>1. CASE inbox'[j] = m /\ t \in following /\ \A i \in DOMAIN inbox : i < j
      <4>1. inbox'[j].n - 1 = turn[t]
        BY <1>0, <3>1, TableTypes
      <4>. QED
        BY <1>1, <3>1, <4>1 DEF MailInv, UpToDate
    <3>2. CASE j \in DOMAIN inbox /\ inbox'[j] = inbox[j]
      BY <1>1, <2>1, <3>2 DEF MailInv, CountsFollow
    <3>. QED
      BY <1>1, <3>1, <3>2
  <2>2. /\ \A j \in DOMAIN inbox' : Is(inbox'[j], "gameActionList", t) => Blank(t)
        /\ \A j \in DOMAIN outbox' : Is(outbox'[j], "getGameInfo2", t) => Blank(t)
    BY <1>0, <1>1 DEF MailInv, CountsFollow, Is
  <2>. QED
    BY <2>1, <2>2 DEF CountsFollow, Blank
<1>10. UpToDate(t)'
  BY <1>0, <1>1 DEF UpToDate, Counts
<1>. QED
  BY <1>3, <1>4, <1>5, <1>6, <1>7, <1>8, <1>9, <1>10 DEF MailInv

\* The oldest message is a turn: the Game has seen the turn before it.
LEMMA TurnHandled ==
  ASSUME BotClientAssumption, TypeOK, TypeOK', NEW t \in Tables, NEW n,
         Moves(inbox, inbox', 1, {}), Moves(outbox, outbox', 0, {}),
         1 \in DOMAIN inbox, Is(inbox[1], "turn", t), inbox[1].n = n,
         games'[t] \in Applied(games[t], n), games[t].sound,
         UNCHANGED <<stage, started, turn, following>>,
         MailInv(t)
  PROVE  /\ MailInv(t)' /\ games'[t].sound
         /\ games[t] = NoGame <=> games'[t] = NoGame
         /\ games[t] # NoGame => games'[t].applied = n /\ games'[t].in_progress = games[t].in_progress
<1>1. /\ \A i \in DOMAIN inbox' : i \in Int /\ i > 0 /\ i + 1 \in DOMAIN inbox /\ inbox'[i] = inbox[i + 1]
      /\ \A i \in DOMAIN inbox : i \in Int /\ i > 0 /\ (i > 1 => i - 1 \in DOMAIN inbox' /\ inbox'[i - 1] = inbox[i])
      /\ \A i \in DOMAIN outbox' : i \in DOMAIN outbox /\ outbox'[i] = outbox[i]
  BY DEF Moves
<1>2. games[t] = NoGame \/ games[t].applied = n - 1
  <2>1. \A i \in DOMAIN inbox : ~(i < 1)
    BY <1>1
  <2>. QED
    BY <2>1 DEF MailInv, CountsFollow
<1>3. n \in Turns /\ games[t] \in Game \cup {NoGame} /\ n \in Int
  <2>1. inbox[1] \in Inbound
    BY DEF TypeOK
  <2>2. n \in Turns
    BY <2>1, InboundFields DEF Is
  <2>. QED
    BY <2>2, TurnFields DEF TypeOK
<1>4. /\ games[t] = NoGame <=> games'[t] = NoGame
      /\ games[t] # NoGame => games'[t].applied = n /\ games'[t].in_progress = games[t].in_progress
      /\ games'[t].sound
  <2>1. CASE games[t] = NoGame
    <3>1. games'[t] = NoGame
      BY <2>1 DEF Applied
    <3>. QED
      BY <2>1, <3>1, GameFields
  <2>2. CASE games[t] # NoGame
    BY <1>2, <1>3, <2>2, AppliedGame
  <2>. QED
    BY <2>1, <2>2
<1>5. Opening(t)' => Opening(t)
  BY <1>1 DEF Opening
<1>6. OneOpening(t)' /\ OpeningAlone(t)' /\ OpeningLast(t)'
  <2>1. OneOpening(t)'
    BY <1>1 DEF MailInv, OneOpening
  <2>2. OpeningAlone(t)'
    BY <1>5 DEF MailInv, OpeningAlone
  <2>3. OpeningLast(t)'
    BY <1>1 DEF MailInv, OpeningLast
  <2>. QED
    BY <2>1, <2>2, <2>3
<1>7. LoadedLast(t)'
  BY <1>1, <1>5 DEF MailInv, LoadedLast, Is
<1>8. Untouched(t)'
  BY <1>1, <1>4 DEF MailInv, Untouched
<1>9. \A i \in DOMAIN inbox' : Counts(inbox'[i], t) => inbox'[i].cmd = "turn" /\ n < inbox'[i].n
  <2>1. Counts(inbox[1], t)
    BY DEF Is, Counts
  <2>. QED
    BY <1>1, <2>1 DEF MailInv, CountsRise
<1>10. n <= turn[t]
  BY DEF MailInv, CountsRise, Is, Counts
<1>11. CountsRise(t)'
  <2>1. \A i, j \in DOMAIN inbox' :
          i < j /\ Counts(inbox'[i], t) /\ Counts(inbox'[j], t) =>
            inbox'[j].cmd = "turn" /\ inbox'[i].n < inbox'[j].n
    BY <1>1 DEF MailInv, CountsRise
  <2>2. \A i \in DOMAIN inbox' : Counts(inbox'[i], t) => inbox'[i].n <= turn[t]
    BY <1>1 DEF MailInv, CountsRise
  <2>3. \A i \in DOMAIN inbox' : Is(inbox'[i], "turn", t) => games'[t].applied < inbox'[i].n
    BY <1>3, <1>4, <1>9, TableTypes DEF Is, Counts
  <2>4. games'[t].applied <= turn[t]
    BY <1>3, <1>4, <1>10, TableTypes
  <2>. QED
    BY <2>1, <2>2, <2>3, <2>4 DEF CountsRise
<1>12. CountsFollow(t)'
  <2>1. ASSUME NEW j \in DOMAIN inbox', Is(inbox'[j], "turn", t), games'[t] # NoGame
        PROVE  \/ games'[t].applied = inbox'[j].n - 1
               \/ \E i \in DOMAIN inbox' : i < j /\ Counts(inbox'[i], t) /\ inbox'[i].n = inbox'[j].n - 1
    <3>1. j + 1 \in DOMAIN inbox /\ inbox'[j] = inbox[j + 1] /\ inbox'[j].n \in Int /\ n < inbox'[j].n
      BY <1>1, <1>9, <2>1, TableTypes DEF Is, Counts
    <3>2. games[t].applied # inbox[j + 1].n - 1
      BY <1>2, <1>3, <1>4, <2>1, <3>1
    <3>3. PICK i \in DOMAIN inbox : i < j + 1 /\ Counts(inbox[i], t) /\ inbox[i].n = inbox[j + 1].n - 1
      BY <1>4, <2>1, <3>1, <3>2 DEF MailInv, CountsFollow
    <3>4. CASE i = 1
      BY <1>4, <2>1, <3>1, <3>3, <3>4
    <3>5. CASE i > 1
      BY <1>1, <3>1, <3>3, <3>5
    <3>. QED
      BY <1>1, <3>4, <3>5
  <2>2. \A j \in DOMAIN inbox' : ~Is(inbox'[j], "gameActionList", t)
    BY <1>9 DEF Is, Counts
  <2>3. \A j \in DOMAIN outbox' : ~Is(outbox'[j], "getGameInfo2", t)
    BY <1>1 DEF MailInv, OpeningLast, Is, Counts, Asks
  <2>. QED
    BY <2>1, <2>2, <2>3 DEF CountsFollow
<1>13. UpToDate(t)'
  <2>. SUFFICES ASSUME stage[t] = "running", t \in started, t \in following, games'[t] # NoGame,
                       games'[t].applied # turn[t]
                PROVE  \E i \in DOMAIN inbox' : Counts(inbox'[i], t) /\ inbox'[i].n = turn[t]
    BY DEF UpToDate
  <2>1. games[t].applied # turn[t]
    BY <1>2, <1>3, <1>4, <1>10, TableTypes
  <2>2. PICK i \in DOMAIN inbox : Counts(inbox[i], t) /\ inbox[i].n = turn[t]
    BY <1>4, <2>1 DEF MailInv, UpToDate
  <2>3. i # 1
    BY <1>4, <2>2
  <2>. QED
    BY <1>1, <2>2, <2>3
<1>. QED
  BY <1>4, <1>6, <1>7, <1>8, <1>11, <1>12, <1>13 DEF MailInv

\* The oldest message is the list: it finds a fresh Game.
LEMMA ListHandled ==
  ASSUME BotClientAssumption, TypeOK, TypeOK', NEW t \in Tables, NEW n, NEW P,
         Moves(inbox, inbox', 1, {}), Moves(outbox, outbox', 0, P),
         1 \in DOMAIN inbox, Is(inbox[1], "gameActionList", t), inbox[1].n = n,
         \A m \in P : Is(m, "loaded", t),
         \/ games[t] = NoGame /\ games'[t] = NoGame
         \/ games[t] # NoGame /\ games'[t].applied = n,
         UNCHANGED <<stage, started, turn, following>>,
         MailInv(t)
  PROVE  MailInv(t)' /\ Blank(t)
<1>1. /\ \A i \in DOMAIN inbox' : i \in Int /\ i > 0 /\ i + 1 \in DOMAIN inbox /\ inbox'[i] = inbox[i + 1]
      /\ \A i \in DOMAIN inbox : i \in Int /\ i > 0 /\ (i > 1 => i - 1 \in DOMAIN inbox' /\ inbox'[i - 1] = inbox[i])
      /\ \A i \in DOMAIN outbox' : \/ i \in DOMAIN outbox /\ outbox'[i] = outbox[i]
                                   \/ Is(outbox'[i], "loaded", t)
  BY DEF Moves
<1>2. Blank(t) /\ n <= turn[t] /\ n \in Int /\ n >= 0 /\ Counts(inbox[1], t)
  BY TableTypes DEF MailInv, CountsFollow, CountsRise, Is, Counts
<1>3. \A i \in DOMAIN inbox' : Counts(inbox'[i], t) => inbox'[i].cmd = "turn" /\ n < inbox'[i].n
  BY <1>1, <1>2 DEF MailInv, CountsRise
<1>4. \A i \in DOMAIN outbox' : Asks(outbox'[i], t) => i \in DOMAIN outbox /\ outbox'[i] = outbox[i]
  BY <1>1 DEF Asks, Is
<1>5. Opening(t)' => Opening(t)
  BY <1>1, <1>4 DEF Opening
<1>6. OneOpening(t)' /\ OpeningAlone(t)' /\ OpeningLast(t)'
  <2>1. OneOpening(t)'
    BY <1>1, <1>4 DEF MailInv, OneOpening
  <2>2. OpeningAlone(t)'
    BY <1>5 DEF MailInv, OpeningAlone
  <2>3. OpeningLast(t)'
    BY <1>1, <1>4 DEF MailInv, OpeningLast
  <2>. QED
    BY <2>1, <2>2, <2>3
<1>7. \A i \in DOMAIN inbox' : ~Is(inbox'[i], "gameActionList", t)
  BY <1>3 DEF Is, Counts
<1>8. LoadedLast(t)'
  BY <1>5, <1>7 DEF MailInv, LoadedLast
<1>9. Untouched(t)'
  BY <1>2 DEF MailInv, Untouched
<1>10. CountsRise(t)'
  <2>1. \A i, j \in DOMAIN inbox' :
          i < j /\ Counts(inbox'[i], t) /\ Counts(inbox'[j], t) =>
            inbox'[j].cmd = "turn" /\ inbox'[i].n < inbox'[j].n
    BY <1>1 DEF MailInv, CountsRise
  <2>2. \A i \in DOMAIN inbox' : Counts(inbox'[i], t) => inbox'[i].n <= turn[t]
    BY <1>1 DEF MailInv, CountsRise
  <2>3. \A i \in DOMAIN inbox' : Is(inbox'[i], "turn", t) => games'[t].applied < inbox'[i].n
    BY <1>2, <1>3, TableTypes DEF Is, Counts
  <2>4. games'[t].applied <= turn[t]
    BY <1>2, TableTypes
  <2>. QED
    BY <2>1, <2>2, <2>3, <2>4 DEF CountsRise
<1>11. CountsFollow(t)'
  <2>1. ASSUME NEW j \in DOMAIN inbox', Is(inbox'[j], "turn", t), games'[t] # NoGame
        PROVE  \/ games'[t].applied = inbox'[j].n - 1
               \/ \E i \in DOMAIN inbox' : i < j /\ Counts(inbox'[i], t) /\ inbox'[i].n = inbox'[j].n - 1
    <3>1. j + 1 \in DOMAIN inbox /\ inbox'[j] = inbox[j + 1] /\ inbox'[j].n \in Int /\ n < inbox'[j].n
          /\ games[t] # NoGame /\ games[t].applied = 0 /\ games'[t].applied = n
      BY <1>1, <1>2, <1>3, <2>1, TableTypes DEF Is, Counts, Blank
    <3>2. CASE games[t].applied = inbox[j + 1].n - 1
      BY <1>2, <3>1, <3>2
    <3>3. CASE games[t].applied # inbox[j + 1].n - 1
      <4>1. PICK i \in DOMAIN inbox : i < j + 1 /\ Counts(inbox[i], t) /\ inbox[i].n = inbox[j + 1].n - 1
        BY <2>1, <3>1, <3>3 DEF MailInv, CountsFollow
      <4>2. CASE i = 1
        BY <3>1, <4>1, <4>2
      <4>3. CASE i > 1
        BY <1>1, <3>1, <4>1, <4>3
      <4>. QED
        BY <1>1, <4>2, <4>3
    <3>. QED
      BY <3>2, <3>3
  <2>2. \A j \in DOMAIN outbox' : ~Is(outbox'[j], "getGameInfo2", t)
    BY <1>1, <1>2 DEF MailInv, OpeningLast, Is, Asks
  <2>. QED
    BY <1>7, <2>1, <2>2 DEF CountsFollow
<1>12. UpToDate(t)'
  <2>. SUFFICES ASSUME stage[t] = "running", t \in started, t \in following, games'[t] # NoGame,
                       games'[t].applied # turn[t]
                PROVE  \E i \in DOMAIN inbox' : Counts(inbox'[i], t) /\ inbox'[i].n = turn[t]
    BY DEF UpToDate
  <2>1. games[t] # NoGame /\ games[t].applied = 0 /\ games'[t].applied = n
    BY <1>2 DEF Blank
  <2>2. games[t].applied # turn[t]
    BY <1>2, <2>1, TableTypes
  <2>3. PICK i \in DOMAIN inbox : Counts(inbox[i], t) /\ inbox[i].n = turn[t]
    BY <2>1, <2>2 DEF MailInv, UpToDate
  <2>4. i # 1
    BY <2>1, <2>3
  <2>. QED
    BY <1>1, <2>3, <2>4
<1>. QED
  BY <1>2, <1>6, <1>8, <1>9, <1>10, <1>11, <1>12 DEF MailInv

\* A connection that is lost takes all messages with it.
LEMMA MailLost ==
  ASSUME BotClientAssumption, TypeOK, TypeOK', NEW t \in Tables, Lose, MailInv(t)
  PROVE  MailInv(t)'
<1>1. /\ DOMAIN inbox' = {} /\ DOMAIN outbox' = {} /\ following' = {}
      /\ UNCHANGED <<games, stage, turn, started>>
  BY DEF Lose, clientVars
<1>2. ~Opening(t)'
  BY <1>1 DEF Opening
<1>. QED
  BY <1>1, <1>2 DEF MailInv, OneOpening, OpeningAlone, OpeningLast, LoadedLast, Untouched, CountsRise,
                    CountsFollow, UpToDate

\* A new connection begins with the welcome.
LEMMA MailWelcome ==
  ASSUME BotClientAssumption, TypeOK, TypeOK', NobodyFollowed, NEW t \in Tables, Reconnect, MailInv(t)
  PROVE  MailInv(t)'
<1>. DEFINE m == [cmd |-> "welcome", playing |-> {u \in Tables : stage[u] = "running"}]
<1>1. /\ inbox' = <<m>> /\ outbox' = <<>> /\ following' = {}
      /\ UNCHANGED <<games, stage, turn, started>>
  BY DEF Reconnect, clientVars, serverVars, TypeOK, NobodyFollowed
<1>2. m.cmd = "welcome" /\ (t \in m.playing => stage[t] = "running")
  OBVIOUS
<1>. HIDE DEF m
<1>3. /\ DOMAIN inbox' = {1} /\ inbox'[1] = m /\ DOMAIN outbox' = {}
      /\ ~Counts(m, t) /\ ~Ends(m, t) /\ ~Is(m, "gameActionList", t) /\ ~Is(m, "turn", t)
      /\ Opens(m, t) => stage[t] = "running"
  BY <1>1, <1>2 DEF Counts, Ends, Is, Opens
<1>4. Opening(t)' => stage[t] = "running"
  BY <1>3 DEF Opening
<1>5. OneOpening(t)' /\ OpeningLast(t)' /\ LoadedLast(t)'
  BY <1>3 DEF OneOpening, OpeningLast, LoadedLast
<1>6. OpeningAlone(t)' /\ Untouched(t)' /\ CountsRise(t)' /\ CountsFollow(t)' /\ UpToDate(t)'
  BY <1>1, <1>3, <1>4 DEF MailInv, OpeningAlone, Untouched, CountsRise, CountsFollow, UpToDate
<1>. QED
  BY <1>5, <1>6 DEF MailInv
-----------------------------------------------------------------------------
(* The handlers and the server, by what they do to one table. *)

\* The oldest message is cmd for table t.
Takes(cmd, t) ==
  /\ 1 \in DOMAIN inbox /\ Is(inbox[1], cmd, t) /\ Moves(inbox, inbox', 1, {})
  /\ UNCHANGED <<up, drops, stage, turn, started, following>>

OthersSame(t) == \A u \in Tables : u # t => games'[u] = games[u]

\* A handler of anything but the welcome takes a message of one table.
LEMMA TakesFirst ==
  ASSUME TypeOK, NEW cmd, cmd # "welcome", Receive(cmd)
  PROVE  /\ Head(inbox) = inbox[1] /\ inbox[1] \in Inbound /\ inbox[1].cmd = cmd
         /\ inbox[1].tid \in Tables /\ Takes(cmd, inbox[1].tid)
<1>1. Head(inbox) = inbox[1] /\ inbox[1] \in Inbound /\ inbox[1].cmd = cmd
  BY Received
<1>2. inbox[1].tid \in Tables
  BY <1>1, InboundFields
<1>. QED
  BY <1>1, <1>2, Received DEF Takes, Is

\* on_init: a fresh Game, flags reset, and the request for the list.
LEMMA InitEffect ==
  ASSUME BotClientAssumption, TypeOK, OnInit
  PROVE  \E t \in Tables :
           /\ Takes("init", t) /\ OthersSame(t)
           /\ games'[t].applied = 0 /\ games'[t].sound
           /\ games'[t].in_progress <=> ~inbox[1].replay
           /\ Moves(outbox, outbox', 0, {[cmd |-> "getGameInfo2", tid |-> t]})
           /\ jobs' = jobs /\ ~action_time'[t] /\ ~everyone_connected'[t]
           /\ \A u \in Tables : u # t => /\ action_time'[u] = action_time[u]
                                         /\ everyone_connected'[u] = everyone_connected[u]
<1>. DEFINE t == inbox[1].tid
            r == inbox[1].replay
            g == [applied |-> 0, sound |-> TRUE, catchup |-> TRUE, in_progress |-> ~r]
<1>1. Receive("init") /\ jobs' = jobs
  BY DEF OnInit
<1>2. Head(inbox) = inbox[1] /\ t \in Tables /\ Takes("init", t)
  BY <1>1, TakesFirst
<1>3. /\ games' = [games EXCEPT ![t] = g]
      /\ action_time' = [action_time EXCEPT ![t] = FALSE]
      /\ everyone_connected' = [everyone_connected EXCEPT ![t] = FALSE]
      /\ Request("getGameInfo2", t)
  BY <1>2 DEF OnInit
<1>4. g.applied = 0 /\ g.sound /\ (g.in_progress <=> ~r)
  OBVIOUS
<1>. HIDE DEF t, g
<1>5. games'[t] = g /\ OthersSame(t)
  BY <1>2, <1>3 DEF TypeOK, OthersSame
<1>6. Moves(outbox, outbox', 0, {[cmd |-> "getGameInfo2", tid |-> t]})
  BY <1>2, <1>3, Requested
<1>7. /\ ~action_time'[t] /\ ~everyone_connected'[t]
      /\ \A u \in Tables : u # t => /\ action_time'[u] = action_time[u]
                                    /\ everyone_connected'[u] = everyone_connected[u]
  BY <1>2, <1>3 DEF TypeOK
<1>. HIDE DEF r
<1>. QED
  BY <1>1, <1>2, <1>4, <1>5, <1>6, <1>7 DEF r

\* on_game_action: the Game of one table moves on, perhaps with a decision.
LEMMA TurnEffect ==
  ASSUME BotClientAssumption, TypeOK, OnTurn
  PROVE  \E t \in Tables :
           /\ Takes("turn", t) /\ OthersSame(t)
           /\ games'[t] \in Applied(games[t], inbox[1].n)
           /\ \E at \in BOOLEAN : /\ games'[t].applied = inbox[1].n => at = OurTurn(inbox[1].n)
                                  /\ Posts(t, games'[t], at, everyone_connected[t])
           /\ UNCHANGED <<everyone_connected, outbox>>
<1>. DEFINE t == inbox[1].tid
            n == inbox[1].n
<1>1. Receive("turn") /\ UNCHANGED <<everyone_connected, outbox>>
  BY DEF OnTurn
<1>2. Head(inbox) = inbox[1] /\ t \in Tables /\ Takes("turn", t)
  BY <1>1, TakesFirst
<1>3. n \in Turns
  <2>1. inbox[1] \in Inbound /\ inbox[1].cmd = "turn"
    BY <1>1, TakesFirst
  <2>. QED
    BY <2>1, InboundFields
<1>4. PICK g \in Applied(games[t], n) :
         /\ games' = [games EXCEPT ![t] = g]
         /\ maybe_take_turn(t, g, IF g.applied = n THEN OurTurn(n) ELSE action_time[t],
                            everyone_connected[t])
  BY <1>2 DEF OnTurn
<1>5. PICK at, ec : /\ at = IF g.applied = n THEN OurTurn(n) ELSE action_time[t]
                    /\ ec = everyone_connected[t]
  OBVIOUS
<1>. HIDE DEF t, n
<1>6. g \in Game \cup {NoGame} /\ ec \in BOOLEAN /\ at \in BOOLEAN
      /\ jobs \in Seq(Job) /\ action_time \in [Tables -> BOOLEAN]
  BY <1>2, <1>3, <1>5, AppliedGame DEF OurTurn, TypeOK
<1>7. maybe_take_turn(t, g, at, ec)
  BY <1>4, <1>5
<1>8. games'[t] = g /\ OthersSame(t)
  BY <1>2, <1>4 DEF TypeOK, OthersSame
<1>9. Posts(t, games'[t], at, everyone_connected[t])
  BY <1>2, <1>5, <1>6, <1>7, <1>8, MaybeTakeTurn
<1>. QED
  BY <1>1, <1>2, <1>4, <1>5, <1>6, <1>8, <1>9 DEF n

\* on_game_action_list: the list is applied to a Game that is there, and "loaded" sent.
LEMMA ListEffect ==
  ASSUME BotClientAssumption, TypeOK, OnGameActionList
  PROVE  \E t \in Tables :
           /\ Takes("gameActionList", t) /\ OthersSame(t)
           /\ Moves(outbox, outbox', 0, {[cmd |-> "loaded", tid |-> t]})
           /\ UNCHANGED everyone_connected
           /\ \/ games[t] = NoGame /\ games'[t] = NoGame /\ UNCHANGED <<jobs, action_time>>
              \/ /\ games[t] # NoGame /\ games'[t].applied = inbox[1].n
                 /\ games'[t].sound <=> games[t].sound /\ games[t].applied = 0
                 /\ games'[t].in_progress = games[t].in_progress
                 /\ Posts(t, games'[t], OurTurn(inbox[1].n), everyone_connected[t])
<1>. DEFINE t == inbox[1].tid
            n == inbox[1].n
            g == [games[t] EXCEPT !.applied = n, !.sound = @ /\ games[t].applied = 0, !.catchup = FALSE]
<1>1. Receive("gameActionList")
  BY DEF OnGameActionList
<1>2. Head(inbox) = inbox[1] /\ t \in Tables /\ Takes("gameActionList", t)
  BY <1>1, TakesFirst
<1>3. n \in Turns
  <2>1. inbox[1] \in Inbound /\ inbox[1].cmd = "gameActionList"
    BY <1>1, TakesFirst
  <2>. QED
    BY <2>1, InboundFields
<1>4. /\ Request("loaded", t)
      /\ IF games[t] = NoGame THEN UNCHANGED <<games, jobs, action_time>>
         ELSE /\ games' = [games EXCEPT ![t] = g]
              /\ maybe_take_turn(t, g, OurTurn(n), everyone_connected[t])
      /\ UNCHANGED everyone_connected
  BY <1>2 DEF OnGameActionList
<1>. HIDE DEF t, n
<1>5. Moves(outbox, outbox', 0, {[cmd |-> "loaded", tid |-> t]})
  BY <1>2, <1>4, Requested
<1>6. CASE games[t] = NoGame
  BY <1>2, <1>4, <1>5, <1>6 DEF OthersSame
<1>7. CASE games[t] # NoGame
  <2>1. games[t] \in Game
    BY <1>2, <1>7 DEF TypeOK
  <2>2. /\ g \in Game /\ g.applied = n /\ g.in_progress = games[t].in_progress
        /\ g.sound <=> games[t].sound /\ games[t].applied = 0
    BY <1>3, <2>1 DEF Game
  <2>. HIDE DEF g
  <2>3. games'[t] = g /\ OthersSame(t)
    BY <1>2, <1>4, <1>7 DEF TypeOK, OthersSame
  <2>4. PICK at, ec : at = OurTurn(n) /\ ec = everyone_connected[t]
    OBVIOUS
  <2>5. ec \in BOOLEAN /\ at \in BOOLEAN /\ jobs \in Seq(Job) /\ action_time \in [Tables -> BOOLEAN]
    BY <1>2, <2>4 DEF OurTurn, TypeOK
  <2>6. maybe_take_turn(t, g, at, ec)
    BY <1>4, <1>7, <2>4
  <2>7. Posts(t, games'[t], OurTurn(n), everyone_connected[t])
    BY <1>2, <2>2, <2>3, <2>4, <2>5, <2>6, MaybeTakeTurn
  <2>. QED
    BY <1>2, <1>4, <1>5, <1>7, <2>2, <2>3, <2>7 DEF n
<1>. QED
  BY <1>6, <1>7

\* on_connected: only who is there changes, perhaps with a decision.
LEMMA ConnectedEffect ==
  ASSUME BotClientAssumption, TypeOK, OnConnected
  PROVE  \E t \in Tables :
           /\ Takes("connected", t)
           /\ \A u \in Tables : u # t => everyone_connected'[u] = everyone_connected[u]
           /\ Posts(t, games'[t], action_time[t], everyone_connected'[t])
           /\ UNCHANGED <<games, outbox>>
<1>. DEFINE t == inbox[1].tid
<1>1. Receive("connected") /\ UNCHANGED <<games, outbox>>
  BY DEF OnConnected
<1>2. Head(inbox) = inbox[1] /\ t \in Tables /\ Takes("connected", t)
  BY <1>1, TakesFirst
<1>3. PICK a, at, g : a = inbox[1].all /\ at = action_time[t] /\ g = games[t]
  OBVIOUS
<1>4. a \in BOOLEAN
  <2>1. inbox[1] \in Inbound /\ inbox[1].cmd = "connected"
    BY <1>1, TakesFirst
  <2>. QED
    BY <1>3, <2>1, InboundFields
<1>5. /\ everyone_connected' = [everyone_connected EXCEPT ![t] = a]
      /\ maybe_take_turn(t, g, at, a)
  BY <1>2, <1>3 DEF OnConnected
<1>. HIDE DEF t
<1>6. g \in Game \cup {NoGame} /\ at \in BOOLEAN /\ jobs \in Seq(Job) /\ action_time \in [Tables -> BOOLEAN]
  BY <1>2, <1>3 DEF TypeOK
<1>7. everyone_connected'[t] = a /\ \A u \in Tables : u # t => everyone_connected'[u] = everyone_connected[u]
  BY <1>2, <1>5 DEF TypeOK
<1>8. games'[t] = g
  BY <1>1, <1>3
<1>9. Posts(t, games'[t], action_time[t], everyone_connected'[t])
  BY <1>2, <1>3, <1>4, <1>5, <1>6, <1>7, <1>8, MaybeTakeTurn
<1>. QED
  BY <1>1, <1>2, <1>7, <1>9

\* finish_game: the Game is no longer in progress, or is gone.
LEMMA OverEffect ==
  ASSUME BotClientAssumption, TypeOK, OnGameOver
  PROVE  \E t \in Tables :
           /\ Takes("gameOver", t) /\ OthersSame(t)
           /\ ~games'[t].in_progress
           /\ \/ games'[t] = NoGame
              \/ /\ games[t] # NoGame /\ games'[t] # NoGame /\ games'[t].applied = games[t].applied
                 /\ games'[t].sound = games[t].sound
           /\ \/ Moves(outbox, outbox', 0, {[cmd |-> "tableUnattend", tid |-> t]})
              \/ Moves(outbox, outbox', 0, {})
           /\ UNCHANGED <<action_time, everyone_connected, jobs>>
<1>. DEFINE t == inbox[1].tid
            finish == games[t] # NoGame /\ t \in games_in_progress
<1>1. Receive("gameOver") /\ UNCHANGED <<action_time, everyone_connected, jobs>>
  BY DEF OnGameOver
<1>2. Head(inbox) = inbox[1] /\ t \in Tables /\ Takes("gameOver", t)
  BY <1>1, TakesFirst
<1>3. /\ games' = [games EXCEPT ![t] = IF finish THEN NoGame ELSE [games[t] EXCEPT !.in_progress = FALSE]]
      /\ IF finish /\ disconnect_on_game_end THEN Request("tableUnattend", t) ELSE UNCHANGED outbox
  BY <1>2 DEF OnGameOver
<1>. HIDE DEF t, finish
<1>4. \/ Moves(outbox, outbox', 0, {[cmd |-> "tableUnattend", tid |-> t]})
      \/ Moves(outbox, outbox', 0, {})
  BY <1>2, <1>3, Requested, StaysMoves DEF TypeOK
<1>5. /\ OthersSame(t)
      /\ games'[t] = NoGame \/ games'[t] = [games[t] EXCEPT !.in_progress = FALSE]
  BY <1>2, <1>3 DEF TypeOK, OthersSame
<1>6. games[t] \in Game \cup {NoGame}
  BY <1>2 DEF TypeOK
<1>7. CASE games'[t] = NoGame
  <2>1. ~games'[t].in_progress
    BY <1>7, GameFields
  <2>. QED
    BY <1>1, <1>2, <1>4, <1>5, <1>7, <2>1
<1>8. CASE games'[t] # NoGame
  <2>1. games'[t] = [games[t] EXCEPT !.in_progress = FALSE]
    BY <1>5, <1>8
  <2>2. games[t] # NoGame
    <3>1. /\ NoGame \in [applied : Int, sound : BOOLEAN, catchup : BOOLEAN, in_progress : BOOLEAN]
          /\ NoGame.in_progress = FALSE
      BY DEF NoGame
    <3>2. [NoGame EXCEPT !.in_progress = FALSE] = NoGame
      BY <3>1, FlagAlreadyFalse
    <3>. QED
      BY <1>8, <2>1, <3>2
  <2>3. \A h \in Game : LET k == [h EXCEPT !.in_progress = FALSE]
                        IN  k.applied = h.applied /\ k.sound = h.sound /\ ~k.in_progress
    BY DEF Game
  <2>4. games'[t].applied = games[t].applied /\ games'[t].sound = games[t].sound /\ ~games'[t].in_progress
    BY <1>6, <2>1, <2>2, <2>3
  <2>. QED
    BY <1>1, <1>2, <1>4, <1>5, <1>8, <2>2, <2>4
<1>. QED
  BY <1>7, <1>8

\* on_table_gone: the Game is gone.
LEMMA GoneEffect ==
  ASSUME BotClientAssumption, TypeOK, OnTableGone
  PROVE  \E t \in Tables :
           /\ Takes("tableGone", t) /\ OthersSame(t) /\ games'[t] = NoGame
           /\ UNCHANGED <<action_time, everyone_connected, jobs, outbox>>
<1>1. Receive("tableGone") /\ UNCHANGED <<action_time, everyone_connected, jobs, outbox>>
      /\ games' = [games EXCEPT ![Head(inbox).tid] = NoGame]
  BY DEF OnTableGone
<1>2. Head(inbox) = inbox[1] /\ inbox[1].tid \in Tables /\ Takes("tableGone", inbox[1].tid)
  BY <1>1, TakesFirst
<1>3. games'[inbox[1].tid] = NoGame /\ OthersSame(inbox[1].tid)
  BY <1>1, <1>2 DEF TypeOK, OthersSame
<1>. QED
  BY <1>1, <1>2, <1>3

\* A finished decision is sent, if there is a session to send it on.
LEMMA JobDoneEffect ==
  ASSUME BotClientAssumption, TypeOK, JobDone
  PROVE  /\ 1 \in DOMAIN jobs /\ jobs[1] \in Job /\ Moves(jobs, jobs', 1, {})
         /\ IF up
            THEN \E m : /\ Moves(outbox, outbox', 0, {m}) /\ m.cmd = "action" /\ m.tid = jobs[1].tid
                        /\ m.turn = jobs[1].turn /\ m.sound = jobs[1].sound
            ELSE outbox' = outbox
         /\ UNCHANGED <<games, games_in_progress, action_time, everyone_connected, game_loggers,
                        up, inbox, drops, serverVars>>
<1>. DEFINE m == [cmd |-> "action", tid |-> Head(jobs).tid, turn |-> Head(jobs).turn,
                  sound |-> Head(jobs).sound]
<1>1. /\ jobs # <<>> /\ jobs' = Tail(jobs) /\ outbox' = IF up THEN Append(outbox, m) ELSE outbox
      /\ UNCHANGED <<games, games_in_progress, action_time, everyone_connected, game_loggers,
                     up, inbox, drops, serverVars>>
  BY DEF JobDone
<1>2. 1 \in DOMAIN jobs /\ Head(jobs) = jobs[1] /\ jobs[1] \in Job /\ Moves(jobs, jobs', 1, {})
  BY <1>1, TailMoves DEF TypeOK
<1>3. m \in Outbound
  BY <1>2 DEF Job, Outbound
<1>4. /\ m.cmd = "action" /\ m.tid = jobs[1].tid
      /\ m.turn = jobs[1].turn /\ m.sound = jobs[1].sound
  BY <1>2
<1>. HIDE DEF m
<1>5. up => Moves(outbox, outbox', 0, {m})
  BY <1>1, <1>3, AppendMoves DEF TypeOK
<1>. QED
  BY <1>1, <1>2, <1>4, <1>5

\* The request at the head of the outbox is answered.
Answers(t) ==
  /\ 1 \in DOMAIN outbox /\ outbox[1].tid = t /\ Moves(outbox, outbox', 1, {})
  /\ UNCHANGED <<clientVars, up, drops, stage, turn>>

\* The four ways in which it is: an opening, a list, the start of the game, or
\* no message at all.
ServesOpening(t) ==
  /\ Asks(outbox[1], t) /\ UNCHANGED started /\ stage[t] \in {"running", "replay"}
  /\ \/ following' = following
     \/ outbox[1].cmd = "tableReattend" /\ ResumeAtReattend
  /\ \E m : /\ Moves(inbox, inbox', 0, {m}) /\ m.cmd \in {"tableStart", "init"} /\ m.tid = t
            /\ m.cmd = "init" => (m.replay <=> stage[t] = "replay")

ServesList(t) ==
  /\ Is(outbox[1], "getGameInfo2", t) /\ UNCHANGED started /\ stage[t] # "lobby"
  /\ following' = following \cup {t}
  /\ \E m : Moves(inbox, inbox', 0, {m}) /\ Is(m, "gameActionList", t) /\ m.n = turn[t]

ServesLoaded(t) ==
  /\ Is(outbox[1], "loaded", t) /\ UNCHANGED following
  /\ \/ stage[t] = "running" /\ started' = started \cup {t}
     \/ stage[t] = "replay" /\ started' = started
  /\ \E m : Moves(inbox, inbox', 0, {m}) /\ Is(m, "connected", t)

ServesNothing(t) ==
  /\ inbox' = inbox /\ UNCHANGED started
  /\ \/ following' = following
     \/ following' = following \ {t} /\ outbox[1].cmd = "tableUnattend"
     \/ /\ following' = following \cup {t} /\ stage[t] # "running"
        /\ \/ outbox[1].cmd = "getGameInfo2"
           \/ outbox[1].cmd = "tableReattend" /\ ResumeAtReattend

\* A request is answered in one of the four ways.
LEMMA ServeEffect ==
  ASSUME BotClientAssumption, TypeOK, Serve
  PROVE  \E t \in Tables :
           /\ Answers(t)
           /\ ServesOpening(t) \/ ServesList(t) \/ ServesLoaded(t) \/ ServesNothing(t)
<1>. DEFINE t == Head(outbox).tid
            cmd == Head(outbox).cmd
            live == stage[t] \in {"running", "replay"}
            start == [cmd |-> "tableStart", tid |-> t]
            init == [cmd |-> "init", tid |-> t, replay |-> stage[t] = "replay"]
            list == [cmd |-> "gameActionList", tid |-> t, n |-> turn[t]]
            conn == [cmd |-> "connected", tid |-> t, all |-> t \in partner]
<1>1. /\ Head(outbox) = outbox[1] /\ 1 \in DOMAIN outbox /\ outbox[1] \in Outbound
      /\ Moves(outbox, outbox', 1, {}) /\ cmd # "action"
      /\ UNCHANGED <<clientVars, up, drops, stage, turn>>
  BY TailMoves DEF Serve, TypeOK
<1>2. t \in Tables /\ turn[t] \in Turns /\ inbox \in Seq(Inbound) /\ Answers(t)
      /\ cmd \in {"tableReattend", "getGameInfo1", "getGameInfo2", "loaded", "tableUnattend"}
  <2>1. cmd \in {"tableReattend", "getGameInfo1", "getGameInfo2", "loaded", "tableUnattend"}
    BY <1>1 DEF Outbound
  <2>2. t \in Tables
    BY <1>1, OutboundFields
  <2>. QED
    BY <1>1, <2>1, <2>2 DEF TypeOK, Answers
<1>3. /\ start \in Inbound /\ init \in Inbound /\ list \in Inbound /\ conn \in Inbound
      /\ start.cmd = "tableStart" /\ start.tid = t
      /\ init.cmd = "init" /\ init.tid = t /\ (init.replay <=> stage[t] = "replay")
      /\ list.cmd = "gameActionList" /\ list.tid = t /\ list.n = turn[t]
      /\ conn.cmd = "connected" /\ conn.tid = t
  <2>1. start \in Inbound /\ start.cmd = "tableStart" /\ start.tid = t
    BY <1>2 DEF Inbound
  <2>2. list \in Inbound /\ list.cmd = "gameActionList" /\ list.tid = t /\ list.n = turn[t]
    BY <1>2 DEF Inbound
  <2>3. init \in Inbound /\ init.cmd = "init" /\ init.tid = t /\ (init.replay <=> stage[t] = "replay")
    <3>1. PICK r : r = (stage[t] = "replay")
      OBVIOUS
    <3>2. r \in BOOLEAN /\ init = [cmd |-> "init", tid |-> t, replay |-> r]
      BY <3>1
    <3>. QED
      BY <1>2, <3>1, <3>2 DEF Inbound
  <2>4. conn \in Inbound /\ conn.cmd = "connected" /\ conn.tid = t
    <3>1. PICK r : r = (t \in partner)
      OBVIOUS
    <3>2. r \in BOOLEAN /\ conn = [cmd |-> "connected", tid |-> t, all |-> r]
      BY <3>1
    <3>. QED
      BY <1>2, <3>2 DEF Inbound
  <2>. QED
    BY <2>1, <2>2, <2>3, <2>4
<1>4. /\ inbox' = CASE cmd = "tableReattend" /\ live -> Append(inbox, start)
                    [] cmd = "getGameInfo1" /\ live -> Append(inbox, init)
                    [] cmd = "getGameInfo2" /\ live -> Append(inbox, list)
                    [] cmd = "loaded" /\ live -> Append(inbox, conn)
                    [] OTHER -> inbox
      /\ following' = CASE cmd = "tableReattend" /\ ResumeAtReattend -> following \cup {t}
                        [] cmd = "getGameInfo2" -> following \cup {t}
                        [] cmd = "tableUnattend" -> following \ {t}
                        [] OTHER -> following
      /\ started' = IF cmd = "loaded" /\ stage[t] = "running" THEN started \cup {t} ELSE started
  BY DEF Serve
<1>5. outbox[1].cmd = cmd /\ outbox[1].tid = t
  BY <1>1
<1>. HIDE DEF t, cmd, start, init, list, conn
<1>6. CASE cmd = "tableReattend"
  <2>1. /\ \/ following' = following
           \/ ResumeAtReattend /\ following' = following \cup {t}
        /\ started' = started
    BY <1>4, <1>6
  <2>2. CASE live
    <3>1. inbox' = Append(inbox, start)
      BY <1>4, <1>6, <2>2
    <3>2. Moves(inbox, inbox', 0, {start})
      BY <1>2, <1>3, <3>1, AppendMoves
    <3>3. ServesOpening(t)
      BY <1>3, <1>5, <1>6, <2>1, <2>2, <3>2 DEF ServesOpening, Asks
    <3>. QED
      BY <1>2, <3>3
  <2>3. CASE ~live
    <3>1. inbox' = inbox /\ stage[t] # "running"
      BY <1>4, <1>6, <2>3
    <3>2. ServesNothing(t)
      BY <1>5, <1>6, <2>1, <3>1 DEF ServesNothing
    <3>. QED
      BY <1>2, <3>2
  <2>. QED
    BY <2>2, <2>3
<1>7. CASE cmd = "getGameInfo1"
  <2>1. following' = following /\ started' = started
    BY <1>4, <1>7
  <2>2. CASE live
    <3>1. inbox' = Append(inbox, init)
      BY <1>4, <1>7, <2>2
    <3>2. Moves(inbox, inbox', 0, {init})
      BY <1>2, <1>3, <3>1, AppendMoves
    <3>3. ServesOpening(t)
      BY <1>3, <1>5, <1>7, <2>1, <2>2, <3>2 DEF ServesOpening, Asks
    <3>. QED
      BY <1>2, <3>3
  <2>3. CASE ~live
    <3>1. inbox' = inbox
      BY <1>4, <1>7, <2>3
    <3>2. ServesNothing(t)
      BY <2>1, <3>1 DEF ServesNothing
    <3>. QED
      BY <1>2, <3>2
  <2>. QED
    BY <2>2, <2>3
<1>8. CASE cmd = "getGameInfo2"
  <2>1. following' = following \cup {t} /\ started' = started
    BY <1>4, <1>8
  <2>2. CASE live
    <3>1. inbox' = Append(inbox, list)
      BY <1>4, <1>8, <2>2
    <3>2. Moves(inbox, inbox', 0, {list})
      BY <1>2, <1>3, <3>1, AppendMoves
    <3>3. ServesList(t)
      BY <1>3, <1>5, <1>8, <2>1, <2>2, <3>2 DEF ServesList, Is
    <3>. QED
      BY <1>2, <3>3
  <2>3. CASE ~live
    <3>1. inbox' = inbox /\ stage[t] # "running"
      BY <1>4, <1>8, <2>3
    <3>2. ServesNothing(t)
      BY <1>5, <1>8, <2>1, <3>1 DEF ServesNothing
    <3>. QED
      BY <1>2, <3>2
  <2>. QED
    BY <2>2, <2>3
<1>9. CASE cmd = "loaded"
  <2>1. following' = following /\ started' = IF stage[t] = "running" THEN started \cup {t} ELSE started
    BY <1>4, <1>9
  <2>2. CASE live
    <3>1. inbox' = Append(inbox, conn)
      BY <1>4, <1>9, <2>2
    <3>2. Moves(inbox, inbox', 0, {conn})
      BY <1>2, <1>3, <3>1, AppendMoves
    <3>3. ServesLoaded(t)
      BY <1>3, <1>5, <1>9, <2>1, <2>2, <3>2 DEF ServesLoaded, Is
    <3>. QED
      BY <1>2, <3>3
  <2>3. CASE ~live
    <3>1. inbox' = inbox /\ started' = started
      BY <1>4, <1>9, <2>1, <2>3
    <3>2. ServesNothing(t)
      BY <2>1, <3>1 DEF ServesNothing
    <3>. QED
      BY <1>2, <3>2
  <2>. QED
    BY <2>2, <2>3
<1>10. CASE cmd = "tableUnattend"
  <2>1. following' = following \ {t} /\ started' = started /\ inbox' = inbox
    BY <1>4, <1>10
  <2>2. ServesNothing(t)
    BY <1>5, <1>10, <2>1 DEF ServesNothing
  <2>. QED
    BY <1>2, <2>2
<1>. QED
  BY <1>2, <1>6, <1>7, <1>8, <1>9, <1>10

\* A turn is taken on a running table, and told if we follow it.
TurnTaken(t) ==
  /\ stage[t] = "running" /\ t \in started /\ turn'[t] = turn[t] + 1
  /\ \A u \in Tables : u # t => turn'[u] = turn[u]
  /\ Moves(inbox, inbox', 0,
           IF t \in following THEN {[cmd |-> "turn", tid |-> t, n |-> turn[t] + 1]} ELSE {})
  /\ UNCHANGED <<clientVars, up, drops, stage, started, following>>

\* What Serve does with an accepted action, in the form TurnTaken gives it.
LEMMA TakenIsTold ==
  ASSUME BotClientAssumption, TypeOK, NEW t \in Tables,
         stage[t] = "running", t \in started, turn[t] < MaxTurns,
         turn' = [turn EXCEPT ![t] = @ + 1],
         Tell(t, [cmd |-> "turn", tid |-> t, n |-> turn[t] + 1]),
         UNCHANGED <<clientVars, up, drops, stage, started, following>>
  PROVE  TurnTaken(t)
<1>. DEFINE m == [cmd |-> "turn", tid |-> t, n |-> turn[t] + 1]
<1>1. turn \in [Tables -> Turns] /\ turn[t] + 1 \in Turns
  BY DEF TypeOK, Turns, BotClientAssumption
<1>2. m \in Inbound
  BY <1>1 DEF Inbound
<1>3. inbox' = IF t \in following THEN Append(inbox, m) ELSE inbox
  BY DEF Tell
<1>. HIDE DEF m
<1>4. Moves(inbox, inbox', 0, IF t \in following THEN {m} ELSE {})
  BY <1>2, <1>3, AppendMoves, StaysMoves DEF TypeOK
<1>. QED
  BY <1>1, <1>4 DEF TurnTaken, m

\* The server takes an action, or refuses it.
LEMMA ActEffect ==
  ASSUME BotClientAssumption, TypeOK, Act
  PROVE  \E t \in Tables :
           /\ 1 \in DOMAIN outbox /\ Is(outbox[1], "action", t) /\ Moves(outbox, outbox', 1, {})
           /\ \/ TurnTaken(t)
              \/ UNCHANGED <<clientVars, up, drops, stage, started, following, turn, inbox>>
<1>. DEFINE t == Head(outbox).tid
<1>1. /\ Head(outbox) = outbox[1] /\ 1 \in DOMAIN outbox /\ outbox[1] \in Outbound
      /\ Moves(outbox, outbox', 1, {}) /\ outbox[1].cmd = "action"
      /\ UNCHANGED <<clientVars, up, drops, stage, started, following>>
  BY TailMoves DEF Act, TypeOK
<1>2. t \in Tables /\ outbox[1].tid = t
  BY <1>1, OutboundFields
<1>3. \/ /\ stage[t] = "running" /\ t \in started /\ turn[t] < MaxTurns
         /\ turn' = [turn EXCEPT ![t] = @ + 1]
         /\ Tell(t, [cmd |-> "turn", tid |-> t, n |-> turn[t] + 1])
      \/ UNCHANGED <<turn, inbox>>
  BY DEF Act
<1>. HIDE DEF t
<1>. QED
  BY <1>1, <1>2, <1>3, TakenIsTold DEF Is
-----------------------------------------------------------------------------
(* The first argument, action by action. *)

\* A queue that stays as it is moves by nothing.
LEMMA Still ==
  ASSUME TypeOK
  PROVE  /\ inbox' = inbox => Moves(inbox, inbox', 0, {})
         /\ outbox' = outbox => Moves(outbox, outbox', 0, {})
         /\ jobs' = jobs => Moves(jobs, jobs', 0, {})
BY StaysMoves DEF TypeOK

\* A handler that took a message which tells table t nothing.
LEMMA OtherHandled ==
  ASSUME BotClientAssumption, TypeOK, TypeOK', NEW t \in Tables, NEW cmd, NEW u, NEW P,
         Takes(cmd, u), cmd \notin {"turn", "gameActionList"} \/ u # t,
         Moves(outbox, outbox', 0, P), \A m \in P : ~Asks(m, t) /\ ~Is(m, "loaded", t),
         \/ games'[t] = games[t] \/ games'[t] = NoGame
         \/ games[t] # NoGame /\ games'[t] # NoGame /\ games'[t].applied = games[t].applied,
         MailInv(t)
  PROVE  MailInv(t)'
<1>1. Moves(inbox, inbox', 1, {}) /\ ~Counts(inbox[1], t) /\ UNCHANGED <<stage, turn, started, following>>
  BY DEF Takes, Is, Counts
<1>. QED
  BY <1>1, QuietMail

\* A step of the server that tells table t nothing and leaves the Games alone.
LEMMA OtherTold ==
  ASSUME BotClientAssumption, TypeOK, TypeOK', NEW t \in Tables, NEW N, NEW l \in {0, 1},
         Moves(inbox, inbox', 0, N), Moves(outbox, outbox', l, {}),
         \A m \in N : ~Opens(m, t) /\ ~Counts(m, t) /\ (Ends(m, t) => stage'[t] # "lobby"),
         \/ stage'[t] = stage[t]
         \/ stage[t] = "running" /\ stage'[t] = "over" /\ t \in started
         \/ stage'[t] = "gone",
         t \in started' <=> t \in started, turn'[t] = turn[t], games' = games,
         t \in following' /\ t \notin following => stage[t] # "running" /\ ~Opening(t)',
         MailInv(t)
  PROVE  MailInv(t)'
<1>1. \A m \in {} : ~Asks(m, t) /\ ~Is(m, "loaded", t)
  OBVIOUS
<1>. QED
  BY <1>1, QuietMail

\* A decision is posted on a sound Game.
LEMMA PostedSound ==
  ASSUME NEW t, NEW g, NEW at, NEW ec, Posts(t, g, at, ec), g.sound, \A i \in DOMAIN jobs : jobs[i].sound
  PROVE  \A i \in DOMAIN jobs' : jobs'[i].sound
<1>1. CASE Moves(jobs, jobs', 0, {})
  BY <1>1 DEF Moves
<1>2. ASSUME NEW d, Moves(jobs, jobs', 0, {d}), d.sound = g.sound
      PROVE  \A i \in DOMAIN jobs' : jobs'[i].sound
  BY <1>2 DEF Moves
<1>. QED
  BY <1>1, <1>2 DEF Posts

\* on_welcome: at most one tableReattend for each table, and nothing else.
LEMMA WelcomeEffect ==
  ASSUME BotClientAssumption, TypeOK, OnWelcome
  PROVE  /\ Moves(inbox, inbox', 1, {}) /\ 1 \in DOMAIN inbox /\ inbox[1].cmd = "welcome"
         /\ UNCHANGED <<clientVars, up, drops, stage, turn, started, following>>
         /\ \E P : /\ Moves(outbox, outbox', 0, P)
                   /\ \A m \in P : m.cmd = "tableReattend" /\ m.tid \in inbox[1].playing
                   /\ \A m, n \in P : m.tid = n.tid => m = n
<1>. DEFINE W == inbox[1].playing
            P == {[cmd |-> "tableReattend", tid |-> u] : u \in W}
<1>1. Receive("welcome") /\ UNCHANGED clientVars
  BY DEF OnWelcome
<1>2. /\ Moves(inbox, inbox', 1, {}) /\ 1 \in DOMAIN inbox /\ Head(inbox) = inbox[1]
      /\ inbox[1] \in Inbound /\ inbox[1].cmd = "welcome"
      /\ UNCHANGED <<up, drops, stage, turn, started, following>>
  BY <1>1, Received
<1>3. W \subseteq Tables /\ outbox' = outbox \o SetToSeq(P)
  BY <1>2, InboundFields DEF OnWelcome
<1>4. P \subseteq Outbound /\ \A m \in P : m.cmd = "tableReattend" /\ m.tid \in W
  BY <1>3 DEF Outbound
<1>5. \A m, n \in P : m.tid = n.tid => m = n
  OBVIOUS
<1>6. IsFiniteSet(P)
  <2>1. IsFiniteSet(W)
    BY <1>3, FS_Subset DEF BotClientAssumption
  <2>. QED
    BY <2>1, ReattendsFinite
<1>. HIDE DEF P, W
<1>7. Moves(outbox, outbox', 0, P)
  <2>1. /\ SetToSeq(P) \in Seq(Outbound)
        /\ \A i \in DOMAIN SetToSeq(P) : SetToSeq(P)[i] \in P
        /\ \A m \in P : \E i \in DOMAIN SetToSeq(P) : SetToSeq(P)[i] = m
        /\ \A i, j \in DOMAIN SetToSeq(P) : SetToSeq(P)[i] = SetToSeq(P)[j] => i = j
    <3>1. SetToSeq(P) \in Seq(P)
      BY <1>6, SetToSeqLists
    <3>. QED
      BY <1>4, <1>6, <3>1, SetToSeqLists
  <2>2. PICK s : s = SetToSeq(P)
    OBVIOUS
  <2>. QED
    BY <1>3, <2>1, <2>2, ConcatMoves DEF TypeOK
<1>. QED
  BY <1>1, <1>2, <1>4, <1>5, <1>7 DEF W

\* A reattend takes the place of the welcome that listed its table.
LEMMA WelcomeMail ==
  ASSUME BotClientAssumption, TypeOK, TypeOK', NEW t \in Tables, OnWelcome, MailInv(t)
  PROVE  MailInv(t)'
<1>1. /\ Moves(inbox, inbox', 1, {}) /\ 1 \in DOMAIN inbox /\ inbox[1].cmd = "welcome"
      /\ UNCHANGED <<games, stage, turn, started, following>>
  BY WelcomeEffect DEF clientVars
<1>2. PICK P : /\ Moves(outbox, outbox', 0, P)
               /\ \A m \in P : m.cmd = "tableReattend" /\ m.tid \in inbox[1].playing
               /\ \A m, n \in P : m.tid = n.tid => m = n
  BY WelcomeEffect
<1>3. CASE t \in inbox[1].playing
  <2>1. Opens(inbox[1], t)
    BY <1>1, <1>3 DEF Opens
  <2>2. \A m, n \in P : Asks(m, t) /\ Asks(n, t) => m = n
    BY <1>2 DEF Asks
  <2>3. \A m \in P : ~Is(m, "loaded", t) /\ (Is(m, "getGameInfo2", t) => Blank(t)')
    BY <1>2 DEF Is
  <2>. QED
    BY <1>1, <1>2, <2>1, <2>2, <2>3, OpeningHandled
<1>4. CASE t \notin inbox[1].playing
  <2>1. \A m \in P : ~Asks(m, t) /\ ~Is(m, "loaded", t)
    BY <1>2, <1>4 DEF Asks, Is
  <2>2. ~Counts(inbox[1], t)
    BY <1>1 DEF Counts
  <2>. QED
    BY <1>1, <1>2, <2>1, <2>2, QuietMail
<1>. QED
  BY <1>3, <1>4

\* tableStart is answered by getGameInfo1: the opening goes on.
LEMMA TableStartMail ==
  ASSUME BotClientAssumption, TypeOK, TypeOK', NEW t \in Tables, OnTableStart, MailInv(t)
  PROVE  MailInv(t)'
<1>1. Receive("tableStart") /\ games' = games
  BY DEF OnTableStart, clientVars
<1>2. PICK u : u = inbox[1].tid
  OBVIOUS
<1>3. Head(inbox) = inbox[1] /\ u \in Tables /\ Takes("tableStart", u)
  BY <1>1, <1>2, TakesFirst
<1>4. PICK m : m = [cmd |-> "getGameInfo1", tid |-> u]
  OBVIOUS
<1>5. Moves(outbox, outbox', 0, {m})
  BY <1>2, <1>3, <1>4, Requested DEF OnTableStart
<1>6. m.cmd = "getGameInfo1" /\ m.tid = u
  BY <1>4
<1>7. CASE u = t
  <2>1. Opens(inbox[1], t) /\ 1 \in DOMAIN inbox /\ Moves(inbox, inbox', 1, {})
        /\ UNCHANGED <<stage, turn, started, following>>
    BY <1>3, <1>7 DEF Takes, Is, Opens
  <2>2. \A x \in {m} : ~Is(x, "loaded", t) /\ (Is(x, "getGameInfo2", t) => Blank(t)')
    BY <1>6 DEF Is
  <2>3. \A x, y \in {m} : Asks(x, t) /\ Asks(y, t) => x = y
    OBVIOUS
  <2>. QED
    BY <1>1, <1>5, <2>1, <2>2, <2>3, OpeningHandled
<1>8. CASE u # t
  <2>1. \A x \in {m} : ~Asks(x, t) /\ ~Is(x, "loaded", t)
    BY <1>6, <1>8 DEF Asks, Is
  <2>. QED
    BY <1>1, <1>3, <1>5, <1>8, <2>1, OtherHandled
<1>. QED
  BY <1>7, <1>8

\* init is answered by getGameInfo2: the opening goes on, with a fresh Game.
LEMMA InitMail ==
  ASSUME BotClientAssumption, TypeOK, TypeOK', NEW t \in Tables, OnInit, MailInv(t)
  PROVE  MailInv(t)'
<1>1. PICK u \in Tables : /\ Takes("init", u) /\ OthersSame(u) /\ games'[u].applied = 0
                          /\ Moves(outbox, outbox', 0, {[cmd |-> "getGameInfo2", tid |-> u]})
  BY InitEffect
<1>2. PICK m : m = [cmd |-> "getGameInfo2", tid |-> u]
  OBVIOUS
<1>3. m.cmd = "getGameInfo2" /\ m.tid = u /\ Moves(outbox, outbox', 0, {m})
  BY <1>1, <1>2
<1>4. CASE u = t
  <2>1. Opens(inbox[1], t) /\ 1 \in DOMAIN inbox /\ Moves(inbox, inbox', 1, {})
        /\ UNCHANGED <<stage, turn, started, following>>
    BY <1>1, <1>4 DEF Takes, Is, Opens
  <2>2. Blank(t)'
    BY <1>1, <1>4 DEF Blank
  <2>3. \A x \in {m} : ~Is(x, "loaded", t) /\ (Is(x, "getGameInfo2", t) => Blank(t)')
    BY <1>3, <2>2 DEF Is
  <2>4. \A x, y \in {m} : Asks(x, t) /\ Asks(y, t) => x = y
    OBVIOUS
  <2>. QED
    BY <1>1, <1>3, <1>4, <2>1, <2>3, <2>4, OpeningHandled
<1>5. CASE u # t
  <2>1. \A x \in {m} : ~Asks(x, t) /\ ~Is(x, "loaded", t)
    BY <1>3, <1>5 DEF Asks, Is
  <2>2. games'[t] = games[t]
    BY <1>1, <1>5 DEF OthersSame
  <2>. QED
    BY <1>1, <1>3, <1>5, <2>1, <2>2, OtherHandled
<1>. QED
  BY <1>4, <1>5

\* The Game saw the turn before the one it is told: it stays sound.
LEMMA TurnMail ==
  ASSUME BotClientAssumption, TypeOK, TypeOK', NEW t \in Tables, OnTurn, AllSound, MailInv(t)
  PROVE  MailInv(t)' /\ games'[t].sound
<1>1. PICK u \in Tables : /\ Takes("turn", u) /\ OthersSame(u)
                          /\ games'[u] \in Applied(games[u], inbox[1].n) /\ outbox' = outbox
  BY TurnEffect
<1>2. PICK n : n = inbox[1].n
  OBVIOUS
<1>3. Moves(outbox, outbox', 0, {}) /\ games[t].sound
  BY <1>1, Still DEF AllSound
<1>4. CASE u = t
  <2>1. Is(inbox[1], "turn", t) /\ 1 \in DOMAIN inbox /\ Moves(inbox, inbox', 1, {})
        /\ UNCHANGED <<stage, turn, started, following>>
    BY <1>1, <1>4 DEF Takes
  <2>2. games'[t] \in Applied(games[t], n)
    BY <1>1, <1>2, <1>4
  <2>. QED
    BY <1>2, <1>3, <2>1, <2>2, TurnHandled
<1>5. CASE u # t
  <2>1. games'[t] = games[t]
    BY <1>1, <1>5 DEF OthersSame
  <2>2. \A x \in {} : ~Asks(x, t) /\ ~Is(x, "loaded", t)
    OBVIOUS
  <2>. QED
    BY <1>1, <1>3, <1>5, <2>1, <2>2, OtherHandled
<1>. QED
  BY <1>4, <1>5

\* The list finds a fresh Game: it stays sound, and the opening ends.
LEMMA ListMail ==
  ASSUME BotClientAssumption, TypeOK, TypeOK', NEW t \in Tables, OnGameActionList, AllSound, MailInv(t)
  PROVE  MailInv(t)' /\ games'[t].sound
<1>1. PICK u \in Tables :
           /\ Takes("gameActionList", u) /\ OthersSame(u)
           /\ Moves(outbox, outbox', 0, {[cmd |-> "loaded", tid |-> u]})
           /\ \/ games[u] = NoGame /\ games'[u] = NoGame
              \/ /\ games[u] # NoGame /\ games'[u].applied = inbox[1].n
                 /\ games'[u].sound <=> games[u].sound /\ games[u].applied = 0
  BY ListEffect
<1>2. PICK m, n : m = [cmd |-> "loaded", tid |-> u] /\ n = inbox[1].n
  OBVIOUS
<1>3. m.cmd = "loaded" /\ m.tid = u /\ Moves(outbox, outbox', 0, {m}) /\ games[t].sound
  BY <1>1, <1>2 DEF AllSound
<1>4. CASE u = t
  <2>1. Is(inbox[1], "gameActionList", t) /\ 1 \in DOMAIN inbox /\ Moves(inbox, inbox', 1, {})
        /\ UNCHANGED <<stage, turn, started, following>>
    BY <1>1, <1>4 DEF Takes
  <2>2. \/ games[t] = NoGame /\ games'[t] = NoGame
        \/ games[t] # NoGame /\ games'[t].applied = n
    BY <1>1, <1>2, <1>4
  <2>3. \A x \in {m} : Is(x, "loaded", t)
    BY <1>3, <1>4 DEF Is
  <2>4. MailInv(t)' /\ Blank(t)
    BY <1>2, <1>3, <2>1, <2>2, <2>3, ListHandled
  <2>5. games'[t].sound
    BY <1>1, <1>3, <1>4, <2>4 DEF Blank
  <2>. QED
    BY <2>4, <2>5
<1>5. CASE u # t
  <2>1. games'[t] = games[t]
    BY <1>1, <1>5 DEF OthersSame
  <2>2. \A x \in {m} : ~Asks(x, t) /\ ~Is(x, "loaded", t)
    BY <1>3, <1>5 DEF Asks, Is
  <2>. QED
    BY <1>1, <1>3, <1>5, <2>1, <2>2, OtherHandled
<1>. QED
  BY <1>4, <1>5
-----------------------------------------------------------------------------
(* The steps of the server. *)

\* Each answer of the server either carries an opening on or says nothing new.
LEMMA ServeMail ==
  ASSUME BotClientAssumption, TypeOK, TypeOK', NEW t \in Tables, Serve, LinkInv, Ordered, MailInv(t)
  PROVE  MailInv(t)'
<1>1. PICK u \in Tables :
        /\ Answers(u)
        /\ ServesOpening(u) \/ ServesList(u) \/ ServesLoaded(u) \/ ServesNothing(u)
  BY ServeEffect
<1>2. /\ 1 \in DOMAIN outbox /\ outbox[1].tid = u /\ Moves(outbox, outbox', 1, {})
      /\ UNCHANGED <<games, stage, turn>>
  BY <1>1 DEF Answers, clientVars
<1>3. ResumeAtReattend => outbox[1].cmd # "tableReattend"
  BY <1>2 DEF LinkInv, Ordered
<1>4. CASE ServesOpening(u)
  <2>1. PICK m : Moves(inbox, inbox', 0, {m}) /\ m.cmd \in {"tableStart", "init"} /\ m.tid = u
    BY <1>4 DEF ServesOpening
  <2>2. UNCHANGED <<started, following>> /\ Asks(outbox[1], u)
    BY <1>3, <1>4 DEF ServesOpening
  <2>3. CASE u = t
    <3>1. Opens(m, t) /\ ~Counts(m, t) /\ ~Ends(m, t)
      BY <2>1, <2>3 DEF Opens, Counts, Ends
    <3>. QED
      BY <1>2, <2>1, <2>2, <2>3, <3>1, OpeningSent
  <2>4. CASE u # t
    <3>1. \A x \in {m} : ~Opens(x, t) /\ ~Counts(x, t) /\ (Ends(x, t) => stage'[t] # "lobby")
      BY <2>1, <2>4 DEF Opens, Counts, Ends
    <3>. QED
      BY <1>2, <2>1, <2>2, <3>1, OtherTold
  <2>. QED
    BY <2>3, <2>4
<1>5. CASE ServesList(u)
  <2>1. PICK m : Moves(inbox, inbox', 0, {m}) /\ Is(m, "gameActionList", u) /\ m.n = turn[u]
    BY <1>5 DEF ServesList
  <2>2. /\ UNCHANGED started /\ Is(outbox[1], "getGameInfo2", u) /\ stage[u] # "lobby"
        /\ following' = following \cup {u}
    BY <1>5 DEF ServesList
  <2>3. CASE u = t
    BY <1>2, <2>1, <2>2, <2>3, ListSent
  <2>4. CASE u # t
    <3>1. \A x \in {m} : ~Opens(x, t) /\ ~Counts(x, t) /\ (Ends(x, t) => stage'[t] # "lobby")
      BY <2>1, <2>4 DEF Opens, Counts, Ends, Is
    <3>2. t \in following' <=> t \in following
      BY <2>2, <2>4
    <3>. QED
      BY <1>2, <2>1, <2>2, <3>1, <3>2, OtherTold
  <2>. QED
    BY <2>3, <2>4
<1>6. CASE ServesLoaded(u)
  <2>1. PICK m : Moves(inbox, inbox', 0, {m}) /\ Is(m, "connected", u)
    BY <1>6 DEF ServesLoaded
  <2>2. /\ UNCHANGED following /\ Is(outbox[1], "loaded", u)
        /\ \/ stage[u] = "running" /\ started' = started \cup {u}
           \/ stage[u] = "replay" /\ started' = started
    BY <1>6 DEF ServesLoaded
  <2>3. \A x \in {m} : ~Opens(x, t) /\ ~Counts(x, t) /\ ~Ends(x, t)
    BY <2>1 DEF Opens, Counts, Ends, Is
  <2>4. CASE u = t /\ stage[u] = "running"
    <3>1. t \in started'
      BY <2>2, <2>4
    <3>. QED
      BY <1>2, <2>1, <2>2, <2>3, <2>4, <3>1, LoadedHeard
  <2>5. CASE u # t \/ stage[u] # "running"
    <3>1. t \in started' <=> t \in started
      BY <2>2, <2>5
    <3>. QED
      BY <1>2, <2>1, <2>2, <2>3, <3>1, OtherTold
  <2>. QED
    BY <2>4, <2>5
<1>7. CASE ServesNothing(u)
  <2>1. UNCHANGED <<inbox, started>> /\ Moves(inbox, inbox', 0, {})
    BY <1>7, Still DEF ServesNothing
  <2>2. ASSUME t \in following', t \notin following
        PROVE  stage[t] # "running" /\ ~Opening(t)'
    <3>1. u = t /\ outbox[1].cmd = "getGameInfo2" /\ stage[t] # "running"
      BY <1>3, <1>7, <2>2 DEF ServesNothing
    <3>2. Asks(outbox[1], t)
      BY <1>2, <3>1 DEF Asks
    <3>3. /\ \A i \in DOMAIN inbox : ~Opens(inbox[i], t)
          /\ \A i \in DOMAIN outbox : Asks(outbox[i], t) => i = 1
      BY <1>2, <3>2 DEF MailInv, OneOpening
    <3>4. \A i \in DOMAIN outbox' : ~Asks(outbox'[i], t)
      <4>1. \A i \in DOMAIN outbox' : i \in Nat /\ i # 0 /\ i + 1 \in DOMAIN outbox /\ outbox'[i] = outbox[i + 1]
        BY <1>2 DEF Moves
      <4>. QED
        BY <3>3, <4>1
    <3>. QED
      BY <2>1, <3>1, <3>3, <3>4 DEF Opening
  <2>3. \A x \in {} : ~Opens(x, t) /\ ~Counts(x, t) /\ (Ends(x, t) => stage'[t] # "lobby")
    OBVIOUS
  <2>. QED
    BY <1>2, <2>1, <2>2, <2>3, OtherTold
<1>. QED
  BY <1>1, <1>4, <1>5, <1>6, <1>7

\* A turn that is taken on table u, whose action was the request l = 1.
LEMMA TakenMail ==
  ASSUME BotClientAssumption, TypeOK, TypeOK', NEW t \in Tables, NEW u \in Tables, NEW l \in {0, 1},
         TurnTaken(u), Moves(outbox, outbox', l, {}), MailInv(t)
  PROVE  MailInv(t)'
<1>1. PICK N : N = IF u \in following THEN {[cmd |-> "turn", tid |-> u, n |-> turn[u] + 1]} ELSE {}
  OBVIOUS
<1>2. /\ Moves(inbox, inbox', 0, N) /\ UNCHANGED <<games, stage, started, following>>
      /\ stage[u] = "running" /\ u \in started /\ turn'[u] = turn[u] + 1
      /\ \A v \in Tables : v # u => turn'[v] = turn[v]
  BY <1>1 DEF TurnTaken, clientVars
<1>3. CASE u = t
  BY <1>1, <1>2, <1>3, TurnTold
<1>4. CASE u # t
  <2>1. \A x \in N : x.cmd = "turn" /\ x.tid = u
    BY <1>1
  <2>2. \A x \in N : ~Opens(x, t) /\ ~Counts(x, t) /\ (Ends(x, t) => stage'[t] # "lobby")
    BY <1>4, <2>1 DEF Opens, Counts, Ends
  <2>. QED
    BY <1>2, <1>4, <2>2, OtherTold
<1>. QED
  BY <1>3, <1>4

\* An action that is taken tells the next turn.
LEMMA ActMail ==
  ASSUME BotClientAssumption, TypeOK, TypeOK', NEW t \in Tables, Act, MailInv(t)
  PROVE  MailInv(t)'
<1>1. PICK u \in Tables :
           /\ 1 \in DOMAIN outbox /\ Is(outbox[1], "action", u) /\ Moves(outbox, outbox', 1, {})
           /\ \/ TurnTaken(u)
              \/ UNCHANGED <<clientVars, up, drops, stage, started, following, turn, inbox>>
  BY ActEffect
<1>2. CASE TurnTaken(u)
  BY <1>1, <1>2, TakenMail
<1>3. CASE UNCHANGED <<clientVars, up, drops, stage, started, following, turn, inbox>>
  <2>1. UNCHANGED <<games, stage, started, following, turn>> /\ Moves(inbox, inbox', 0, {})
    BY <1>3, Still DEF clientVars
  <2>2. \A x \in {} : ~Opens(x, t) /\ ~Counts(x, t) /\ (Ends(x, t) => stage'[t] # "lobby")
    OBVIOUS
  <2>. QED
    BY <1>1, <2>1, <2>2, OtherTold
<1>. QED
  BY <1>1, <1>2, <1>3

\* A partner that moves takes a turn that is not ours.
LEMMA PartnerEffect ==
  ASSUME BotClientAssumption, TypeOK, NEW u \in Tables, PartnerActs(u)
  PROVE  TurnTaken(u) /\ outbox' = outbox /\ ~OurTurn(turn[u])
BY TakenIsTold DEF PartnerActs

\* What the server tells a table it runs, or ran, without opening it.
LEMMA ToldEffect ==
  ASSUME BotClientAssumption, TypeOK, NEW u \in Tables, NEW m \in Inbound, Tell(u, m)
  PROVE  \E N \in SUBSET {m} : Moves(inbox, inbox', 0, N) /\ (u \in following => N = {m})
<1>1. inbox' = IF u \in following THEN Append(inbox, m) ELSE inbox
  BY DEF Tell
<1>2. CASE u \in following
  BY <1>1, <1>2, AppendMoves DEF TypeOK
<1>3. CASE u \notin following
  BY <1>1, <1>3, Still
<1>. QED
  BY <1>2, <1>3

\* Who is there says nothing about turns.
LEMMA PartnerComesOrGoesMail ==
  ASSUME BotClientAssumption, TypeOK, TypeOK', NEW t \in Tables, NEW u \in Tables,
         PartnerComesOrGoes(u), MailInv(t)
  PROVE  MailInv(t)'
<1>1. PICK m, a : m = [cmd |-> "connected", tid |-> u, all |-> a] /\ a = (u \notin partner)
  OBVIOUS
<1>2. m \in Inbound /\ m.cmd = "connected"
  <2>1. a \in BOOLEAN
    BY <1>1
  <2>. QED
    BY <1>1, <2>1 DEF Inbound
<1>3. Tell(u, m) /\ UNCHANGED <<games, stage, started, following, turn, outbox>>
  BY <1>1 DEF PartnerComesOrGoes, clientVars
<1>4. PICK N \in SUBSET {m} : Moves(inbox, inbox', 0, N)
  BY <1>2, <1>3, ToldEffect
<1>5. \A x \in N : ~Opens(x, t) /\ ~Counts(x, t) /\ (Ends(x, t) => stage'[t] # "lobby")
  BY <1>2, <1>4 DEF Opens, Counts, Ends
<1>6. Moves(outbox, outbox', 0, {})
  BY <1>3, Still
<1>. QED
  BY <1>3, <1>4, <1>5, <1>6, OtherTold

\* A game that starts is opened once.
LEMMA StartGameMail ==
  ASSUME BotClientAssumption, TypeOK, TypeOK', NEW t \in Tables, NEW u \in Tables, StartGame(u), MailInv(t)
  PROVE  MailInv(t)'
<1>1. PICK m : m = [cmd |-> "tableStart", tid |-> u]
  OBVIOUS
<1>2. m \in Inbound /\ m.cmd = "tableStart" /\ m.tid = u
  BY <1>1 DEF Inbound
<1>3. /\ stage[u] = "lobby" /\ stage'[u] = "running" /\ \A v \in Tables : v # u => stage'[v] = stage[v]
      /\ following' = following \cup {u} /\ inbox' = Append(inbox, m)
      /\ UNCHANGED <<games, started, turn, outbox>>
  BY <1>1 DEF StartGame, clientVars, TypeOK
<1>4. Moves(inbox, inbox', 0, {m}) /\ Moves(outbox, outbox', 0, {})
  BY <1>2, <1>3, AppendMoves, Still DEF TypeOK
<1>5. CASE u = t
  <2>1. Opens(m, t) /\ ~Counts(m, t) /\ ~Ends(m, t)
    BY <1>2, <1>5 DEF Opens, Counts, Ends
  <2>. QED
    BY <1>3, <1>4, <1>5, <2>1, OpeningSent
<1>6. CASE u # t
  <2>1. \A x \in {m} : ~Opens(x, t) /\ ~Counts(x, t) /\ (Ends(x, t) => stage'[t] # "lobby")
    BY <1>2, <1>6 DEF Opens, Counts, Ends
  <2>2. stage'[t] = stage[t] /\ (t \in following' <=> t \in following)
    BY <1>3, <1>6
  <2>. QED
    BY <1>3, <1>4, <2>1, <2>2, OtherTold
<1>. QED
  BY <1>5, <1>6

\* The messages of the end of a game, if we follow it.
LEMMA EndGameEffect ==
  ASSUME TypeOK, NEW u \in Tables, EndGame(u)
  PROVE  \E N : /\ Moves(inbox, inbox', 0, N)
                /\ \A x \in N : x.cmd \in {"gameOver", "tableGone", "finishOngoingGame"} /\ x.tid = u
<1>1. PICK a, b, c : /\ a = [cmd |-> "gameOver", tid |-> u] /\ b = [cmd |-> "tableGone", tid |-> u]
                     /\ c = [cmd |-> "finishOngoingGame", tid |-> u]
  OBVIOUS
<1>2. /\ a \in Inbound /\ a.cmd = "gameOver" /\ a.tid = u
      /\ b \in Inbound /\ b.cmd = "tableGone" /\ b.tid = u
      /\ c \in Inbound /\ c.cmd = "finishOngoingGame" /\ c.tid = u
  BY <1>1 DEF Inbound
<1>3. inbox' = IF u \in following THEN inbox \o <<a, b, c>> ELSE inbox
  BY <1>1 DEF EndGame
<1>4. CASE u \in following
  <2>. DEFINE s == <<a, b, c>>
  <2>1. /\ s \in Seq(Inbound) /\ DOMAIN s = {1, 2, 3} /\ s[1] = a /\ s[2] = b /\ s[3] = c
        /\ a # b /\ a # c /\ b # c
    BY <1>2
  <2>2. inbox' = inbox \o s
    BY <1>3, <1>4
  <2>. HIDE DEF s
  <2>3. /\ \A i \in DOMAIN s : s[i] \in {a, b, c}
        /\ \A m \in {a, b, c} : \E i \in DOMAIN s : s[i] = m
        /\ \A i, j \in DOMAIN s : s[i] = s[j] => i = j
    BY <2>1
  <2>4. Moves(inbox, inbox', 0, {a, b, c})
    BY <2>1, <2>2, <2>3, ConcatMoves DEF TypeOK
  <2>5. \A x \in {a, b, c} : x.cmd \in {"gameOver", "tableGone", "finishOngoingGame"} /\ x.tid = u
    BY <1>2
  <2>. QED
    BY <2>4, <2>5
<1>5. CASE u \notin following
  <2>1. Moves(inbox, inbox', 0, {})
    BY <1>3, <1>5, Still
  <2>. QED
    BY <2>1
<1>. QED
  BY <1>4, <1>5

\* A game that ends opens nothing.
LEMMA EndGameMail ==
  ASSUME BotClientAssumption, TypeOK, TypeOK', NEW t \in Tables, NEW u \in Tables, EndGame(u), MailInv(t)
  PROVE  MailInv(t)'
<1>1. /\ stage[u] = "running" /\ u \in started /\ stage'[u] = "over"
      /\ \A v \in Tables : v # u => stage'[v] = stage[v]
      /\ UNCHANGED <<games, started, turn, following, outbox>>
  BY DEF EndGame, clientVars, TypeOK
<1>2. Moves(outbox, outbox', 0, {})
  BY <1>1, Still
<1>3. PICK N : /\ Moves(inbox, inbox', 0, N)
               /\ \A x \in N : x.cmd \in {"gameOver", "tableGone", "finishOngoingGame"} /\ x.tid = u
  BY EndGameEffect
<1>4. \A x \in N : ~Opens(x, t) /\ ~Counts(x, t) /\ (Ends(x, t) => stage'[t] # "lobby")
  BY <1>1, <1>3 DEF Opens, Counts, Ends
<1>5. stage'[t] = stage[t] \/ (stage[t] = "running" /\ stage'[t] = "over" /\ t \in started)
  BY <1>1
<1>. QED
  BY <1>1, <1>2, <1>3, <1>4, <1>5, OtherTold

\* A replay is opened once, after the game.
LEMMA ReplayMail ==
  ASSUME BotClientAssumption, TypeOK, TypeOK', NEW t \in Tables, NEW u \in Tables,
         OpenReplay(u) \/ CloseReplay(u), MailInv(t)
  PROVE  MailInv(t)'
<1>1. CASE OpenReplay(u)
  <2>1. PICK m : m = [cmd |-> "tableStart", tid |-> u]
    OBVIOUS
  <2>2. m \in Inbound /\ m.cmd = "tableStart" /\ m.tid = u
    BY <2>1 DEF Inbound
  <2>3. /\ stage[u] = "over" /\ stage'[u] = "replay" /\ u \in following /\ Tell(u, m)
        /\ \A v \in Tables : v # u => stage'[v] = stage[v]
        /\ UNCHANGED <<games, started, turn, following, outbox>>
    BY <1>1, <2>1 DEF OpenReplay, clientVars, TypeOK
  <2>4. Moves(inbox, inbox', 0, {m}) /\ Moves(outbox, outbox', 0, {})
    BY <2>2, <2>3, ToldEffect, Still
  <2>5. CASE u = t
    <3>1. Opens(m, t) /\ ~Counts(m, t) /\ ~Ends(m, t)
      BY <2>2, <2>5 DEF Opens, Counts, Ends
    <3>. QED
      BY <2>3, <2>4, <2>5, <3>1, OpeningSent
  <2>6. CASE u # t
    <3>1. \A x \in {m} : ~Opens(x, t) /\ ~Counts(x, t) /\ (Ends(x, t) => stage'[t] # "lobby")
      BY <2>2, <2>6 DEF Opens, Counts, Ends
    <3>2. stage'[t] = stage[t]
      BY <2>3, <2>6
    <3>. QED
      BY <2>3, <2>4, <3>1, <3>2, OtherTold
  <2>. QED
    BY <2>5, <2>6
<1>2. CASE CloseReplay(u)
  <2>1. PICK m : m = [cmd |-> "tableGone", tid |-> u]
    OBVIOUS
  <2>2. m \in Inbound /\ m.cmd = "tableGone" /\ m.tid = u
    BY <2>1 DEF Inbound
  <2>3. /\ stage'[u] = "gone" /\ Tell(u, m)
        /\ \A v \in Tables : v # u => stage'[v] = stage[v]
        /\ UNCHANGED <<games, started, turn, following, outbox>>
    BY <1>2, <2>1 DEF CloseReplay, clientVars, TypeOK
  <2>4. PICK N \in SUBSET {m} : Moves(inbox, inbox', 0, N)
    BY <2>2, <2>3, ToldEffect
  <2>5. Moves(outbox, outbox', 0, {})
    BY <2>3, Still
  <2>6. \A x \in N : ~Opens(x, t) /\ ~Counts(x, t) /\ (Ends(x, t) => t = u)
    BY <2>2, <2>4 DEF Opens, Counts, Ends
  <2>7. stage'[t] = stage[t] \/ stage'[t] = "gone"
    BY <2>3
  <2>8. \A x \in N : Ends(x, t) => stage'[t] # "lobby"
    BY <2>3, <2>6
  <2>. QED
    BY <2>3, <2>4, <2>5, <2>6, <2>7, <2>8, OtherTold
<1>. QED
  BY <1>1, <1>2
-----------------------------------------------------------------------------
(* The first connection. *)

FirstOnly(q) == \A i \in DOMAIN q : q[i].cmd \notin {"welcome", "tableReattend"}

\* Taking from a queue, or adding what a first connection sends, keeps FirstOnly.
LEMMA FirstOnlyKept ==
  ASSUME NEW S, NEW q \in Seq(S), FirstOnly(q)
  PROVE  /\ q # <<>> => FirstOnly(Tail(q))
         /\ \A m : m.cmd \notin {"welcome", "tableReattend"} => FirstOnly(Append(q, m))
<1>1. ASSUME q # <<>>
      PROVE  FirstOnly(Tail(q))
  <2>1. Moves(q, Tail(q), 1, {})
    BY <1>1, TailMoves
  <2>. QED
    BY <2>1 DEF Moves, FirstOnly
<1>2. ASSUME NEW m, m.cmd \notin {"welcome", "tableReattend"}
      PROVE  FirstOnly(Append(q, m))
  <2>1. q \in Seq(S \cup {m}) /\ m \in S \cup {m}
    BY SeqMonotonic
  <2>2. Moves(q, Append(q, m), 0, {m})
    BY <2>1, AppendMoves
  <2>. QED
    BY <1>2, <2>2 DEF Moves, FirstOnly
<1>. QED
  BY <1>1, <1>2

\* Without a loss of connection there is neither a second welcome nor a reattend.
LEMMA LinkStep ==
  ASSUME BotClientAssumption, TypeOK, LinkInv, [Next]_vars
  PROVE  LinkInv' /\ (drops' = 0 => drops = 0)
<1>1. drops \in Nat
  BY DEF TypeOK, BotClientAssumption
<1>2. CASE Lose
  BY <1>1, <1>2 DEF Lose, LinkInv
<1>3. ASSUME ~Lose
      PROVE  drops' = drops
  BY <1>3 DEF Next, Handle, OnWelcome, OnTableStart, OnInit, OnTurn, OnGameActionList, OnConnected,
              OnGameOver, OnTableGone, OnDatabaseId, Receive, JobDone, JobThrows, Reconnect, Serve,
              Act, StartGame, PartnerActs, PartnerComesOrGoes, EndGame, OpenReplay, CloseReplay,
              Quiet, vars, linkVars
<1>4. ASSUME ~Lose, drops = 0
      PROVE  /\ up' /\ \A i \in DOMAIN inbox' : inbox'[i].cmd # "welcome"
             /\ \A i \in DOMAIN outbox' : outbox'[i].cmd # "tableReattend"
  <2>1. /\ up /\ inbox \in Seq(Inbound) /\ outbox \in Seq(Outbound)
        /\ FirstOnly(inbox) /\ FirstOnly(outbox)
    <3>1. up /\ inbox \in Seq(Inbound) /\ outbox \in Seq(Outbound)
      BY <1>4 DEF LinkInv, TypeOK
    <3>2. \A m \in Inbound : m.cmd # "tableReattend"
      BY DEF Inbound
    <3>3. \A m \in Outbound : m.cmd # "welcome"
      BY DEF Outbound
    <3>. QED
      BY <1>4, <3>1, <3>2, <3>3 DEF LinkInv, FirstOnly
  <2>2. /\ inbox # <<>> => FirstOnly(Tail(inbox)) /\ Head(inbox).cmd # "welcome"
        /\ outbox # <<>> => FirstOnly(Tail(outbox)) /\ Head(outbox).cmd # "tableReattend"
        /\ \A m : m.cmd \notin {"welcome", "tableReattend"} => FirstOnly(Append(inbox, m))
        /\ \A m : m.cmd \notin {"welcome", "tableReattend"} => FirstOnly(Append(outbox, m))
    BY <2>1, FirstOnlyKept, TailMoves DEF FirstOnly
  <2>3. ASSUME NEW cmd, Receive(cmd)
        PROVE  FirstOnly(inbox') /\ up' /\ cmd # "welcome"
    BY <2>1, <2>2, <2>3 DEF Receive
  <2>4. ASSUME NEW cmd, NEW t, cmd # "tableReattend", cmd # "welcome", Request(cmd, t)
        PROVE  FirstOnly(outbox')
    BY <2>2, <2>4 DEF Request
  <2>5. ASSUME NEW t, NEW m, m.cmd \notin {"welcome", "tableReattend"}, Tell(t, m)
        PROVE  FirstOnly(inbox')
    BY <2>1, <2>2, <2>5 DEF Tell
  <2>. HIDE DEF FirstOnly
  <2>6. CASE Handle
    <3>1. FirstOnly(inbox') /\ up' /\ ~OnWelcome
      BY <2>3, <2>6 DEF Handle, OnWelcome, OnTableStart, OnInit, OnTurn, OnGameActionList, OnConnected,
                        OnGameOver, OnTableGone, OnDatabaseId
    <3>2. FirstOnly(outbox')
      BY <2>1, <2>4, <2>6, <3>1
         DEF Handle, OnTableStart, OnInit, OnTurn, OnGameActionList, OnConnected,
             OnGameOver, OnTableGone, OnDatabaseId
    <3>. QED
      BY <3>1, <3>2 DEF FirstOnly
  <2>7. CASE JobDone \/ JobThrows \/ Quiet \/ UNCHANGED vars
    <3>1. inbox' = inbox /\ up' = up
      BY <2>7 DEF JobDone, JobThrows, Quiet, vars, linkVars
    <3>2. FirstOnly(outbox')
      <4>1. \/ outbox' = outbox
            \/ \E m : m.cmd = "action" /\ outbox' = Append(outbox, m)
        BY <2>7 DEF JobDone, JobThrows, Quiet, vars, linkVars
      <4>. QED
        BY <2>1, <2>2, <4>1
    <3>. QED
      BY <2>1, <3>1, <3>2 DEF FirstOnly
  <2>8. CASE Serve
    <3>1. FirstOnly(outbox') /\ up'
      BY <2>1, <2>2, <2>8 DEF Serve
    <3>2. \/ inbox' = inbox
          \/ \E m : /\ m.cmd \in {"tableStart", "init", "gameActionList", "connected"}
                    /\ inbox' = Append(inbox, m)
      BY <2>8 DEF Serve
    <3>. QED
      BY <2>1, <2>2, <3>1, <3>2 DEF FirstOnly
  <2>9. CASE Act
    <3>1. FirstOnly(outbox') /\ up'
      BY <2>1, <2>2, <2>9 DEF Act
    <3>2. FirstOnly(inbox')
      BY <2>1, <2>5, <2>9 DEF Act
    <3>. QED
      BY <3>1, <3>2 DEF FirstOnly
  <2>10. ASSUME NEW t \in Tables, \/ StartGame(t) \/ PartnerActs(t) \/ PartnerComesOrGoes(t)
                                  \/ OpenReplay(t) \/ CloseReplay(t)
         PROVE  FirstOnly(inbox') /\ outbox' = outbox /\ up' = up
    BY <2>2, <2>5, <2>10 DEF StartGame, PartnerActs, PartnerComesOrGoes, OpenReplay, CloseReplay
  <2>11. ASSUME NEW t \in Tables, EndGame(t)
         PROVE  FirstOnly(inbox') /\ outbox' = outbox /\ up' = up
    <3>1. PICK a, b, c : /\ a = [cmd |-> "gameOver", tid |-> t] /\ b = [cmd |-> "tableGone", tid |-> t]
                         /\ c = [cmd |-> "finishOngoingGame", tid |-> t]
      OBVIOUS
    <3>2. inbox' = inbox \/ inbox' = inbox \o <<a, b, c>>
      BY <2>11, <3>1 DEF EndGame
    <3>3. inbox \o <<a, b, c>> = Append(Append(Append(inbox, a), b), c)
      BY <2>1
    <3>4. FirstOnly(inbox \o <<a, b, c>>)
      <4>1. /\ a \in Inbound /\ a.cmd \notin {"welcome", "tableReattend"}
            /\ b \in Inbound /\ b.cmd \notin {"welcome", "tableReattend"}
            /\ c \in Inbound /\ c.cmd \notin {"welcome", "tableReattend"}
        BY <2>11, <3>1 DEF Inbound
      <4>2. PICK q, r : q = Append(inbox, a) /\ r = Append(q, b)
        OBVIOUS
      <4>3. q \in Seq(Inbound) /\ r \in Seq(Inbound)
        BY <2>1, <4>1, <4>2
      <4>4. FirstOnly(q)
        BY <2>2, <4>1, <4>2
      <4>5. FirstOnly(r)
        BY <4>1, <4>2, <4>3, <4>4, FirstOnlyKept
      <4>6. FirstOnly(Append(r, c))
        BY <4>1, <4>3, <4>5, FirstOnlyKept
      <4>. QED
        BY <3>3, <4>2, <4>6
    <3>. QED
      BY <2>1, <2>11, <3>2, <3>4 DEF EndGame
  <2>12. ~Reconnect
    BY <2>1 DEF Reconnect
  <2>. QED
    BY <1>4, <2>1, <2>6, <2>7, <2>8, <2>9, <2>10, <2>11, <2>12 DEF Next, FirstOnly
<1>. QED
  BY <1>1, <1>2, <1>3, <1>4 DEF LinkInv
-----------------------------------------------------------------------------
(* No Game misses a turn. *)

\* Decisions are made on sound Games, and kept as they were made.
LEMMA AllSoundStep ==
  ASSUME BotClientAssumption, TypeOK, TypeOK', AllSound, \A t \in Tables : MailInv(t), [Next]_vars
  PROVE  AllSound'
<1>. USE DEF AllSound
<1>1. CASE OnInit
  <2>1. PICK u \in Tables : /\ OthersSame(u) /\ games'[u].sound /\ jobs' = jobs
                            /\ Moves(outbox, outbox', 0, {[cmd |-> "getGameInfo2", tid |-> u]})
    BY <1>1, InitEffect
  <2>2. \A t \in Tables : games'[t].sound
    BY <2>1 DEF OthersSame
  <2>3. \A i \in DOMAIN outbox' : outbox'[i].cmd = "action" => outbox'[i].sound
    BY <2>1 DEF Moves
  <2>. QED
    BY <2>1, <2>2, <2>3
<1>2. CASE OnTurn
  <2>1. PICK u \in Tables, at \in BOOLEAN : Posts(u, games'[u], at, everyone_connected[u]) /\ outbox' = outbox
    BY <1>2, TurnEffect
  <2>2. \A t \in Tables : games'[t].sound
    BY <1>2, TurnMail
  <2>3. \A i \in DOMAIN jobs' : jobs'[i].sound
    BY <2>1, <2>2, PostedSound
  <2>. QED
    BY <2>1, <2>2, <2>3
<1>3. CASE OnGameActionList
  <2>1. PICK u \in Tables : /\ Moves(outbox, outbox', 0, {[cmd |-> "loaded", tid |-> u]})
                            /\ \/ jobs' = jobs
                               \/ Posts(u, games'[u], OurTurn(inbox[1].n), everyone_connected[u])
    BY <1>3, ListEffect
  <2>2. \A t \in Tables : games'[t].sound
    BY <1>3, ListMail
  <2>3. \A i \in DOMAIN jobs' : jobs'[i].sound
    BY <2>1, <2>2, PostedSound
  <2>4. \A i \in DOMAIN outbox' : outbox'[i].cmd = "action" => outbox'[i].sound
    BY <2>1 DEF Moves
  <2>. QED
    BY <2>2, <2>3, <2>4
<1>4. CASE OnConnected
  <2>1. PICK u \in Tables : Posts(u, games'[u], action_time[u], everyone_connected'[u])
                            /\ UNCHANGED <<games, outbox>>
    BY <1>4, ConnectedEffect
  <2>2. \A i \in DOMAIN jobs' : jobs'[i].sound
    BY <2>1, PostedSound
  <2>. QED
    BY <2>1, <2>2
<1>5. CASE OnGameOver
  <2>1. PICK u \in Tables :
          /\ OthersSame(u) /\ jobs' = jobs
          /\ games'[u] = NoGame \/ games'[u].sound = games[u].sound
          /\ \/ Moves(outbox, outbox', 0, {[cmd |-> "tableUnattend", tid |-> u]})
             \/ Moves(outbox, outbox', 0, {})
    BY <1>5, OverEffect
  <2>2. \A t \in Tables : games'[t].sound
    BY <2>1 DEF OthersSame, NoGame
  <2>3. \A i \in DOMAIN outbox' : outbox'[i].cmd = "action" => outbox'[i].sound
    BY <2>1 DEF Moves
  <2>. QED
    BY <2>1, <2>2, <2>3
<1>6. CASE OnTableGone
  <2>1. PICK u \in Tables : OthersSame(u) /\ games'[u] = NoGame /\ UNCHANGED <<jobs, outbox>>
    BY <1>6, GoneEffect
  <2>. QED
    BY <2>1 DEF OthersSame, NoGame
<1>7. CASE OnWelcome
  <2>1. UNCHANGED <<games, jobs>>
    BY <1>7 DEF OnWelcome, clientVars
  <2>2. PICK P : Moves(outbox, outbox', 0, P) /\ \A m \in P : m.cmd = "tableReattend"
    BY <1>7, WelcomeEffect
  <2>. QED
    BY <2>1, <2>2 DEF Moves
<1>8. CASE OnTableStart
  <2>1. UNCHANGED <<games, jobs>> /\ Receive("tableStart")
    BY <1>8 DEF OnTableStart, clientVars
  <2>2. inbox[1].tid \in Tables /\ Head(inbox) = inbox[1]
    BY <2>1, TakesFirst
  <2>3. Moves(outbox, outbox', 0, {[cmd |-> "getGameInfo1", tid |-> inbox[1].tid]})
    BY <1>8, <2>2, Requested DEF OnTableStart
  <2>. QED
    BY <2>1, <2>3 DEF Moves
<1>9. CASE JobDone
  <2>1. UNCHANGED games /\ \A i \in DOMAIN jobs' : jobs'[i].sound
    BY <1>9, JobDoneEffect DEF Moves
  <2>2. jobs[1].sound
    BY <1>9, JobDoneEffect
  <2>3. \A i \in DOMAIN outbox' : outbox'[i].cmd = "action" => outbox'[i].sound
    <3>1. CASE outbox' = outbox
      BY <3>1
    <3>2. ASSUME NEW m, Moves(outbox, outbox', 0, {m}), m.sound = jobs[1].sound
          PROVE  \A i \in DOMAIN outbox' : outbox'[i].cmd = "action" => outbox'[i].sound
      <4>1. m.sound
        BY <2>2, <3>2
      <4>. QED
        BY <3>2, <4>1 DEF Moves
    <3>. QED
      BY <1>9, <3>1, <3>2, JobDoneEffect
  <2>. QED
    BY <2>1, <2>3
<1>10. CASE JobThrows
  <2>1. UNCHANGED <<games, outbox>> /\ Moves(jobs, jobs', 1, {})
    BY <1>10, TailMoves DEF JobThrows, linkVars, TypeOK
  <2>. QED
    BY <2>1 DEF Moves
<1>11. CASE Serve \/ Act
  <2>1. UNCHANGED clientVars /\ outbox # <<>> /\ outbox' = Tail(outbox)
    BY <1>11 DEF Serve, Act
  <2>2. UNCHANGED <<games, jobs>> /\ Moves(outbox, outbox', 1, {})
    BY <2>1, TailMoves DEF clientVars, TypeOK
  <2>. QED
    BY <2>2 DEF Moves
<1>12. CASE Lose
  BY <1>12 DEF Lose, clientVars
<1>13. ASSUME \/ OnDatabaseId \/ Reconnect \/ Quiet \/ UNCHANGED vars
              \/ \E t \in Tables : \/ StartGame(t) \/ PartnerActs(t) \/ PartnerComesOrGoes(t)
                                   \/ EndGame(t) \/ OpenReplay(t) \/ CloseReplay(t)
       PROVE  AllSound'
  <2>1. UNCHANGED <<games, jobs, outbox>>
    BY <1>13 DEF OnDatabaseId, Reconnect, Quiet, StartGame, PartnerActs, PartnerComesOrGoes,
                 EndGame, OpenReplay, CloseReplay, clientVars, linkVars, vars
  <2>. QED
    BY <2>1
<1>. HIDE DEF AllSound
<1>. QED
  BY <1>1, <1>2, <1>3, <1>4, <1>5, <1>6, <1>7, <1>8, <1>9, <1>10, <1>11, <1>12, <1>13 DEF Next, Handle

\* Every step keeps the messages of every table in order.
LEMMA MailStep ==
  ASSUME BotClientAssumption, TypeOK, TypeOK', NobodyFollowed, LinkInv, Ordered, AllSound,
         NEW t \in Tables, MailInv(t), [Next]_vars
  PROVE  MailInv(t)'
<1>1. \A x \in {} : ~Opens(x, t) /\ ~Counts(x, t) /\ (Ends(x, t) => stage'[t] # "lobby")
  OBVIOUS
<1>2. \A x \in {} : ~Asks(x, t) /\ ~Is(x, "loaded", t)
  OBVIOUS
<1>3. CASE OnConnected
  <2>1. PICK u \in Tables : Takes("connected", u) /\ UNCHANGED <<games, outbox>>
    BY <1>3, ConnectedEffect
  <2>2. Moves(outbox, outbox', 0, {}) /\ games'[t] = games[t]
    BY <2>1, Still
  <2>. QED
    BY <1>2, <2>1, <2>2, OtherHandled
<1>4. CASE OnGameOver
  <2>1. PICK u \in Tables :
          /\ Takes("gameOver", u) /\ OthersSame(u)
          /\ \/ games'[u] = NoGame
             \/ games[u] # NoGame /\ games'[u] # NoGame /\ games'[u].applied = games[u].applied
          /\ \/ Moves(outbox, outbox', 0, {[cmd |-> "tableUnattend", tid |-> u]})
             \/ Moves(outbox, outbox', 0, {})
    BY <1>4, OverEffect
  <2>2. \/ games'[t] = games[t] \/ games'[t] = NoGame
        \/ games[t] # NoGame /\ games'[t] # NoGame /\ games'[t].applied = games[t].applied
    BY <2>1 DEF OthersSame
  <2>3. PICK P : Moves(outbox, outbox', 0, P) /\ \A m \in P : ~Asks(m, t) /\ ~Is(m, "loaded", t)
    <3>1. PICK m : m = [cmd |-> "tableUnattend", tid |-> u]
      OBVIOUS
    <3>2. \A x \in {m} : ~Asks(x, t) /\ ~Is(x, "loaded", t)
      BY <3>1 DEF Asks, Is
    <3>3. Moves(outbox, outbox', 0, {m}) \/ Moves(outbox, outbox', 0, {})
      BY <2>1, <3>1
    <3>. QED
      BY <1>2, <3>2, <3>3
  <2>. QED
    BY <2>1, <2>2, <2>3, OtherHandled
<1>5. CASE OnTableGone
  <2>1. PICK u \in Tables : Takes("tableGone", u) /\ OthersSame(u) /\ games'[u] = NoGame /\ outbox' = outbox
    BY <1>5, GoneEffect
  <2>2. Moves(outbox, outbox', 0, {}) /\ (games'[t] = games[t] \/ games'[t] = NoGame)
    BY <2>1, Still DEF OthersSame
  <2>. QED
    BY <1>2, <2>1, <2>2, OtherHandled
<1>6. CASE OnDatabaseId
  <2>1. Receive("finishOngoingGame") /\ UNCHANGED <<games, outbox>>
    BY <1>6 DEF OnDatabaseId
  <2>2. Takes("finishOngoingGame", inbox[1].tid) /\ Moves(outbox, outbox', 0, {}) /\ games'[t] = games[t]
    BY <2>1, TakesFirst, Still
  <2>. QED
    BY <1>2, <2>2, OtherHandled
<1>7. CASE JobDone
  <2>1. UNCHANGED <<games, inbox, stage, turn, started, following>>
    BY <1>7, JobDoneEffect DEF serverVars
  <2>2. PICK P : Moves(outbox, outbox', 0, P) /\ \A m \in P : m.cmd = "action"
    <3>1. CASE outbox' = outbox
      BY <3>1, Still
    <3>2. ASSUME NEW m, Moves(outbox, outbox', 0, {m}), m.cmd = "action"
          PROVE  \E P : Moves(outbox, outbox', 0, P) /\ \A x \in P : x.cmd = "action"
      BY <3>2
    <3>. QED
      BY <1>7, <3>1, <3>2, JobDoneEffect
  <2>3. \A m \in P : ~Asks(m, t) /\ ~Is(m, "loaded", t)
    BY <2>2 DEF Asks, Is
  <2>4. Moves(inbox, inbox', 0, {})
    BY <2>1, Still
  <2>. QED
    BY <1>1, <2>1, <2>2, <2>3, <2>4, QuietMail
<1>8. CASE JobThrows \/ Quiet \/ UNCHANGED vars
  <2>1. UNCHANGED <<games, inbox, outbox, stage, turn, started, following>>
    BY <1>8 DEF JobThrows, Quiet, vars, linkVars, serverVars, clientVars
  <2>2. Moves(inbox, inbox', 0, {}) /\ Moves(outbox, outbox', 0, {})
    BY <2>1, Still
  <2>. QED
    BY <1>1, <2>1, <2>2, OtherTold
<1>9. ASSUME NEW u \in Tables, PartnerActs(u)
      PROVE  MailInv(t)'
  <2>1. TurnTaken(u) /\ Moves(outbox, outbox', 0, {})
    BY <1>9, PartnerEffect, Still
  <2>. QED
    BY <2>1, TakenMail
<1>. QED
  BY <1>3, <1>4, <1>5, <1>6, <1>7, <1>8, <1>9, WelcomeMail, TableStartMail, InitMail, TurnMail, ListMail,
     MailLost, MailWelcome, ServeMail, ActMail, PartnerComesOrGoesMail, StartGameMail, EndGameMail,
     ReplayMail DEF Next, Handle

\* The first invariant holds at the start: nothing is on its way.
LEMMA SoundInit == BotClientAssumption /\ Init => SoundInv
<1>. SUFFICES ASSUME BotClientAssumption, Init
              PROVE  SoundInv
  OBVIOUS
<1>1. /\ inbox = <<>> /\ outbox = <<>> /\ jobs = <<>> /\ up /\ following = {} /\ started = {}
      /\ \A t \in Tables : games[t] = NoGame /\ stage[t] = "lobby" /\ turn[t] = 0
  BY DEF Init
<1>2. /\ \A i \in DOMAIN inbox : FALSE
      /\ \A i \in DOMAIN outbox : FALSE
      /\ \A i \in DOMAIN jobs : FALSE
      /\ NoGame.sound /\ NoGame.applied = -1
  BY <1>1 DEF NoGame
<1>3. LinkInv /\ AllSound
  BY <1>1, <1>2 DEF LinkInv, AllSound
<1>4. ASSUME NEW t \in Tables
      PROVE  MailInv(t)
  <2>1. ~Opening(t)
    BY <1>2 DEF Opening
  <2>. QED
    BY <1>1, <1>2, <2>1 DEF MailInv, OneOpening, OpeningAlone, OpeningLast, LoadedLast, Untouched,
                            CountsRise, CountsFollow, UpToDate
<1>. QED
  BY <1>3, <1>4 DEF SoundInv

\* Every step keeps the first invariant.
LEMMA SoundStep ==
  ASSUME BotClientAssumption, TypeOK, TypeOK', NobodyFollowed, SoundInv, [Next]_vars
  PROVE  SoundInv'
<1>1. LinkInv' /\ (drops' = 0 => drops = 0)
  BY LinkStep DEF SoundInv
<1>2. Ordered' => Ordered
  BY <1>1 DEF Ordered
<1>3. ASSUME Ordered
      PROVE  AllSound' /\ \A t \in Tables : MailInv(t)'
  <2>1. LinkInv /\ AllSound /\ \A t \in Tables : MailInv(t)
    BY <1>3 DEF SoundInv
  <2>. QED
    BY <1>3, <2>1, AllSoundStep, MailStep
<1>. QED
  BY <1>1, <1>2, <1>3 DEF SoundInv

\* No decision is ever made on a Game that missed a turn or saw one twice, if the
\* server sends no update before the list of all turns, or as long as the first
\* connection lasts.
THEOREM DecisionsAlwaysSound ==
  Spec => [](~ResumeAtReattend \/ drops = 0 => DecisionsAreSound)
<1>1. Init => TypeOK /\ NobodyFollowed /\ SoundInv
  BY TypeInit, SoundInit, BotClientAssumption
<1>2. TypeOK /\ NobodyFollowed /\ SoundInv /\ [Next]_vars => (TypeOK /\ NobodyFollowed /\ SoundInv)'
  BY TypeStep, SoundStep, BotClientAssumption
<1>3. TypeOK /\ SoundInv => (~ResumeAtReattend \/ drops = 0 => DecisionsAreSound)
  <2>. SUFFICES ASSUME TypeOK, AllSound, NEW i \in Decisions
                PROVE  OnItsWay[i].sound
    BY DEF SoundInv, Ordered, DecisionsAreSound
  <2>1. jobs \in Seq(Job) /\ outbox \in Seq(Outbound)
    BY DEF TypeOK
  <2>2. \/ i \in DOMAIN jobs /\ OnItsWay[i] = jobs[i]
        \/ i - Len(jobs) \in DOMAIN outbox /\ OnItsWay[i] = outbox[i - Len(jobs)] /\ OnItsWay[i].cmd = "action"
    BY <2>1 DEF OnItsWay, Decisions
  <2>. QED
    BY <2>2 DEF AllSound
<1>. QED
  BY <1>1, <1>2, <1>3, PTL DEF Spec
-----------------------------------------------------------------------------
(* The second argument: the decision of a table, on a first connection. *)

Undecided(t) ==
  /\ \A i \in DOMAIN jobs : jobs[i].tid # t
  /\ \A i \in DOMAIN outbox : ~Is(outbox[i], "action", t)

OneDecision(t) ==
  /\ \A i, j \in DOMAIN jobs : jobs[i].tid = t /\ jobs[j].tid = t => i = j
  /\ \A i, j \in DOMAIN outbox : Is(outbox[i], "action", t) /\ Is(outbox[j], "action", t) => i = j
  /\ \A i \in DOMAIN jobs, j \in DOMAIN outbox : ~(jobs[i].tid = t /\ Is(outbox[j], "action", t))

TurnKept(t) ==
  /\ \A i \in DOMAIN jobs : jobs[i].tid = t => jobs[i].turn = turn[t]
  /\ \A i \in DOMAIN outbox : Is(outbox[i], "action", t) => outbox[i].turn = turn[t]

\* With a decision on its way it is our turn, and the Game knows that it is decided.
DecidedNow(t) ==
  ~Undecided(t) => /\ OurTurn(turn[t])
                   /\ games[t].in_progress => games[t].applied = turn[t] /\ ~action_time[t]

Followed(t) ==
  /\ stage[t] = "running" => t \in following
  /\ stage[t] \in {"lobby", "running"} =>
       /\ \A i \in DOMAIN inbox : ~Ends(inbox[i], t)
       /\ \A i \in DOMAIN outbox : ~Is(outbox[i], "tableUnattend", t)

\* Until the server knows that we are ready nothing is decided; from then on no
\* list and no fresh Game comes in between, except for the replay.
Awaited(t) ==
  /\ t \in started =>
       /\ games[t].in_progress => /\ \A i \in DOMAIN outbox : ~Is(outbox[i], "getGameInfo2", t)
                                  /\ \A i \in DOMAIN inbox : ~Is(inbox[i], "gameActionList", t)
       /\ \A i \in DOMAIN inbox : Is(inbox[i], "init", t) => inbox[i].replay
  /\ t \notin started =>
       /\ stage[t] \in {"lobby", "running"} /\ ~everyone_connected[t] /\ Undecided(t)
       /\ \A i \in DOMAIN inbox : ~Is(inbox[i], "connected", t)

\* A running game has its Game from the init on.
Playing(t) ==
  stage[t] = "running" =>
    /\ \A i \in DOMAIN inbox : Is(inbox[i], "init", t) => ~inbox[i].replay
    /\ t \in started => games[t].in_progress
    /\ \A i \in DOMAIN outbox : Is(outbox[i], "getGameInfo2", t) \/ Is(outbox[i], "loaded", t) =>
          games[t].in_progress
    /\ \A i \in DOMAIN inbox : Is(inbox[i], "gameActionList", t) => games[t].in_progress

\* No turn of ours is told, or waits in the Game, that is not the table's last.
OurTurnIsNow(t) ==
  /\ games[t].in_progress /\ action_time[t] /\ OurTurn(games[t].applied) => games[t].applied = turn[t]
  /\ \A i \in DOMAIN inbox : Is(inbox[i], "turn", t) /\ OurTurn(inbox[i].n) => inbox[i].n = turn[t]

SteadyTable(t) == /\ OneDecision(t) /\ TurnKept(t) /\ DecidedNow(t) /\ Followed(t)
                  /\ Awaited(t) /\ Playing(t) /\ OurTurnIsNow(t)

\* The inductive invariant of the second argument, next to that of the first.
SteadyInv == drops = 0 => \A t \in Tables : SteadyTable(t)

\* Two players: after our turn comes the partner's.
LEMMA TurnsAlternate ==
  ASSUME NEW n \in Nat
  PROVE  OurTurn(n + 1) <=> ~OurTurn(n)
BY DEF OurTurn

\* No decision for t is made.
LEMMA DecisionsKept ==
  ASSUME NEW t, NEW j \in {0, 1}, NEW D, NEW l \in {0, 1}, NEW P,
         Moves(jobs, jobs', j, D), Moves(outbox, outbox', l, P),
         \A d \in D : d.tid # t, \A m \in P : ~Is(m, "action", t)
  PROVE  /\ OneDecision(t) => OneDecision(t)'
         /\ Undecided(t) => Undecided(t)'
         /\ TurnKept(t) /\ turn'[t] = turn[t] => TurnKept(t)'
<1>1. /\ \A i \in DOMAIN jobs' : jobs'[i].tid = t => i + j \in DOMAIN jobs /\ jobs'[i] = jobs[i + j]
      /\ \A i \in DOMAIN outbox' : Is(outbox'[i], "action", t) =>
            i + l \in DOMAIN outbox /\ outbox'[i] = outbox[i + l]
      /\ DOMAIN jobs' \subseteq Nat /\ DOMAIN outbox' \subseteq Nat
  BY DEF Moves
<1>2. OneDecision(t) => OneDecision(t)'
  <2>. SUFFICES ASSUME OneDecision(t)
                PROVE  OneDecision(t)'
    OBVIOUS
  <2>1. ASSUME NEW a \in DOMAIN jobs', NEW b \in DOMAIN jobs', jobs'[a].tid = t, jobs'[b].tid = t
        PROVE  a = b
    BY <1>1, <2>1 DEF OneDecision
  <2>2. ASSUME NEW a \in DOMAIN outbox', NEW b \in DOMAIN outbox',
               Is(outbox'[a], "action", t), Is(outbox'[b], "action", t)
        PROVE  a = b
    BY <1>1, <2>2 DEF OneDecision
  <2>3. ASSUME NEW a \in DOMAIN jobs', NEW b \in DOMAIN outbox', jobs'[a].tid = t, Is(outbox'[b], "action", t)
        PROVE  FALSE
    BY <1>1, <2>3 DEF OneDecision
  <2>. QED
    BY <2>1, <2>2, <2>3 DEF OneDecision
<1>3. Undecided(t) => Undecided(t)'
  BY <1>1 DEF Undecided
<1>4. TurnKept(t) /\ turn'[t] = turn[t] => TurnKept(t)'
  BY <1>1 DEF TurnKept
<1>. QED
  BY <1>2, <1>3, <1>4

\* A step that neither brings table t nearer to a turn of ours nor decides one.
LEMMA SteadyQuiet ==
  ASSUME NEW t \in Tables, NEW j \in {0, 1}, NEW D, NEW k \in {0, 1}, NEW N, NEW l \in {0, 1}, NEW P,
         Moves(jobs, jobs', j, D), Moves(inbox, inbox', k, N), Moves(outbox, outbox', l, P),
         \A d \in D : d.tid # t,
         \A m \in N : /\ ~Is(m, "gameActionList", t) /\ ~Is(m, "init", t) /\ ~Is(m, "turn", t)
                      /\ Ends(m, t) => stage'[t] \notin {"lobby", "running"}
                      /\ Is(m, "connected", t) => t \in started,
         \A m \in P : /\ ~Is(m, "action", t) /\ ~Is(m, "getGameInfo2", t) /\ ~Is(m, "loaded", t)
                      /\ Is(m, "tableUnattend", t) => stage'[t] \notin {"lobby", "running"},
         t \in started' <=> t \in started, turn'[t] = turn[t],
         stage'[t] = stage[t] \/ (stage'[t] \notin {"lobby", "running"} /\ t \in started),
         t \in following /\ stage'[t] = "running" => t \in following',
         games'[t] = games[t] \/ (~games'[t].in_progress /\ stage'[t] # "running"),
         action_time'[t] = action_time[t], everyone_connected'[t] = everyone_connected[t],
         SteadyTable(t)
  PROVE  SteadyTable(t)'
<1>1. /\ \A i \in DOMAIN inbox' : inbox'[i] \in N \/ \E x \in DOMAIN inbox : inbox'[i] = inbox[x]
      /\ \A i \in DOMAIN outbox' : outbox'[i] \in P \/ \E x \in DOMAIN outbox : outbox'[i] = outbox[x]
  <2>1. \A i \in DOMAIN inbox' : inbox'[i] \in N \/ \E x \in DOMAIN inbox : inbox'[i] = inbox[x]
    BY DEF Moves
  <2>2. \A i \in DOMAIN outbox' : outbox'[i] \in P \/ \E x \in DOMAIN outbox : outbox'[i] = outbox[x]
    BY DEF Moves
  <2>. QED
    BY <2>1, <2>2
<1>2. OneDecision(t)' /\ TurnKept(t)' /\ (Undecided(t) => Undecided(t)')
  BY DecisionsKept DEF SteadyTable
<1>3. DecidedNow(t)'
  BY <1>2 DEF SteadyTable, DecidedNow
<1>4. Followed(t)'
  BY <1>1 DEF SteadyTable, Followed
<1>5. Awaited(t)'
  BY <1>1, <1>2 DEF SteadyTable, Awaited
<1>6. Playing(t)'
  BY <1>1 DEF SteadyTable, Playing
<1>7. OurTurnIsNow(t)'
  BY <1>1 DEF SteadyTable, OurTurnIsNow
<1>. QED
  BY <1>2, <1>3, <1>4, <1>5, <1>6, <1>7 DEF SteadyTable
-----------------------------------------------------------------------------
(* The steps that bear on a decision. *)

\* What is decided is undecided, and the table's turn; afterwards it is decided, or as it was.
Due(t, at, ec) ==
  games'[t].in_progress /\ ec /\ at /\ OurTurn(games'[t].applied) =>
    Undecided(t) /\ games'[t].applied = turn[t]

Settled(t, at, ec) ==
  \/ (Undecided(t) => Undecided(t)') /\ action_time'[t] = at
  \/ /\ OurTurn(turn[t]) /\ games'[t].applied = turn[t] /\ ~action_time'[t]
     /\ games'[t].in_progress /\ ec

\* maybe_take_turn posts the one decision of its table, for the turn it is at.
LEMMA DecisionPosted ==
  ASSUME NEW t, NEW at, NEW ec, Posts(t, games'[t], at, ec), Moves(outbox, outbox', 0, {}),
         OneDecision(t), TurnKept(t), turn'[t] = turn[t], Due(t, at, ec)
  PROVE  OneDecision(t)' /\ TurnKept(t)' /\ Settled(t, at, ec)
<1>1. CASE Moves(jobs, jobs', 0, {}) /\ action_time'[t] = at
  <2>1. (\A d \in {} : d.tid # t) /\ \A m \in {} : ~Is(m, "action", t)
    OBVIOUS
  <2>. QED
    BY <1>1, <2>1, DecisionsKept DEF Settled
<1>2. ASSUME NEW d, Moves(jobs, jobs', 0, {d}), d.tid = t, d.turn = games'[t].applied,
             games'[t].in_progress, ec, at, OurTurn(games'[t].applied), ~action_time'[t]
      PROVE  /\ OneDecision(t)' /\ TurnKept(t)'
             /\ OurTurn(turn[t]) /\ games'[t].applied = turn[t] /\ ~action_time'[t]
             /\ games'[t].in_progress /\ ec
  <2>1. Undecided(t) /\ games'[t].applied = turn[t]
    BY <1>2 DEF Due
  <2>2. /\ \A i \in DOMAIN jobs' : jobs'[i].tid = t => jobs'[i] = d /\ i + 0 \notin DOMAIN jobs
        /\ \A i, j \in DOMAIN jobs' : i + 0 \notin DOMAIN jobs /\ j + 0 \notin DOMAIN jobs /\ jobs'[i] = jobs'[j] => i = j
    BY <1>2, <2>1 DEF Moves, Undecided
  <2>3. \A i \in DOMAIN outbox' : ~Is(outbox'[i], "action", t)
    BY <2>1 DEF Moves, Undecided
  <2>4. OneDecision(t)'
    BY <2>2, <2>3 DEF OneDecision
  <2>5. TurnKept(t)'
    BY <1>2, <2>1, <2>2, <2>3 DEF TurnKept
  <2>. QED
    BY <1>2, <2>1, <2>4, <2>5
<1>. QED
  BY <1>1, <1>2 DEF Posts, Settled

\* on_init: a game that has begun is not set up again.
LEMMA InitSteady ==
  ASSUME NEW t \in Tables, NEW m, 1 \in DOMAIN inbox, Is(inbox[1], "init", t),
         Moves(inbox, inbox', 1, {}), Moves(outbox, outbox', 0, {m}), Moves(jobs, jobs', 0, {}),
         m.cmd = "getGameInfo2", m.tid = t,
         games'[t].in_progress <=> ~inbox[1].replay,
         ~action_time'[t], ~everyone_connected'[t],
         UNCHANGED <<stage, turn, started, following>>,
         SteadyTable(t)
  PROVE  SteadyTable(t)'
<1>1. /\ \A i \in DOMAIN inbox' : \E x \in DOMAIN inbox : inbox'[i] = inbox[x]
      /\ \A i \in DOMAIN outbox' : outbox'[i] = m \/ \E x \in DOMAIN outbox : outbox'[i] = outbox[x]
  BY DEF Moves
<1>2. ~Is(m, "action", t) /\ ~Is(m, "tableUnattend", t)
  BY DEF Is
<1>3. OneDecision(t)' /\ TurnKept(t)' /\ (Undecided(t) => Undecided(t)')
  <2>1. (\A x \in {m} : ~Is(x, "action", t)) /\ \A d \in {} : d.tid # t
    BY <1>2
  <2>. QED
    BY <2>1, DecisionsKept DEF SteadyTable
<1>4. /\ t \in started => ~games'[t].in_progress
      /\ t \notin started => Undecided(t)
  BY DEF SteadyTable, Awaited
<1>5. DecidedNow(t)'
  BY <1>3, <1>4 DEF SteadyTable, DecidedNow
<1>6. Followed(t)'
  BY <1>1, <1>2 DEF SteadyTable, Followed
<1>7. Awaited(t)'
  BY <1>1, <1>3, <1>4 DEF SteadyTable, Awaited
<1>8. Playing(t)'
  <2>1. stage[t] = "running" => games'[t].in_progress
    BY DEF SteadyTable, Playing
  <2>. QED
    BY <1>1, <2>1 DEF SteadyTable, Playing
<1>9. OurTurnIsNow(t)'
  BY <1>1 DEF SteadyTable, OurTurnIsNow
<1>. QED
  BY <1>3, <1>5, <1>6, <1>7, <1>8, <1>9 DEF SteadyTable

\* A turn is handled: if it is ours, it is the last one and undecided.
LEMMA TurnSteady ==
  ASSUME NEW t \in Tables, NEW n \in Int, NEW at, NEW P, 1 \in DOMAIN inbox, Is(inbox[1], "turn", t), inbox[1].n = n,
         Moves(inbox, inbox', 1, {}), Moves(outbox, outbox', 0, {}),
         \/ games[t] = NoGame /\ games'[t] = NoGame
         \/ /\ games'[t].in_progress <=> games[t].in_progress
            /\ games'[t].applied = n /\ at = OurTurn(n),
         ~NoGame.in_progress,
         games[t].applied \in Int, turn[t] \in Int, games[t].applied < n, n <= turn[t],
         Posts(t, games'[t], at, everyone_connected[t]),
         UNCHANGED <<stage, turn, started, following, everyone_connected>>,
         SteadyTable(t)
  PROVE  SteadyTable(t)'
<1>1. \A i \in DOMAIN inbox' : \E x \in DOMAIN inbox : inbox'[i] = inbox[x]
  BY DEF Moves
<1>2. \A i \in DOMAIN outbox' : \E x \in DOMAIN outbox : outbox'[i] = outbox[x]
  BY DEF Moves
<1>3. games'[t].in_progress <=> games[t].in_progress
  OBVIOUS
<1>4. games[t].in_progress => Undecided(t)
  BY DEF SteadyTable, DecidedNow
<1>5. OurTurn(n) => n = turn[t]
  BY DEF SteadyTable, OurTurnIsNow
<1>6. games'[t].in_progress => games'[t].applied = n /\ (at <=> OurTurn(n))
  OBVIOUS
<1>7. /\ OneDecision(t)' /\ TurnKept(t)'
      /\ \/ (Undecided(t) => Undecided(t)') /\ action_time'[t] = at
         \/ /\ OurTurn(turn[t]) /\ games'[t].applied = turn[t] /\ ~action_time'[t]
            /\ games'[t].in_progress /\ everyone_connected[t]
  <2>1. PICK ec : ec = everyone_connected[t]
    OBVIOUS
  <2>2. Posts(t, games'[t], at, ec) /\ Due(t, at, ec)
    BY <1>3, <1>4, <1>5, <1>6, <2>1 DEF Due
  <2>3. OneDecision(t) /\ TurnKept(t) /\ turn'[t] = turn[t]
    BY DEF SteadyTable
  <2>4. OneDecision(t)' /\ TurnKept(t)' /\ Settled(t, at, ec)
    BY <2>2, <2>3, DecisionPosted
  <2>. QED
    BY <2>1, <2>4 DEF Settled
<1>8. DecidedNow(t)'
  BY <1>3, <1>4, <1>7 DEF SteadyTable, DecidedNow
<1>9. Followed(t)'
  BY <1>1, <1>2 DEF SteadyTable, Followed
<1>10. Awaited(t)'
  BY <1>1, <1>2, <1>3, <1>7 DEF SteadyTable, Awaited
<1>11. Playing(t)'
  BY <1>1, <1>2, <1>3 DEF SteadyTable, Playing
<1>12. OurTurnIsNow(t)'
  BY <1>1, <1>3, <1>5, <1>6, <1>7 DEF SteadyTable, OurTurnIsNow
<1>. QED
  BY <1>7, <1>8, <1>9, <1>10, <1>11, <1>12 DEF SteadyTable

\* The list is handled: it comes before the game begins, or to a Game that is no
\* longer played.
LEMMA ListSteady ==
  ASSUME NEW t \in Tables, NEW n \in Int, NEW m, 1 \in DOMAIN inbox, Is(inbox[1], "gameActionList", t), inbox[1].n = n,
         Moves(inbox, inbox', 1, {}), Moves(outbox, outbox', 0, {m}), m.cmd = "loaded", m.tid = t,
         \/ games[t] = NoGame /\ games'[t] = NoGame /\ jobs' = jobs /\ action_time' = action_time
         \/ /\ games'[t].applied = n /\ (games'[t].in_progress <=> games[t].in_progress)
            /\ Posts(t, games'[t], OurTurn(n), everyone_connected[t]),
         Moves(jobs, jobs, 0, {}), ~NoGame.in_progress,
         turn[t] \in Int, 0 <= n, n <= turn[t], t \notin started => turn[t] = 0,
         UNCHANGED <<stage, turn, started, following, everyone_connected>>,
         SteadyTable(t)
  PROVE  SteadyTable(t)'
<1>1. /\ \A i \in DOMAIN inbox' : \E x \in DOMAIN inbox : inbox'[i] = inbox[x]
      /\ \A i \in DOMAIN outbox' : outbox'[i] = m \/ \E x \in DOMAIN outbox : outbox'[i] = outbox[x]
  BY DEF Moves
<1>2. ~Is(m, "action", t) /\ ~Is(m, "tableUnattend", t) /\ ~Is(m, "getGameInfo2", t)
  BY DEF Is
<1>3. games'[t].in_progress <=> games[t].in_progress
  OBVIOUS
<1>4. /\ t \in started => ~games[t].in_progress
      /\ t \notin started => Undecided(t) /\ ~everyone_connected[t] /\ n = turn[t]
  BY DEF SteadyTable, Awaited
<1>5. /\ OneDecision(t)' /\ TurnKept(t)' /\ (Undecided(t) => Undecided(t)')
  <2>1. (\A x \in {m} : ~Is(x, "action", t)) /\ (\A d \in {} : d.tid # t) /\ turn'[t] = turn[t]
    BY <1>2
  <2>2. Moves(jobs, jobs', 0, {})
    BY <1>3, <1>4 DEF Posts
  <2>. QED
    BY <2>1, <2>2, DecisionsKept DEF SteadyTable
<1>6. DecidedNow(t)'
  BY <1>3, <1>4, <1>5 DEF SteadyTable, DecidedNow
<1>7. Followed(t)'
  BY <1>1, <1>2 DEF SteadyTable, Followed
<1>8. Awaited(t)'
  BY <1>1, <1>2, <1>3, <1>5 DEF SteadyTable, Awaited
<1>9. Playing(t)'
  <2>1. stage[t] = "running" => games[t].in_progress
    BY DEF SteadyTable, Playing
  <2>. QED
    BY <1>1, <1>3, <2>1 DEF SteadyTable, Playing
<1>10. OurTurnIsNow(t)'
  <2>1. games'[t].in_progress => games'[t].applied = turn[t]
    BY <1>3, <1>4
  <2>. QED
    BY <1>1, <2>1 DEF SteadyTable, OurTurnIsNow
<1>. QED
  BY <1>5, <1>6, <1>7, <1>8, <1>9, <1>10 DEF SteadyTable

\* Everybody is there, or somebody left: a turn of ours that waited is decided.
LEMMA ConnectedSteady ==
  ASSUME NEW t \in Tables, 1 \in DOMAIN inbox, Is(inbox[1], "connected", t),
         Moves(inbox, inbox', 1, {}), Moves(outbox, outbox', 0, {}),
         Posts(t, games'[t], action_time[t], everyone_connected'[t]),
         UNCHANGED <<games, stage, turn, started, following>>,
         SteadyTable(t)
  PROVE  SteadyTable(t)'
<1>1. /\ \A i \in DOMAIN inbox' : \E x \in DOMAIN inbox : inbox'[i] = inbox[x]
      /\ \A i \in DOMAIN outbox' : \E x \in DOMAIN outbox : outbox'[i] = outbox[x]
  BY DEF Moves
<1>2. t \in started
  BY DEF SteadyTable, Awaited
<1>3. /\ OneDecision(t)' /\ TurnKept(t)'
      /\ \/ (Undecided(t) => Undecided(t)') /\ action_time'[t] = action_time[t]
         \/ /\ OurTurn(turn[t]) /\ games'[t].applied = turn[t] /\ ~action_time'[t]
            /\ games'[t].in_progress /\ everyone_connected'[t]
  <2>1. PICK at, ec : at = action_time[t] /\ ec = everyone_connected'[t]
    OBVIOUS
  <2>2. Posts(t, games'[t], at, ec) /\ Due(t, at, ec)
    BY <2>1 DEF SteadyTable, DecidedNow, OurTurnIsNow, Due
  <2>3. OneDecision(t) /\ TurnKept(t) /\ turn'[t] = turn[t]
    BY DEF SteadyTable
  <2>4. OneDecision(t)' /\ TurnKept(t)' /\ Settled(t, at, ec)
    BY <2>2, <2>3, DecisionPosted
  <2>. QED
    BY <2>1, <2>4 DEF Settled
<1>4. DecidedNow(t)'
  BY <1>3 DEF SteadyTable, DecidedNow
<1>5. Followed(t)'
  BY <1>1 DEF SteadyTable, Followed
<1>6. Awaited(t)'
  BY <1>1, <1>2 DEF SteadyTable, Awaited
<1>7. Playing(t)'
  BY <1>1 DEF SteadyTable, Playing
<1>8. OurTurnIsNow(t)'
  BY <1>1, <1>3 DEF SteadyTable, OurTurnIsNow
<1>. QED
  BY <1>3, <1>4, <1>5, <1>6, <1>7, <1>8 DEF SteadyTable

\* The decision that is done is sent.
LEMMA JobSteady ==
  ASSUME NEW t \in Tables, NEW m, 1 \in DOMAIN jobs, jobs[1].tid = t, Moves(jobs, jobs', 1, {}),
         Moves(outbox, outbox', 0, {m}), m.cmd = "action", m.tid = t, m.turn = jobs[1].turn,
         UNCHANGED <<games, action_time, everyone_connected, inbox, stage, turn, started, following>>,
         SteadyTable(t)
  PROVE  SteadyTable(t)'
<1>1. \A i \in DOMAIN outbox' : outbox'[i] = m \/ \E x \in DOMAIN outbox : outbox'[i] = outbox[x]
  BY DEF Moves
<1>2. Is(m, "action", t) /\ ~Is(m, "tableUnattend", t) /\ ~Is(m, "getGameInfo2", t) /\ ~Is(m, "loaded", t)
  BY DEF Is
<1>3. /\ \A i \in DOMAIN jobs : jobs[i].tid = t => i = 1
      /\ \A i \in DOMAIN outbox : ~Is(outbox[i], "action", t)
      /\ jobs[1].turn = turn[t]
  BY DEF SteadyTable, OneDecision, TurnKept
<1>4. \A i \in DOMAIN jobs' : jobs'[i].tid # t
  <2>1. \A i \in DOMAIN jobs' : i \in Nat /\ i # 0 /\ i + 1 \in DOMAIN jobs /\ jobs'[i] = jobs[i + 1]
    BY DEF Moves
  <2>. QED
    BY <1>3, <2>1
<1>5. /\ \A i \in DOMAIN outbox' : Is(outbox'[i], "action", t) => outbox'[i] = m /\ i + 0 \notin DOMAIN outbox
      /\ \A i, j \in DOMAIN outbox' :
           i + 0 \notin DOMAIN outbox /\ j + 0 \notin DOMAIN outbox /\ outbox'[i] = outbox'[j] => i = j
  BY <1>3 DEF Moves
<1>6. OneDecision(t)'
  BY <1>4, <1>5 DEF OneDecision
<1>7. TurnKept(t)'
  BY <1>3, <1>4, <1>5 DEF TurnKept
<1>8. ~Undecided(t)
  BY DEF Undecided
<1>9. DecidedNow(t)'
  BY <1>8 DEF SteadyTable, DecidedNow
<1>10. Followed(t)'
  BY <1>1, <1>2 DEF SteadyTable, Followed
<1>11. Awaited(t)'
  BY <1>1, <1>2, <1>8 DEF SteadyTable, Awaited
<1>12. Playing(t)'
  BY <1>1, <1>2 DEF SteadyTable, Playing
<1>13. OurTurnIsNow(t)'
  BY DEF SteadyTable, OurTurnIsNow
<1>. QED
  BY <1>6, <1>7, <1>9, <1>10, <1>11, <1>12, <1>13 DEF SteadyTable
-----------------------------------------------------------------------------
(* The steps of the server that bear on a decision. *)

\* init is sent: of a running game before it begins, of a replay after it.
LEMMA InitSent ==
  ASSUME NEW t \in Tables, NEW m,
         Moves(inbox, inbox', 0, {m}), Moves(outbox, outbox', 1, {}), Moves(jobs, jobs', 0, {}),
         m.cmd = "init", m.tid = t, m.replay <=> stage[t] = "replay",
         t \in started => stage[t] = "replay",
         UNCHANGED <<games, action_time, everyone_connected, stage, turn, started, following>>,
         SteadyTable(t)
  PROVE  SteadyTable(t)'
<1>1. /\ \A i \in DOMAIN inbox' : inbox'[i] = m \/ \E x \in DOMAIN inbox : inbox'[i] = inbox[x]
      /\ \A i \in DOMAIN outbox' : \E x \in DOMAIN outbox : outbox'[i] = outbox[x]
  BY DEF Moves
<1>2. ~Is(m, "gameActionList", t) /\ ~Is(m, "turn", t) /\ ~Is(m, "connected", t) /\ ~Ends(m, t)
  BY DEF Is, Ends
<1>3. OneDecision(t)' /\ TurnKept(t)' /\ (Undecided(t) => Undecided(t)')
  <2>1. (\A x \in {} : ~Is(x, "action", t)) /\ \A d \in {} : d.tid # t
    OBVIOUS
  <2>. QED
    BY <2>1, DecisionsKept DEF SteadyTable
<1>4. DecidedNow(t)'
  BY <1>3 DEF SteadyTable, DecidedNow
<1>5. Followed(t)'
  BY <1>1, <1>2 DEF SteadyTable, Followed
<1>6. Awaited(t)'
  BY <1>1, <1>2, <1>3 DEF SteadyTable, Awaited
<1>7. Playing(t)'
  BY <1>1, <1>2 DEF SteadyTable, Playing
<1>8. OurTurnIsNow(t)'
  BY <1>1, <1>2 DEF SteadyTable, OurTurnIsNow
<1>. QED
  BY <1>3, <1>4, <1>5, <1>6, <1>7, <1>8 DEF SteadyTable

\* The list is sent, for the getGameInfo2 that was at the head of the outbox.
LEMMA ListGiven ==
  ASSUME NEW t \in Tables, NEW m,
         Moves(inbox, inbox', 0, {m}), Moves(outbox, outbox', 1, {}), Moves(jobs, jobs', 0, {}),
         1 \in DOMAIN outbox, Is(outbox[1], "getGameInfo2", t), Is(m, "gameActionList", t),
         t \in following => t \in following',
         UNCHANGED <<games, action_time, everyone_connected, stage, turn, started>>,
         SteadyTable(t)
  PROVE  SteadyTable(t)'
<1>1. /\ \A i \in DOMAIN inbox' : inbox'[i] = m \/ \E x \in DOMAIN inbox : inbox'[i] = inbox[x]
      /\ \A i \in DOMAIN outbox' : \E x \in DOMAIN outbox : outbox'[i] = outbox[x]
  BY DEF Moves
<1>2. ~Is(m, "init", t) /\ ~Is(m, "turn", t) /\ ~Is(m, "connected", t) /\ ~Ends(m, t)
  BY DEF Is, Ends
<1>3. OneDecision(t)' /\ TurnKept(t)' /\ (Undecided(t) => Undecided(t)')
  <2>1. (\A x \in {} : ~Is(x, "action", t)) /\ \A d \in {} : d.tid # t
    OBVIOUS
  <2>. QED
    BY <2>1, DecisionsKept DEF SteadyTable
<1>4. /\ t \in started => ~games[t].in_progress
      /\ stage[t] = "running" => games[t].in_progress
  BY DEF SteadyTable, Awaited, Playing
<1>5. DecidedNow(t)'
  BY <1>3 DEF SteadyTable, DecidedNow
<1>6. Followed(t)'
  BY <1>1, <1>2 DEF SteadyTable, Followed
<1>7. Awaited(t)'
  BY <1>1, <1>2, <1>3, <1>4 DEF SteadyTable, Awaited
<1>8. Playing(t)'
  BY <1>1, <1>2, <1>4 DEF SteadyTable, Playing
<1>9. OurTurnIsNow(t)'
  BY <1>1, <1>2 DEF SteadyTable, OurTurnIsNow
<1>. QED
  BY <1>3, <1>5, <1>6, <1>7, <1>8, <1>9 DEF SteadyTable

\* The server hears "loaded": no fresh Game and no list is on its way.
LEMMA LoadedGiven ==
  ASSUME NEW t \in Tables, NEW m,
         Moves(inbox, inbox', 0, {m}), Moves(outbox, outbox', 1, {}), Moves(jobs, jobs', 0, {}),
         1 \in DOMAIN outbox, Is(outbox[1], "loaded", t), Is(m, "connected", t),
         stage[t] = "running", t \in started',
         LoadedLast(t),
         UNCHANGED <<games, action_time, everyone_connected, stage, turn, following>>,
         SteadyTable(t)
  PROVE  SteadyTable(t)'
<1>1. /\ \A i \in DOMAIN inbox' : inbox'[i] = m \/ \E x \in DOMAIN inbox : inbox'[i] = inbox[x]
      /\ \A i \in DOMAIN outbox' : \E x \in DOMAIN outbox : outbox'[i] = outbox[x]
  BY DEF Moves
<1>2. ~Is(m, "init", t) /\ ~Is(m, "turn", t) /\ ~Is(m, "gameActionList", t) /\ ~Ends(m, t)
  BY DEF Is, Ends
<1>3. OneDecision(t)' /\ TurnKept(t)' /\ (Undecided(t) => Undecided(t)')
  <2>1. (\A x \in {} : ~Is(x, "action", t)) /\ \A d \in {} : d.tid # t
    OBVIOUS
  <2>. QED
    BY <2>1, DecisionsKept DEF SteadyTable
<1>4. ~Opening(t) /\ \A i \in DOMAIN inbox : ~Is(inbox[i], "gameActionList", t)
  BY DEF LoadedLast
<1>5. /\ \A i \in DOMAIN inbox : ~Is(inbox[i], "init", t)
      /\ \A i \in DOMAIN outbox : ~Is(outbox[i], "getGameInfo2", t)
  BY <1>4 DEF Opening, Opens, Asks, Is
<1>6. games[t].in_progress
  BY DEF SteadyTable, Playing
<1>7. DecidedNow(t)'
  BY <1>3 DEF SteadyTable, DecidedNow
<1>8. Followed(t)'
  BY <1>1, <1>2 DEF SteadyTable, Followed
<1>9. Awaited(t)'
  BY <1>1, <1>2, <1>4, <1>5 DEF Awaited
<1>10. Playing(t)'
  BY <1>1, <1>2, <1>5, <1>6 DEF Playing
<1>11. OurTurnIsNow(t)'
  BY <1>1, <1>2 DEF SteadyTable, OurTurnIsNow
<1>. QED
  BY <1>3, <1>7, <1>8, <1>9, <1>10, <1>11 DEF SteadyTable

\* A turn is taken: ours by the one decision, the partner's while there is none.
LEMMA TurnGiven ==
  ASSUME NEW t \in Tables, NEW N, NEW l \in {0, 1},
         Moves(inbox, inbox', 0, N), Moves(outbox, outbox', l, {}), Moves(jobs, jobs', 0, {}),
         \A m \in N : m.cmd = "turn" /\ m.tid = t /\ m.n = turn[t] + 1,
         \/ l = 1 /\ 1 \in DOMAIN outbox /\ Is(outbox[1], "action", t)
         \/ ~OurTurn(turn[t]),
         stage[t] = "running", t \in started, turn'[t] = turn[t] + 1, turn[t] \in Nat,
         CountsRise(t), \A i \in DOMAIN inbox : Counts(inbox[i], t) => inbox[i].n \in Int,
         UNCHANGED <<games, action_time, everyone_connected, stage, started, following>>,
         SteadyTable(t)
  PROVE  SteadyTable(t)'
<1>1. /\ \A i \in DOMAIN inbox' : inbox'[i] \in N \/ \E x \in DOMAIN inbox : inbox'[i] = inbox[x]
      /\ \A i \in DOMAIN outbox' : \E x \in DOMAIN outbox : outbox'[i] = outbox[x]
  BY DEF Moves
<1>2. \A m \in N : /\ ~Is(m, "init", t) /\ ~Is(m, "connected", t) /\ ~Is(m, "gameActionList", t)
                   /\ ~Ends(m, t)
  BY DEF Is, Ends
<1>3. OurTurn(turn[t] + 1) <=> ~OurTurn(turn[t])
  BY TurnsAlternate
<1>4. games[t].in_progress
  BY DEF SteadyTable, Playing
<1>5. Undecided(t)'
  <2>1. CASE ~OurTurn(turn[t])
    <3>1. Undecided(t)
      BY <2>1 DEF SteadyTable, DecidedNow
    <3>2. (\A x \in {} : ~Is(x, "action", t)) /\ \A d \in {} : d.tid # t
      OBVIOUS
    <3>. QED
      BY <3>1, <3>2, DecisionsKept
  <2>2. CASE l = 1 /\ 1 \in DOMAIN outbox /\ Is(outbox[1], "action", t)
    <3>1. /\ \A i \in DOMAIN jobs : jobs[i].tid # t
          /\ \A i \in DOMAIN outbox : Is(outbox[i], "action", t) => i = 1
      BY <2>2 DEF SteadyTable, OneDecision
    <3>2. \A i \in DOMAIN outbox' : i \in Nat /\ i # 0 /\ i + 1 \in DOMAIN outbox /\ outbox'[i] = outbox[i + 1]
      BY <2>2 DEF Moves
    <3>3. \A i \in DOMAIN outbox' : ~Is(outbox'[i], "action", t)
      BY <3>1, <3>2
    <3>4. \A i \in DOMAIN jobs' : jobs'[i].tid # t
      BY <3>1 DEF Moves
    <3>. QED
      BY <3>3, <3>4 DEF Undecided
  <2>. QED
    BY <2>1, <2>2
<1>6. OneDecision(t)' /\ TurnKept(t)' /\ DecidedNow(t)'
  BY <1>5 DEF Undecided, OneDecision, TurnKept, DecidedNow
<1>7. Followed(t)'
  BY <1>1, <1>2 DEF SteadyTable, Followed
<1>8. Awaited(t)'
  BY <1>1, <1>2 DEF SteadyTable, Awaited
<1>9. Playing(t)'
  BY <1>1, <1>2, <1>4 DEF SteadyTable, Playing
<1>10. ASSUME OurTurn(turn[t])
       PROVE  /\ games[t].applied = turn[t] /\ ~action_time[t]
              /\ \A i \in DOMAIN inbox : ~Is(inbox[i], "turn", t)
  <2>1. ~Undecided(t)
    BY <1>10 DEF Undecided
  <2>2. games[t].applied = turn[t] /\ ~action_time[t]
    BY <1>4, <2>1 DEF SteadyTable, DecidedNow
  <2>3. \A i \in DOMAIN inbox : Is(inbox[i], "turn", t) => Counts(inbox[i], t)
    BY DEF Is, Counts
  <2>4. \A i \in DOMAIN inbox : Is(inbox[i], "turn", t) =>
           /\ turn[t] < inbox[i].n /\ inbox[i].n <= turn[t] /\ inbox[i].n \in Int
    BY <2>2, <2>3 DEF CountsRise
  <2>. QED
    BY <2>2, <2>4
<1>11. ASSUME ~OurTurn(turn[t])
       PROVE  /\ ~(games[t].in_progress /\ action_time[t] /\ OurTurn(games[t].applied))
              /\ \A i \in DOMAIN inbox : ~(Is(inbox[i], "turn", t) /\ OurTurn(inbox[i].n))
  BY <1>11 DEF SteadyTable, OurTurnIsNow
<1>12. OurTurnIsNow(t)'
  BY <1>1, <1>10, <1>11 DEF OurTurnIsNow
<1>. QED
  BY <1>6, <1>7, <1>8, <1>9, <1>12 DEF SteadyTable

\* The game starts: nothing about it is on its way yet.
LEMMA StartSteady ==
  ASSUME NEW t \in Tables, NEW m,
         Moves(inbox, inbox', 0, {m}), Moves(outbox, outbox', 0, {}), Moves(jobs, jobs', 0, {}),
         m.cmd = "tableStart", stage[t] = "lobby", stage'[t] = "running", t \in following',
         OpeningAlone(t), Untouched(t),
         UNCHANGED <<games, action_time, everyone_connected, turn, started>>,
         SteadyTable(t)
  PROVE  SteadyTable(t)'
<1>1. /\ \A i \in DOMAIN inbox' : inbox'[i] = m \/ \E x \in DOMAIN inbox : inbox'[i] = inbox[x]
      /\ \A i \in DOMAIN outbox' : \E x \in DOMAIN outbox : outbox'[i] = outbox[x]
  BY DEF Moves
<1>2. /\ ~Is(m, "init", t) /\ ~Is(m, "turn", t) /\ ~Is(m, "gameActionList", t) /\ ~Is(m, "connected", t)
      /\ ~Ends(m, t)
  BY DEF Is, Ends
<1>3. OneDecision(t)' /\ TurnKept(t)' /\ (Undecided(t) => Undecided(t)')
  <2>1. (\A x \in {} : ~Is(x, "action", t)) /\ \A d \in {} : d.tid # t
    OBVIOUS
  <2>. QED
    BY <2>1, DecisionsKept DEF SteadyTable
<1>4. ~Opening(t) /\ t \notin started
  BY DEF OpeningAlone, Untouched
<1>5. /\ \A i \in DOMAIN inbox : ~Is(inbox[i], "init", t) /\ ~Is(inbox[i], "gameActionList", t)
      /\ \A i \in DOMAIN outbox : ~Is(outbox[i], "getGameInfo2", t) /\ ~Is(outbox[i], "loaded", t)
  BY <1>4 DEF Opening, Opens, Asks, Is, Untouched, Counts
<1>6. DecidedNow(t)'
  BY <1>3 DEF SteadyTable, DecidedNow
<1>7. Followed(t)'
  BY <1>1, <1>2 DEF SteadyTable, Followed
<1>8. Awaited(t)'
  BY <1>1, <1>2, <1>3, <1>4 DEF SteadyTable, Awaited
<1>9. Playing(t)'
  BY <1>1, <1>2, <1>4, <1>5 DEF Playing
<1>10. OurTurnIsNow(t)'
  BY <1>1, <1>2 DEF SteadyTable, OurTurnIsNow
<1>. QED
  BY <1>3, <1>6, <1>7, <1>8, <1>9, <1>10 DEF SteadyTable
-----------------------------------------------------------------------------
(* The second argument, action by action. *)

\* A handler that took a message which is none of table t's, or says nothing
\* about whose turn it is.
LEMMA QuietHandled ==
  ASSUME NEW t \in Tables, NEW cmd, NEW u, NEW D, NEW P,
         Takes(cmd, u), Moves(jobs, jobs', 0, D), Moves(outbox, outbox', 0, P),
         \A d \in D : d.tid # t,
         \A m \in P : /\ ~Is(m, "action", t) /\ ~Is(m, "getGameInfo2", t) /\ ~Is(m, "loaded", t)
                      /\ Is(m, "tableUnattend", t) => stage[t] \notin {"lobby", "running"},
         games'[t] = games[t] \/ (~games'[t].in_progress /\ stage[t] # "running"),
         action_time'[t] = action_time[t], everyone_connected'[t] = everyone_connected[t],
         SteadyTable(t)
  PROVE  SteadyTable(t)'
<1>1. Moves(inbox, inbox', 1, {}) /\ UNCHANGED <<stage, turn, started, following>>
  BY DEF Takes
<1>. QED
  BY <1>1, SteadyQuiet

\* A step of the server that tells table t nothing about whose turn it is.
LEMMA QuietTold ==
  ASSUME TypeOK, NEW t \in Tables, NEW N, NEW l \in {0, 1},
         Moves(inbox, inbox', 0, N), Moves(outbox, outbox', l, {}), UNCHANGED clientVars,
         \A m \in N : /\ ~Is(m, "gameActionList", t) /\ ~Is(m, "init", t) /\ ~Is(m, "turn", t)
                      /\ Ends(m, t) => stage'[t] \notin {"lobby", "running"}
                      /\ Is(m, "connected", t) => t \in started,
         t \in started' <=> t \in started, turn'[t] = turn[t],
         stage'[t] = stage[t] \/ (stage'[t] \notin {"lobby", "running"} /\ t \in started),
         t \in following /\ stage'[t] = "running" => t \in following',
         SteadyTable(t)
  PROVE  SteadyTable(t)'
<1>1. UNCHANGED <<games, action_time, everyone_connected>> /\ Moves(jobs, jobs', 0, {})
  BY Still DEF clientVars
<1>2. (\A d \in {} : d.tid # t) /\ \A m \in {} : /\ ~Is(m, "action", t) /\ ~Is(m, "getGameInfo2", t)
                                                 /\ ~Is(m, "loaded", t)
                                                 /\ Is(m, "tableUnattend", t) => stage'[t] \notin {"lobby", "running"}
  OBVIOUS
<1>. QED
  BY <1>1, <1>2, SteadyQuiet

\* A handler posts decisions for its own table only.
LEMMA PostsOther ==
  ASSUME NEW u, NEW g, NEW at, NEW ec, Posts(u, g, at, ec), NEW t \in Tables, t # u
  PROVE  /\ action_time'[t] = action_time[t]
         /\ \E D : Moves(jobs, jobs', 0, D) /\ \A d \in D : d.tid # t
<1>1. action_time'[t] = action_time[t]
  BY DEF Posts
<1>2. CASE Moves(jobs, jobs', 0, {})
  BY <1>1, <1>2
<1>3. ASSUME NEW d, Moves(jobs, jobs', 0, {d}), d.tid = u
      PROVE  \E D : Moves(jobs, jobs', 0, D) /\ \A x \in D : x.tid # t
  BY <1>3
<1>. QED
  BY <1>1, <1>2, <1>3 DEF Posts

\* tableStart comes before anything is decided.
LEMMA TableStartSteady ==
  ASSUME BotClientAssumption, TypeOK, NEW t \in Tables, OnTableStart, SteadyTable(t)
  PROVE  SteadyTable(t)'
<1>1. Receive("tableStart") /\ UNCHANGED <<games, action_time, everyone_connected, jobs>>
  BY DEF OnTableStart, clientVars
<1>2. PICK u : u = inbox[1].tid
  OBVIOUS
<1>3. Head(inbox) = inbox[1] /\ u \in Tables /\ Takes("tableStart", u)
  BY <1>1, <1>2, TakesFirst
<1>4. PICK m : m = [cmd |-> "getGameInfo1", tid |-> u]
  OBVIOUS
<1>5. Moves(outbox, outbox', 0, {m}) /\ Moves(jobs, jobs', 0, {})
  BY <1>1, <1>2, <1>3, <1>4, Requested, Still DEF OnTableStart
<1>6. \A x \in {m} : /\ ~Is(x, "action", t) /\ ~Is(x, "getGameInfo2", t) /\ ~Is(x, "loaded", t)
                     /\ Is(x, "tableUnattend", t) => stage[t] \notin {"lobby", "running"}
  BY <1>4 DEF Is
<1>7. \A d \in {} : d.tid # t
  OBVIOUS
<1>. QED
  BY <1>1, <1>3, <1>5, <1>6, <1>7, QuietHandled

\* init finds no turn of ours waiting.
LEMMA OnInitSteady ==
  ASSUME BotClientAssumption, TypeOK, NEW t \in Tables, OnInit, SteadyTable(t)
  PROVE  SteadyTable(t)'
<1>1. PICK u \in Tables :
           /\ Takes("init", u) /\ OthersSame(u)
           /\ games'[u].in_progress <=> ~inbox[1].replay
           /\ Moves(outbox, outbox', 0, {[cmd |-> "getGameInfo2", tid |-> u]})
           /\ jobs' = jobs /\ ~action_time'[u] /\ ~everyone_connected'[u]
           /\ \A v \in Tables : v # u => /\ action_time'[v] = action_time[v]
                                         /\ everyone_connected'[v] = everyone_connected[v]
  BY InitEffect
<1>2. PICK m : m = [cmd |-> "getGameInfo2", tid |-> u]
  OBVIOUS
<1>3. /\ m.cmd = "getGameInfo2" /\ m.tid = u /\ Moves(outbox, outbox', 0, {m}) /\ Moves(jobs, jobs', 0, {})
  BY <1>1, <1>2, Still
<1>4. CASE u = t
  <2>1. /\ Is(inbox[1], "init", t) /\ 1 \in DOMAIN inbox /\ Moves(inbox, inbox', 1, {})
        /\ UNCHANGED <<stage, turn, started, following>>
    BY <1>1, <1>4 DEF Takes
  <2>. QED
    BY <1>1, <1>3, <1>4, <2>1, InitSteady
<1>5. CASE u # t
  <2>1. \A x \in {m} : /\ ~Is(x, "action", t) /\ ~Is(x, "getGameInfo2", t) /\ ~Is(x, "loaded", t)
                       /\ Is(x, "tableUnattend", t) => stage[t] \notin {"lobby", "running"}
    BY <1>3, <1>5 DEF Is
  <2>2. /\ games'[t] = games[t] /\ action_time'[t] = action_time[t]
        /\ everyone_connected'[t] = everyone_connected[t]
    BY <1>1, <1>5 DEF OthersSame
  <2>3. \A d \in {} : d.tid # t
    OBVIOUS
  <2>. QED
    BY <1>1, <1>3, <2>1, <2>2, <2>3, QuietHandled
<1>. QED
  BY <1>4, <1>5

\* A turn of ours is told once, and decided at most once.
LEMMA OnTurnSteady ==
  ASSUME BotClientAssumption, TypeOK, TypeOK', NEW t \in Tables, OnTurn, AllSound, MailInv(t), SteadyTable(t)
  PROVE  SteadyTable(t)'
<1>1. PICK u \in Tables, at \in BOOLEAN :
           /\ Takes("turn", u) /\ OthersSame(u)
           /\ games'[u] \in Applied(games[u], inbox[1].n)
           /\ games'[u].applied = inbox[1].n => at = OurTurn(inbox[1].n)
           /\ Posts(u, games'[u], at, everyone_connected[u])
           /\ UNCHANGED <<everyone_connected, outbox>>
  BY TurnEffect
<1>2. PICK n : n = inbox[1].n
  OBVIOUS
<1>3. Moves(outbox, outbox', 0, {})
  BY <1>1, Still
<1>4. CASE u = t
  <2>1. Is(inbox[1], "turn", t) /\ 1 \in DOMAIN inbox /\ Moves(inbox, inbox', 1, {})
        /\ UNCHANGED <<stage, turn, started, following>>
    BY <1>1, <1>4 DEF Takes
  <2>2. games'[t] \in Applied(games[t], n) /\ games[t].sound
    BY <1>1, <1>2, <1>4 DEF AllSound
  <2>3. /\ games[t] = NoGame <=> games'[t] = NoGame
        /\ games[t] # NoGame => games'[t].applied = n /\ games'[t].in_progress = games[t].in_progress
    BY <1>2, <1>3, <2>1, <2>2, TurnHandled
  <2>4. /\ games[t].applied \in Int /\ turn[t] \in Int /\ n \in Int
        /\ games[t].applied < n /\ n <= turn[t]
    <3>1. Counts(inbox[1], t)
      BY <2>1 DEF Is, Counts
    <3>2. games[t].applied \in Int /\ turn[t] \in Int /\ inbox[1].n \in Int
      BY <2>1, <3>1, TableTypes
    <3>. QED
      BY <1>2, <2>1, <3>1, <3>2 DEF MailInv, CountsRise
  <2>5. \/ games[t] = NoGame /\ games'[t] = NoGame
        \/ /\ games'[t].in_progress <=> games[t].in_progress
           /\ games'[t].applied = n /\ at = OurTurn(n)
    BY <1>1, <1>2, <1>4, <2>3
  <2>6. ~NoGame.in_progress
    BY GameFields
  <2>7. Posts(t, games'[t], at, everyone_connected[t])
    BY <1>1, <1>4
  <2>. QED
    BY <1>1, <1>2, <1>3, <2>1, <2>4, <2>5, <2>6, <2>7, TurnSteady
<1>5. CASE u # t
  <2>1. games'[t] = games[t] /\ everyone_connected'[t] = everyone_connected[t] /\ action_time'[t] = action_time[t]
    BY <1>1, <1>5, PostsOther DEF OthersSame
  <2>2. PICK D : Moves(jobs, jobs', 0, D) /\ \A d \in D : d.tid # t
    BY <1>1, <1>5, PostsOther
  <2>3. \A m \in {} : /\ ~Is(m, "action", t) /\ ~Is(m, "getGameInfo2", t) /\ ~Is(m, "loaded", t)
                      /\ Is(m, "tableUnattend", t) => stage[t] \notin {"lobby", "running"}
    OBVIOUS
  <2>. QED
    BY <1>1, <1>3, <2>1, <2>2, <2>3, QuietHandled
<1>. QED
  BY <1>4, <1>5

\* The list comes before the game begins, or to a Game that is no longer played.
LEMMA OnListSteady ==
  ASSUME BotClientAssumption, TypeOK, TypeOK', NEW t \in Tables, OnGameActionList, MailInv(t), SteadyTable(t)
  PROVE  SteadyTable(t)'
<1>1. PICK u \in Tables :
           /\ Takes("gameActionList", u) /\ OthersSame(u)
           /\ Moves(outbox, outbox', 0, {[cmd |-> "loaded", tid |-> u]})
           /\ UNCHANGED everyone_connected
           /\ \/ games[u] = NoGame /\ games'[u] = NoGame /\ UNCHANGED <<jobs, action_time>>
              \/ /\ games[u] # NoGame /\ games'[u].applied = inbox[1].n
                 /\ games'[u].in_progress = games[u].in_progress
                 /\ Posts(u, games'[u], OurTurn(inbox[1].n), everyone_connected[u])
  BY ListEffect
<1>2. PICK m, n : m = [cmd |-> "loaded", tid |-> u] /\ n = inbox[1].n
  OBVIOUS
<1>3. m.cmd = "loaded" /\ m.tid = u /\ Moves(outbox, outbox', 0, {m}) /\ Moves(jobs, jobs, 0, {})
  BY <1>1, <1>2, StaysMoves DEF TypeOK
<1>4. CASE u = t
  <2>1. Is(inbox[1], "gameActionList", t) /\ 1 \in DOMAIN inbox /\ Moves(inbox, inbox', 1, {})
        /\ UNCHANGED <<stage, turn, started, following>>
    BY <1>1, <1>4 DEF Takes
  <2>2. turn[t] \in Int /\ n \in Int /\ 0 <= n /\ n <= turn[t] /\ (t \notin started => turn[t] = 0)
    <3>1. Counts(inbox[1], t)
      BY <2>1 DEF Is, Counts
    <3>2. turn[t] \in Int /\ inbox[1].n \in Int /\ inbox[1].n >= 0
      BY <2>1, <3>1, TableTypes
    <3>. QED
      BY <1>2, <2>1, <3>1, <3>2 DEF MailInv, CountsRise, Untouched
  <2>3. ~NoGame.in_progress
    BY GameFields
  <2>4. \/ games[t] = NoGame /\ games'[t] = NoGame /\ jobs' = jobs /\ action_time' = action_time
        \/ /\ games'[t].applied = n /\ (games'[t].in_progress <=> games[t].in_progress)
           /\ Posts(t, games'[t], OurTurn(n), everyone_connected[t])
    BY <1>1, <1>2, <1>4
  <2>. QED
    BY <1>1, <1>2, <1>3, <1>4, <2>1, <2>2, <2>3, <2>4, ListSteady
<1>5. CASE u # t
  <2>1. games'[t] = games[t] /\ everyone_connected'[t] = everyone_connected[t]
    BY <1>1, <1>5 DEF OthersSame
  <2>2. PICK D : action_time'[t] = action_time[t] /\ Moves(jobs, jobs', 0, D) /\ \A d \in D : d.tid # t
    <3>1. CASE UNCHANGED <<jobs, action_time>>
      BY <1>3, <3>1
    <3>2. CASE Posts(u, games'[u], OurTurn(inbox[1].n), everyone_connected[u])
      BY <1>5, <3>2, PostsOther
    <3>. QED
      BY <1>1, <3>1, <3>2
  <2>3. \A x \in {m} : /\ ~Is(x, "action", t) /\ ~Is(x, "getGameInfo2", t) /\ ~Is(x, "loaded", t)
                       /\ Is(x, "tableUnattend", t) => stage[t] \notin {"lobby", "running"}
    BY <1>3, <1>5 DEF Is
  <2>. QED
    BY <1>1, <1>3, <2>1, <2>2, <2>3, QuietHandled
<1>. QED
  BY <1>4, <1>5

\* A turn of ours that waited for somebody is decided once.
LEMMA OnConnectedSteady ==
  ASSUME BotClientAssumption, TypeOK, NEW t \in Tables, OnConnected, SteadyTable(t)
  PROVE  SteadyTable(t)'
<1>1. PICK u \in Tables :
           /\ Takes("connected", u)
           /\ \A v \in Tables : v # u => everyone_connected'[v] = everyone_connected[v]
           /\ Posts(u, games'[u], action_time[u], everyone_connected'[u])
           /\ UNCHANGED <<games, outbox>>
  BY ConnectedEffect
<1>2. Moves(outbox, outbox', 0, {})
  BY <1>1, Still
<1>3. CASE u = t
  <2>1. Is(inbox[1], "connected", t) /\ 1 \in DOMAIN inbox /\ Moves(inbox, inbox', 1, {})
        /\ UNCHANGED <<stage, turn, started, following>>
    BY <1>1, <1>3 DEF Takes
  <2>. QED
    BY <1>1, <1>2, <1>3, <2>1, ConnectedSteady
<1>4. CASE u # t
  <2>1. games'[t] = games[t] /\ everyone_connected'[t] = everyone_connected[t] /\ action_time'[t] = action_time[t]
    BY <1>1, <1>4, PostsOther
  <2>2. PICK D : Moves(jobs, jobs', 0, D) /\ \A d \in D : d.tid # t
    BY <1>1, <1>4, PostsOther
  <2>3. \A m \in {} : /\ ~Is(m, "action", t) /\ ~Is(m, "getGameInfo2", t) /\ ~Is(m, "loaded", t)
                      /\ Is(m, "tableUnattend", t) => stage[t] \notin {"lobby", "running"}
    OBVIOUS
  <2>. QED
    BY <1>1, <1>2, <2>1, <2>2, <2>3, QuietHandled
<1>. QED
  BY <1>3, <1>4

\* The end of a game cannot reach a table that has not begun or still runs.
LEMMA EndHandledSteady ==
  ASSUME BotClientAssumption, TypeOK, NEW t \in Tables, OnGameOver \/ OnTableGone \/ OnDatabaseId, SteadyTable(t)
  PROVE  SteadyTable(t)'
<1>2. UNCHANGED <<jobs, action_time, everyone_connected>> /\ Moves(jobs, jobs', 0, {})
  BY Still DEF OnGameOver, OnTableGone, OnDatabaseId
<1>3. ASSUME 1 \in DOMAIN inbox, Ends(inbox[1], t)
      PROVE  stage[t] \notin {"lobby", "running"}
  BY <1>3 DEF SteadyTable, Followed
<1>4. PICK cmd, u, P :
        /\ Takes(cmd, u) /\ Moves(outbox, outbox', 0, P)
        /\ \A x \in P : x.cmd = "tableUnattend" /\ x.tid = u /\ cmd = "gameOver"
        /\ games'[t] = games[t] \/ (~games'[t].in_progress /\ t = u /\ cmd \in {"gameOver", "tableGone"})
  <2>1. CASE OnGameOver
    <3>1. PICK u \in Tables :
            /\ Takes("gameOver", u) /\ OthersSame(u) /\ ~games'[u].in_progress
            /\ \/ Moves(outbox, outbox', 0, {[cmd |-> "tableUnattend", tid |-> u]})
               \/ Moves(outbox, outbox', 0, {})
      BY <2>1, OverEffect
    <3>2. games'[t] = games[t] \/ (~games'[t].in_progress /\ t = u)
      BY <3>1 DEF OthersSame
    <3>3. \E P : Moves(outbox, outbox', 0, P) /\ \A x \in P : x.cmd = "tableUnattend" /\ x.tid = u
      <4>1. PICK x : x = [cmd |-> "tableUnattend", tid |-> u]
        OBVIOUS
      <4>2. \A y \in {x} : y.cmd = "tableUnattend" /\ y.tid = u
        BY <4>1
      <4>3. Moves(outbox, outbox', 0, {x}) \/ Moves(outbox, outbox', 0, {})
        BY <3>1, <4>1
      <4>. QED
        BY <4>2, <4>3
    <3>. QED
      BY <3>1, <3>2, <3>3
  <2>2. CASE OnTableGone
    <3>1. PICK u \in Tables : Takes("tableGone", u) /\ OthersSame(u) /\ games'[u] = NoGame /\ outbox' = outbox
      BY <2>2, GoneEffect
    <3>2. ~NoGame.in_progress
      BY GameFields
    <3>3. games'[t] = games[t] \/ (~games'[t].in_progress /\ t = u)
      BY <3>1, <3>2 DEF OthersSame
    <3>4. Moves(outbox, outbox', 0, {})
      BY <3>1, Still
    <3>. QED
      BY <3>1, <3>3, <3>4
  <2>3. CASE OnDatabaseId
    <3>1. Receive("finishOngoingGame") /\ UNCHANGED <<games, outbox>>
      BY <2>3 DEF OnDatabaseId
    <3>2. Takes("finishOngoingGame", inbox[1].tid) /\ Moves(outbox, outbox', 0, {})
      BY <3>1, TakesFirst, Still
    <3>. QED
      BY <3>1, <3>2
  <2>. QED
    BY <2>1, <2>2, <2>3
<1>5. cmd \in {"gameOver", "tableGone"} /\ u = t => stage[t] \notin {"lobby", "running"}
  BY <1>3, <1>4 DEF Takes, Is, Ends
<1>6. \A x \in P : /\ ~Is(x, "action", t) /\ ~Is(x, "getGameInfo2", t) /\ ~Is(x, "loaded", t)
                   /\ Is(x, "tableUnattend", t) => stage[t] \notin {"lobby", "running"}
  BY <1>4, <1>5 DEF Is
<1>7. games'[t] = games[t] \/ (~games'[t].in_progress /\ stage[t] # "running")
  BY <1>4, <1>5
<1>8. \A d \in {} : d.tid # t
  OBVIOUS
<1>. QED
  BY <1>2, <1>4, <1>6, <1>7, <1>8, QuietHandled

\* The decision becomes the action that is sent for it.
LEMMA JobDoneSteady ==
  ASSUME BotClientAssumption, TypeOK, NEW t \in Tables, up, JobDone, SteadyTable(t)
  PROVE  SteadyTable(t)'
<1>1. /\ 1 \in DOMAIN jobs /\ Moves(jobs, jobs', 1, {})
      /\ UNCHANGED <<games, action_time, everyone_connected, inbox, stage, turn, started, following>>
  BY JobDoneEffect DEF serverVars
<1>2. PICK m : /\ Moves(outbox, outbox', 0, {m}) /\ m.cmd = "action" /\ m.tid = jobs[1].tid
               /\ m.turn = jobs[1].turn
  BY JobDoneEffect
<1>3. CASE jobs[1].tid = t
  BY <1>1, <1>2, <1>3, JobSteady
<1>4. CASE jobs[1].tid # t
  <2>1. \A x \in {m} : /\ ~Is(x, "action", t) /\ ~Is(x, "getGameInfo2", t) /\ ~Is(x, "loaded", t)
                       /\ Is(x, "tableUnattend", t) => stage'[t] \notin {"lobby", "running"}
    BY <1>2, <1>4 DEF Is
  <2>2. \A x \in {} : /\ ~Is(x, "gameActionList", t) /\ ~Is(x, "init", t) /\ ~Is(x, "turn", t)
                      /\ Ends(x, t) => stage'[t] \notin {"lobby", "running"}
                      /\ Is(x, "connected", t) => t \in started
    OBVIOUS
  <2>3. \A d \in {} : d.tid # t
    OBVIOUS
  <2>4. Moves(inbox, inbox', 0, {})
    BY <1>1, Still
  <2>. QED
    BY <1>1, <1>2, <2>1, <2>2, <2>3, <2>4, SteadyQuiet
<1>. QED
  BY <1>3, <1>4
\* A decision that throws is gone; the turn stays untaken.
LEMMA JobThrowsSteady ==
  ASSUME TypeOK, NEW t \in Tables, JobThrows, SteadyTable(t)
  PROVE  SteadyTable(t)'
<1>1. /\ Moves(jobs, jobs', 1, {}) /\ Moves(inbox, inbox', 0, {}) /\ Moves(outbox, outbox', 0, {})
      /\ UNCHANGED <<games, action_time, everyone_connected, stage, turn, started, following>>
  <2>1. /\ jobs # <<>> /\ jobs' = Tail(jobs)
        /\ UNCHANGED <<games, action_time, everyone_connected, inbox, outbox, stage, turn, started, following>>
    BY DEF JobThrows, linkVars, serverVars
  <2>. QED
    BY <2>1, TailMoves, Still DEF TypeOK
<1>2. \A d \in {} : d.tid # t
  OBVIOUS
<1>3. \A x \in {} : /\ ~Is(x, "gameActionList", t) /\ ~Is(x, "init", t) /\ ~Is(x, "turn", t)
                    /\ Ends(x, t) => stage'[t] \notin {"lobby", "running"}
                    /\ Is(x, "connected", t) => t \in started
  OBVIOUS
<1>4. \A x \in {} : /\ ~Is(x, "action", t) /\ ~Is(x, "getGameInfo2", t) /\ ~Is(x, "loaded", t)
                    /\ Is(x, "tableUnattend", t) => stage'[t] \notin {"lobby", "running"}
  OBVIOUS
<1>. QED
  BY <1>1, <1>2, <1>3, <1>4, SteadyQuiet

\* No request but "loaded" makes a game begin.
LEMMA ServeSteady ==
  ASSUME BotClientAssumption, TypeOK, NEW t \in Tables, Serve, LinkInv, drops = 0, MailInv(t), SteadyTable(t)
  PROVE  SteadyTable(t)'
<1>1. PICK u \in Tables :
        /\ Answers(u)
        /\ ServesOpening(u) \/ ServesList(u) \/ ServesLoaded(u) \/ ServesNothing(u)
  BY ServeEffect
<1>2. /\ 1 \in DOMAIN outbox /\ outbox[1].tid = u /\ Moves(outbox, outbox', 1, {})
      /\ UNCHANGED <<clientVars, stage, turn>>
  BY <1>1 DEF Answers
<1>3. /\ outbox[1].cmd # "tableReattend" /\ Moves(jobs, jobs', 0, {})
      /\ UNCHANGED <<games, action_time, everyone_connected>>
  BY <1>2, Still DEF LinkInv, clientVars
<1>4. CASE ServesOpening(u)
  <2>1. PICK m : /\ Moves(inbox, inbox', 0, {m}) /\ m.cmd \in {"tableStart", "init"} /\ m.tid = u
                 /\ m.cmd = "init" => (m.replay <=> stage[u] = "replay")
    BY <1>4 DEF ServesOpening
  <2>2. UNCHANGED <<started, following>> /\ Asks(outbox[1], u) /\ stage[u] \in {"running", "replay"}
    BY <1>3, <1>4 DEF ServesOpening
  <2>3. CASE u = t /\ m.cmd = "init"
    <3>1. Opening(t)
      BY <1>2, <2>2, <2>3 DEF Opening
    <3>2. t \in started => stage[t] = "replay"
      BY <2>2, <2>3, <3>1 DEF MailInv, OpeningAlone, SteadyTable, Followed
    <3>. QED
      BY <1>2, <1>3, <2>1, <2>2, <2>3, <3>2, InitSent
  <2>4. CASE u # t \/ m.cmd = "tableStart"
    <3>1. \A x \in {m} : /\ ~Is(x, "gameActionList", t) /\ ~Is(x, "init", t) /\ ~Is(x, "turn", t)
                         /\ Ends(x, t) => stage'[t] \notin {"lobby", "running"}
                         /\ Is(x, "connected", t) => t \in started
      BY <2>1, <2>4 DEF Is, Ends
    <3>. QED
      BY <1>2, <2>1, <2>2, <3>1, QuietTold
  <2>. QED
    BY <2>1, <2>3, <2>4
<1>5. CASE ServesList(u)
  <2>1. PICK m : Moves(inbox, inbox', 0, {m}) /\ Is(m, "gameActionList", u)
    BY <1>5 DEF ServesList
  <2>2. /\ UNCHANGED started /\ Is(outbox[1], "getGameInfo2", u)
        /\ t \in following => t \in following'
    BY <1>5 DEF ServesList
  <2>3. CASE u = t
    BY <1>2, <1>3, <2>1, <2>2, <2>3, ListGiven
  <2>4. CASE u # t
    <3>1. \A x \in {m} : /\ ~Is(x, "gameActionList", t) /\ ~Is(x, "init", t) /\ ~Is(x, "turn", t)
                         /\ Ends(x, t) => stage'[t] \notin {"lobby", "running"}
                         /\ Is(x, "connected", t) => t \in started
      BY <2>1, <2>4 DEF Is, Ends
    <3>. QED
      BY <1>2, <2>1, <2>2, <3>1, QuietTold
  <2>. QED
    BY <2>3, <2>4
<1>6. CASE ServesLoaded(u)
  <2>1. PICK m : Moves(inbox, inbox', 0, {m}) /\ Is(m, "connected", u)
    BY <1>6 DEF ServesLoaded
  <2>2. /\ UNCHANGED following /\ Is(outbox[1], "loaded", u)
        /\ \/ stage[u] = "running" /\ started' = started \cup {u}
           \/ stage[u] = "replay" /\ started' = started
    BY <1>6 DEF ServesLoaded
  <2>3. CASE u = t /\ stage[u] = "running"
    <3>1. t \in started' /\ LoadedLast(t)
      BY <2>2, <2>3 DEF MailInv
    <3>. QED
      BY <1>2, <1>3, <2>1, <2>2, <2>3, <3>1, LoadedGiven
  <2>4. CASE u # t \/ stage[u] # "running"
    <3>1. t \in started' <=> t \in started
      BY <2>2, <2>4
    <3>2. u = t => t \in started
      BY <2>2, <2>4 DEF SteadyTable, Awaited
    <3>3. \A x \in {m} : /\ ~Is(x, "gameActionList", t) /\ ~Is(x, "init", t) /\ ~Is(x, "turn", t)
                         /\ Ends(x, t) => stage'[t] \notin {"lobby", "running"}
                         /\ Is(x, "connected", t) => t \in started
      BY <2>1, <3>2 DEF Is, Ends
    <3>. QED
      BY <1>2, <2>1, <2>2, <3>1, <3>3, QuietTold
  <2>. QED
    BY <2>3, <2>4
<1>7. CASE ServesNothing(u)
  <2>1. UNCHANGED <<inbox, started>> /\ Moves(inbox, inbox', 0, {})
    BY <1>7, Still DEF ServesNothing
  <2>2. t \in following /\ stage'[t] = "running" => t \in following'
    <3>1. stage[t] = "running" => ~Is(outbox[1], "tableUnattend", t)
      BY <1>2 DEF SteadyTable, Followed
    <3>. QED
      BY <1>2, <1>7, <3>1 DEF ServesNothing, Is
  <2>3. \A x \in {} : /\ ~Is(x, "gameActionList", t) /\ ~Is(x, "init", t) /\ ~Is(x, "turn", t)
                      /\ Ends(x, t) => stage'[t] \notin {"lobby", "running"}
                      /\ Is(x, "connected", t) => t \in started
    OBVIOUS
  <2>. QED
    BY <1>2, <2>1, <2>2, <2>3, QuietTold
<1>. QED
  BY <1>1, <1>4, <1>5, <1>6, <1>7

\* A turn is taken on table u, by the request at the head of the outbox or by
\* the partner.
LEMMA TakenSteady ==
  ASSUME BotClientAssumption, TypeOK, TypeOK', NEW t \in Tables, NEW u \in Tables, NEW l \in {0, 1},
         TurnTaken(u), Moves(outbox, outbox', l, {}),
         \/ l = 1 /\ 1 \in DOMAIN outbox /\ Is(outbox[1], "action", u)
         \/ ~OurTurn(turn[u]),
         MailInv(t), SteadyTable(t)
  PROVE  SteadyTable(t)'
<1>1. PICK N : N = IF u \in following THEN {[cmd |-> "turn", tid |-> u, n |-> turn[u] + 1]} ELSE {}
  OBVIOUS
<1>2. /\ Moves(inbox, inbox', 0, N) /\ UNCHANGED <<clientVars, stage, started, following>>
      /\ stage[u] = "running" /\ u \in started /\ turn'[u] = turn[u] + 1
      /\ \A v \in Tables : v # u => turn'[v] = turn[v]
  BY <1>1 DEF TurnTaken
<1>3. \A x \in N : x.cmd = "turn" /\ x.tid = u /\ x.n = turn[u] + 1
  BY <1>1
<1>4. CASE u = t
  <2>1. UNCHANGED <<games, action_time, everyone_connected>> /\ Moves(jobs, jobs', 0, {})
    BY <1>2, Still DEF clientVars
  <2>2. turn[t] \in Nat /\ CountsRise(t) /\ \A i \in DOMAIN inbox : Counts(inbox[i], t) => inbox[i].n \in Int
    BY TableTypes DEF MailInv
  <2>. QED
    BY <1>2, <1>3, <1>4, <2>1, <2>2, TurnGiven
<1>5. CASE u # t
  <2>1. \A x \in N : /\ ~Is(x, "gameActionList", t) /\ ~Is(x, "init", t) /\ ~Is(x, "turn", t)
                     /\ Ends(x, t) => stage'[t] \notin {"lobby", "running"}
                     /\ Is(x, "connected", t) => t \in started
    BY <1>3, <1>5 DEF Is, Ends
  <2>. QED
    BY <1>2, <1>5, <2>1, QuietTold
<1>. QED
  BY <1>4, <1>5

\* The action that is taken was the only decision, for this turn.
LEMMA ActSteady ==
  ASSUME BotClientAssumption, TypeOK, TypeOK', NEW t \in Tables, Act, MailInv(t), SteadyTable(t)
  PROVE  SteadyTable(t)'
<1>1. PICK u \in Tables :
           /\ 1 \in DOMAIN outbox /\ Is(outbox[1], "action", u) /\ Moves(outbox, outbox', 1, {})
           /\ \/ TurnTaken(u)
              \/ UNCHANGED <<clientVars, up, drops, stage, started, following, turn, inbox>>
  BY ActEffect
<1>2. CASE TurnTaken(u)
  BY <1>1, <1>2, TakenSteady
<1>3. CASE UNCHANGED <<clientVars, up, drops, stage, started, following, turn, inbox>>
  <2>1. UNCHANGED <<clientVars, stage, started, following, turn>> /\ Moves(inbox, inbox', 0, {})
    BY <1>3, Still
  <2>2. \A x \in {} : /\ ~Is(x, "gameActionList", t) /\ ~Is(x, "init", t) /\ ~Is(x, "turn", t)
                      /\ Ends(x, t) => stage'[t] \notin {"lobby", "running"}
                      /\ Is(x, "connected", t) => t \in started
    OBVIOUS
  <2>. QED
    BY <1>1, <2>1, <2>2, QuietTold
<1>. QED
  BY <1>1, <1>2, <1>3

\* While the partner moves there is no decision of ours.
LEMMA PartnerSteady ==
  ASSUME BotClientAssumption, TypeOK, TypeOK', NEW t \in Tables, NEW u \in Tables,
         PartnerActs(u), MailInv(t), SteadyTable(t)
  PROVE  SteadyTable(t)'
<1>1. TurnTaken(u) /\ Moves(outbox, outbox', 0, {}) /\ ~OurTurn(turn[u])
  BY PartnerEffect, Still
<1>. QED
  BY <1>1, TakenSteady

\* The server tells who is there, not whose turn it is.
LEMMA PartnerComesOrGoesSteady ==
  ASSUME BotClientAssumption, TypeOK, NEW t \in Tables, NEW u \in Tables, PartnerComesOrGoes(u), SteadyTable(t)
  PROVE  SteadyTable(t)'
<1>1. PICK m, a : m = [cmd |-> "connected", tid |-> u, all |-> a] /\ a = (u \notin partner)
  OBVIOUS
<1>2. m \in Inbound /\ m.cmd = "connected" /\ m.tid = u
  <2>1. a \in BOOLEAN
    BY <1>1
  <2>. QED
    BY <1>1, <2>1 DEF Inbound
<1>3. Tell(u, m) /\ u \in started /\ UNCHANGED <<clientVars, stage, started, following, turn, outbox>>
  BY <1>1 DEF PartnerComesOrGoes
<1>4. PICK N \in SUBSET {m} : Moves(inbox, inbox', 0, N)
  BY <1>2, <1>3, ToldEffect
<1>5. \A x \in N : /\ ~Is(x, "gameActionList", t) /\ ~Is(x, "init", t) /\ ~Is(x, "turn", t)
                   /\ Ends(x, t) => stage'[t] \notin {"lobby", "running"}
                   /\ Is(x, "connected", t) => t \in started
  BY <1>2, <1>3, <1>4 DEF Is, Ends
<1>6. Moves(outbox, outbox', 0, {})
  BY <1>3, Still
<1>. QED
  BY <1>3, <1>4, <1>5, <1>6, QuietTold

\* A game starts with nothing about it on its way.
LEMMA StartGameSteady ==
  ASSUME BotClientAssumption, TypeOK, NEW t \in Tables, NEW u \in Tables, StartGame(u), MailInv(t), SteadyTable(t)
  PROVE  SteadyTable(t)'
<1>1. PICK m : m = [cmd |-> "tableStart", tid |-> u]
  OBVIOUS
<1>2. m \in Inbound /\ m.cmd = "tableStart" /\ m.tid = u
  BY <1>1 DEF Inbound
<1>3. /\ stage[u] = "lobby" /\ stage'[u] = "running" /\ \A v \in Tables : v # u => stage'[v] = stage[v]
      /\ following' = following \cup {u} /\ inbox' = Append(inbox, m)
      /\ UNCHANGED <<clientVars, started, turn, outbox>>
  BY <1>1 DEF StartGame, TypeOK
<1>4. Moves(inbox, inbox', 0, {m}) /\ Moves(outbox, outbox', 0, {})
  BY <1>2, <1>3, AppendMoves, Still DEF TypeOK
<1>5. CASE u = t
  <2>1. UNCHANGED <<games, action_time, everyone_connected>> /\ Moves(jobs, jobs', 0, {})
    BY <1>3, Still DEF clientVars
  <2>2. OpeningAlone(t) /\ Untouched(t) /\ t \in following'
    BY <1>3, <1>5 DEF MailInv
  <2>. QED
    BY <1>2, <1>3, <1>4, <1>5, <2>1, <2>2, StartSteady
<1>6. CASE u # t
  <2>1. \A x \in {m} : /\ ~Is(x, "gameActionList", t) /\ ~Is(x, "init", t) /\ ~Is(x, "turn", t)
                       /\ Ends(x, t) => stage'[t] \notin {"lobby", "running"}
                       /\ Is(x, "connected", t) => t \in started
    BY <1>2, <1>6 DEF Is, Ends
  <2>2. stage'[t] = stage[t] /\ (t \in following' <=> t \in following)
    BY <1>3, <1>6
  <2>. QED
    BY <1>3, <1>4, <2>1, <2>2, QuietTold
<1>. QED
  BY <1>5, <1>6

\* A game that ends leaves its decision, of which nothing more is asked.
LEMMA EndGameSteady ==
  ASSUME BotClientAssumption, TypeOK, NEW t \in Tables, NEW u \in Tables, EndGame(u), SteadyTable(t)
  PROVE  SteadyTable(t)'
<1>1. /\ stage[u] = "running" /\ u \in started /\ stage'[u] = "over"
      /\ \A v \in Tables : v # u => stage'[v] = stage[v]
      /\ UNCHANGED <<clientVars, started, turn, following, outbox>>
  BY DEF EndGame, TypeOK
<1>2. Moves(outbox, outbox', 0, {})
  BY <1>1, Still
<1>3. PICK N : /\ Moves(inbox, inbox', 0, N)
               /\ \A x \in N : x.cmd \in {"gameOver", "tableGone", "finishOngoingGame"} /\ x.tid = u
  BY EndGameEffect
<1>4. \A x \in N : /\ ~Is(x, "gameActionList", t) /\ ~Is(x, "init", t) /\ ~Is(x, "turn", t)
                   /\ Ends(x, t) => stage'[t] \notin {"lobby", "running"}
                   /\ Is(x, "connected", t) => t \in started
  BY <1>1, <1>3 DEF Is, Ends
<1>5. stage'[t] = stage[t] \/ (stage'[t] \notin {"lobby", "running"} /\ t \in started)
  BY <1>1
<1>. QED
  BY <1>1, <1>2, <1>3, <1>4, <1>5, QuietTold

\* A replay is not decided.
LEMMA ReplaySteady ==
  ASSUME BotClientAssumption, TypeOK, NEW t \in Tables, NEW u \in Tables,
         OpenReplay(u) \/ CloseReplay(u), SteadyTable(t)
  PROVE  SteadyTable(t)'
<1>1. PICK m : /\ m \in Inbound /\ m.tid = u /\ m.cmd \in {"tableStart", "tableGone"} /\ Tell(u, m)
               /\ m.cmd = "tableGone" => stage'[u] = "gone"
  <2>1. /\ [cmd |-> "tableStart", tid |-> u] \in Inbound
        /\ [cmd |-> "tableGone", tid |-> u] \in Inbound
    BY DEF Inbound
  <2>2. CASE OpenReplay(u)
    BY <2>1, <2>2 DEF OpenReplay
  <2>3. CASE CloseReplay(u)
    BY <2>1, <2>3 DEF CloseReplay, TypeOK
  <2>. QED
    BY <2>2, <2>3
<1>2. /\ stage[u] \in {"over", "replay"} /\ stage'[u] \in {"replay", "gone"}
      /\ \A v \in Tables : v # u => stage'[v] = stage[v]
      /\ UNCHANGED <<clientVars, started, turn, following, outbox>>
  BY DEF OpenReplay, CloseReplay, TypeOK
<1>3. PICK N \in SUBSET {m} : Moves(inbox, inbox', 0, N)
  BY <1>1, ToldEffect
<1>4. Moves(outbox, outbox', 0, {})
  BY <1>2, Still
<1>5. \A x \in N : /\ ~Is(x, "gameActionList", t) /\ ~Is(x, "init", t) /\ ~Is(x, "turn", t)
                   /\ Ends(x, t) => stage'[t] \notin {"lobby", "running"}
                   /\ Is(x, "connected", t) => t \in started
  BY <1>1, <1>2, <1>3 DEF Is, Ends
<1>6. stage'[t] = stage[t] \/ (stage'[t] \notin {"lobby", "running"} /\ t \in started)
  BY <1>2 DEF SteadyTable, Awaited
<1>. QED
  BY <1>2, <1>3, <1>4, <1>5, <1>6, QuietTold
-----------------------------------------------------------------------------
\* The second invariant holds at the start: no table has begun.
LEMMA SteadyInit == BotClientAssumption /\ Init => SteadyInv
<1>. SUFFICES ASSUME BotClientAssumption, Init, NEW t \in Tables
              PROVE  SteadyTable(t)
  BY DEF SteadyInv
<1>1. /\ inbox = <<>> /\ outbox = <<>> /\ jobs = <<>> /\ started = {}
      /\ games[t] = NoGame /\ stage[t] = "lobby" /\ ~everyone_connected[t]
  BY DEF Init
<1>2. /\ \A i \in DOMAIN inbox : FALSE
      /\ \A i \in DOMAIN outbox : FALSE
      /\ \A i \in DOMAIN jobs : FALSE
      /\ ~games[t].in_progress
  BY <1>1 DEF NoGame
<1>. QED
  BY <1>1, <1>2 DEF SteadyTable, OneDecision, TurnKept, DecidedNow, Undecided, Followed, Awaited, Playing,
                    OurTurnIsNow

\* Every step keeps the second invariant.
LEMMA SteadyStep ==
  ASSUME BotClientAssumption, TypeOK, TypeOK', SoundInv, SteadyInv, [Next]_vars
  PROVE  SteadyInv'
<1>. SUFFICES ASSUME drops' = 0, NEW t \in Tables
              PROVE  SteadyTable(t)'
  BY DEF SteadyInv
<1>1. LinkInv /\ drops = 0
  BY LinkStep DEF SoundInv
<1>2. AllSound /\ MailInv(t) /\ SteadyTable(t) /\ up
  BY <1>1 DEF SoundInv, SteadyInv, Ordered, LinkInv
<1>3. ~OnWelcome
  <2>1. ASSUME OnWelcome
        PROVE  1 \in DOMAIN inbox /\ inbox[1].cmd = "welcome"
    BY <2>1, WelcomeEffect
  <2>. QED
    BY <1>1, <2>1 DEF LinkInv
<1>4. ~Lose /\ ~Reconnect
  BY <1>1, <1>2 DEF Lose, Reconnect
<1>5. CASE Quiet \/ UNCHANGED vars
  <2>1. /\ UNCHANGED <<clientVars, inbox, outbox, stage, turn, started, following>>
    BY <1>5 DEF Quiet, vars, linkVars, serverVars
  <2>2. Moves(inbox, inbox', 0, {}) /\ Moves(outbox, outbox', 0, {})
    BY <2>1, Still
  <2>3. \A x \in {} : /\ ~Is(x, "gameActionList", t) /\ ~Is(x, "init", t) /\ ~Is(x, "turn", t)
                      /\ Ends(x, t) => stage'[t] \notin {"lobby", "running"}
                      /\ Is(x, "connected", t) => t \in started
    OBVIOUS
  <2>. QED
    BY <1>2, <2>1, <2>2, <2>3, QuietTold
<1>. QED
  BY <1>1, <1>2, <1>3, <1>4, <1>5, TableStartSteady, OnInitSteady, OnTurnSteady, OnListSteady,
     OnConnectedSteady, EndHandledSteady, JobDoneSteady, JobThrowsSteady, ServeSteady, ActSteady,
     PartnerSteady, PartnerComesOrGoesSteady, StartGameSteady, EndGameSteady, ReplaySteady DEF Next, Handle

\* The invariant of both arguments.
DecisionInv == TypeOK /\ NobodyFollowed /\ SoundInv /\ SteadyInv

\* Both invariants hold in every reachable state.
LEMMA DecisionInvHolds == Spec => []DecisionInv
<1>1. Init => DecisionInv
  BY TypeInit, SoundInit, SteadyInit, BotClientAssumption DEF DecisionInv
<1>2. DecisionInv /\ [Next]_vars => DecisionInv'
  BY TypeStep, SoundStep, SteadyStep, BotClientAssumption DEF DecisionInv
<1>. QED
  BY <1>1, <1>2, PTL DEF Spec

\* A decision on its way, and whose it is.
LEMMA DecisionAt ==
  ASSUME TypeOK, NEW i \in Decisions
  PROVE  \/ i \in DOMAIN jobs /\ OnItsWay[i] = jobs[i]
         \/ /\ i - Len(jobs) \in DOMAIN outbox /\ OnItsWay[i] = outbox[i - Len(jobs)]
            /\ Is(outbox[i - Len(jobs)], "action", OnItsWay[i].tid)
<1>1. jobs \in Seq(Job) /\ outbox \in Seq(Outbound)
  BY DEF TypeOK
<1>2. i \in DOMAIN (jobs \o outbox)
  BY DEF Decisions, OnItsWay
<1>3. CASE i <= Len(jobs)
  BY <1>1, <1>2, <1>3 DEF OnItsWay
<1>4. CASE ~(i <= Len(jobs))
  <2>1. OnItsWay[i].cmd = "action"
    BY <1>4 DEF Decisions
  <2>2. i - Len(jobs) \in DOMAIN outbox /\ OnItsWay[i] = outbox[i - Len(jobs)]
    BY <1>1, <1>2, <1>4 DEF OnItsWay
  <2>. QED
    BY <2>1, <2>2 DEF Is
<1>. QED
  BY <1>3, <1>4

\* A decision on its way belongs to a table.
LEMMA DecisionTable ==
  ASSUME TypeOK, NEW i \in Decisions
  PROVE  OnItsWay[i].tid \in Tables
<1>1. \A n \in DOMAIN jobs : jobs[n].tid \in Tables
  <2>1. \A n \in DOMAIN jobs : jobs[n] \in Job
    BY DEF TypeOK
  <2>. QED
    BY <2>1 DEF Job
<1>2. \A n \in DOMAIN outbox : outbox[n].tid \in Tables
  <2>1. \A n \in DOMAIN outbox : outbox[n] \in Outbound
    BY DEF TypeOK
  <2>. QED
    BY <2>1, OutboundFields
<1>. QED
  BY <1>1, <1>2, DecisionAt

\* While the first connection lasts a turn is decided once: no order of the
\* messages makes the bot post a second job for it.
THEOREM TurnDecidedOnce == Spec => [](drops = 0 => OneDecisionPerTurn)
<1>1. DecisionInv => (drops = 0 => OneDecisionPerTurn)
  <2>. SUFFICES ASSUME DecisionInv, drops = 0, NEW i \in Decisions, NEW j \in Decisions, i # j
                PROVE  OnItsWay[i].tid # OnItsWay[j].tid
    BY DEF OneDecisionPerTurn
  <2>1. TypeOK /\ \A t \in Tables : OneDecision(t)
    BY DEF DecisionInv, SteadyInv, SteadyTable
  <2>2. Len(jobs) \in Nat /\ DOMAIN jobs = 1 .. Len(jobs) /\ i \in Nat /\ j \in Nat
    <3>1. jobs \in Seq(Job) /\ outbox \in Seq(Outbound)
      BY <2>1 DEF TypeOK
    <3>. QED
      BY <3>1 DEF Decisions, OnItsWay
  <2>3. OnItsWay[i].tid \in Tables
    BY <2>1, DecisionTable
  <2>4. /\ \A n \in Decisions : \/ n \in DOMAIN jobs /\ OnItsWay[n] = jobs[n]
                                \/ /\ n - Len(jobs) \in DOMAIN outbox /\ OnItsWay[n] = outbox[n - Len(jobs)]
                                   /\ Is(outbox[n - Len(jobs)], "action", OnItsWay[n].tid)
    BY <2>1, DecisionAt
  <2>. QED
    BY <2>1, <2>2, <2>3, <2>4 DEF OneDecision
<1>. QED
  BY <1>1, DecisionInvHolds, PTL

\* While the first connection lasts the table stays at the turn a decision on its
\* way was made for: the snapshot the compute thread works on is not outdated.
THEOREM TurnAlwaysWaits == Spec => [](drops = 0 => TurnWaitsForDecision)
<1>1. DecisionInv => (drops = 0 => TurnWaitsForDecision)
  <2>. SUFFICES ASSUME DecisionInv, drops = 0, NEW i \in Decisions
                PROVE  OnItsWay[i].turn = turn[OnItsWay[i].tid]
    BY DEF TurnWaitsForDecision
  <2>1. TypeOK /\ \A t \in Tables : TurnKept(t)
    BY DEF DecisionInv, SteadyInv, SteadyTable
  <2>2. OnItsWay[i].tid \in Tables
    BY <2>1, DecisionTable
  <2>. QED
    BY <2>1, <2>2, DecisionAt DEF TurnKept
<1>. QED
  BY <1>1, DecisionInvHolds, PTL
=============================================================================
