------------------------------ MODULE Transport ------------------------------
(***************************************************************************)
(* BotTransport: the WebSocket transport of the bot.  The thread in run()  *)
(* connects, publishes the session in g_active_session and serves the      *)
(* session's io_context until nothing is outstanding on it; any thread may *)
(* call queue_send and stop, which copy the published pointer under a      *)
(* mutex and post a handler to that session's io_context.                  *)
(*                                                                         *)
(* A handler of the io_context runs to its end before the next one starts, *)
(* so each is one action.  A thread outside of it (queue_send from the     *)
(* compute thread, stop) interleaves between the copy and the post.        *)
(* Sessions follow one another, so one set of session variables describes  *)
(* the current one and "epoch" numbers it; a post to an older epoch lands  *)
(* on an io_context nobody runs any more.                                  *)
(***************************************************************************)
EXTENDS Integers, Sequences

CONSTANTS Callers,          \* threads that call queue_send
          Net,              \* the one of them that is in run()
          MaxCalls,         \* bound: calls of queue_send per thread
          MaxRetries,       \* max_retries_
          MaxSessions,      \* bound: connections the server accepts
          ForeignStop       \* may a thread other than Net call stop()?

ASSUME TransportAssumption ==
          /\ Net \in Callers
          /\ MaxCalls \in Nat
          /\ MaxRetries \in Nat
          /\ MaxSessions \in Nat
          /\ ForeignStop \in BOOLEAN

Lanes == {"main", "low"}
Message == [from : Callers, no : 1 .. MaxCalls, lane : Lanes]

\* A handler waiting in the io_context.  queue_send posts "dispatch", which
\* picks the stream and posts "enqueue"; stop posts "close".
Handler == [kind : {"dispatch", "enqueue"}, msg : Message] \cup [kind : {"close"}]

VARIABLES
  \* run()
  pc,               \* where the thread in run() is
  attempt,
  fails,            \* history: failed connections since the last good one
  clean,            \* what run() returned
  stop,             \* stop_
  active,           \* g_active_session is not null
  epoch,            \* number of the last session published
  pending,          \* pending_, the gauge pending_sends() reads
  \* Session
  ready,            \* handlers posted to the io_context, in order
  queue, low_queue,
  msg_in_flight, write_in_flight,
  op,               \* the outstanding write-side operation
  reading,          \* an async_read is outstanding
  armed,            \* the signal wait is outstanding
  connection_alive,
  open,             \* our end of the socket is open
  peer,             \* the other end is there
  \* callers
  calls,            \* calls[c]: queue_send calls c has begun
  held,             \* held[c]: epoch of the pointer c copied, 0 when not calling
  stopper,          \* the foreign thread's place in stop()
  stop_held,        \* epoch of the pointer it copied
  last              \* history: last[c][l], number of c's last message written on l

runVars     == <<pc, attempt, fails, clean, active, epoch>>
writeVars   == <<queue, low_queue, msg_in_flight, write_in_flight, op, pending>>
linkVars    == <<reading, armed, connection_alive, open, peer>>
callVars    == <<calls, held>>
stopVars    == <<stopper, stop_held>>
vars == <<runVars, stop, ready, writeVars, linkVars, callVars, stopVars, last>>

NoMessage == [from |-> Net, no |-> 0, lane |-> "main"]

Init ==
  /\ pc = "test" /\ attempt = 0 /\ fails = 0 /\ clean = "unknown"
  /\ stop = FALSE /\ active = FALSE /\ epoch = 0 /\ pending = 0
  /\ ready = <<>> /\ queue = <<>> /\ low_queue = <<>>
  /\ msg_in_flight = NoMessage /\ write_in_flight = FALSE /\ op = "none"
  /\ reading = FALSE /\ armed = FALSE /\ connection_alive = FALSE
  /\ open = FALSE /\ peer = FALSE
  /\ calls = [c \in Callers |-> 0] /\ held = [c \in Callers |-> 0]
  /\ stopper = "idle" /\ stop_held = 0
  /\ last = [c \in Callers |-> [l \in Lanes |-> 0]]

-----------------------------------------------------------------------------
(* The thread in run(). *)

\* The test of the while loop.
Test ==
  /\ pc = "test"
  /\ \/ stop /\ pc' = "returned" /\ clean' = "yes"
     \/ ~stop /\ pc' = "connect" /\ UNCHANGED clean
  /\ UNCHANGED <<attempt, fails, active, epoch, stop, ready, writeVars, linkVars,
                 callVars, stopVars, last>>

\* Resolving, connecting and the handshakes throw on failure.
ConnectFails ==
  /\ pc = "connect"
  /\ fails' = fails + 1
  /\ \/ attempt >= MaxRetries /\ pc' = "returned" /\ clean' = "no" /\ UNCHANGED attempt
     \/ attempt < MaxRetries /\ pc' = "sleep" /\ attempt' = attempt + 1 /\ UNCHANGED clean
  /\ UNCHANGED <<active, epoch, stop, ready, writeVars, linkVars, callVars, stopVars, last>>

\* The handshake is done: a fresh Session is published.
Publish ==
  /\ pc = "connect"
  /\ epoch < MaxSessions
  /\ pc' = "published" /\ active' = TRUE /\ epoch' = epoch + 1 /\ fails' = 0
  /\ ready' = <<>> /\ queue' = <<>> /\ low_queue' = <<>>
  /\ msg_in_flight' = NoMessage /\ write_in_flight' = FALSE /\ op' = "none"
  /\ connection_alive' = TRUE /\ open' = TRUE /\ peer' = TRUE
  /\ UNCHANGED <<attempt, clean, stop, pending, reading, armed, callVars, stopVars, last>>

\* run_async, then ioc.run().
StartAsync ==
  /\ pc = "published"
  /\ pc' = "session" /\ reading' = TRUE /\ armed' = TRUE
  /\ UNCHANGED <<attempt, fails, clean, active, epoch, stop, ready, writeVars,
                 connection_alive, open, peer, callVars, stopVars, last>>

\* ioc.run() returns once nothing is outstanding.
IocReturns ==
  /\ pc = "session"
  /\ ready = <<>> /\ ~reading /\ ~armed /\ op = "none"
  /\ pc' = "teardown"
  /\ UNCHANGED <<attempt, fails, clean, active, epoch, stop, ready, writeVars, linkVars,
                 callVars, stopVars, last>>

\* The Session dies with what is queued in it.
SessionDies ==
  /\ queue' = <<>> /\ low_queue' = <<>> /\ ready' = <<>>
  /\ msg_in_flight' = NoMessage /\ connection_alive' = FALSE /\ open' = FALSE /\ peer' = FALSE
  /\ UNCHANGED <<fails, epoch, stop, write_in_flight, op, reading, armed, callVars,
                 stopVars, last>>

\* What run() does after a session, given the number of attempts it goes on with.
GoOnWith(n) ==
  \/ stop /\ pc' = "returned" /\ clean' = "yes" /\ UNCHANGED attempt
  \/ ~stop /\ pc' = "sleep" /\ attempt' = n /\ UNCHANGED clean

\* Mutants of Teardown: the gauge is not zeroed; the pointer is not reset; the
\* retries before the connection still count.
TeardownKeepsGauge ==
  pc = "teardown" /\ SessionDies /\ active' = FALSE /\ UNCHANGED pending /\ GoOnWith(0)
TeardownKeepsPointer ==
  pc = "teardown" /\ SessionDies /\ UNCHANGED active /\ pending' = 0 /\ GoOnWith(0)
TeardownKeepsAttempt ==
  pc = "teardown" /\ SessionDies /\ active' = FALSE /\ pending' = 0 /\ GoOnWith(attempt)

\* The pointer is reset, the gauge is zeroed and run() looks at stop_.
Teardown ==
  pc = "teardown" /\ SessionDies /\ active' = FALSE /\ pending' = 0 /\ GoOnWith(0)

\* The backoff of 2^attempt seconds, or the second before a reconnection.
Wake ==
  /\ pc = "sleep"
  /\ pc' = "test"
  /\ UNCHANGED <<attempt, fails, clean, active, epoch, stop, ready, writeVars, linkVars,
                 callVars, stopVars, last>>

-----------------------------------------------------------------------------
(* Handlers of the session's io_context. *)

\* Mutant of TryWriteNext: the low lane goes first.
TryWriteNextLowFirst(q, l, p, w) ==
  \/ /\ w \/ ~connection_alive \/ (q = <<>> /\ l = <<>>)
     /\ queue' = q /\ low_queue' = l /\ pending' = p /\ write_in_flight' = w
     /\ op' = (IF w THEN op ELSE "none")
     /\ UNCHANGED msg_in_flight
  \/ /\ ~w /\ connection_alive /\ l # <<>>
     /\ queue' = q /\ low_queue' = Tail(l) /\ pending' = p - 1
     /\ msg_in_flight' = Head(l) /\ write_in_flight' = TRUE /\ op' = "write"
  \/ /\ ~w /\ connection_alive /\ l = <<>> /\ q # <<>>
     /\ queue' = Tail(q) /\ low_queue' = l /\ pending' = p - 1
     /\ msg_in_flight' = Head(q) /\ write_in_flight' = TRUE /\ op' = "write"

\* try_write_next, called with the lanes q and l, the gauge p and the flag w
\* as the handler that calls it left them.
TryWriteNext(q, l, p, w) ==
  \/ /\ w \/ ~connection_alive \/ (q = <<>> /\ l = <<>>)
     /\ queue' = q /\ low_queue' = l /\ pending' = p /\ write_in_flight' = w
     /\ op' = (IF w THEN op ELSE "none")
     /\ UNCHANGED msg_in_flight
  \/ /\ ~w /\ connection_alive /\ q # <<>>
     /\ queue' = Tail(q) /\ low_queue' = l /\ pending' = p - 1
     /\ msg_in_flight' = Head(q) /\ write_in_flight' = TRUE /\ op' = "write"
  \/ /\ ~w /\ connection_alive /\ q = <<>> /\ l # <<>>
     /\ queue' = q /\ low_queue' = Tail(l) /\ pending' = p - 1
     /\ msg_in_flight' = Head(l) /\ write_in_flight' = TRUE /\ op' = "write"

\* The lambda queue_send posts: it hands the message to enqueue_send, which
\* posts again.
Dispatch ==
  /\ pc = "session" /\ ready # <<>> /\ Head(ready).kind = "dispatch"
  /\ ready' = Append(Tail(ready), [kind |-> "enqueue", msg |-> Head(ready).msg])
  /\ UNCHANGED <<runVars, stop, writeVars, linkVars, callVars, stopVars, last>>

\* Mutants of Enqueue: the message is not counted; it jumps the lane; nobody is
\* woken.
EnqueueUncounted ==
  /\ pc = "session" /\ ready # <<>> /\ Head(ready).kind = "enqueue"
  /\ ready' = Tail(ready)
  /\ LET m == Head(ready).msg
     IN  IF m.lane = "main"
         THEN TryWriteNext(Append(queue, m), low_queue, pending, write_in_flight)
         ELSE TryWriteNext(queue, Append(low_queue, m), pending, write_in_flight)
  /\ UNCHANGED <<runVars, stop, linkVars, callVars, stopVars, last>>

EnqueueInFront ==
  /\ pc = "session" /\ ready # <<>> /\ Head(ready).kind = "enqueue"
  /\ ready' = Tail(ready)
  /\ LET m == Head(ready).msg
     IN  IF m.lane = "main"
         THEN TryWriteNext(<<m>> \o queue, low_queue, pending + 1, write_in_flight)
         ELSE TryWriteNext(queue, <<m>> \o low_queue, pending + 1, write_in_flight)
  /\ UNCHANGED <<runVars, stop, linkVars, callVars, stopVars, last>>

EnqueueOnly ==
  /\ pc = "session" /\ ready # <<>> /\ Head(ready).kind = "enqueue"
  /\ ready' = Tail(ready)
  /\ queue' = Append(queue, Head(ready).msg)
  /\ pending' = pending + 1
  /\ UNCHANGED <<runVars, stop, low_queue, msg_in_flight, write_in_flight, op, linkVars,
                 callVars, stopVars, last>>

\* The lambda enqueue_send posts.
Enqueue ==
  /\ pc = "session" /\ ready # <<>> /\ Head(ready).kind = "enqueue"
  /\ ready' = Tail(ready)
  /\ LET m == Head(ready).msg
     IN  \/ m.lane = "main"
            /\ TryWriteNext(Append(queue, m), low_queue, pending + 1, write_in_flight)
         \/ m.lane = "low"
            /\ TryWriteNext(queue, Append(low_queue, m), pending + 1, write_in_flight)
  /\ UNCHANGED <<runVars, stop, linkVars, callVars, stopVars, last>>

\* Mutant of Close: the socket stays open.
CloseNothing ==
  /\ pc = "session" /\ ready # <<>> /\ Head(ready).kind = "close"
  /\ ready' = Tail(ready)
  /\ UNCHANGED <<runVars, stop, writeVars, linkVars, callVars, stopVars, last>>

\* The lambda stop() posts.
Close ==
  /\ pc = "session" /\ ready # <<>> /\ Head(ready).kind = "close"
  /\ ready' = Tail(ready)
  /\ open' = FALSE
  /\ UNCHANGED <<runVars, stop, writeVars, reading, armed, connection_alive, peer,
                 callVars, stopVars, last>>

\* async_write completed: the send_interval timer starts.  A completion may
\* already be queued when the socket is closed, so "open" is not required.
WriteDone ==
  /\ pc = "session" /\ op = "write"
  /\ op' = "timer"
  /\ last' = [last EXCEPT ![msg_in_flight.from][msg_in_flight.lane] = msg_in_flight.no]
  /\ UNCHANGED <<runVars, stop, ready, queue, low_queue, msg_in_flight, write_in_flight,
                 pending, linkVars, callVars, stopVars>>

\* Mutant of WriteFails: write_in_flight is not reset.
WriteFailsInFlight ==
  /\ pc = "session" /\ op = "write" /\ (~open \/ ~peer)
  /\ connection_alive' = FALSE /\ op' = "none"
  /\ UNCHANGED <<runVars, stop, ready, queue, low_queue, msg_in_flight, write_in_flight,
                 pending, reading, armed, open, peer, callVars, stopVars, last>>

\* async_write failed: the socket is not closed and the timer is not started.
WriteFails ==
  /\ pc = "session" /\ op = "write" /\ (~open \/ ~peer)
  /\ connection_alive' = FALSE /\ write_in_flight' = FALSE /\ op' = "none"
  /\ UNCHANGED <<runVars, stop, ready, queue, low_queue, msg_in_flight, pending, reading,
                 armed, open, peer, callVars, stopVars, last>>

\* Mutant of TimerFires: the lanes are not looked at.
TimerFiresIdle ==
  /\ pc = "session" /\ op = "timer"
  /\ write_in_flight' = FALSE /\ op' = "none"
  /\ UNCHANGED <<runVars, stop, ready, queue, low_queue, msg_in_flight, pending, linkVars,
                 callVars, stopVars, last>>

\* The pacing timer's handler.  A cancelled timer returns early; it is only
\* cancelled once the connection is dead, when try_write_next returns early.
TimerFires ==
  /\ pc = "session" /\ op = "timer"
  /\ TryWriteNext(queue, low_queue, pending, FALSE)
  /\ UNCHANGED <<runVars, stop, ready, linkVars, callVars, stopVars, last>>

\* A frame arrives and its handler calls queue_send on this very thread, or
\* stop() (on_error), or neither.  A throwing handler is swallowed: reading
\* goes on whatever it did.
ReadFrame ==
  /\ pc = "session" /\ reading /\ open /\ peer
  /\ \/ \E l \in Lanes :
           /\ calls[Net] < MaxCalls
           /\ calls' = [calls EXCEPT ![Net] = @ + 1]
           /\ ready' = Append(ready, [kind |-> "dispatch",
                                      msg |-> [from |-> Net, no |-> calls[Net] + 1, lane |-> l]])
           /\ UNCHANGED stop
     \/ /\ stop' = TRUE
        /\ ready' = Append(ready, [kind |-> "close"])
        /\ ~stop
        /\ UNCHANGED calls
  /\ UNCHANGED <<runVars, writeVars, linkVars, held, stopVars, last>>

\* Mutant of ReadFails: the signal wait is not cancelled.
ReadFailsArmed ==
  /\ pc = "session" /\ reading /\ (~open \/ ~peer)
  /\ connection_alive' = FALSE /\ reading' = FALSE /\ open' = FALSE
  /\ UNCHANGED <<runVars, stop, ready, writeVars, armed, peer, callVars, stopVars, last>>

\* async_read failed: everything outstanding is cancelled and the socket closed.
ReadFails ==
  /\ pc = "session" /\ reading /\ (~open \/ ~peer)
  /\ connection_alive' = FALSE /\ reading' = FALSE /\ armed' = FALSE /\ open' = FALSE
  /\ UNCHANGED <<runVars, stop, ready, writeVars, peer, callVars, stopVars, last>>

\* SIGINT or SIGTERM while the wait is armed.
Signal ==
  /\ pc = "session" /\ armed
  /\ armed' = FALSE /\ stop' = TRUE /\ open' = FALSE
  /\ UNCHANGED <<runVars, ready, writeVars, reading, connection_alive, peer, callVars,
                 stopVars, last>>

-----------------------------------------------------------------------------
(* Threads outside the io_context, and the network. *)

\* asio::post on the session of epoch e: it is only served while ioc.run() of
\* that session is still to come or going on.
PostTo(e, h) ==
  ready' = IF e = epoch /\ pc \in {"published", "session"} THEN Append(ready, h) ELSE ready

\* queue_send up to the mutex: no session, no message.
CopySession(c) ==
  /\ c # Net
  /\ held[c] = 0 /\ calls[c] < MaxCalls
  /\ calls' = [calls EXCEPT ![c] = @ + 1]
  /\ held' = [held EXCEPT ![c] = IF active THEN epoch ELSE 0]
  /\ UNCHANGED <<runVars, stop, ready, writeVars, linkVars, stopVars, last>>

\* The rest of queue_send.
PostMessage(c) ==
  /\ held[c] # 0
  /\ \E l \in Lanes :
        PostTo(held[c], [kind |-> "dispatch",
                         msg |-> [from |-> c, no |-> calls[c], lane |-> l]])
  /\ held' = [held EXCEPT ![c] = 0]
  /\ UNCHANGED <<runVars, stop, writeVars, linkVars, calls, stopVars, last>>

\* stop() from another thread: the flag, the pointer, the post.
StopFlag ==
  /\ ForeignStop /\ stopper = "idle"
  /\ stopper' = "flagged" /\ stop' = TRUE
  /\ UNCHANGED <<runVars, ready, writeVars, linkVars, callVars, stop_held, last>>

StopCopy ==
  /\ stopper = "flagged"
  /\ \/ active /\ stop_held' = epoch /\ stopper' = "posting"
     \/ ~active /\ stopper' = "done" /\ UNCHANGED stop_held
  /\ UNCHANGED <<runVars, stop, ready, writeVars, linkVars, callVars, last>>

StopPost ==
  /\ stopper = "posting"
  /\ PostTo(stop_held, [kind |-> "close"])
  /\ stopper' = "done"
  /\ UNCHANGED <<runVars, stop, writeVars, linkVars, callVars, stop_held, last>>

\* The server closes the connection, or the network loses it.
PeerLost ==
  /\ pc \in {"published", "session"} /\ peer
  /\ peer' = FALSE
  /\ UNCHANGED <<runVars, stop, ready, writeVars, reading, armed, connection_alive, open,
                 callVars, stopVars, last>>

\* run() has returned and nobody calls any more.
Finished ==
  /\ pc = "returned" /\ stopper \in {"idle", "done"}
  /\ UNCHANGED vars

Next ==
  \/ Test \/ ConnectFails \/ Publish \/ StartAsync \/ IocReturns \/ Teardown \/ Wake
  \/ Dispatch \/ Enqueue \/ Close \/ WriteDone \/ WriteFails \/ TimerFires
  \/ ReadFrame \/ ReadFails \/ Signal
  \/ \E c \in Callers : CopySession(c) \/ PostMessage(c)
  \/ StopFlag \/ StopCopy \/ StopPost \/ PeerLost
  \/ Finished

Spec == Init /\ [][Next]_vars

\* A running thread is scheduled and a completed operation gets its handler.
\* Nothing is owed by the server, the user or the threads that may call.
Fairness ==
  /\ WF_vars(Test) /\ WF_vars(Publish \/ ConnectFails) /\ WF_vars(StartAsync)
  /\ WF_vars(IocReturns) /\ WF_vars(Teardown) /\ WF_vars(Wake)
  /\ WF_vars(Dispatch \/ Enqueue \/ Close)
  /\ WF_vars(WriteDone \/ WriteFails) /\ WF_vars(TimerFires) /\ WF_vars(ReadFails)
  /\ WF_vars(StopCopy) /\ WF_vars(StopPost)
  /\ \A c \in Callers : WF_vars(PostMessage(c))

FairSpec == Spec /\ Fairness

-----------------------------------------------------------------------------
(* Type invariant. *)

RunType ==
  /\ pc \in {"test", "connect", "published", "session", "teardown", "sleep", "returned"}
  /\ clean \in {"unknown", "yes", "no"}
  /\ attempt \in 0 .. MaxRetries /\ fails \in Nat /\ epoch \in 0 .. MaxSessions

WriteType ==
  /\ queue \in Seq(Message) /\ low_queue \in Seq(Message) /\ pending \in Nat
  /\ msg_in_flight \in Message \cup {NoMessage}
  /\ op \in {"none", "write", "timer"}
  /\ op = "write" => msg_in_flight \in Message

FlagType ==
  /\ stop \in BOOLEAN /\ active \in BOOLEAN /\ write_in_flight \in BOOLEAN
  /\ reading \in BOOLEAN /\ armed \in BOOLEAN
  /\ connection_alive \in BOOLEAN /\ open \in BOOLEAN /\ peer \in BOOLEAN

CallType ==
  /\ calls \in [Callers -> 0 .. MaxCalls]
  /\ held \in [Callers -> 0 .. MaxSessions]
  /\ \A c \in Callers : held[c] # 0 => calls[c] # 0
  /\ stopper \in {"idle", "flagged", "posting", "done"}
  /\ stop_held \in 0 .. MaxSessions
  /\ last \in [Callers -> [Lanes -> 0 .. MaxCalls]]

\* Every variable of the transport holds a value of its C++ type; the
\* io_context's handlers and both lanes only hold messages somebody sent.
TypeOK == RunType /\ WriteType /\ ready \in Seq(Handler) /\ FlagType /\ CallType

-----------------------------------------------------------------------------
(* Safety. *)

\* pending_sends() is the number of messages waiting in the two lanes, the
\* one in flight excluded, through disconnections and reconnections
\* (ws_transport.h, the comment of pending_sends).
PendingIsQueued == pending = Len(queue) + Len(low_queue)

\* write_in_flight is set exactly while a write or its pacing timer is
\* outstanding: Beast never sees a second async_write, and no message leaves
\* within send_interval of the one before it.
OneWriteAtATime == write_in_flight <=> op # "none"

\* No lost wake-up: while the connection lives, a message only waits in a lane
\* if a write or a timer is outstanding whose handler will look at the lanes.
WaitingHasWaker ==
  pc = "session" /\ connection_alive /\ op = "none" => queue = <<>> /\ low_queue = <<>>

\* Between sessions nothing of the old one is left: no pointer for queue_send
\* to find, no outstanding operation, no message counted as waiting.
NothingOutlivesSession ==
  pc \in {"test", "connect", "sleep", "returned"} =>
     ~active /\ ~reading /\ ~armed /\ op = "none" /\ ready = <<>> /\ pending = 0

\* run() gives up only after max_retries retries in a row failed: a connection
\* that was up in between starts the count again.
GivesUpAfterRetries == clean = "no" => fails = MaxRetries + 1

\* The write of a low-priority message starts only when no main-lane message
\* is waiting, so notes never delay "loaded" or an action.
LowLaneYields ==
  [][op # "write" /\ op' = "write" /\ msg_in_flight'.lane = "low" => queue' = <<>>]_vars

\* The transport is a lossy link that keeps each thread's order per lane and
\* never writes a message twice, whatever reconnects in between.
Link == INSTANCE LossyLink
InOrderAtMostOnce == Link!Spec

-----------------------------------------------------------------------------
(* Liveness, under FairSpec. *)

\* A message in a lane is written or dies with its session.
LanesDrain == pending > 0 ~> pending = 0

\* A connection the server closed is replaced or run() returns: no outstanding
\* operation keeps its io_context going (the comment in do_read).
SessionResumes ==
  \A e \in 1 .. MaxSessions :
     pc = "session" /\ epoch = e /\ ~peer
        ~> (pc = "session" /\ epoch > e) \/ pc = "returned"

\* ws_transport.h says stop() causes run() to return.
StopReturns == stop ~> pc = "returned"

\* The part of it that holds for a stop() of any thread: one that found a
\* published session ends run().
StopOfSessionReturns == stopper = "posting" ~> pc = "returned"
=============================================================================
