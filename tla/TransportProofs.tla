--------------------------- MODULE TransportProofs ---------------------------
(***************************************************************************)
(* Proofs about Transport for any number of callers, calls, retries and    *)
(* sessions.  TransportInv is the inductive invariant: the type invariant, *)
(* the four facts about the write path that Transport states, and what     *)
(* they need to be inductive, which is where in run() a session exists and *)
(* that a session starts with nothing outstanding.                         *)
(***************************************************************************)
EXTENDS Transport, TLAPS

\* Where a session exists, where its io_context runs, and a fresh one.
SessionShape ==
  /\ active <=> pc \in {"published", "session", "teardown"}
  /\ pc = "published" => /\ op = "none" /\ pending = 0 /\ ~reading /\ ~armed
  /\ pc = "teardown" => ready = <<>> /\ ~reading /\ ~armed /\ op = "none"

\* The facts about the write path.
PathInv ==
  /\ PendingIsQueued
  /\ OneWriteAtATime
  /\ WaitingHasWaker
  /\ NothingOutlivesSession
  /\ SessionShape

TransportInv ==
  /\ TypeOK
  /\ PathInv

\* A send lane of length zero is the empty sequence: what turns a zero gauge
\* into empty lanes.
LEMMA EmptyLane ==
  ASSUME NEW q \in Seq(Message), Len(q) = 0
  PROVE  q = <<>>
BY DEF Message

\* What try_write_next does to the write side whatever handler calls it: types
\* are kept, the gauge keeps counting the lanes, the flag keeps tracking the
\* operation, and nothing is left waiting on a live connection with no
\* operation to wake it.
LEMMA TryWriteNextKeeps ==
  ASSUME TransportAssumption,
         NEW q \in Seq(Message), NEW l \in Seq(Message), NEW p \in Nat, NEW w \in BOOLEAN,
         msg_in_flight \in Message \cup {NoMessage},
         op \in {"none", "write", "timer"},
         op = "write" => msg_in_flight \in Message,
         connection_alive \in BOOLEAN,
         p = Len(q) + Len(l),
         w => op # "none",
         TryWriteNext(q, l, p, w)
  PROVE  /\ queue' \in Seq(Message) /\ low_queue' \in Seq(Message) /\ pending' \in Nat
         /\ msg_in_flight' \in Message \cup {NoMessage}
         /\ op' \in {"none", "write", "timer"}
         /\ op' = "write" => msg_in_flight' \in Message
         /\ write_in_flight' \in BOOLEAN
         /\ pending' = Len(queue') + Len(low_queue')
         /\ write_in_flight' <=> op' # "none"
         /\ connection_alive /\ op' = "none" => queue' = <<>> /\ low_queue' = <<>>
<1>1. CASE w \/ ~connection_alive \/ (q = <<>> /\ l = <<>>)
  BY <1>1 DEF TryWriteNext
<1>2. CASE ~w /\ connection_alive /\ q # <<>>
  <2>1. /\ queue' = Tail(q) /\ low_queue' = l /\ pending' = p - 1
        /\ msg_in_flight' = Head(q) /\ write_in_flight' = TRUE /\ op' = "write"
    BY <1>2 DEF TryWriteNext
  <2>2. Len(q) >= 1 /\ Len(Tail(q)) = Len(q) - 1 /\ Head(q) \in Message /\ Tail(q) \in Seq(Message)
    BY <1>2
  <2>. QED  BY <2>1, <2>2
<1>3. CASE ~w /\ connection_alive /\ q = <<>> /\ l # <<>>
  <2>1. /\ queue' = q /\ low_queue' = Tail(l) /\ pending' = p - 1
        /\ msg_in_flight' = Head(l) /\ write_in_flight' = TRUE /\ op' = "write"
    BY <1>3 DEF TryWriteNext
  <2>2. Len(l) >= 1 /\ Len(Tail(l)) = Len(l) - 1 /\ Head(l) \in Message /\ Tail(l) \in Seq(Message)
    BY <1>3
  <2>. QED  BY <2>1, <2>2
<1>. QED  BY <1>1, <1>2, <1>3

\* Nothing is outstanding before run() is called.
LEMMA InitInv == Init => TransportInv
<1>. SUFFICES ASSUME Init PROVE TransportInv
  OBVIOUS
<1>1. RunType
  BY TransportAssumption DEF Init, RunType, TransportAssumption
<1>2. WriteType /\ ready \in Seq(Handler)
  BY DEF Init, WriteType
<1>3. FlagType
  BY Zenon DEF Init, FlagType
<1>4. CallType
  BY TransportAssumption DEF Init, CallType, TransportAssumption
<1>. QED
  BY <1>1, <1>2, <1>3, <1>4
     DEF Init, TransportInv, TypeOK, PathInv, PendingIsQueued, OneWriteAtATime, WaitingHasWaker,
         NothingOutlivesSession, SessionShape

\* Each action preserves the invariant.
LEMMA StepInv == TransportInv /\ [Next]_vars => TransportInv'
<1>. SUFFICES ASSUME TransportInv, [Next]_vars PROVE TransportInv'
  OBVIOUS
<1>. USE TransportAssumption DEF TransportInv, TypeOK, PathInv
<1>1. CASE Test
  <2>1. RunType'
    BY <1>1 DEF Test, runVars, writeVars, linkVars, callVars, stopVars, RunType, TransportAssumption
  <2>2. WriteType'
    BY <1>1 DEF Test, runVars, writeVars, linkVars, callVars, stopVars, WriteType
  <2>3. ready' \in Seq(Handler)
    BY <1>1 DEF Test, runVars, writeVars, linkVars, callVars, stopVars
  <2>4. FlagType'
    BY <1>1, Zenon DEF Test, runVars, writeVars, linkVars, callVars, stopVars, FlagType
  <2>5. CallType'
    BY <1>1 DEF Test, runVars, writeVars, linkVars, callVars, stopVars, CallType
  <2>6. PathInv'
    BY <1>1, EmptyLane DEF Test, runVars, writeVars, linkVars, callVars, stopVars,
       PendingIsQueued, OneWriteAtATime, WaitingHasWaker,
       NothingOutlivesSession, SessionShape, WriteType, FlagType
  <2>. QED
    BY <2>1, <2>2, <2>3, <2>4, <2>5, <2>6
<1>2. CASE ConnectFails
  <2>1. RunType'
    BY <1>2 DEF ConnectFails, runVars, writeVars, linkVars, callVars, stopVars, RunType, TransportAssumption
  <2>2. WriteType'
    BY <1>2 DEF ConnectFails, runVars, writeVars, linkVars, callVars, stopVars, WriteType
  <2>3. ready' \in Seq(Handler)
    BY <1>2 DEF ConnectFails, runVars, writeVars, linkVars, callVars, stopVars
  <2>4. FlagType'
    BY <1>2, Zenon DEF ConnectFails, runVars, writeVars, linkVars, callVars, stopVars, FlagType
  <2>5. CallType'
    BY <1>2 DEF ConnectFails, runVars, writeVars, linkVars, callVars, stopVars, CallType
  <2>6. PathInv'
    BY <1>2, EmptyLane DEF ConnectFails, runVars, writeVars, linkVars, callVars, stopVars,
       PendingIsQueued, OneWriteAtATime, WaitingHasWaker,
       NothingOutlivesSession, SessionShape, WriteType, FlagType
  <2>. QED
    BY <2>1, <2>2, <2>3, <2>4, <2>5, <2>6
<1>3. CASE Wake
  <2>1. RunType'
    BY <1>3 DEF Wake, runVars, writeVars, linkVars, callVars, stopVars, RunType, TransportAssumption
  <2>2. WriteType'
    BY <1>3 DEF Wake, runVars, writeVars, linkVars, callVars, stopVars, WriteType
  <2>3. ready' \in Seq(Handler)
    BY <1>3 DEF Wake, runVars, writeVars, linkVars, callVars, stopVars
  <2>4. FlagType'
    BY <1>3, Zenon DEF Wake, runVars, writeVars, linkVars, callVars, stopVars, FlagType
  <2>5. CallType'
    BY <1>3 DEF Wake, runVars, writeVars, linkVars, callVars, stopVars, CallType
  <2>6. PathInv'
    BY <1>3, EmptyLane DEF Wake, runVars, writeVars, linkVars, callVars, stopVars,
       PendingIsQueued, OneWriteAtATime, WaitingHasWaker,
       NothingOutlivesSession, SessionShape, WriteType, FlagType
  <2>. QED
    BY <2>1, <2>2, <2>3, <2>4, <2>5, <2>6
<1>4. CASE Publish
  <2>1. RunType'
    BY <1>4 DEF Publish, runVars, writeVars, linkVars, callVars, stopVars, RunType, TransportAssumption
  <2>2. WriteType'
    BY <1>4 DEF Publish, runVars, writeVars, linkVars, callVars, stopVars, WriteType
  <2>3. ready' \in Seq(Handler)
    BY <1>4 DEF Publish, runVars, writeVars, linkVars, callVars, stopVars, Handler
  <2>4. FlagType'
    BY <1>4, Zenon DEF Publish, runVars, writeVars, linkVars, callVars, stopVars, FlagType
  <2>5. CallType'
    BY <1>4 DEF Publish, runVars, writeVars, linkVars, callVars, stopVars, CallType
  <2>6. PathInv'
    BY <1>4, EmptyLane DEF Publish, runVars, writeVars, linkVars, callVars, stopVars,
       PendingIsQueued, OneWriteAtATime, WaitingHasWaker,
       NothingOutlivesSession, SessionShape, WriteType, FlagType
  <2>. QED
    BY <2>1, <2>2, <2>3, <2>4, <2>5, <2>6
<1>5. CASE StartAsync
  <2>1. RunType'
    BY <1>5 DEF StartAsync, runVars, writeVars, linkVars, callVars, stopVars, RunType, TransportAssumption
  <2>2. WriteType'
    BY <1>5 DEF StartAsync, runVars, writeVars, linkVars, callVars, stopVars, WriteType
  <2>3. ready' \in Seq(Handler)
    BY <1>5 DEF StartAsync, runVars, writeVars, linkVars, callVars, stopVars
  <2>4. FlagType'
    BY <1>5, Zenon DEF StartAsync, runVars, writeVars, linkVars, callVars, stopVars, FlagType
  <2>5. CallType'
    BY <1>5 DEF StartAsync, runVars, writeVars, linkVars, callVars, stopVars, CallType
  <2>6. PathInv'
    BY <1>5, EmptyLane DEF StartAsync, runVars, writeVars, linkVars, callVars, stopVars,
       PendingIsQueued, OneWriteAtATime, WaitingHasWaker,
       NothingOutlivesSession, SessionShape, WriteType, FlagType
  <2>. QED
    BY <2>1, <2>2, <2>3, <2>4, <2>5, <2>6
<1>6. CASE IocReturns
  <2>1. RunType'
    BY <1>6 DEF IocReturns, runVars, writeVars, linkVars, callVars, stopVars, RunType, TransportAssumption
  <2>2. WriteType'
    BY <1>6 DEF IocReturns, runVars, writeVars, linkVars, callVars, stopVars, WriteType
  <2>3. ready' \in Seq(Handler)
    BY <1>6 DEF IocReturns, runVars, writeVars, linkVars, callVars, stopVars
  <2>4. FlagType'
    BY <1>6, Zenon DEF IocReturns, runVars, writeVars, linkVars, callVars, stopVars, FlagType
  <2>5. CallType'
    BY <1>6 DEF IocReturns, runVars, writeVars, linkVars, callVars, stopVars, CallType
  <2>6. PathInv'
    BY <1>6, EmptyLane DEF IocReturns, runVars, writeVars, linkVars, callVars, stopVars,
       PendingIsQueued, OneWriteAtATime, WaitingHasWaker,
       NothingOutlivesSession, SessionShape, WriteType, FlagType
  <2>. QED
    BY <2>1, <2>2, <2>3, <2>4, <2>5, <2>6
<1>7. CASE Teardown
  <2>1. RunType'
    BY <1>7 DEF Teardown, SessionDies, GoOnWith, runVars, writeVars, linkVars, callVars, stopVars, RunType, TransportAssumption
  <2>2. WriteType'
    BY <1>7 DEF Teardown, SessionDies, GoOnWith, SessionShape, WriteType
  <2>3. ready' \in Seq(Handler)
    BY <1>7 DEF Teardown, SessionDies, GoOnWith
  <2>4. FlagType'
    BY <1>7, Zenon DEF Teardown, SessionDies, GoOnWith, runVars, writeVars, linkVars, callVars, stopVars, FlagType
  <2>5. CallType'
    BY <1>7 DEF Teardown, SessionDies, GoOnWith, runVars, writeVars, linkVars, callVars, stopVars, CallType
  <2>6. PathInv'
    BY <1>7, EmptyLane DEF Teardown, SessionDies, GoOnWith, runVars, writeVars, linkVars, callVars, stopVars,
       PendingIsQueued, OneWriteAtATime, WaitingHasWaker,
       NothingOutlivesSession, SessionShape, WriteType, FlagType
  <2>. QED
    BY <2>1, <2>2, <2>3, <2>4, <2>5, <2>6
<1>8. CASE Dispatch
  <2>1. RunType'
    BY <1>8 DEF Dispatch, runVars, writeVars, linkVars, callVars, stopVars, RunType
  <2>2. WriteType'
    BY <1>8 DEF Dispatch, runVars, writeVars, linkVars, callVars, stopVars, WriteType
  <2>3. ready' \in Seq(Handler)
    BY <1>8 DEF Dispatch, runVars, writeVars, linkVars, callVars, stopVars, Handler
  <2>4. FlagType'
    BY <1>8, Zenon DEF Dispatch, runVars, writeVars, linkVars, callVars, stopVars, FlagType
  <2>5. CallType'
    BY <1>8 DEF Dispatch, runVars, writeVars, linkVars, callVars, stopVars, CallType
  <2>6. PathInv'
    BY <1>8, EmptyLane DEF Dispatch, runVars, writeVars, linkVars, callVars, stopVars,
       PendingIsQueued, OneWriteAtATime, WaitingHasWaker,
       NothingOutlivesSession, SessionShape, WriteType, FlagType
  <2>. QED
    BY <2>1, <2>2, <2>3, <2>4, <2>5, <2>6
<1>9. CASE Close
  <2>1. RunType'
    BY <1>9 DEF Close, runVars, writeVars, linkVars, callVars, stopVars, RunType
  <2>2. WriteType'
    BY <1>9 DEF Close, runVars, writeVars, linkVars, callVars, stopVars, WriteType
  <2>3. ready' \in Seq(Handler)
    BY <1>9 DEF Close, runVars, writeVars, linkVars, callVars, stopVars, Handler
  <2>4. FlagType'
    BY <1>9, Zenon DEF Close, runVars, writeVars, linkVars, callVars, stopVars, FlagType
  <2>5. CallType'
    BY <1>9 DEF Close, runVars, writeVars, linkVars, callVars, stopVars, CallType
  <2>6. PathInv'
    BY <1>9, EmptyLane DEF Close, runVars, writeVars, linkVars, callVars, stopVars,
       PendingIsQueued, OneWriteAtATime, WaitingHasWaker,
       NothingOutlivesSession, SessionShape, WriteType, FlagType
  <2>. QED
    BY <2>1, <2>2, <2>3, <2>4, <2>5, <2>6
<1>10. CASE WriteDone
  <2>1. RunType'
    BY <1>10 DEF WriteDone, runVars, writeVars, linkVars, callVars, stopVars, RunType
  <2>2. WriteType'
    BY <1>10 DEF WriteDone, runVars, writeVars, linkVars, callVars, stopVars, WriteType
  <2>3. ready' \in Seq(Handler)
    BY <1>10 DEF WriteDone, runVars, writeVars, linkVars, callVars, stopVars
  <2>4. FlagType'
    BY <1>10, Zenon DEF WriteDone, runVars, writeVars, linkVars, callVars, stopVars, FlagType
  <2>5. CallType'
    <3>1. msg_in_flight \in Message
      BY <1>10 DEF WriteDone, WriteType
    <3>2. /\ msg_in_flight.from \in Callers /\ msg_in_flight.lane \in Lanes
          /\ msg_in_flight.no \in 0 .. MaxCalls
      BY <3>1 DEF Message, TransportAssumption
    <3>3. last' \in [Callers -> [Lanes -> 0 .. MaxCalls]]
      BY <1>10, <3>2 DEF WriteDone, CallType
    <3>. QED
      BY <1>10, <3>3 DEF WriteDone, callVars, stopVars, CallType
  <2>6. PathInv'
    BY <1>10, EmptyLane DEF WriteDone, runVars, writeVars, linkVars, callVars, stopVars,
       PendingIsQueued, OneWriteAtATime, WaitingHasWaker,
       NothingOutlivesSession, SessionShape, WriteType, FlagType
  <2>. QED
    BY <2>1, <2>2, <2>3, <2>4, <2>5, <2>6
<1>11. CASE WriteFails
  <2>1. RunType'
    BY <1>11 DEF WriteFails, runVars, writeVars, linkVars, callVars, stopVars, RunType
  <2>2. WriteType'
    BY <1>11 DEF WriteFails, runVars, writeVars, linkVars, callVars, stopVars, WriteType
  <2>3. ready' \in Seq(Handler)
    BY <1>11 DEF WriteFails, runVars, writeVars, linkVars, callVars, stopVars
  <2>4. FlagType'
    BY <1>11, Zenon DEF WriteFails, runVars, writeVars, linkVars, callVars, stopVars, FlagType
  <2>5. CallType'
    BY <1>11 DEF WriteFails, runVars, writeVars, linkVars, callVars, stopVars, CallType
  <2>6. PathInv'
    BY <1>11, EmptyLane DEF WriteFails, runVars, writeVars, linkVars, callVars, stopVars,
       PendingIsQueued, OneWriteAtATime, WaitingHasWaker,
       NothingOutlivesSession, SessionShape, WriteType, FlagType
  <2>. QED
    BY <2>1, <2>2, <2>3, <2>4, <2>5, <2>6
<1>12. CASE ReadFails
  <2>1. RunType'
    BY <1>12 DEF ReadFails, runVars, writeVars, linkVars, callVars, stopVars, RunType
  <2>2. WriteType'
    BY <1>12 DEF ReadFails, runVars, writeVars, linkVars, callVars, stopVars, WriteType
  <2>3. ready' \in Seq(Handler)
    BY <1>12 DEF ReadFails, runVars, writeVars, linkVars, callVars, stopVars
  <2>4. FlagType'
    BY <1>12, Zenon DEF ReadFails, runVars, writeVars, linkVars, callVars, stopVars, FlagType
  <2>5. CallType'
    BY <1>12 DEF ReadFails, runVars, writeVars, linkVars, callVars, stopVars, CallType
  <2>6. PathInv'
    BY <1>12, EmptyLane DEF ReadFails, runVars, writeVars, linkVars, callVars, stopVars,
       PendingIsQueued, OneWriteAtATime, WaitingHasWaker,
       NothingOutlivesSession, SessionShape, WriteType, FlagType
  <2>. QED
    BY <2>1, <2>2, <2>3, <2>4, <2>5, <2>6
<1>13. CASE Signal
  <2>1. RunType'
    BY <1>13 DEF Signal, runVars, writeVars, linkVars, callVars, stopVars, RunType
  <2>2. WriteType'
    BY <1>13 DEF Signal, runVars, writeVars, linkVars, callVars, stopVars, WriteType
  <2>3. ready' \in Seq(Handler)
    BY <1>13 DEF Signal, runVars, writeVars, linkVars, callVars, stopVars
  <2>4. FlagType'
    BY <1>13, Zenon DEF Signal, runVars, writeVars, linkVars, callVars, stopVars, FlagType
  <2>5. CallType'
    BY <1>13 DEF Signal, runVars, writeVars, linkVars, callVars, stopVars, CallType
  <2>6. PathInv'
    BY <1>13, EmptyLane DEF Signal, runVars, writeVars, linkVars, callVars, stopVars,
       PendingIsQueued, OneWriteAtATime, WaitingHasWaker,
       NothingOutlivesSession, SessionShape, WriteType, FlagType
  <2>. QED
    BY <2>1, <2>2, <2>3, <2>4, <2>5, <2>6
<1>14. CASE StopFlag
  <2>1. RunType'
    BY <1>14 DEF StopFlag, runVars, writeVars, linkVars, callVars, stopVars, RunType
  <2>2. WriteType'
    BY <1>14 DEF StopFlag, runVars, writeVars, linkVars, callVars, stopVars, WriteType
  <2>3. ready' \in Seq(Handler)
    BY <1>14 DEF StopFlag, runVars, writeVars, linkVars, callVars, stopVars
  <2>4. FlagType'
    BY <1>14, Zenon DEF StopFlag, runVars, writeVars, linkVars, callVars, stopVars, FlagType
  <2>5. CallType'
    BY <1>14 DEF StopFlag, runVars, writeVars, linkVars, callVars, stopVars, CallType, TransportAssumption
  <2>6. PathInv'
    BY <1>14, EmptyLane DEF StopFlag, runVars, writeVars, linkVars, callVars, stopVars,
       PendingIsQueued, OneWriteAtATime, WaitingHasWaker,
       NothingOutlivesSession, SessionShape, WriteType, FlagType
  <2>. QED
    BY <2>1, <2>2, <2>3, <2>4, <2>5, <2>6
<1>15. CASE StopCopy
  <2>1. RunType'
    BY <1>15 DEF StopCopy, runVars, writeVars, linkVars, callVars, stopVars, RunType
  <2>2. WriteType'
    BY <1>15 DEF StopCopy, runVars, writeVars, linkVars, callVars, stopVars, WriteType
  <2>3. ready' \in Seq(Handler)
    BY <1>15 DEF StopCopy, runVars, writeVars, linkVars, callVars, stopVars
  <2>4. FlagType'
    BY <1>15, Zenon DEF StopCopy, runVars, writeVars, linkVars, callVars, stopVars, FlagType
  <2>5. CallType'
    BY <1>15 DEF StopCopy, callVars, stopVars, CallType, RunType, TransportAssumption
  <2>6. PathInv'
    BY <1>15, EmptyLane DEF StopCopy, runVars, writeVars, linkVars, callVars, stopVars,
       PendingIsQueued, OneWriteAtATime, WaitingHasWaker,
       NothingOutlivesSession, SessionShape, WriteType, FlagType
  <2>. QED
    BY <2>1, <2>2, <2>3, <2>4, <2>5, <2>6
<1>16. CASE StopPost
  <2>1. RunType'
    BY <1>16 DEF StopPost, PostTo, runVars, writeVars, linkVars, callVars, stopVars, RunType
  <2>2. WriteType'
    BY <1>16 DEF StopPost, PostTo, runVars, writeVars, linkVars, callVars, stopVars, WriteType
  <2>3. ready' \in Seq(Handler)
    BY <1>16 DEF StopPost, PostTo, runVars, writeVars, linkVars, callVars, stopVars, Handler
  <2>4. FlagType'
    BY <1>16, Zenon DEF StopPost, PostTo, runVars, writeVars, linkVars, callVars, stopVars, FlagType
  <2>5. CallType'
    BY <1>16 DEF StopPost, PostTo, runVars, writeVars, linkVars, callVars, stopVars, CallType, TransportAssumption
  <2>6. PathInv'
    BY <1>16, EmptyLane DEF StopPost, PostTo, runVars, writeVars, linkVars, callVars, stopVars,
       PendingIsQueued, OneWriteAtATime, WaitingHasWaker,
       NothingOutlivesSession, SessionShape, WriteType, FlagType
  <2>. QED
    BY <2>1, <2>2, <2>3, <2>4, <2>5, <2>6
<1>17. CASE PeerLost
  <2>1. RunType'
    BY <1>17 DEF PeerLost, runVars, writeVars, linkVars, callVars, stopVars, RunType
  <2>2. WriteType'
    BY <1>17 DEF PeerLost, runVars, writeVars, linkVars, callVars, stopVars, WriteType
  <2>3. ready' \in Seq(Handler)
    BY <1>17 DEF PeerLost, runVars, writeVars, linkVars, callVars, stopVars
  <2>4. FlagType'
    BY <1>17, Zenon DEF PeerLost, runVars, writeVars, linkVars, callVars, stopVars, FlagType
  <2>5. CallType'
    BY <1>17 DEF PeerLost, runVars, writeVars, linkVars, callVars, stopVars, CallType
  <2>6. PathInv'
    BY <1>17, EmptyLane DEF PeerLost, runVars, writeVars, linkVars, callVars, stopVars,
       PendingIsQueued, OneWriteAtATime, WaitingHasWaker,
       NothingOutlivesSession, SessionShape, WriteType, FlagType
  <2>. QED
    BY <2>1, <2>2, <2>3, <2>4, <2>5, <2>6
<1>18. CASE Enqueue
  <2>. DEFINE m == Head(ready).msg
  <2>1. Head(ready) \in Handler /\ Head(ready).kind = "enqueue"
    BY <1>18 DEF Enqueue
  <2>2. m \in Message /\ (m.lane = "main" \/ m.lane = "low")
    BY <2>1 DEF Handler, Message, Lanes
  <2>3. /\ Append(queue, m) \in Seq(Message) /\ Len(Append(queue, m)) = Len(queue) + 1
        /\ Append(low_queue, m) \in Seq(Message) /\ Len(Append(low_queue, m)) = Len(low_queue) + 1
        /\ pending + 1 \in Nat
    BY <2>2 DEF WriteType
  <2>4. /\ WriteType' /\ write_in_flight' \in BOOLEAN
        /\ PendingIsQueued' /\ OneWriteAtATime'
        /\ connection_alive /\ op' = "none" => queue' = <<>> /\ low_queue' = <<>>
    <3>a. /\ write_in_flight \in BOOLEAN /\ connection_alive \in BOOLEAN
          /\ write_in_flight => op # "none"
      BY Zenon DEF FlagType, OneWriteAtATime
    <3>b. /\ pending + 1 = Len(Append(queue, m)) + Len(low_queue)
          /\ pending + 1 = Len(queue) + Len(Append(low_queue, m))
      BY <2>3 DEF WriteType, PendingIsQueued
    <3>1. CASE TryWriteNext(Append(queue, m), low_queue, pending + 1, write_in_flight)
      <4>. HIDE DEF m
      <4>. QED
        BY <3>1, <3>a, <3>b, <2>3, TryWriteNextKeeps DEF WriteType, PendingIsQueued, OneWriteAtATime
    <3>2. CASE TryWriteNext(queue, Append(low_queue, m), pending + 1, write_in_flight)
      <4>. HIDE DEF m
      <4>. QED
        BY <3>2, <3>a, <3>b, <2>3, TryWriteNextKeeps DEF WriteType, PendingIsQueued, OneWriteAtATime
    <3>. QED
      BY <1>18, <2>2, <3>1, <3>2 DEF Enqueue
  <2>5. RunType' /\ CallType' /\ ready' \in Seq(Handler)
    BY <1>18 DEF Enqueue, runVars, writeVars, linkVars, callVars, stopVars, RunType, CallType
  <2>6. FlagType'
    BY <1>18, <2>4, Zenon DEF Enqueue, runVars, linkVars, FlagType
  <2>7. WaitingHasWaker' /\ NothingOutlivesSession' /\ SessionShape'
    BY <1>18, <2>4 DEF Enqueue, runVars, linkVars, WaitingHasWaker, NothingOutlivesSession,
       SessionShape
  <2>. QED
    BY <2>4, <2>5, <2>6, <2>7
<1>19. CASE TimerFires
  <2>1. /\ WriteType' /\ write_in_flight' \in BOOLEAN
        /\ PendingIsQueued' /\ OneWriteAtATime'
        /\ connection_alive /\ op' = "none" => queue' = <<>> /\ low_queue' = <<>>
    BY <1>19, TryWriteNextKeeps DEF TimerFires, WriteType, FlagType, PendingIsQueued, OneWriteAtATime
  <2>2. RunType' /\ CallType' /\ ready' \in Seq(Handler)
    BY <1>19 DEF TimerFires, runVars, writeVars, linkVars, callVars, stopVars, RunType, CallType
  <2>3. FlagType'
    BY <1>19, <2>1, Zenon DEF TimerFires, runVars, linkVars, FlagType
  <2>4. WaitingHasWaker' /\ NothingOutlivesSession' /\ SessionShape'
    BY <1>19, <2>1 DEF TimerFires, runVars, linkVars, WaitingHasWaker, NothingOutlivesSession,
       SessionShape
  <2>. QED
    BY <2>1, <2>2, <2>3, <2>4
<1>20. CASE ReadFrame
  <2>1. RunType' /\ WriteType'
    BY <1>20 DEF ReadFrame, runVars, writeVars, RunType, WriteType
  <2>2. ready' \in Seq(Handler)
    <3>1. CASE ready' = Append(ready, [kind |-> "close"])
      BY <3>1 DEF Handler
    <3>2. ASSUME NEW l \in Lanes, calls[Net] < MaxCalls,
                 ready' = Append(ready, [kind |-> "dispatch",
                             msg |-> [from |-> Net, no |-> calls[Net] + 1, lane |-> l]])
          PROVE  ready' \in Seq(Handler)
      <4>1. [from |-> Net, no |-> calls[Net] + 1, lane |-> l] \in Message
        BY <3>2 DEF Message, CallType, TransportAssumption
      <4>. QED
        BY <3>2, <4>1 DEF Handler
    <3>. QED
      BY <1>20, <3>1, <3>2 DEF ReadFrame
  <2>3. FlagType'
    BY <1>20, Zenon DEF ReadFrame, runVars, writeVars, linkVars, callVars, stopVars, FlagType
  <2>4. CallType'
    <3>1. CASE UNCHANGED calls
      BY <1>20, <3>1 DEF ReadFrame, stopVars, CallType
    <3>2. CASE calls[Net] < MaxCalls /\ calls' = [calls EXCEPT ![Net] = @ + 1]
      <4>1. calls' \in [Callers -> 0 .. MaxCalls] /\ \A c \in Callers : calls'[c] >= calls[c]
        BY <3>2 DEF CallType, TransportAssumption
      <4>2. \A c \in Callers : calls[c] \in Nat
        BY DEF CallType
      <4>. QED
        BY <1>20, <4>1, <4>2 DEF ReadFrame, stopVars, CallType
    <3>. QED
      BY <1>20, <3>1, <3>2 DEF ReadFrame
  <2>5. PathInv'
    BY <1>20 DEF ReadFrame, runVars, writeVars, linkVars, callVars, stopVars, PendingIsQueued, OneWriteAtATime, WaitingHasWaker,
       NothingOutlivesSession, SessionShape
  <2>. QED
    BY <2>1, <2>2, <2>3, <2>4, <2>5
<1>21. ASSUME NEW c \in Callers, CopySession(c) PROVE TransportInv'
  <2>1. RunType' /\ WriteType' /\ ready' \in Seq(Handler)
    BY <1>21 DEF CopySession, runVars, writeVars, RunType, WriteType
  <2>2. FlagType'
    BY <1>21, Zenon DEF CopySession, runVars, writeVars, linkVars, callVars, stopVars, FlagType
  <2>3. CallType'
    BY <1>21 DEF CopySession, stopVars, CallType, RunType, TransportAssumption
  <2>4. PathInv'
    BY <1>21 DEF CopySession, runVars, writeVars, linkVars, callVars, stopVars, PendingIsQueued, OneWriteAtATime, WaitingHasWaker,
       NothingOutlivesSession, SessionShape
  <2>. QED
    BY <2>1, <2>2, <2>3, <2>4
<1>22. ASSUME NEW c \in Callers, PostMessage(c) PROVE TransportInv'
  <2>1. RunType' /\ WriteType'
    BY <1>22 DEF PostMessage, runVars, writeVars, RunType, WriteType
  <2>2. ready' \in Seq(Handler)
    <3>1. PICK l \in Lanes : PostTo(held[c], [kind |-> "dispatch",
                                 msg |-> [from |-> c, no |-> calls[c], lane |-> l]])
      BY <1>22 DEF PostMessage
    <3>2. [from |-> c, no |-> calls[c], lane |-> l] \in Message
      BY <1>22 DEF PostMessage, Message, CallType, TransportAssumption
    <3>. QED
      BY <3>1, <3>2 DEF PostTo, Handler
  <2>3. FlagType'
    BY <1>22, Zenon DEF PostMessage, runVars, writeVars, linkVars, callVars, stopVars, FlagType
  <2>4. CallType'
    BY <1>22 DEF PostMessage, stopVars, CallType, TransportAssumption
  <2>5. PathInv'
    BY <1>22 DEF PostMessage, PostTo, runVars, writeVars, linkVars, callVars, stopVars, PendingIsQueued, OneWriteAtATime, WaitingHasWaker,
       NothingOutlivesSession, SessionShape
  <2>. QED
    BY <2>1, <2>2, <2>3, <2>4, <2>5
<1>23. CASE UNCHANGED vars
  <2>1. RunType' /\ WriteType' /\ CallType' /\ ready' \in Seq(Handler)
    BY <1>23 DEF vars, runVars, writeVars, linkVars, callVars, stopVars, RunType, WriteType, CallType
  <2>2. FlagType'
    BY <1>23, Zenon DEF vars, runVars, writeVars, linkVars, callVars, stopVars, FlagType
  <2>3. PathInv'
    BY <1>23 DEF vars, runVars, writeVars, linkVars, callVars, stopVars, PendingIsQueued, OneWriteAtATime, WaitingHasWaker,
       NothingOutlivesSession, SessionShape
  <2>. QED
    BY <2>1, <2>2, <2>3
<1>. QED
  BY <1>1, <1>2, <1>3, <1>4, <1>5, <1>6, <1>7, <1>8, <1>9, <1>10, <1>11, <1>12, <1>13, <1>14,
     <1>15, <1>16, <1>17, <1>18, <1>19, <1>20, <1>21, <1>22, <1>23
     DEF Next, Finished

\* The transport keeps its types, the gauge counts the two lanes, one write is
\* outstanding at a time, no message waits on a live connection without a
\* waker, and nothing of a session outlives it.
THEOREM TransportInvariant == Spec => []TransportInv
<1>1. Init => TransportInv
  BY InitInv
<1>2. TransportInv /\ [Next]_vars => TransportInv'
  BY StepInv
<1>. QED
  BY <1>1, <1>2, PTL DEF Spec

\* Every variable holds a value of its type.
THEOREM TransportTypes == Spec => []TypeOK
BY TransportInvariant, PTL DEF TransportInv

\* pending_sends() is the number of waiting messages, however often sessions
\* come and go.
THEOREM GaugeCounts == Spec => []PendingIsQueued
BY TransportInvariant, PTL DEF TransportInv, PathInv

\* Beast never sees a second async_write, and the pacing timer is never skipped.
THEOREM WritesAreSerial == Spec => []OneWriteAtATime
BY TransportInvariant, PTL DEF TransportInv, PathInv

\* No message waits on a live connection without a handler to come that sends it.
THEOREM NoLostWakeUp == Spec => []WaitingHasWaker
BY TransportInvariant, PTL DEF TransportInv, PathInv

\* A new session never finds anything of an old one.
THEOREM SessionsAreSeparate == Spec => []NothingOutlivesSession
BY TransportInvariant, PTL DEF TransportInv, PathInv

-----------------------------------------------------------------------------
(* Giving up, and the order of the two lanes. *)

\* While run() tries to connect, attempt counts the failures since the last
\* good connection; a session wipes them out.
AttemptInv ==
  /\ pc \in {"test", "connect", "sleep"} => attempt = fails
  /\ pc \in {"published", "session", "teardown"} => fails = 0
  /\ clean = "no" => pc = "returned"
  /\ GivesUpAfterRetries

\* AttemptInv holds at first, and every step keeps it.
LEMMA AttemptStep ==
  ASSUME TransportAssumption, RunType, AttemptInv, [Next]_vars
  PROVE  AttemptInv'
<1>. USE DEF AttemptInv, GivesUpAfterRetries, RunType
<1>1. CASE Test
  BY <1>1 DEF Test
<1>2. CASE ConnectFails
  <2>1. MaxRetries \in Nat
    BY Zenon DEF TransportAssumption
  <2>. QED
    BY <1>2, <2>1 DEF ConnectFails
<1>3. CASE Publish
  BY <1>3 DEF Publish
<1>4. CASE StartAsync \/ IocReturns
  BY <1>4 DEF StartAsync, IocReturns
<1>5. CASE Teardown
  BY <1>5 DEF Teardown, SessionDies, GoOnWith
<1>6. CASE Wake
  BY <1>6 DEF Wake
<1>7. CASE UNCHANGED runVars
  BY <1>7 DEF runVars
<1>8. CASE ~(Test \/ ConnectFails \/ Publish \/ StartAsync \/ IocReturns \/ Teardown \/ Wake)
  <2>1. UNCHANGED runVars
    BY <1>8 DEF Next, Dispatch, Enqueue, Close, WriteDone, WriteFails, TimerFires, ReadFrame,
       ReadFails, Signal, CopySession, PostMessage, StopFlag, StopCopy, StopPost, PeerLost,
       Finished, vars
  <2>. QED
    BY <1>7, <2>1
<1>. QED
  BY <1>1, <1>2, <1>3, <1>4, <1>5, <1>6, <1>7, <1>8

\* run() gives up only after max_retries retries in a row failed.
THEOREM GivesUpLate == Spec => []GivesUpAfterRetries
<1>1. Init => AttemptInv
  BY DEF Init, AttemptInv, GivesUpAfterRetries
<1>2. TypeOK /\ AttemptInv /\ [Next]_vars => AttemptInv'
  BY AttemptStep, TransportAssumption DEF TypeOK
<1>3. AttemptInv => GivesUpAfterRetries
  BY DEF AttemptInv
<1>. QED
  BY <1>1, <1>2, <1>3, TransportTypes, PTL DEF Spec

\* What try_write_next starts with a message of the low lane leaves the main
\* lane empty, if each lane holds its own messages.
LEMMA LowWriteYields ==
  ASSUME NEW q, NEW l, NEW p, NEW w,
         \A i \in 1 .. Len(q) : q[i].lane = "main",
         q \in Seq(Message), TryWriteNext(q, l, p, w), op # "write", op' = "write",
         msg_in_flight'.lane = "low"
  PROVE  queue' = <<>>
<1>1. q = <<>> \/ Head(q).lane = "main"
  OBVIOUS
<1>. QED
  BY <1>1 DEF TryWriteNext

\* The main lane holds messages of the main lane only.
MainIsMain == \A i \in 1 .. Len(queue) : queue[i].lane = "main"

\* try_write_next keeps it so.
LEMMA TryWriteNextKeepsMain ==
  ASSUME NEW q \in Seq(Message), NEW l, NEW p, NEW w,
         \A i \in 1 .. Len(q) : q[i].lane = "main",
         TryWriteNext(q, l, p, w)
  PROVE  MainIsMain'
<1>1. CASE queue' = q
  BY <1>1 DEF MainIsMain
<1>2. CASE q # <<>> /\ queue' = Tail(q)
  <2>1. Len(Tail(q)) = Len(q) - 1 /\ \A i \in 1 .. Len(q) - 1 : Tail(q)[i] = q[i + 1]
    BY <1>2
  <2>2. Len(q) \in Nat
    OBVIOUS
  <2>. QED
    BY <1>2, <2>1, <2>2 DEF MainIsMain
<1>. QED
  BY <1>1, <1>2 DEF TryWriteNext

\* Every step keeps the main lane pure, and starts the write of a low message
\* only when no other is waiting.
LEMMA LaneStep ==
  ASSUME TransportAssumption, TypeOK, MainIsMain, [Next]_vars
  PROVE  /\ MainIsMain'
         /\ op # "write" /\ op' = "write" /\ msg_in_flight'.lane = "low" => queue' = <<>>
<1>1. queue \in Seq(Message) /\ low_queue \in Seq(Message) /\ ready \in Seq(Handler)
  BY DEF TypeOK, WriteType
<1>2. CASE Enqueue
  <2>1. /\ ready # <<>> /\ Head(ready).kind = "enqueue"
        /\ \/ Head(ready).msg.lane = "main"
              /\ TryWriteNext(Append(queue, Head(ready).msg), low_queue, pending + 1,
                              write_in_flight)
           \/ TryWriteNext(queue, Append(low_queue, Head(ready).msg), pending + 1,
                           write_in_flight)
    BY <1>2 DEF Enqueue
  <2>2. Head(ready).msg \in Message
    BY <1>1, <2>1 DEF Handler
  <2>3. CASE Head(ready).msg.lane = "main"
             /\ TryWriteNext(Append(queue, Head(ready).msg), low_queue, pending + 1,
                             write_in_flight)
    <3>1. Append(queue, Head(ready).msg) \in Seq(Message)
      BY <1>1, <2>2
    <3>2. \A i \in 1 .. Len(Append(queue, Head(ready).msg)) :
             Append(queue, Head(ready).msg)[i].lane = "main"
      BY <1>1, <2>2, <2>3 DEF MainIsMain
    <3>. QED
      BY <2>3, <3>1, <3>2, LowWriteYields, TryWriteNextKeepsMain
  <2>4. CASE TryWriteNext(queue, Append(low_queue, Head(ready).msg), pending + 1,
                          write_in_flight)
    BY <1>1, <2>4, LowWriteYields, TryWriteNextKeepsMain DEF MainIsMain
  <2>. QED
    BY <2>1, <2>3, <2>4
<1>3. CASE TimerFires
  <2>1. TryWriteNext(queue, low_queue, pending, FALSE)
    BY <1>3 DEF TimerFires
  <2>. QED
    BY <1>1, <2>1, LowWriteYields, TryWriteNextKeepsMain DEF MainIsMain
<1>4. CASE Publish \/ Teardown
  BY <1>4 DEF Publish, Teardown, SessionDies, MainIsMain, TypeOK, WriteType
<1>5. CASE ~(Enqueue \/ TimerFires \/ Publish \/ Teardown)
  <2>1. UNCHANGED queue /\ (UNCHANGED op \/ op' # "write")
    BY <1>5 DEF Next, Test, ConnectFails, StartAsync, IocReturns, Wake, Dispatch, Close,
       WriteDone, WriteFails, ReadFrame, ReadFails, Signal, CopySession, PostMessage, StopFlag,
       StopCopy, StopPost, PeerLost, Finished, vars, writeVars
  <2>. QED
    BY <2>1 DEF MainIsMain
<1>. QED
  BY <1>2, <1>3, <1>4, <1>5

\* A low-priority message is written only when no main-lane message is waiting.
THEOREM LowLaneIsLow == Spec => LowLaneYields
<1>1. Init => MainIsMain
  BY DEF Init, MainIsMain
<1>2. TypeOK /\ MainIsMain /\ [Next]_vars => MainIsMain'
  BY LaneStep, TransportAssumption
<1>3. TypeOK /\ MainIsMain /\ [Next]_vars
        => [op # "write" /\ op' = "write" /\ msg_in_flight'.lane = "low" => queue' = <<>>]_vars
  BY LaneStep, TransportAssumption
<1>. QED
  BY <1>1, <1>2, <1>3, TransportTypes, PTL DEF Spec, LowLaneYields

-----------------------------------------------------------------------------
(***************************************************************************)
(* Transport implements LossyLink: whatever the io_context does with a     *)
(* message between queue_send and async_write, two messages of one thread  *)
(* on one lane never overtake each other, none is written twice, and a     *)
(* reconnection only loses what was waiting.                               *)
(*                                                                         *)
(* The argument is one order over everything a message passes through: the *)
(* number last written, the message in flight, its lane, the handlers that *)
(* will put a message into a lane, the handlers that will post those, and  *)
(* the call a thread is in the middle of.  Each stage only hands its       *)
(* oldest message to the next one.                                         *)
(***************************************************************************)

\* m was sent before n, if one thread sent both on one lane.
Before(m, n) == m.from = n.from /\ m.lane = n.lane => m.no < n.no

\* The number of the last call of c that may have been posted: a thread that
\* holds a session's pointer has yet to post the message of its current call.
LastPosted(c) == IF held[c] = 0 THEN calls[c] ELSE calls[c] - 1

\* m was posted and is not written yet.
Unwritten(m) == last[m.from][m.lane] < m.no /\ m.no <= LastPosted(m.from)

\* The handlers that carry a message.
Carriers == {i \in 1 .. Len(ready) : ready[i].kind \in {"dispatch", "enqueue"}}

\* Handler i hands its message on before handler j does.
Ahead(i, j) ==
  \/ ready[i].kind = ready[j].kind /\ i < j
  \/ ready[i].kind = "enqueue" /\ ready[j].kind = "dispatch"

\* A lane holds messages of that lane, in the order they were sent.
LaneInOrder(q, lane) ==
  /\ \A i \in 1 .. Len(q) : q[i].lane = lane
  /\ \A i, j \in 1 .. Len(q) : i < j => Before(q[i], q[j])

\* m was posted, is unwritten, and goes before what the handlers still carry.
Leads(m) == Unwritten(m) /\ \A j \in Carriers : Before(m, ready[j].msg)

LaneLeads(q) == \A i \in 1 .. Len(q) : Leads(q[i])

CarriersInOrder ==
  \A i \in Carriers :
     /\ Unwritten(ready[i].msg)
     /\ \A j \in Carriers : Ahead(i, j) => Before(ready[i].msg, ready[j].msg)

\* The message of the outstanding write goes before everything that waits.
FlightLeads ==
  op = "write" =>
     /\ Leads(msg_in_flight)
     /\ \A i \in 1 .. Len(queue) : Before(msg_in_flight, queue[i])
     /\ \A i \in 1 .. Len(low_queue) : Before(msg_in_flight, low_queue[i])

\* The inductive invariant of the refinement.
OrderInv ==
  /\ held[Net] = 0
  /\ LaneInOrder(queue, "main") /\ LaneInOrder(low_queue, "low")
  /\ LaneLeads(queue) /\ LaneLeads(low_queue)
  /\ CarriersInOrder
  /\ FlightLeads
  /\ \A c \in Callers, l \in Lanes : last[c][l] <= LastPosted(c)
-----------------------------------------------------------------------------
(* Sequences of messages. *)

\* Taking the oldest message off a lane leaves a lane in order, behind it.
LEMMA LaneTail ==
  ASSUME NEW lane, NEW q \in Seq(Message), q # <<>>, LaneInOrder(q, lane)
  PROVE  /\ Tail(q) \in Seq(Message) /\ LaneInOrder(Tail(q), lane)
         /\ \A i \in 1 .. Len(Tail(q)) : Before(q[1], Tail(q)[i])
         /\ \A i \in 1 .. Len(Tail(q)) : i + 1 \in 1 .. Len(q) /\ Tail(q)[i] = q[i + 1]
         /\ 1 \in 1 .. Len(q) /\ Head(q) = q[1]
<1>1. /\ Len(q) \in Nat /\ Len(q) >= 1 /\ Head(q) = q[1] /\ Tail(q) \in Seq(Message)
      /\ Len(Tail(q)) = Len(q) - 1 /\ Head(q) \in Message
  OBVIOUS
<1>2. \A i \in 1 .. Len(Tail(q)) : i \in Int /\ i + 1 \in 1 .. Len(q) /\ Tail(q)[i] = q[i + 1]
  BY <1>1
<1>3. 1 \in 1 .. Len(q) /\ \A i \in 1 .. Len(Tail(q)) : 1 < i + 1
  BY <1>1
<1>4. /\ \A i \in 1 .. Len(q) : q[i].lane = lane
      /\ \A i, j \in 1 .. Len(q) : i < j => Before(q[i], q[j])
  BY DEF LaneInOrder
<1>5. \A i \in 1 .. Len(Tail(q)) : Tail(q)[i].lane = lane
  BY <1>2, <1>4
<1>6. \A i, j \in 1 .. Len(Tail(q)) : i < j => Before(Tail(q)[i], Tail(q)[j])
  <2>. SUFFICES ASSUME NEW i \in 1 .. Len(Tail(q)), NEW j \in 1 .. Len(Tail(q)), i < j
                PROVE  Before(q[i + 1], q[j + 1])
    BY <1>2
  <2>. QED
    BY <1>2, <1>4
<1>7. \A i \in 1 .. Len(Tail(q)) : Before(q[1], Tail(q)[i])
  BY <1>1, <1>2, <1>3, <1>4
<1>. QED
  BY <1>1, <1>2, <1>3, <1>4, <1>5, <1>6, <1>7 DEF LaneInOrder

\* A message that goes after all of a lane may be put at its end.
LEMMA LaneAppend ==
  ASSUME NEW lane, NEW q \in Seq(Message), NEW m \in Message, LaneInOrder(q, lane), m.lane = lane,
         \A i \in 1 .. Len(q) : Before(q[i], m)
  PROVE  /\ Append(q, m) \in Seq(Message) /\ LaneInOrder(Append(q, m), lane)
         /\ \A i \in 1 .. Len(Append(q, m)) :
               \/ i \in 1 .. Len(q) /\ Append(q, m)[i] = q[i]
               \/ Append(q, m)[i] = m
<1>1. /\ Len(q) \in Nat /\ Append(q, m) \in Seq(Message) /\ Len(Append(q, m)) = Len(q) + 1
      /\ Append(q, m)[Len(q) + 1] = m
      /\ \A i \in 1 .. Len(q) : Append(q, m)[i] = q[i]
  OBVIOUS
<1>2. \A i \in 1 .. Len(Append(q, m)) : i \in 1 .. Len(q) \/ i = Len(q) + 1
  BY <1>1
<1>3. \A i \in 1 .. Len(Append(q, m)) : Append(q, m)[i].lane = lane
  BY <1>1, <1>2 DEF LaneInOrder
<1>4. ASSUME NEW i \in 1 .. Len(Append(q, m)), NEW j \in 1 .. Len(Append(q, m)), i < j
      PROVE  Before(Append(q, m)[i], Append(q, m)[j])
  <2>1. i \in 1 .. Len(q)
    BY <1>1, <1>4
  <2>. QED
    BY <1>1, <1>2, <2>1, <1>4 DEF LaneInOrder
<1>. QED
  BY <1>1, <1>2, <1>3, <1>4 DEF LaneInOrder

\* What try_write_next does to the order, whatever handler calls it with lanes
\* of messages of S: the lanes stay in order, what it puts in flight comes from
\* them, and goes before everything they still hold.
LEMMA TryWriteNextOrder ==
  ASSUME NEW S, NEW q \in Seq(Message), NEW l \in Seq(Message), NEW p, NEW w \in BOOLEAN,
         LaneInOrder(q, "main"), LaneInOrder(l, "low"),
         \A i \in 1 .. Len(q) : q[i] \in S,
         \A i \in 1 .. Len(l) : l[i] \in S,
         w /\ op = "write" => /\ msg_in_flight \in S
                              /\ \A i \in 1 .. Len(q) : Before(msg_in_flight, q[i])
                              /\ \A i \in 1 .. Len(l) : Before(msg_in_flight, l[i]),
         TryWriteNext(q, l, p, w)
  PROVE  /\ LaneInOrder(queue', "main") /\ LaneInOrder(low_queue', "low")
         /\ \A i \in 1 .. Len(queue') : queue'[i] \in S
         /\ \A i \in 1 .. Len(low_queue') : low_queue'[i] \in S
         /\ op' = "write" => /\ msg_in_flight' \in S
                             /\ \A i \in 1 .. Len(queue') : Before(msg_in_flight', queue'[i])
                             /\ \A i \in 1 .. Len(low_queue') : Before(msg_in_flight', low_queue'[i])
<1>1. CASE w \/ ~connection_alive \/ (q = <<>> /\ l = <<>>)
  <2>1. /\ queue' = q /\ low_queue' = l /\ op' = (IF w THEN op ELSE "none")
        /\ msg_in_flight' = msg_in_flight
    BY <1>1 DEF TryWriteNext
  <2>. QED
    BY <2>1
<1>2. CASE ~w /\ connection_alive /\ q # <<>>
  <2>1. queue' = Tail(q) /\ low_queue' = l /\ msg_in_flight' = Head(q)
    BY <1>2 DEF TryWriteNext
  <2>2. /\ LaneInOrder(Tail(q), "main")
        /\ \A i \in 1 .. Len(Tail(q)) : Before(q[1], Tail(q)[i])
        /\ \A i \in 1 .. Len(Tail(q)) : i + 1 \in 1 .. Len(q) /\ Tail(q)[i] = q[i + 1]
        /\ 1 \in 1 .. Len(q) /\ Head(q) = q[1]
    BY <1>2, LaneTail
  <2>3. \A i \in 1 .. Len(l) : Before(Head(q), l[i])
    BY <2>2 DEF LaneInOrder, Before
  <2>4. \A i \in 1 .. Len(Tail(q)) : Tail(q)[i] \in S
    BY <2>2
  <2>5. Head(q) \in S
    BY <2>2
  <2>. QED
    BY <2>1, <2>2, <2>3, <2>4, <2>5
<1>3. CASE ~w /\ connection_alive /\ q = <<>> /\ l # <<>>
  <2>1. queue' = q /\ low_queue' = Tail(l) /\ msg_in_flight' = Head(l)
    BY <1>3 DEF TryWriteNext
  <2>2. /\ LaneInOrder(Tail(l), "low")
        /\ \A i \in 1 .. Len(Tail(l)) : Before(l[1], Tail(l)[i])
        /\ \A i \in 1 .. Len(Tail(l)) : i + 1 \in 1 .. Len(l) /\ Tail(l)[i] = l[i + 1]
        /\ 1 \in 1 .. Len(l) /\ Head(l) = l[1]
    BY <1>3, LaneTail
  <2>3. \A i \in 1 .. Len(q) : Before(Head(l), q[i])
    BY <1>3
  <2>4. \A i \in 1 .. Len(Tail(l)) : Tail(l)[i] \in S
    BY <2>2
  <2>5. Head(l) \in S
    BY <2>2
  <2>. QED
    BY <2>1, <2>2, <2>3, <2>4, <2>5
<1>. QED
  BY <1>1, <1>2, <1>3

-----------------------------------------------------------------------------
(* Handlers. *)

\* The types the argument needs.
OrderTypes == WriteType /\ ready \in Seq(Handler) /\ CallType

\* A handler that carries a message carries one somebody sent.
LEMMA CarrierType ==
  ASSUME ready \in Seq(Handler), NEW i \in Carriers
  PROVE  /\ i \in 1 .. Len(ready) /\ ready[i].msg \in Message
         /\ ready[i] = [kind |-> ready[i].kind, msg |-> ready[i].msg]
BY DEF Carriers, Handler

\* The number of a message is a natural, and so is what it is compared with.
LEMMA NumberTypes ==
  ASSUME TransportAssumption, CallType
  PROVE  /\ \A m \in Message : /\ m.from \in Callers /\ m.lane \in Lanes /\ m.no \in Int
                               /\ last[m.from][m.lane] \in Int
         /\ \A c \in Callers : calls[c] \in Int /\ LastPosted(c) \in Int /\ LastPosted(c) <= calls[c]
<1>0. calls \in [Callers -> 0 .. MaxCalls] /\ MaxCalls \in Nat
  BY Zenon DEF CallType, TransportAssumption
<1>1. \A c \in Callers : calls[c] \in Int
  BY <1>0
<1>2. \A c \in Callers, l \in Lanes : last[c][l] \in Int
  BY DEF CallType, TransportAssumption
<1>3. \A m \in Message : m.from \in Callers /\ m.lane \in Lanes /\ m.no \in Int
  BY DEF Message, TransportAssumption
<1>. QED
  BY <1>1, <1>2, <1>3 DEF LastPosted

\* If every handler of the next state carries the message of a handler of this
\* one, and no pair of them is turned round, the handlers stay in order and
\* what went before all of them still does.
LEMMA CarriersMove ==
  ASSUME CarriersInOrder, UNCHANGED <<last, calls, held>>,
         NEW o,
         \A i \in Carriers' : o[i] \in Carriers /\ ready'[i].msg = ready[o[i]].msg,
         \A i, j \in Carriers' : Ahead(i, j)' => Ahead(o[i], o[j])
  PROVE  /\ CarriersInOrder'
         /\ \A m \in Message : Leads(m) => Leads(m)'
<1>1. \A m : Unwritten(m) => Unwritten(m)'
  BY DEF Unwritten, LastPosted
<1>2. ASSUME NEW m \in Message, Leads(m) PROVE Leads(m)'
  <2>1. \A j \in Carriers' : Before(m, ready'[j].msg)
    BY <1>2 DEF Leads
  <2>. QED
    BY <1>1, <1>2, <2>1 DEF Leads, Before
<1>3. ASSUME NEW i \in Carriers' PROVE Unwritten(ready[i].msg)'
  <2>1. Unwritten(ready[o[i]].msg)
    BY DEF CarriersInOrder
  <2>. QED
    BY <2>1, <1>3 DEF Unwritten, LastPosted
<1>4. ASSUME NEW i \in Carriers', NEW j \in Carriers', Ahead(i, j)'
      PROVE  Before(ready'[i].msg, ready'[j].msg)
  <2>1. Before(ready[o[i]].msg, ready[o[j]].msg)
    BY <1>4 DEF CarriersInOrder
  <2>. QED
    BY <2>1
<1>. QED
  BY <1>2, <1>3, <1>4 DEF CarriersInOrder, Before

\* A step that keeps the lanes, starts no write, and disturbs neither the order
\* of the handlers nor what goes before them keeps the whole order.
LEMMA OrderFrame ==
  ASSUME WriteType, OrderInv, UNCHANGED <<queue, low_queue>>,
         op' = "write" => op = "write" /\ UNCHANGED msg_in_flight,
         \A m \in Message : Leads(m) => Leads(m)',
         CarriersInOrder', held'[Net] = 0,
         \A c \in Callers, l \in Lanes : last'[c][l] <= LastPosted(c)'
  PROVE  OrderInv'
<1>1. LaneInOrder(queue, "main")' /\ LaneInOrder(low_queue, "low")'
  BY DEF OrderInv, LaneInOrder, Before
<1>2. ASSUME NEW q \in Seq(Message), LaneLeads(q) PROVE \A i \in 1 .. Len(q) : Leads(q[i])'
  BY <1>2 DEF LaneLeads
<1>3. LaneLeads(queue)' /\ LaneLeads(low_queue)'
  BY <1>2 DEF OrderInv, WriteType, LaneLeads, Leads, Unwritten, LastPosted, Before, Carriers
<1>4. FlightLeads'
  BY DEF OrderInv, WriteType, FlightLeads, Leads, Unwritten, LastPosted, Before, Carriers
<1>. QED
  BY <1>1, <1>3, <1>4 DEF OrderInv

-----------------------------------------------------------------------------
(* The steps that touch a message. *)

\* Nothing was sent before run() is called.
LEMMA OrderInit == Init => OrderInv
<1>. SUFFICES ASSUME Init PROVE OrderInv
  OBVIOUS
<1>1. Carriers = {}
  BY DEF Init, Carriers
<1>. QED
  BY <1>1, TransportAssumption
     DEF Init, OrderInv, LaneInOrder, LaneLeads, CarriersInOrder, FlightLeads, LastPosted,
         TransportAssumption

\* The handler that picks the stream hands its message to the one that fills the
\* lane: every other handler of that kind holds an older message, every handler
\* of its own kind a newer one.
LEMMA DispatchOrder ==
  ASSUME OrderTypes, OrderInv, Dispatch
  PROVE  OrderInv'
<1>. DEFINE N == Len(ready)
            o == [i \in 1 .. N |-> IF i = N THEN 1 ELSE i + 1]
<1>1. /\ ready \in Seq(Handler) /\ ready # <<>> /\ ready[1].kind = "dispatch"
      /\ ready' = Append(Tail(ready), [kind |-> "enqueue", msg |-> ready[1].msg])
  BY DEF Dispatch, OrderTypes
<1>2. /\ N \in Nat /\ N >= 1 /\ Len(ready') = N
      /\ ready'[N] = [kind |-> "enqueue", msg |-> ready[1].msg]
      /\ \A i \in 1 .. N : i # N => i + 1 \in 1 .. N /\ ready'[i] = ready[i + 1]
  BY <1>1
<1>3. 1 \in Carriers
  <2>1. 1 \in 1 .. Len(ready)
    BY <1>2
  <2>. QED
    BY <1>1, <2>1 DEF Carriers
<1>4. \A i \in Carriers' : /\ i \in 1 .. N
                           /\ o[i] \in Carriers /\ ready'[i].msg = ready[o[i]].msg
  BY <1>2, <1>3 DEF Carriers
<1>5. ASSUME NEW i \in Carriers', NEW j \in Carriers', Ahead(i, j)'
      PROVE  Ahead(o[i], o[j])
  <2>. i \in 1 .. N /\ j \in 1 .. N
    BY <1>4
  <2>1. CASE i # N /\ j # N
    BY <1>2, <1>5, <2>1 DEF Ahead
  <2>2. CASE i = N
    <3>1. j # N /\ ready'[j].kind = "dispatch"
      BY <1>2, <1>5, <2>2 DEF Ahead
    <3>2. o[i] = 1 /\ o[j] = j + 1 /\ j + 1 > 1
      BY <1>2, <2>2, <3>1
    <3>3. ready[j + 1].kind = "dispatch"
      BY <1>2, <3>1
    <3>. QED
      BY <1>1, <3>2, <3>3 DEF Ahead
  <2>3. CASE i # N /\ j = N
    <3>1. ready'[i].kind = "enqueue"
      BY <1>2, <1>5, <2>3 DEF Ahead
    <3>. QED
      BY <1>1, <1>2, <2>3, <3>1 DEF Ahead
  <2>. QED
    BY <2>1, <2>2, <2>3
<1>6. CarriersInOrder' /\ \A m \in Message : Leads(m) => Leads(m)'
  <2>. HIDE DEF o
  <2>. QED
    BY <1>4, <1>5, CarriersMove DEF OrderInv, Dispatch, callVars
<1>. QED
  BY <1>6, OrderFrame DEF OrderInv, OrderTypes, Dispatch, writeVars, callVars, LastPosted

\* Serving the handler at the head moves the others up by one.
LEMMA HeadServed ==
  ASSUME OrderTypes, OrderInv, ready # <<>>, ready' = Tail(ready), UNCHANGED <<last, calls, held>>
  PROVE  /\ CarriersInOrder'
         /\ \A m \in Message : Leads(m) => Leads(m)'
         /\ \A i \in Carriers' : i + 1 \in Carriers /\ i + 1 # 1 /\ ready'[i].msg = ready[i + 1].msg
<1>. DEFINE o == [i \in Nat |-> i + 1]
<1>1. ready \in Seq(Handler)
  BY DEF OrderTypes
<1>2. /\ Len(ready') \in Nat
      /\ \A i \in 1 .. Len(ready') : i \in Nat /\ i + 1 \in 1 .. Len(ready) /\ ready'[i] = ready[i + 1]
  BY <1>1
<1>3. \A i \in Carriers' : /\ i \in Nat /\ i + 1 # 1 /\ o[i] = i + 1 /\ i + 1 \in Carriers
                           /\ ready'[i] = ready[i + 1]
  BY <1>2 DEF Carriers
<1>4. \A i, j \in Carriers' : Ahead(i, j)' => Ahead(o[i], o[j])
  <2>. SUFFICES ASSUME NEW i \in Carriers', NEW j \in Carriers', Ahead(i, j)'
                PROVE  Ahead(o[i], o[j])
    OBVIOUS
  <2>1. /\ i \in Nat /\ o[i] = i + 1 /\ ready'[i] = ready[i + 1]
        /\ j \in Nat /\ o[j] = j + 1 /\ ready'[j] = ready[j + 1]
    BY <1>3
  <2>2. i < j => o[i] < o[j]
    BY <2>1
  <2>3. ready'[i] = ready[o[i]] /\ ready'[j] = ready[o[j]]
    BY <2>1, Zenon
  <2>4. ready'[i].kind = ready[o[i]].kind /\ ready'[j].kind = ready[o[j]].kind
    BY <2>3, Zenon
  <2>. HIDE DEF o
  <2>. QED
    BY <2>2, <2>4, Zenon DEF Ahead
<1>5. CarriersInOrder' /\ \A m \in Message : Leads(m) => Leads(m)'
  <2>1. \A i \in Carriers' : o[i] \in Carriers /\ ready'[i].msg = ready[o[i]].msg
    BY <1>3
  <2>. HIDE DEF o
  <2>. QED
    BY <2>1, <1>4, CarriersMove DEF OrderInv
<1>. QED
  BY <1>3, <1>5

\* The messages that go before what the handlers carry after the step.
LeadNext == {m \in Message : Leads(m)'}

\* try_write_next keeps the whole order when it is given lanes in order whose
\* messages go before what the handlers carry afterwards.
LEMMA LanesServed ==
  ASSUME OrderTypes, OrderInv,
         NEW q \in Seq(Message), NEW l \in Seq(Message), NEW p, NEW w \in BOOLEAN,
         LaneInOrder(q, "main"), LaneInOrder(l, "low"),
         \A m \in Message : Leads(m) => Leads(m)',
         \A i \in 1 .. Len(q) : q[i] \in LeadNext,
         \A i \in 1 .. Len(l) : l[i] \in LeadNext,
         op = "write" => /\ \A i \in 1 .. Len(q) : Before(msg_in_flight, q[i])
                         /\ \A i \in 1 .. Len(l) : Before(msg_in_flight, l[i]),
         TryWriteNext(q, l, p, w),
         CarriersInOrder', UNCHANGED <<last, calls, held>>
  PROVE  OrderInv'
<1>1. op = "write" => msg_in_flight \in LeadNext
  BY DEF OrderInv, OrderTypes, WriteType, FlightLeads, LeadNext
<1>2. \A m \in LeadNext : Leads(m)'
  BY DEF LeadNext
<1>3. /\ LaneInOrder(queue', "main") /\ LaneInOrder(low_queue', "low")
      /\ \A i \in 1 .. Len(queue') : queue'[i] \in LeadNext
      /\ \A i \in 1 .. Len(low_queue') : low_queue'[i] \in LeadNext
      /\ op' = "write" => /\ msg_in_flight' \in LeadNext
                          /\ \A i \in 1 .. Len(queue') : Before(msg_in_flight', queue'[i])
                          /\ \A i \in 1 .. Len(low_queue') : Before(msg_in_flight', low_queue'[i])
  BY <1>1, TryWriteNextOrder
<1>4. LaneInOrder(queue, "main")' /\ LaneInOrder(low_queue, "low")'
  BY <1>3 DEF LaneInOrder, Before
<1>5. LaneLeads(queue)' /\ LaneLeads(low_queue)'
  BY <1>2, <1>3 DEF LaneLeads, Leads, Unwritten, LastPosted, Before, Carriers
<1>6. FlightLeads'
  BY <1>2, <1>3 DEF FlightLeads, Leads, Unwritten, LastPosted, Before, Carriers
<1>. QED
  BY <1>4, <1>5, <1>6 DEF OrderInv, LastPosted

\* The handler that fills the lane: its message is the oldest the handlers
\* carry, and newer than all that waits in the lane or is being written.
LEMMA EnqueueOrder ==
  ASSUME OrderTypes, write_in_flight \in BOOLEAN, OrderInv, Enqueue
  PROVE  OrderInv'
<1>1. /\ ready \in Seq(Handler) /\ ready # <<>> /\ ready[1].kind = "enqueue" /\ Head(ready) = ready[1]
      /\ ready' = Tail(ready)
      /\ UNCHANGED <<last, calls, held>>
  BY DEF Enqueue, OrderTypes, callVars
<1>2. 1 \in Carriers
  <2>1. 1 \in 1 .. Len(ready)
    BY <1>1
  <2>. QED
    BY <1>1, <2>1 DEF Carriers
<1>3. PICK m \in Message : m = ready[1].msg
  BY <1>1, <1>2, CarrierType
<1>4. /\ CarriersInOrder'
      /\ \A n \in Message : Leads(n) => Leads(n)'
      /\ \A i \in Carriers' : i + 1 \in Carriers /\ i + 1 # 1 /\ ready'[i].msg = ready[i + 1].msg
  BY <1>1, HeadServed
<1>5. \A j \in Carriers : j # 1 => Before(m, ready[j].msg)
  <2>1. \A j \in Carriers : j # 1 => Ahead(1, j)
    BY <1>1 DEF Carriers, Ahead
  <2>. QED
    BY <1>2, <1>3, <2>1 DEF OrderInv, CarriersInOrder
<1>6. m \in LeadNext
  <2>1. Unwritten(m)
    BY <1>2, <1>3 DEF OrderInv, CarriersInOrder
  <2>2. Unwritten(m)'
    BY <1>1, <2>1 DEF Unwritten, LastPosted
  <2>3. \A j \in Carriers' : Before(m, ready'[j].msg)
    BY <1>4, <1>5
  <2>. QED
    BY <2>2, <2>3 DEF LeadNext, Leads, Before
<1>7. /\ queue \in Seq(Message) /\ low_queue \in Seq(Message)
      /\ LaneInOrder(queue, "main") /\ LaneInOrder(low_queue, "low")
      /\ \A i \in 1 .. Len(queue) : Leads(queue[i]) /\ queue[i] \in Message
      /\ \A i \in 1 .. Len(low_queue) : Leads(low_queue[i]) /\ low_queue[i] \in Message
  BY DEF OrderTypes, WriteType, OrderInv, LaneLeads
<1>8. /\ \A i \in 1 .. Len(queue) : Before(queue[i], m)
      /\ \A i \in 1 .. Len(low_queue) : Before(low_queue[i], m)
      /\ op = "write" => Before(msg_in_flight, m)
  BY <1>2, <1>3, <1>7 DEF Leads, OrderInv, FlightLeads
<1>9. op = "write" => /\ \A i \in 1 .. Len(queue) : Before(msg_in_flight, queue[i])
                      /\ \A i \in 1 .. Len(low_queue) : Before(msg_in_flight, low_queue[i])
  BY DEF OrderInv, FlightLeads
<1>10. /\ \A i \in 1 .. Len(queue) : queue[i] \in LeadNext
       /\ \A i \in 1 .. Len(low_queue) : low_queue[i] \in LeadNext
  <2>1. \A n \in Message : Leads(n) => n \in LeadNext
    BY <1>4 DEF LeadNext
  <2>. QED
    BY <1>7, <2>1
<1>11. CASE m.lane = "main" /\ TryWriteNext(Append(queue, m), low_queue, pending + 1, write_in_flight)
  <2>. DEFINE q == Append(queue, m)
  <2>1. /\ q \in Seq(Message) /\ LaneInOrder(q, "main")
        /\ \A i \in 1 .. Len(q) : (i \in 1 .. Len(queue) /\ q[i] = queue[i]) \/ q[i] = m
    BY <1>7, <1>8, <1>11, LaneAppend
  <2>2. TryWriteNext(q, low_queue, pending + 1, write_in_flight)
    BY <1>11
  <2>. HIDE DEF q
  <2>3. /\ \A i \in 1 .. Len(q) : q[i] \in LeadNext
        /\ op = "write" => \A i \in 1 .. Len(q) : Before(msg_in_flight, q[i])
    BY <1>6, <1>8, <1>9, <1>10, <2>1
  <2>. QED
    BY <1>1, <1>4, <1>7, <1>9, <1>10, <2>1, <2>2, <2>3, LanesServed
<1>12. CASE m.lane = "low" /\ TryWriteNext(queue, Append(low_queue, m), pending + 1, write_in_flight)
  <2>. DEFINE l == Append(low_queue, m)
  <2>1. /\ l \in Seq(Message) /\ LaneInOrder(l, "low")
        /\ \A i \in 1 .. Len(l) : (i \in 1 .. Len(low_queue) /\ l[i] = low_queue[i]) \/ l[i] = m
    BY <1>7, <1>8, <1>12, LaneAppend
  <2>2. TryWriteNext(queue, l, pending + 1, write_in_flight)
    BY <1>12
  <2>. HIDE DEF l
  <2>3. /\ \A i \in 1 .. Len(l) : l[i] \in LeadNext
        /\ op = "write" => \A i \in 1 .. Len(l) : Before(msg_in_flight, l[i])
    BY <1>6, <1>8, <1>9, <1>10, <2>1
  <2>. QED
    BY <1>1, <1>4, <1>7, <1>9, <1>10, <2>1, <2>2, <2>3, LanesServed
<1>. QED
  BY <1>1, <1>3, <1>11, <1>12 DEF Enqueue

\* The pacing timer serves the lanes as they are.
LEMMA TimerOrder ==
  ASSUME OrderTypes, OrderInv, TimerFires
  PROVE  OrderInv'
<1>1. TryWriteNext(queue, low_queue, pending, FALSE) /\ UNCHANGED <<ready, last, calls, held>>
  BY DEF TimerFires, callVars
<1>2. \A m \in Message : Leads(m) => Leads(m)'
  BY <1>1 DEF Leads, Unwritten, LastPosted, Before, Carriers
<1>3. CarriersInOrder'
  BY <1>1 DEF OrderInv, CarriersInOrder, Unwritten, LastPosted, Before, Carriers, Ahead
<1>4. /\ \A i \in 1 .. Len(queue) : queue[i] \in LeadNext
      /\ \A i \in 1 .. Len(low_queue) : low_queue[i] \in LeadNext
  <2>1. \A m \in Message : Leads(m) => m \in LeadNext
    BY <1>2 DEF LeadNext
  <2>. QED
    BY <2>1 DEF OrderTypes, WriteType, OrderInv, LaneLeads
<1>. QED
  BY <1>1, <1>2, <1>3, <1>4, LanesServed DEF OrderTypes, WriteType, OrderInv, FlightLeads

\* A message that is unwritten stays so while nothing is written and the calls
\* that were posted stay posted.
LEMMA UnwrittenKept ==
  ASSUME TransportAssumption, CallType, UNCHANGED last,
         \A c \in Callers : LastPosted(c)' \in Int /\ LastPosted(c) <= LastPosted(c)'
  PROVE  /\ \A m \in Message : Unwritten(m) => Unwritten(m)'
         /\ \A c \in Callers, l \in Lanes :
               last[c][l] <= LastPosted(c) => last'[c][l] <= LastPosted(c)'
<1>1. \A c \in Callers, l \in Lanes : last[c][l] \in Int
  BY DEF CallType, TransportAssumption
<1>2. \A c \in Callers : LastPosted(c) \in Int
  BY NumberTypes
<1>3. \A m \in Message : m.from \in Callers /\ m.no \in Int
  BY NumberTypes
<1>4. ASSUME NEW m \in Message, Unwritten(m) PROVE Unwritten(m)'
  <2>1. m.from \in Callers /\ m.no \in Int /\ m.no <= LastPosted(m.from)
    BY <1>3, <1>4 DEF Unwritten
  <2>2. m.no <= LastPosted(m.from)'
    BY <1>2, <2>1
  <2>. QED
    BY <1>4, <2>2 DEF Unwritten
<1>5. ASSUME NEW c \in Callers, NEW l \in Lanes, last[c][l] <= LastPosted(c)
      PROVE  last'[c][l] <= LastPosted(c)'
  BY <1>1, <1>2, <1>5
<1>. QED
  BY <1>4, <1>5

\* A step that posts no message, writes none and serves no handler keeps the
\* order, whichever calls it ends.
LEMMA QuietOrder ==
  ASSUME TransportAssumption, OrderTypes, OrderInv,
         UNCHANGED <<queue, low_queue, last>>,
         op' = "write" => op = "write" /\ UNCHANGED msg_in_flight,
         UNCHANGED ready \/ ready' = Append(ready, [kind |-> "close"]),
         held'[Net] = 0,
         \A c \in Callers : LastPosted(c)' \in Int /\ LastPosted(c) <= LastPosted(c)'
  PROVE  OrderInv'
<1>1. /\ \A m \in Message : Unwritten(m) => Unwritten(m)'
      /\ \A c \in Callers, l \in Lanes : last'[c][l] <= LastPosted(c)'
  BY UnwrittenKept DEF OrderInv, OrderTypes
<1>2. \A i \in Carriers' : i \in Carriers /\ ready'[i] = ready[i] /\ ready[i].msg \in Message
  <2>1. \A i \in Carriers' : i \in Carriers /\ ready'[i] = ready[i]
    <3>1. CASE UNCHANGED ready
      BY <3>1 DEF Carriers
    <3>2. CASE ready' = Append(ready, [kind |-> "close"])
      <4>1. /\ Len(ready) \in Nat /\ Len(ready') = Len(ready) + 1
            /\ ready'[Len(ready) + 1] = [kind |-> "close"]
            /\ \A i \in 1 .. Len(ready) : ready'[i] = ready[i]
        BY <3>2 DEF OrderTypes
      <4>2. \A i \in 1 .. Len(ready') : i \in 1 .. Len(ready) \/ i = Len(ready) + 1
        BY <4>1
      <4>. QED
        BY <4>1, <4>2 DEF Carriers
    <3>. QED
      BY <3>1, <3>2
  <2>. QED
    BY <2>1, CarrierType DEF OrderTypes
<1>3. \A m \in Message : Leads(m) => Leads(m)'
  BY <1>1, <1>2 DEF Leads, Before
<1>4. CarriersInOrder'
  <2>1. ASSUME NEW i \in Carriers' PROVE Unwritten(ready[i].msg)'
    <3>1. PICK m \in Message : m = ready[i].msg
      BY <1>2
    <3>2. Unwritten(m)'
      BY <1>1, <1>2, <3>1 DEF OrderInv, CarriersInOrder
    <3>. QED
      BY <1>2, <3>1, <3>2 DEF Unwritten, LastPosted
  <2>2. \A i, j \in Carriers' : Ahead(i, j)' => Before(ready'[i].msg, ready'[j].msg)
    BY <1>2 DEF OrderInv, CarriersInOrder, Ahead
  <2>. QED
    BY <2>1, <2>2 DEF CarriersInOrder, Before
<1>. QED
  BY <1>1, <1>3, <1>4, OrderFrame DEF OrderTypes

\* Posting the message of a call that was not posted yet puts it behind all
\* that its thread sent before.
LEMMA PostOrder ==
  ASSUME TransportAssumption, OrderTypes, OrderInv,
         NEW m \in Message,
         ready' = Append(ready, [kind |-> "dispatch", msg |-> m]),
         UNCHANGED <<queue, low_queue, last, op, msg_in_flight>>,
         held'[Net] = 0,
         \A c \in Callers : LastPosted(c)' \in Int /\ LastPosted(c) <= LastPosted(c)',
         LastPosted(m.from) < m.no, m.no <= LastPosted(m.from)'
  PROVE  OrderInv'
<1>. DEFINE N == Len(ready) + 1
<1>1. /\ \A n \in Message : Unwritten(n) => Unwritten(n)'
      /\ \A c \in Callers, l \in Lanes : last'[c][l] <= LastPosted(c)'
  BY UnwrittenKept DEF OrderInv, OrderTypes
<1>2. \A n \in Message : Unwritten(n) => Before(n, m)
  <2>1. \A n \in Message : n.from \in Callers /\ n.no \in Int /\ LastPosted(n.from) \in Int
    BY NumberTypes DEF OrderTypes
  <2>. QED
    BY <2>1 DEF Unwritten, Before
<1>3. Unwritten(m)'
  <2>1. /\ m.from \in Callers /\ m.lane \in Lanes /\ m.no \in Int
        /\ last[m.from][m.lane] \in Int /\ LastPosted(m.from) \in Int
    BY NumberTypes DEF OrderTypes
  <2>2. last[m.from][m.lane] <= LastPosted(m.from)
    BY <2>1 DEF OrderInv
  <2>3. last[m.from][m.lane] < m.no
    BY <2>1, <2>2
  <2>. QED
    BY <2>3 DEF Unwritten
<1>4. /\ Len(ready) \in Nat /\ Len(ready') = N
      /\ ready'[N] = [kind |-> "dispatch", msg |-> m]
      /\ \A i \in 1 .. Len(ready) : ready'[i] = ready[i]
  BY DEF OrderTypes
<1>5. \A i \in Carriers' : \/ i \in Carriers /\ i < N /\ ready'[i] = ready[i] /\ ready[i].msg \in Message
                           \/ i = N
  <2>1. \A i \in 1 .. Len(ready') : (i \in 1 .. Len(ready) /\ i < N) \/ i = N
    BY <1>4
  <2>2. \A i \in Carriers' : (i \in Carriers /\ i < N /\ ready'[i] = ready[i]) \/ i = N
    BY <1>4, <2>1 DEF Carriers
  <2>. QED
    BY <2>2, CarrierType DEF OrderTypes
<1>6. ready'[N].msg = m /\ ready'[N].kind = "dispatch"
  BY <1>4
<1>. HIDE DEF N
<1>7. ASSUME NEW n \in Message, Leads(n) PROVE Leads(n)'
  <2>1. Unwritten(n)' /\ Before(n, m)
    BY <1>1, <1>2, <1>7 DEF Leads
  <2>2. \A j \in Carriers' : Before(n, ready'[j].msg)
    BY <1>5, <1>6, <1>7, <2>1 DEF Leads
  <2>. QED
    BY <2>1, <2>2 DEF Leads, Before
<1>8. ASSUME NEW i \in Carriers' PROVE Unwritten(ready[i].msg)'
  <2>1. PICK n \in Message : n = ready'[i].msg
    BY <1>5, <1>6
  <2>2. Unwritten(n)'
    BY <1>1, <1>3, <1>5, <1>6, <2>1 DEF OrderInv, CarriersInOrder
  <2>. QED
    BY <2>1, <2>2 DEF Unwritten, LastPosted
<1>9. ASSUME NEW i \in Carriers', NEW j \in Carriers', Ahead(i, j)'
      PROVE  Before(ready'[i].msg, ready'[j].msg)
  <2>1. i # N
    <3>. SUFFICES ASSUME i = N PROVE FALSE
      OBVIOUS
    <3>1. ready'[j].kind = "dispatch" /\ i < j
      BY <1>6, <1>9 DEF Ahead
    <3>. QED
      BY <1>4, <1>5, <3>1 DEF N
  <2>2. CASE j = N
    BY <1>2, <1>5, <1>6, <2>1, <2>2 DEF OrderInv, CarriersInOrder
  <2>3. CASE j # N
    BY <1>5, <1>9, <2>1, <2>3 DEF OrderInv, CarriersInOrder, Ahead
  <2>. QED
    BY <2>2, <2>3
<1>10. CarriersInOrder'
  BY <1>8, <1>9 DEF CarriersInOrder, Before
<1>. QED
  BY <1>1, <1>7, <1>10, OrderFrame DEF OrderTypes

\* A written message frees its number: all that waits is newer.
LEMMA WrittenOrder ==
  ASSUME TransportAssumption, OrderTypes, OrderInv, WriteDone
  PROVE  /\ OrderInv'
         /\ Link!Write(msg_in_flight.from, msg_in_flight.lane)
         /\ msg_in_flight.from \in Callers /\ msg_in_flight.lane \in Lanes
<1>1. /\ op = "write" /\ op' = "timer"
      /\ last' = [last EXCEPT ![msg_in_flight.from][msg_in_flight.lane] = msg_in_flight.no]
      /\ UNCHANGED <<queue, low_queue, ready, calls, held>>
  BY DEF WriteDone, callVars
<1>2. PICK f \in Message : f = msg_in_flight
  BY <1>1 DEF OrderTypes, WriteType
<1>3. /\ f.from \in Callers /\ f.lane \in Lanes /\ f.no \in Int
      /\ last[f.from][f.lane] \in Int
      /\ calls[f.from] \in Int /\ LastPosted(f.from) \in Int /\ LastPosted(f.from) <= calls[f.from]
  BY NumberTypes DEF OrderTypes
<1>4. \A c \in Callers, l \in Lanes :
         last'[c][l] = IF c = f.from /\ l = f.lane THEN f.no ELSE last[c][l]
  BY <1>1, <1>2 DEF OrderTypes, CallType
<1>5. Leads(f) /\ Unwritten(f)
  BY <1>1, <1>2 DEF OrderInv, FlightLeads, Leads
<1>6. ASSUME NEW n \in Message, Unwritten(n), Before(f, n) PROVE Unwritten(n)'
  <2>1. n.from \in Callers /\ n.lane \in Lanes
    BY NumberTypes DEF OrderTypes
  <2>2. last'[n.from][n.lane] < n.no
    BY <1>4, <1>6, <2>1 DEF Unwritten, Before
  <2>. QED
    BY <1>1, <1>6, <2>2 DEF Unwritten, LastPosted
<1>7. ASSUME NEW n \in Message, Leads(n), Before(f, n) PROVE Leads(n)'
  BY <1>1, <1>6, <1>7 DEF Leads, Before, Carriers
<1>8. LaneLeads(queue)' /\ LaneLeads(low_queue)'
  <2>1. /\ \A i \in 1 .. Len(queue) : /\ queue[i] \in Message /\ Leads(queue[i])
                                      /\ Before(f, queue[i])
        /\ \A i \in 1 .. Len(low_queue) : /\ low_queue[i] \in Message /\ Leads(low_queue[i])
                                          /\ Before(f, low_queue[i])
    BY <1>1, <1>2 DEF OrderTypes, WriteType, OrderInv, LaneLeads, FlightLeads
  <2>2. /\ \A i \in 1 .. Len(queue) : queue[i] \in LeadNext
        /\ \A i \in 1 .. Len(low_queue) : low_queue[i] \in LeadNext
    <3>1. \A n \in Message : Leads(n) /\ Before(f, n) => n \in LeadNext
      BY <1>7 DEF LeadNext
    <3>. QED
      BY <2>1, <3>1
  <2>3. \A n \in LeadNext : Leads(n)'
    BY DEF LeadNext
  <2>. QED
    BY <1>1, <2>2, <2>3 DEF LaneLeads, Leads, Unwritten, LastPosted, Before, Carriers
<1>9. CarriersInOrder'
  <2>1. ASSUME NEW i \in Carriers PROVE Unwritten(ready[i].msg)'
    <3>1. PICK n \in Message : n = ready[i].msg
      BY CarrierType DEF OrderTypes
    <3>2. Unwritten(n) /\ Before(f, n)
      BY <1>5, <3>1 DEF OrderInv, CarriersInOrder, Leads
    <3>3. Unwritten(n)'
      BY <1>6, <3>2
    <3>. QED
      BY <1>1, <3>1, <3>3 DEF Unwritten, LastPosted
  <2>. QED
    BY <1>1, <2>1 DEF OrderInv, CarriersInOrder, Carriers, Ahead, Before
<1>10. \A c \in Callers, l \in Lanes : last'[c][l] <= LastPosted(c)'
  BY <1>1, <1>4, <1>5 DEF OrderInv, LastPosted, Unwritten
<1>11. OrderInv'
  BY <1>1, <1>8, <1>9, <1>10 DEF OrderInv, LaneInOrder, Before, FlightLeads
<1>12. f.no \in (last[f.from][f.lane] + 1) .. calls[f.from]
  BY <1>3, <1>5 DEF Unwritten
<1>13. Link!Write(f.from, f.lane)
  BY <1>1, <1>2, <1>12 DEF Link!Write
<1>. QED
  BY <1>2, <1>3, <1>11, <1>13

\* A new session starts with nothing to send, and a dead one leaves nothing.
LEMMA ClearedOrder ==
  ASSUME OrderInv, queue' = <<>>, low_queue' = <<>>, ready' = <<>>, op' # "write",
         UNCHANGED <<last, calls, held>>
  PROVE  OrderInv'
<1>1. Carriers' = {}
  BY DEF Carriers
<1>. QED
  BY <1>1 DEF OrderInv, LaneInOrder, LaneLeads, CarriersInOrder, FlightLeads, LastPosted

\* A frame's handler may send a message on the thread of the io_context itself.
LEMMA FrameOrder ==
  ASSUME TransportAssumption, OrderTypes, OrderInv, ReadFrame
  PROVE  OrderInv' /\ (UNCHANGED <<calls, last>> \/ Link!Call(Net))
<1>1. /\ UNCHANGED <<queue, low_queue, op, msg_in_flight, held, last>>
      /\ Net \in Callers /\ held[Net] = 0
  BY DEF ReadFrame, writeVars, OrderInv, TransportAssumption
<1>2. CASE ready' = Append(ready, [kind |-> "close"]) /\ UNCHANGED calls
  <2>1. \A c \in Callers : LastPosted(c)' \in Int /\ LastPosted(c) <= LastPosted(c)'
    BY <1>1, <1>2, NumberTypes DEF OrderTypes, LastPosted
  <2>. QED
    BY <1>1, <1>2, <2>1, QuietOrder
<1>3. ASSUME NEW l \in Lanes, calls[Net] < MaxCalls,
             calls' = [calls EXCEPT ![Net] = @ + 1],
             ready' = Append(ready, [kind |-> "dispatch",
                                     msg |-> [from |-> Net, no |-> calls[Net] + 1, lane |-> l]])
      PROVE  OrderInv' /\ Link!Call(Net)
  <2>1. calls \in [Callers -> Nat]
    BY DEF OrderTypes, CallType, TransportAssumption
  <2>2. PICK m \in Message : m = [from |-> Net, no |-> calls[Net] + 1, lane |-> l]
    BY <1>1, <1>3, <2>1 DEF Message, TransportAssumption
  <2>3. \A c \in Callers : LastPosted(c)' \in Int /\ LastPosted(c) <= LastPosted(c)'
    BY <1>1, <1>3, <2>1 DEF LastPosted
  <2>4. LastPosted(m.from) < m.no /\ m.no <= LastPosted(m.from)'
    BY <1>1, <1>3, <2>1, <2>2 DEF LastPosted
  <2>. QED
    BY <1>1, <1>3, <2>2, <2>3, <2>4, PostOrder DEF Link!Call
<1>. QED
  BY <1>2, <1>3 DEF ReadFrame

\* queue_send of another thread, up to the mutex.
LEMMA CopyOrder ==
  ASSUME TransportAssumption, OrderTypes, epoch \in Nat, OrderInv, NEW c \in Callers, CopySession(c)
  PROVE  OrderInv' /\ Link!Call(c)
<1>1. /\ UNCHANGED <<queue, low_queue, op, msg_in_flight, ready, last>>
      /\ calls' = [calls EXCEPT ![c] = @ + 1]
      /\ held' = [held EXCEPT ![c] = IF active THEN epoch ELSE 0]
      /\ c # Net /\ held[c] = 0
  BY DEF CopySession, writeVars
<1>2. calls \in [Callers -> Nat] /\ held \in [Callers -> Nat]
  BY DEF OrderTypes, CallType, TransportAssumption
<1>3. held'[Net] = 0
  BY <1>1, <1>2, TransportAssumption DEF OrderInv, TransportAssumption
<1>4. \A d \in Callers : LastPosted(d)' \in Int /\ LastPosted(d) <= LastPosted(d)'
  BY <1>1, <1>2 DEF LastPosted
<1>. QED
  BY <1>1, <1>3, <1>4, QuietOrder DEF Link!Call

\* The rest of queue_send: the message lands behind the others of its thread,
\* or on an io_context nobody runs any more.
LEMMA PostMessageOrder ==
  ASSUME TransportAssumption, OrderTypes, OrderInv, NEW c \in Callers, PostMessage(c)
  PROVE  OrderInv' /\ UNCHANGED <<calls, last>>
<1>1. /\ UNCHANGED <<queue, low_queue, op, msg_in_flight, last, calls>>
      /\ held[c] # 0 /\ held' = [held EXCEPT ![c] = 0]
  BY DEF PostMessage, writeVars
<1>2. calls \in [Callers -> 0 .. MaxCalls] /\ held \in [Callers -> Nat] /\ calls[c] # 0
  BY <1>1 DEF OrderTypes, CallType, TransportAssumption
<1>3. held'[Net] = 0
  BY <1>1, <1>2, TransportAssumption DEF OrderInv, TransportAssumption
<1>4. \A d \in Callers : LastPosted(d)' \in Int /\ LastPosted(d) <= LastPosted(d)'
  BY <1>1, <1>2, TransportAssumption DEF LastPosted, TransportAssumption
<1>5. PICK l \in Lanes : PostTo(held[c], [kind |-> "dispatch",
                                          msg |-> [from |-> c, no |-> calls[c], lane |-> l]])
  BY DEF PostMessage
<1>6. PICK m \in Message : m = [from |-> c, no |-> calls[c], lane |-> l]
  <2>1. calls[c] \in 1 .. MaxCalls
    BY <1>2, TransportAssumption DEF TransportAssumption
  <2>. QED
    BY <2>1 DEF Message
<1>7. LastPosted(m.from) < m.no /\ m.no <= LastPosted(m.from)'
  BY <1>1, <1>2, <1>6, TransportAssumption DEF LastPosted, TransportAssumption
<1>8. CASE UNCHANGED ready
  BY <1>1, <1>3, <1>4, <1>8, QuietOrder
<1>9. CASE ready' = Append(ready, [kind |-> "dispatch", msg |-> m])
  BY <1>1, <1>3, <1>4, <1>7, <1>9, PostOrder
<1>. QED
  BY <1>1, <1>5, <1>6, <1>8, <1>9 DEF PostTo

-----------------------------------------------------------------------------
(* The refinement. *)

\* Every step keeps the order and is a step of the lossy link, or changes
\* neither what was called nor what was written.
LEMMA LinkStep ==
  ASSUME TransportAssumption, TransportInv, OrderInv, [Next]_vars
  PROVE  OrderInv' /\ [Link!Next]_(Link!vars)
<1>1. OrderTypes /\ write_in_flight \in BOOLEAN /\ epoch \in Nat
  BY DEF TransportInv, TypeOK, OrderTypes, FlagType, RunType, TransportAssumption
<1>2. SUFFICES OrderInv' /\ (\/ UNCHANGED <<calls, last>>
                             \/ \E c \in Callers : Link!Call(c)
                             \/ \E c \in Callers, l \in Lanes : Link!Write(c, l))
  BY Zenon DEF Link!Next, Link!vars
<1>3. CASE Dispatch
  BY <1>1, <1>3, DispatchOrder DEF Dispatch, callVars
<1>4. CASE Enqueue
  BY <1>1, <1>4, EnqueueOrder DEF Enqueue, callVars
<1>5. CASE TimerFires
  BY <1>1, <1>5, TimerOrder DEF TimerFires, callVars
<1>6. CASE Close
  <2>1. CarriersInOrder' /\ \A m \in Message : Leads(m) => Leads(m)'
    BY <1>1, <1>6, HeadServed DEF Close, callVars
  <2>2. OrderInv'
    BY <1>1, <1>6, <2>1, OrderFrame DEF OrderTypes, OrderInv, Close, writeVars, callVars, LastPosted
  <2>. QED
    BY <1>6, <2>2 DEF Close, callVars
<1>7. CASE WriteDone
  BY <1>1, <1>7, WrittenOrder
<1>8. CASE ReadFrame
  BY <1>1, <1>8, FrameOrder DEF TransportAssumption
<1>9. ASSUME NEW c \in Callers, CopySession(c)
      PROVE  OrderInv' /\ \E d \in Callers : Link!Call(d)
  BY <1>1, <1>9, CopyOrder
<1>10. ASSUME NEW c \in Callers, PostMessage(c)
       PROVE  OrderInv' /\ UNCHANGED <<calls, last>>
  BY <1>1, <1>10, PostMessageOrder
<1>11. CASE Publish \/ Teardown
  <2>1. /\ queue' = <<>> /\ low_queue' = <<>> /\ ready' = <<>> /\ op' # "write"
        /\ UNCHANGED <<last, calls, held>>
    BY <1>11 DEF Publish, Teardown, SessionDies, callVars, TransportInv, PathInv, SessionShape
  <2>. QED
    BY <2>1, ClearedOrder
<1>12. CASE \/ Test \/ ConnectFails \/ StartAsync \/ IocReturns \/ Wake \/ WriteFails \/ ReadFails
            \/ Signal \/ StopFlag \/ StopCopy \/ StopPost \/ PeerLost \/ UNCHANGED vars
  <2>1. /\ UNCHANGED <<queue, low_queue, msg_in_flight, last, calls, held>>
        /\ op' = "write" => op = "write"
        /\ UNCHANGED ready \/ ready' = Append(ready, [kind |-> "close"])
    BY <1>12 DEF Test, ConnectFails, StartAsync, IocReturns, Wake, WriteFails, ReadFails, Signal,
       StopFlag, StopCopy, StopPost, PostTo, PeerLost, vars, writeVars, callVars
  <2>2. \A c \in Callers : LastPosted(c)' \in Int /\ LastPosted(c) <= LastPosted(c)'
    BY <1>1, <2>1, NumberTypes DEF OrderTypes, LastPosted
  <2>. QED
    BY <1>1, <2>1, <2>2, QuietOrder DEF OrderInv
<1>. QED
  BY <1>3, <1>4, <1>5, <1>6, <1>7, <1>8, <1>9, <1>10, <1>11, <1>12
     DEF Next, Finished

\* Seen from the threads that call queue_send, the transport is a lossy link: a
\* thread's messages on a lane are written in the order of its calls and at most
\* once each, through every disconnection and reconnection.
THEOREM TransportIsLossyLink == Spec => InOrderAtMostOnce
<1>1. Init => OrderInv /\ Link!Init
  BY OrderInit DEF Init, Link!Init
<1>2. TransportInv /\ OrderInv /\ [Next]_vars => OrderInv' /\ [Link!Next]_(Link!vars)
  BY LinkStep, TransportAssumption
<1>. QED
  BY <1>1, <1>2, TransportInvariant, PTL DEF Spec, InOrderAtMostOnce, Link!Spec
=============================================================================
