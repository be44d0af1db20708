------------------------------ MODULE LossyLink ------------------------------
(***************************************************************************)
(* What BotTransport promises to the threads that call queue_send, seen    *)
(* from outside: a call is either written to a socket or lost, a message   *)
(* is written at most once, and the messages one thread sends on one lane  *)
(* reach the socket in the order of the calls, across reconnections too.   *)
(* Nothing is promised between two lanes or two threads.                   *)
(***************************************************************************)
EXTENDS Naturals

CONSTANTS Callers,      \* the threads that call queue_send
          Lanes         \* the send lanes: main and low priority

VARIABLES calls,        \* calls[c]: how many times c has called queue_send
          last          \* last[c][l]: number of c's last call written on lane l

vars == <<calls, last>>

Init == /\ calls = [c \in Callers |-> 0]
        /\ last = [c \in Callers |-> [l \in Lanes |-> 0]]

Call(c) == /\ calls' = [calls EXCEPT ![c] = @ + 1]
           /\ UNCHANGED last

\* Skipping a number is losing the message that had it.
Write(c, l) == \E n \in (last[c][l] + 1) .. calls[c] :
                  /\ last' = [last EXCEPT ![c][l] = n]
                  /\ UNCHANGED calls

Next == \E c \in Callers : Call(c) \/ \E l \in Lanes : Write(c, l)

Spec == Init /\ [][Next]_vars
=============================================================================
