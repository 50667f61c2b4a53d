------------------------------ MODULE EventQueue ------------------------------
(***************************************************************************)
(* What the event queue of devAdapter promises its users: a bounded FIFO   *)
(* shared by every thread of the process, where a post is one atomic step  *)
(* that waits while the queue is full, and the event loop takes messages   *)
(* in the order they were posted.  It promises no more: a post may fail,   *)
(* which its caller is not told, and the queue may hold what an earlier    *)
(* process left in it.  MsgQueue is the implementation of                  *)
(* code/src/msg_queue.c and is shown to implement this module; Session,    *)
(* Timer and Requests use the two operations below.                        *)
(***************************************************************************)
EXTENDS Naturals, Sequences

CONSTANTS Msg,    \* the messages
          QMax    \* messages the kernel queue holds (msg_qbytes / MAX_TEXT)

VARIABLE queue

\* createMsgQueue(): msgget() finds the queue as it was left.
Init == \E k \in 0..QMax : queue \in [1..k -> Msg]

\* msgsnd() succeeds; the caller is held back while the queue is full.
Sent(m) == /\ Len(queue) < QMax
           /\ queue' = Append(queue, m)

\* postMsgQueue(): a msgsnd() that fails is logged, and the message is lost.
Post(m) == Sent(m) \/ UNCHANGED queue

\* getMsgQueue(): the oldest message leaves the queue.
Get == /\ queue # <<>>
       /\ queue' = Tail(queue)

Next == Get \/ \E m \in Msg : Post(m)

Spec == Init /\ [][Next]_queue
=============================================================================
