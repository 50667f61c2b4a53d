------------------------------ MODULE MsgQueue ------------------------------
(***************************************************************************)
(* The event queue of devAdapter as code/src/msg_queue.c builds it: a      *)
(* System V message queue (key 1556) written by the server, receive, timer *)
(* and main threads and read by the event loop alone.  postMsgQueue()      *)
(* numbers a message from the shared counter seq_id and hands it to        *)
(* msgsnd() under one mutex; msgsnd() blocks, with the mutex held, while   *)
(* the kernel queue is full.                                               *)
(*                                                                         *)
(* The kernel queue outlives the process: createMsgQueue() attaches to     *)
(* whatever an earlier run left behind and delMsgQueue() never removes it. *)
(* The event loop reads the queue unless it is in pthread_join(), where    *)
(* freeReceThread() (code/src/server.c) waits for a receive thread to end, *)
(* which may itself be in postMsgQueue() (joining).                        *)
(*                                                                         *)
(* boot and last are history variables: boot is the incarnation of the     *)
(* process, last the number of the latest message of this incarnation that *)
(* the event loop took.                                                    *)
(***************************************************************************)
EXTENDS Naturals, Sequences, FiniteSets

CONSTANTS Threads,  \* threads that post
          Types,    \* message types
          NoThread, \* "nobody holds the mutex"
          QMax,     \* messages the kernel queue holds
          MaxSeq,   \* bound: messages numbered by one incarnation
          MaxBoot   \* bound: incarnations of the process

ASSUME QueueAssumption ==
    /\ Types # {}
    /\ NoThread \notin Threads
    /\ QMax \in Nat \ {0}
    /\ MaxSeq \in Nat
    /\ MaxBoot \in Nat

VARIABLES queue,    \* the kernel queue
          seq_id,   \* g_msg_queue->seq_id
          mutex,    \* holder of g_msg_queue->para_t->mutex_
          pc,       \* where each thread is in postMsgQueue()
          data,     \* its struct msg_st
          joining,  \* thread the event loop is in pthread_join() for
          boot,     \* history: incarnation of the process
          last      \* history: last number taken in this incarnation

vars == <<queue, seq_id, mutex, pc, data, joining, boot, last>>

\* struct msg_st: type and number; boot is history.
Message == [type : Types, number : Nat, boot : Nat]

PostPc == {"idle", "lock", "number", "send", "unlock"}

Unset == [type |-> CHOOSE ty \in Types : TRUE, number |-> 0, boot |-> 0]

\* The counter left as malloc() zeroed it.
MutInit == /\ queue = <<>>
           /\ seq_id = 0
           /\ mutex = NoThread
           /\ pc = [t \in Threads |-> "idle"]
           /\ data = [t \in Threads |-> Unset]
           /\ joining = NoThread
           /\ boot = 1
           /\ last = 0

\* createMsgQueue() on a fresh system.
Init == /\ queue = <<>>
        /\ seq_id = 1
        /\ mutex = NoThread
        /\ pc = [t \in Threads |-> "idle"]
        /\ data = [t \in Threads |-> Unset]
        /\ joining = NoThread
        /\ boot = 1
        /\ last = 0

\* Calls whose message has no number yet.
Unnumbered == {t \in Threads : pc[t] \in {"lock", "number"}}

\* A thread builds a message and calls postMsgQueue().
Call(t, ty) ==
    /\ pc[t] = "idle"
    /\ seq_id + Cardinality(Unnumbered) <= MaxSeq
    /\ data' = [data EXCEPT ![t] = [type |-> ty, number |-> 0, boot |-> boot]]
    /\ pc' = [pc EXCEPT ![t] = "lock"]
    /\ UNCHANGED <<queue, seq_id, mutex, joining, boot, last>>

\* The order an earlier version of the code had: the lock taken only around
\* msgsnd(), here dropped altogether.
MutLock(t) ==
    /\ pc[t] = "lock"
    /\ pc' = [pc EXCEPT ![t] = "number"]
    /\ UNCHANGED <<queue, seq_id, mutex, data, joining, boot, last>>

\* pthread_mutex_lock(g_msg_queue->para_t->mutex_)
Lock(t) ==
    /\ pc[t] = "lock"
    /\ mutex = NoThread
    /\ mutex' = t
    /\ pc' = [pc EXCEPT ![t] = "number"]
    /\ UNCHANGED <<queue, seq_id, data, joining, boot, last>>

\* data->msg_number = seq_id; seq_id = seq_id + 1
Number(t) ==
    /\ pc[t] = "number"
    /\ data' = [data EXCEPT ![t].number = seq_id]
    /\ seq_id' = seq_id + 1
    /\ pc' = [pc EXCEPT ![t] = "send"]
    /\ UNCHANGED <<queue, mutex, joining, boot, last>>

\* msgsnd() overruns a full queue instead of waiting.
MutSend(t) ==
    /\ pc[t] = "send"
    /\ queue' = Append(queue, data[t])
    /\ pc' = [pc EXCEPT ![t] = "unlock"]
    /\ UNCHANGED <<seq_id, mutex, data, joining, boot, last>>

\* msgsnd() succeeds; it waits, mutex held, until the queue has room.
Send(t) ==
    /\ pc[t] = "send"
    /\ Len(queue) < QMax
    /\ queue' = Append(queue, data[t])
    /\ pc' = [pc EXCEPT ![t] = "unlock"]
    /\ UNCHANGED <<seq_id, mutex, data, joining, boot, last>>

\* An early return on the error path, mutex still held.
MutSendFail(t) ==
    /\ pc[t] = "send"
    /\ pc' = [pc EXCEPT ![t] = "idle"]
    /\ UNCHANGED <<queue, seq_id, mutex, data, joining, boot, last>>

\* msgsnd() == -1 (a signal, for instance): the error is logged, the message
\* is lost and its number is spent.
SendFail(t) ==
    /\ pc[t] = "send"
    /\ pc' = [pc EXCEPT ![t] = "unlock"]
    /\ UNCHANGED <<queue, seq_id, mutex, data, joining, boot, last>>

\* pthread_mutex_unlock(g_msg_queue->para_t->mutex_)
Unlock(t) ==
    /\ pc[t] = "unlock"
    /\ mutex' = NoThread
    /\ pc' = [pc EXCEPT ![t] = "idle"]
    /\ UNCHANGED <<queue, seq_id, data, joining, boot, last>>

\* getMsgQueue() with msgtype 0: the oldest message, whoever posted it.  (An
\* error return leaves every variable as it is: the event loop calls again.)
\* Its handler may be the one that tears a client down: freeReceThread() then
\* waits for the receive thread, wherever in postMsgQueue() that thread is ...
Get ==
    /\ joining = NoThread
    /\ queue # <<>>
    /\ queue' = Tail(queue)
    /\ last' = IF Head(queue).boot = boot THEN Head(queue).number ELSE last
    /\ joining' \in Threads \cup {NoThread}
    /\ UNCHANGED <<seq_id, mutex, pc, data, boot>>

\* ... and goes on when the thread has ended, outside of postMsgQueue().
Joined ==
    /\ joining # NoThread
    /\ pc[joining] = "idle"
    /\ joining' = NoThread
    /\ UNCHANGED <<queue, seq_id, mutex, pc, data, boot, last>>

\* The process dies and is started again: createMsgQueue() resets the counter
\* and the mutex but attaches to the queue as it was left.
Restart ==
    /\ boot < MaxBoot
    /\ boot' = boot + 1
    /\ seq_id' = 1
    /\ last' = 0
    /\ mutex' = NoThread
    /\ joining' = NoThread
    /\ pc' = [t \in Threads |-> "idle"]
    /\ data' = [t \in Threads |-> Unset]
    /\ UNCHANGED queue

PostStep(t) == Lock(t) \/ Number(t) \/ Send(t) \/ Unlock(t)

Next == \/ \E t \in Threads, ty \in Types : Call(t, ty)
        \/ \E t \in Threads : PostStep(t) \/ SendFail(t)
        \/ Joined
        \/ Get
        \/ Restart

\* The scheduler runs every thread.  The event loop reads on whenever it is
\* not in pthread_join(), and pthread_join() returns once the thread has ended.
Fairness == /\ \A t \in Threads : WF_vars(PostStep(t))
            /\ WF_vars(Get)
            /\ WF_vars(Joined)

Spec == Init /\ [][Next]_vars

FairSpec == Spec /\ Fairness

-----------------------------------------------------------------------------
\* Types of the state of g_msg_queue_para and of the threads in it.
TypeOK ==
    /\ queue \in Seq(Message)
    /\ seq_id \in Nat \ {0}
    /\ mutex \in Threads \cup {NoThread}
    /\ pc \in [Threads -> PostPc]
    /\ data \in [Threads -> Message]
    /\ joining \in Threads \cup {NoThread}
    /\ boot \in Nat
    /\ last \in Nat

\* Whoever is between lock and unlock of postMsgQueue() is the holder.
HolderOK == \A t \in Threads : pc[t] \in {"number", "send", "unlock"} => mutex = t

(* The event loop sees messages of one incarnation of the process in the   *)
(* order of their numbers, and sees what an earlier incarnation left in    *)
(* the kernel queue before anything of its own: numbering and msgsnd() are *)
(* one critical section of postMsgQueue(), and msgget() keeps the queue.   *)
NumbersInOrder ==
    /\ \A i, j \in 1..Len(queue) : i < j =>
          \/ queue[i].boot < queue[j].boot
          \/ /\ queue[i].boot = queue[j].boot
             /\ queue[i].number < queue[j].number
    /\ \A i \in 1..Len(queue) : queue[i].boot = boot => queue[i].number > last

(* What makes NumbersInOrder inductive: numbers in use are below seq_id,   *)
(* nothing is from a later incarnation, and a thread about to msgsnd()     *)
(* carries a number above every one of its incarnation in the queue.       *)
NumbersSpent ==
    /\ last < seq_id
    /\ \A i \in 1..Len(queue) :
          /\ queue[i].boot <= boot
          /\ queue[i].boot = boot => queue[i].number < seq_id
    /\ \A t \in Threads : pc[t] # "idle" => data[t].boot = boot
    /\ \A t \in Threads : pc[t] = "send" =>
          /\ last < data[t].number
          /\ data[t].number < seq_id
          /\ \A i \in 1..Len(queue) :
                queue[i].boot = boot => queue[i].number < data[t].number

(* The inductive invariant of the proofs: postMsgQueue()'s critical section *)
(* and what it protects, the numbers and their order in the kernel queue.  *)
OrderInv == HolderOK /\ NumbersSpent /\ NumbersInOrder

(* Refinement: with numbers and mutex hidden, postMsgQueue() and           *)
(* getMsgQueue() behave as the atomic bounded queue EventQueue.            *)
TypesOf(q) == [i \in 1..Len(q) |-> q[i].type]

EQ == INSTANCE EventQueue WITH queue <- TypesOf(queue), Msg <- Types

ImplementsEventQueue == EQ!Spec

\* The event loop waits for a thread inside postMsgQueue() while the queue is
\* full: the room that thread needs (or the thread that holds the mutex it
\* waits for) only the event loop could make.
Wedged == /\ joining # NoThread
          /\ pc[joining] # "idle"
          /\ Len(queue) = QMax

(* A thread that holds the queue's mutex gives it up, unless the event     *)
(* loop is wedged in pthread_join(): a post blocked in msgsnd() is         *)
(* released by the event loop, also across the teardown of a client, and   *)
(* every path of postMsgQueue(), the failing msgsnd() included, unlocks.   *)
HolderReleases ==
    \A t \in Threads : (mutex = t) ~> (mutex # t \/ Wedged)
=============================================================================
