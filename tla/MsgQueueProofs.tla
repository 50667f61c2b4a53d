--------------------------- MODULE MsgQueueProofs ---------------------------
(***************************************************************************)
(* Theorems about the event queue of code/src/msg_queue.c, for any number  *)
(* of threads, any capacity and any number of restarts of the process.     *)
(***************************************************************************)
EXTENDS MsgQueue, SequenceTheorems, TLAPS

\* The message a fresh thread holds is a message.
LEMMA UnsetType == Unset \in Message
  BY QueueAssumption DEF Unset, Message

\* Every step of postMsgQueue(), getMsgQueue() and a restart keeps the types.
LEMMA TypeStep == TypeOK /\ [Next]_vars => TypeOK'
<1> SUFFICES ASSUME TypeOK, [Next]_vars PROVE TypeOK'
  OBVIOUS
<1> USE DEF TypeOK
<1>1. ASSUME NEW t \in Threads, NEW ty \in Types, Call(t, ty) PROVE TypeOK'
  <2>1. data' \in [Threads -> Message]
    BY <1>1 DEF Call, Message
  <2>2. pc' \in [Threads -> PostPc]
    BY <1>1 DEF Call, PostPc
  <2> QED BY <1>1, <2>1, <2>2 DEF Call
<1>2. ASSUME NEW t \in Threads, Lock(t) PROVE TypeOK'
  BY <1>2 DEF Lock, PostPc
<1>3. ASSUME NEW t \in Threads, Number(t) PROVE TypeOK'
  <2>1. data' \in [Threads -> Message]
    BY <1>3 DEF Number, Message
  <2>2. pc' \in [Threads -> PostPc]
    BY <1>3 DEF Number, PostPc
  <2> QED BY <1>3, <2>1, <2>2 DEF Number
<1>4. ASSUME NEW t \in Threads, Send(t) PROVE TypeOK'
  BY <1>4 DEF Send, PostPc
<1>5. ASSUME NEW t \in Threads, SendFail(t) PROVE TypeOK'
  BY <1>5 DEF SendFail, PostPc
<1>6. ASSUME NEW t \in Threads, Unlock(t) PROVE TypeOK'
  BY <1>6 DEF Unlock, PostPc
<1>7. CASE Get
  <2>1. Head(queue) \in Message /\ Tail(queue) \in Seq(Message)
    BY <1>7 DEF Get
  <2> QED BY <1>7, <2>1 DEF Get, Message
<1>8. CASE Restart
  BY <1>8, UnsetType DEF Restart, PostPc
<1>9. CASE UNCHANGED vars
  BY <1>9 DEF vars
<1>10. CASE Joined
  BY <1>10 DEF Joined
<1> QED BY <1>1, <1>2, <1>3, <1>4, <1>5, <1>6, <1>7, <1>8, <1>9, <1>10 DEF Next, PostStep

\* The state of g_msg_queue_para keeps its types.
THEOREM QueueTypes == Spec => []TypeOK
<1>1. Init => TypeOK
  BY UnsetType DEF Init, TypeOK, PostPc
<1> QED BY <1>1, TypeStep, PTL DEF Spec

\* Between lock and unlock of postMsgQueue() there is one thread at a time,
\* and numbers stay in order: each step in turn.
LEMMA OrderStep == TypeOK /\ OrderInv /\ [Next]_vars => OrderInv'
<1> SUFFICES ASSUME TypeOK, OrderInv, [Next]_vars PROVE OrderInv'
  OBVIOUS
<1> USE QueueAssumption DEF OrderInv, TypeOK
<1>1. ASSUME NEW t \in Threads, NEW ty \in Types, Call(t, ty) PROVE OrderInv'
  <2>1. HolderOK'
    BY <1>1 DEF Call, HolderOK
  <2>2. NumbersInOrder'
    BY <1>1 DEF Call, NumbersInOrder
  <2>3. NumbersSpent'
    BY <1>1 DEF Call, NumbersSpent
  <2> QED BY <2>1, <2>2, <2>3
<1>2. ASSUME NEW t \in Threads, Lock(t) PROVE OrderInv'
  <2>1. HolderOK'
    BY <1>2 DEF Lock, HolderOK
  <2>2. NumbersInOrder'
    BY <1>2 DEF Lock, NumbersInOrder
  <2>3. NumbersSpent'
    BY <1>2 DEF Lock, NumbersSpent
  <2> QED BY <2>1, <2>2, <2>3
<1>3. ASSUME NEW t \in Threads, Number(t) PROVE OrderInv'
  <2>1. HolderOK'
    BY <1>3 DEF Number, HolderOK
  <2>2. NumbersInOrder'
    BY <1>3 DEF Number, NumbersInOrder
  <2>3. NumbersSpent'
    <3>1. \A i \in 1..Len(queue) : queue[i] \in Message
      OBVIOUS
    <3>2. \A u \in Threads : u # t => pc[u] # "send"
      BY <1>3 DEF Number, HolderOK
    <3>3. /\ data' = [data EXCEPT ![t].number = seq_id] /\ seq_id' = seq_id + 1
          /\ UNCHANGED <<queue, boot, last>> /\ pc' = [pc EXCEPT ![t] = "send"]
          /\ pc[t] = "number"
      BY <1>3 DEF Number
    <3>4. data'[t].number = seq_id /\ data'[t].boot = data[t].boot
      BY <3>3 DEF Message
    <3>5. \A u \in Threads : u # t => data'[u] = data[u] /\ pc'[u] = pc[u]
      BY <3>3
    <3>6. data[t].boot = boot
      BY <3>3 DEF NumbersSpent
    <3>7. ASSUME NEW u \in Threads, pc'[u] = "send" PROVE u = t
      BY <3>2, <3>5, <3>7
    <3>8. \A i \in 1..Len(queue) : /\ queue[i].boot <= boot
                                   /\ queue[i].boot = boot => queue[i].number < seq_id
      BY DEF NumbersSpent
    <3>9. last < seq_id /\ seq_id < seq_id + 1
      BY DEF NumbersSpent
    <3>10. \A i \in 1..Len(queue) : queue[i].number \in Nat
      BY <3>1 DEF Message
    <3>11. \A i \in 1..Len(queue') : /\ queue'[i].boot <= boot'
                                     /\ queue'[i].boot = boot' => queue'[i].number < seq_id'
      BY <3>3, <3>8, <3>9, <3>10
    <3>12. \A u \in Threads : pc'[u] # "idle" => data'[u].boot = boot'
      BY <3>3, <3>4, <3>5, <3>6 DEF NumbersSpent
    <3>13. ASSUME NEW u \in Threads, pc'[u] = "send"
           PROVE  /\ last' < data'[u].number
                  /\ data'[u].number < seq_id'
                  /\ \A i \in 1..Len(queue') :
                        queue'[i].boot = boot' => queue'[i].number < data'[u].number
      <4>1. data'[u].number = seq_id
        BY <3>4, <3>7, <3>13
      <4> QED BY <3>3, <3>8, <3>9, <4>1
    <3>14. last' < seq_id'
      BY <3>3, <3>9
    <3> QED BY <3>11, <3>12, <3>13, <3>14 DEF NumbersSpent
  <2> QED BY <2>1, <2>2, <2>3
<1>4. ASSUME NEW t \in Threads, Send(t) PROVE OrderInv'
  <2>1. HolderOK'
    BY <1>4 DEF Send, HolderOK
  <2>2. /\ Len(queue') = Len(queue) + 1
        /\ queue'[Len(queue) + 1] = data[t]
        /\ \A i \in 1..Len(queue) : queue'[i] = queue[i]
    BY <1>4 DEF Send
  <2>3. data[t].boot = boot
    BY <1>4 DEF Send, NumbersSpent
  <2>4. NumbersInOrder'
    <3>1. \A i \in 1..Len(queue) : queue[i].boot <= boot
      BY DEF NumbersSpent
    <3>2. \A i \in 1..Len(queue) :
             queue[i] \in Message /\ (queue[i].boot = boot => queue[i].number < data[t].number)
      BY <1>4 DEF Send, NumbersSpent
    <3>3. last < data[t].number
      BY <1>4 DEF Send, NumbersSpent
    <3>4. data[t] \in Message
      OBVIOUS
    <3>5. boot' = boot /\ last' = last
      BY <1>4 DEF Send
    <3>6. ASSUME NEW i \in 1..Len(queue'), NEW j \in 1..Len(queue'), i < j
          PROVE  \/ queue'[i].boot < queue'[j].boot
                 \/ queue'[i].boot = queue'[j].boot /\ queue'[i].number < queue'[j].number
      <4>1. CASE j = Len(queue) + 1
        <5>1. queue'[j] = data[t] /\ i \in 1..Len(queue) /\ queue'[i] = queue[i]
          BY <2>2, <3>6, <4>1
        <5> QED BY <5>1, <2>3, <3>1, <3>2, <3>4 DEF Message
      <4>2. CASE j # Len(queue) + 1
        <5>1. i \in 1..Len(queue) /\ j \in 1..Len(queue)
          BY <2>2, <3>6, <4>2
        <5> QED BY <5>1, <2>2, <3>6 DEF NumbersInOrder
      <4> QED BY <4>1, <4>2
    <3>7. ASSUME NEW i \in 1..Len(queue'), queue'[i].boot = boot
          PROVE  queue'[i].number > last
      <4>1. CASE i = Len(queue) + 1
        BY <2>2, <3>3, <3>4, <4>1 DEF Message
      <4>2. CASE i # Len(queue) + 1
        <5>1. i \in 1..Len(queue) /\ queue'[i] = queue[i]
          BY <2>2, <3>7, <4>2
        <5> QED BY <5>1, <3>7 DEF NumbersInOrder
      <4> QED BY <4>1, <4>2
    <3> QED BY <3>5, <3>6, <3>7 DEF NumbersInOrder
  <2>5. NumbersSpent'
    <3>1. \A u \in Threads : u # t => pc[u] # "send"
      BY <1>4 DEF Send, HolderOK
    <3>2. data[t].number < seq_id
      BY <1>4 DEF Send, NumbersSpent
    <3>3. \A i \in 1..Len(queue') :
             queue'[i].boot <= boot /\ (queue'[i].boot = boot => queue'[i].number < seq_id)
      BY <2>2, <2>3, <3>2 DEF NumbersSpent
    <3> QED BY <1>4, <3>1, <3>3 DEF Send, NumbersSpent
  <2> QED BY <2>1, <2>4, <2>5
<1>5. ASSUME NEW t \in Threads, SendFail(t) PROVE OrderInv'
  <2>1. HolderOK'
    BY <1>5 DEF SendFail, HolderOK
  <2>2. NumbersInOrder'
    BY <1>5 DEF SendFail, NumbersInOrder
  <2>3. NumbersSpent'
    BY <1>5 DEF SendFail, NumbersSpent
  <2> QED BY <2>1, <2>2, <2>3
<1>6. ASSUME NEW t \in Threads, Unlock(t) PROVE OrderInv'
  <2>1. HolderOK'
    BY <1>6 DEF Unlock, HolderOK
  <2>2. NumbersInOrder'
    BY <1>6 DEF Unlock, NumbersInOrder
  <2>3. NumbersSpent'
    BY <1>6 DEF Unlock, NumbersSpent
  <2> QED BY <2>1, <2>2, <2>3
<1>7. CASE Get
  <2>1. /\ Len(queue) \in Nat \ {0}
        /\ Len(queue') = Len(queue) - 1
        /\ Head(queue) = queue[1]
        /\ \A i \in 1..Len(queue') : queue'[i] = queue[i + 1]
    BY <1>7 DEF Get
  <2>2. \A i \in 1..Len(queue) : queue[i] \in Message
    OBVIOUS
  <2>3. HolderOK'
    BY <1>7 DEF Get, HolderOK
  <2>4. NumbersInOrder'
    <3>1. \A i \in 1..Len(queue') : i + 1 \in 1..Len(queue) /\ queue'[i] = queue[i + 1]
      BY <2>1
    <3>2. \A i, j \in 1..Len(queue') : i < j =>
             \/ queue'[i].boot < queue'[j].boot
             \/ queue'[i].boot = queue'[j].boot /\ queue'[i].number < queue'[j].number
      BY <2>1, <3>1 DEF NumbersInOrder
    <3>3. ASSUME NEW i \in 1..Len(queue'), queue'[i].boot = boot
          PROVE  queue'[i].number > last'
      <4>1. i + 1 \in 1..Len(queue) /\ queue'[i] = queue[i + 1] /\ 1 \in 1..Len(queue) /\ 1 < i + 1
        BY <2>1, <3>1
      <4>2. CASE Head(queue).boot = boot
        <5>1. last' = queue[1].number
          BY <1>7, <2>1, <4>2 DEF Get
        <5>2. queue[1].number < queue[i + 1].number
          <6>1. queue[1].boot = boot /\ queue[i + 1].boot = boot
            BY <2>1, <3>3, <4>1, <4>2
          <6>2. \/ queue[1].boot < queue[i + 1].boot
                \/ queue[1].number < queue[i + 1].number
            BY <4>1 DEF NumbersInOrder
          <6> QED BY <6>1, <6>2
        <5> QED BY <2>2, <4>1, <5>1, <5>2 DEF Message
      <4>3. CASE Head(queue).boot # boot
        BY <1>7, <3>3, <4>1, <4>3 DEF Get, NumbersInOrder
      <4> QED BY <4>2, <4>3
    <3> QED BY <1>7, <3>2, <3>3 DEF Get, NumbersInOrder
  <2>5. NumbersSpent'
    <3>1. last' < seq_id'
      BY <1>7, <2>1, <2>2 DEF Get, NumbersSpent, Message
    <3>2. \A i \in 1..Len(queue') : i + 1 \in 1..Len(queue) /\ queue'[i] = queue[i + 1]
      BY <2>1
    <3>3. \A i \in 1..Len(queue') : /\ queue'[i].boot <= boot
                                    /\ queue'[i].boot = boot => queue'[i].number < seq_id
      BY <3>2 DEF NumbersSpent
    <3>4. ASSUME NEW t \in Threads, pc[t] = "send"
          PROVE  /\ last' < data[t].number
                 /\ data[t].number < seq_id
                 /\ \A i \in 1..Len(queue') :
                       queue'[i].boot = boot => queue'[i].number < data[t].number
      BY <1>7, <2>1, <3>2, <3>4 DEF Get, NumbersSpent
    <3> QED BY <1>7, <3>1, <3>3, <3>4 DEF Get, NumbersSpent
  <2> QED BY <2>3, <2>4, <2>5
<1>8. CASE Restart
  <2>1. HolderOK'
    BY <1>8 DEF Restart, HolderOK
  <2>2. \A i \in 1..Len(queue) : queue[i].boot \in Nat
    <3>1. \A i \in 1..Len(queue) : queue[i] \in Message
      OBVIOUS
    <3> QED BY <3>1 DEF Message
  <2>3. \A i \in 1..Len(queue) : queue[i].boot < boot'
    <3>1. \A i \in 1..Len(queue) : queue[i].boot <= boot
      BY DEF NumbersSpent
    <3>2. boot' = boot + 1 /\ boot \in Nat
      BY <1>8 DEF Restart
    <3> QED BY <2>2, <3>1, <3>2
  <2>4. NumbersInOrder'
    BY <1>8, <2>2, <2>3 DEF Restart, NumbersInOrder
  <2>5. NumbersSpent'
    BY <1>8, <2>2, <2>3 DEF Restart, NumbersSpent
  <2> QED BY <2>1, <2>4, <2>5
<1>9. CASE UNCHANGED vars \/ Joined
  BY <1>9 DEF vars, Joined, HolderOK, NumbersInOrder, NumbersSpent
<1> QED BY <1>1, <1>2, <1>3, <1>4, <1>5, <1>6, <1>7, <1>8, <1>9 DEF Next, PostStep

\* The critical section of postMsgQueue() is exclusive and protects what it
\* is meant to protect.
THEOREM QueueInvariant == Spec => []OrderInv
<1>1. Init => OrderInv
  BY DEF Init, OrderInv, HolderOK, NumbersInOrder, NumbersSpent
<1> QED BY <1>1, OrderStep, QueueTypes, PTL DEF Spec

\* The event loop takes the messages of one incarnation in the order of their
\* numbers, after everything an earlier incarnation left behind.
THEOREM MessagesInOrder == Spec => []NumbersInOrder
<1>1. OrderInv => NumbersInOrder
  BY DEF OrderInv
<1> QED BY <1>1, QueueInvariant, PTL

-----------------------------------------------------------------------------
\* Refinement of EventQueue

\* The types of an extended queue.
LEMMA TypesOfAppend ==
    ASSUME NEW q \in Seq(Message), NEW m \in Message
    PROVE  TypesOf(Append(q, m)) = Append(TypesOf(q), m.type)
  BY DEF TypesOf, Message

\* The types of a queue are a sequence, element by element.
LEMMA TypesOfSeq ==
    ASSUME NEW q \in Seq(Message)
    PROVE  /\ TypesOf(q) \in Seq(Types)
           /\ Len(TypesOf(q)) = Len(q)
           /\ \A i \in 1..Len(q) : TypesOf(q)[i] = q[i].type
<1>1. Len(q) \in Nat
  BY LenProperties
<1>2. TypesOf(q) \in [1..Len(q) -> Types]
  <2>1. \A i \in 1..Len(q) : q[i] \in Message
    BY ElementOfSeq
  <2>2. \A i \in 1..Len(q) : q[i].type \in Types
    BY <2>1 DEF Message
  <2> QED BY <2>2 DEF TypesOf
<1>3. TypesOf(q) \in Seq(Types)
  BY <1>1, <1>2, SeqDef
<1>4. Len(TypesOf(q)) \in Nat /\ DOMAIN TypesOf(q) = 1..Len(TypesOf(q))
  BY <1>3, LenProperties
<1>5. DOMAIN TypesOf(q) = 1..Len(q)
  BY <1>2
<1>6. Len(TypesOf(q)) = Len(q)
  BY <1>1, <1>4, <1>5
<1> QED BY <1>3, <1>6 DEF TypesOf

\* The types of a queue whose oldest message was taken.
LEMMA TypesOfTail ==
    ASSUME NEW q \in Seq(Message), q # <<>>
    PROVE  /\ TypesOf(q) # <<>>
           /\ TypesOf(Tail(q)) = Tail(TypesOf(q))
<1>1. /\ Len(q) \in Nat \ {0}
      /\ Tail(q) \in Seq(Message)
      /\ Len(Tail(q)) = Len(q) - 1
      /\ \A i \in 1..Len(Tail(q)) : Tail(q)[i] = q[i + 1]
  BY EmptySeq, HeadTailProperties
<1>2. TypesOf(q) # <<>>
  BY <1>1, TypesOfSeq, EmptySeq
<1>3. /\ Tail(TypesOf(q)) \in Seq(Types)
      /\ Len(Tail(TypesOf(q))) = Len(q) - 1
      /\ \A i \in 1..(Len(q) - 1) : Tail(TypesOf(q))[i] = TypesOf(q)[i + 1]
  BY <1>1, <1>2, TypesOfSeq, HeadTailProperties
<1>4. /\ TypesOf(Tail(q)) \in Seq(Types)
      /\ Len(TypesOf(Tail(q))) = Len(q) - 1
      /\ \A i \in 1..(Len(q) - 1) : TypesOf(Tail(q))[i] = Tail(q)[i].type
  BY <1>1, TypesOfSeq
<1>5. \A i \in 1..(Len(q) - 1) : TypesOf(Tail(q))[i] = Tail(TypesOf(q))[i]
  BY <1>1, <1>3, <1>4, TypesOfSeq
<1>6. TypesOf(Tail(q)) = Tail(TypesOf(q))
  BY <1>3, <1>4, <1>5, SeqEqual
<1> QED BY <1>2, <1>6

\* postMsgQueue() and getMsgQueue() implement the atomic bounded queue that
\* Session uses: a post that arrives is the step Send, everything else, a
\* message that is lost included, is invisible.
THEOREM QueueRefinement == Spec => ImplementsEventQueue
<1>1. Init => EQ!Init
  <2> SUFFICES ASSUME queue = <<>> PROVE EQ!Init
    BY DEF Init
  <2>1. TypesOf(queue) \in [1..0 -> Types]
    BY DEF TypesOf
  <2>2. 0 \in 0..QMax
    BY QueueAssumption
  <2> QED BY <2>1, <2>2 DEF EQ!Init
<1>2. TypeOK /\ [Next]_vars => [EQ!Next]_(TypesOf(queue))
  <2> SUFFICES ASSUME TypeOK, [Next]_vars
               PROVE  EQ!Next \/ queue' = queue
    BY DEF TypesOf
  <2>1. ASSUME NEW t \in Threads, Send(t) PROVE EQ!Next
    <3>1. data[t] \in Message /\ data[t].type \in Types
      BY <2>1 DEF TypeOK, Message
    <3>2. TypesOf(queue)' = Append(TypesOf(queue), data[t].type)
      BY <2>1, <3>1, TypesOfAppend DEF Send, TypeOK
    <3>3. Len(TypesOf(queue)) = Len(queue)
      BY DEF TypesOf, TypeOK
    <3>4. EQ!Post(data[t].type)
      BY <2>1, <3>2, <3>3 DEF EQ!Post, EQ!Sent, Send
    <3> QED BY <3>1, <3>4 DEF EQ!Next
  <2>2. CASE Get
    <3>1. TypesOf(queue) # <<>> /\ TypesOf(queue)' = Tail(TypesOf(queue))
      BY <2>2, TypesOfTail DEF Get, TypeOK
    <3> QED BY <3>1 DEF EQ!Get, EQ!Next
  <2>3. ASSUME NEW t \in Threads, Lock(t) \/ Number(t) \/ Unlock(t) \/ SendFail(t)
        PROVE  queue' = queue
    BY <2>3 DEF Lock, Number, Unlock, SendFail
  <2>4. ASSUME NEW t \in Threads, NEW ty \in Types, Call(t, ty)
        PROVE  queue' = queue
    BY <2>4 DEF Call
  <2>5. CASE Restart \/ Joined \/ UNCHANGED vars
    BY <2>5 DEF Restart, Joined, vars
  <2> QED BY <2>1, <2>2, <2>3, <2>4, <2>5 DEF Next, PostStep
<1> QED BY <1>1, <1>2, QueueTypes, PTL DEF Spec, ImplementsEventQueue, EQ!Spec
=============================================================================
