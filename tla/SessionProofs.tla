---------------------------- MODULE SessionProofs ----------------------------
(***************************************************************************)
(* Theorems about client sessions (module Session) for any number of       *)
(* clients, callback threads and queue slots.                              *)
(***************************************************************************)
EXTENDS Session, TLAPS

\* Posting a message and taking one keep the event queue's type.
LEMMA PostType ==
    ASSUME TypeOK, NEW ty \in MsgTypes, NEW c \in Conns \cup {NULL}, Q!Post(M(ty, c))
    PROVE  queue' \in Seq(Msg)
<1>1. M(ty, c) \in Msg
  BY DEF M, Msg
<1>2. CASE UNCHANGED queue
  BY <1>2 DEF TypeOK
<1>3. CASE Q!Sent(M(ty, c))
  BY <1>1, <1>3 DEF TypeOK, Q!Sent
<1> QED BY <1>2, <1>3 DEF Q!Post

LEMMA GetType ==
    ASSUME TypeOK, Q!Get
    PROVE  queue' \in Seq(Msg)
  BY DEF TypeOK, Q!Get

\* The server thread keeps every field of g_server_para in its type.
LEMMA TypeServer ==
    ASSUME TypeOK, ServerStep \/ \E c \in Conns : Accept(c)
    PROVE  TypeOK'
<1> USE DEF TypeOK, serverVars, acceptVars, connVars, mainVars, sendVars, timerVars, histVars
<1>1. CASE ServerInit
  BY <1>1 DEF ServerInit
<1>2. CASE Publish
  BY <1>2 DEF Publish
<1>3. CASE Connect
  BY <1>3 DEF Connect
<1>4. CASE PostAccept
  <2>1. queue' \in Seq(Msg)
    BY <1>4, PostType DEF PostAccept, MsgTypes
  <2>2. M("ACCEPT", svc) \in Msg
    BY DEF M, Msg, MsgTypes
  <2>3. lost' \subseteq Msg
    BY <1>4, <2>2 DEF PostAccept, Lost
  <2> QED BY <1>4, <2>1, <2>3 DEF PostAccept
<1>5. ASSUME NEW c \in Conns, Accept(c) PROVE TypeOK'
  BY <1>5 DEF Accept
<1> QED BY <1>1, <1>2, <1>3, <1>4, <1>5 DEF ServerStep

\* So do the receive threads.
LEMMA TypeReceiver ==
    ASSUME TypeOK, NEW c \in Conns, RxStep(c) \/ \E ty \in ClientMsgs : RxFrame(c, ty)
    PROVE  TypeOK'
<1> USE DEF TypeOK, serverVars, acceptVars, connVars, mainVars, sendVars, timerVars, histVars
<1>1. CASE RxCheck(c)
  BY <1>1 DEF RxCheck
<1>2. CASE RxIdle(c)
  BY <1>2 DEF RxIdle
<1>3. ASSUME NEW ty \in ClientMsgs, RxFrame(c, ty) PROVE TypeOK'
  BY <1>3, SessionAssumption DEF RxFrame, MsgTypes
<1>4. CASE RxPost(c)
  <2>1. queue' \in Seq(Msg)
    BY <1>4, PostType DEF RxPost
  <2> QED BY <1>4, <2>1 DEF RxPost
<1>5. CASE RxClose(c)
  <2>1. queue' \in Seq(Msg)
    BY <1>5, PostType DEF RxClose, MsgTypes
  <2>2. M("CLOSED", c) \in Msg
    BY DEF M, Msg, MsgTypes
  <2>3. lost' \subseteq Msg
    BY <1>5, <2>2 DEF RxClose, Lost
  <2> QED BY <1>5, <2>1, <2>3 DEF RxClose
<1> QED BY <1>1, <1>2, <1>3, <1>4, <1>5 DEF RxStep

\* So do the handlers of the event loop.
LEMMA TypeHandler ==
    ASSUME TypeOK, Handler
    PROVE  TypeOK'
<1> USE DEF TypeOK, serverVars, acceptVars, connVars, mainVars, sendVars, timerVars, histVars
<1>1. queue' \in Seq(Msg)
  BY GetType DEF Handler, OnAccept, OnHeartBeat, OnTimeout, OnStopTimer, OnClosed,
                 OnStream, OnInquiry, OnRfMf, Takes
<1>2. CASE OnAccept
  <2>1. stale' \in BOOLEAN
    BY <1>2 DEF OnAccept
  <2>2. \/ mpc' = "register"
        \/ mpc' = "arm"
    BY <1>2 DEF OnAccept
  <2>3. UNCHANGED <<serverVars, acceptVars, connVars, mptr, sendVars, timerVars, status,
                    excused, lost>>
    BY <1>2 DEF OnAccept
  <2> QED BY <1>1, <2>1, <2>2, <2>3
<1>3. CASE OnHeartBeat
  BY <1>1, <1>3 DEF OnHeartBeat
<1>4. CASE OnTimeout
  <2>1. connected' \in [Conns -> {0, 1}]
    BY <1>4 DEF OnTimeout
  <2>2. mpc' \in {mpc, "get", "quiet"} /\ status' \in {status, "segv"}
    BY <1>4 DEF OnTimeout
  <2>3. UNCHANGED <<serverVars, acceptVars, object, receive_running, rpc, rmsg,
                    mptr, sendVars, timerVars, histVars>>
    BY <1>4 DEF OnTimeout
  <2> QED BY <1>1, <2>1, <2>2, <2>3
<1>5. CASE OnStopTimer
  BY <1>1, <1>5 DEF OnStopTimer
<1>6. CASE OnClosed
  BY <1>1, <1>6 DEF OnClosed
<1>7. CASE OnStream
  BY <1>1, <1>7 DEF OnStream
<1>8. CASE OnInquiry \/ OnRfMf
  BY <1>1, <1>8 DEF OnInquiry, OnRfMf, Threads
<1> QED BY <1>2, <1>3, <1>4, <1>5, <1>6, <1>7, <1>8 DEF Handler

\* So does the rest of the main thread.
LEMMA TypeMain ==
    ASSUME TypeOK, MainInit \/ Register \/ Arm \/ Enable \/ Teardown
    PROVE  TypeOK'
<1> USE DEF TypeOK, serverVars, acceptVars, connVars, mainVars, sendVars, timerVars, histVars
<1>1. CASE MainInit
  BY <1>1 DEF MainInit
<1>2. CASE Register
  BY <1>2 DEF Register
<1>3. CASE Arm
  <2>1. missed' \in BOOLEAN
    BY <1>3 DEF Arm, T!StartOpen, T!StartRun, T!StartSignal
  <2> QED BY <1>3, <2>1 DEF Arm, T!StartOpen, T!StartRun, T!StartSignal, T!TimerPc
<1>4. CASE Enable
  BY <1>4 DEF Enable
<1>5. CASE Quiet \/ Disconnect
  BY <1>5 DEF Quiet, Disconnect
<1>6. CASE Load \/ Stop
  BY <1>6 DEF Load, Stop
<1>7. CASE Join
  BY <1>7 DEF Join
<1>8. CASE Free
  <2>1. object' \in [Conns -> {"none", "live", "freed"}]
    BY <1>8 DEF Free
  <2>2. connected' \in [Conns -> {0, 1}]
    BY <1>8 DEF Free
  <2> QED BY <1>8, <2>1, <2>2 DEF Free
<1>9. CASE Clear
  BY <1>9 DEF Clear
<1>10. CASE Reinit
  <2>1. sendLocked' \in BOOLEAN
    BY <1>10 DEF Reinit
  <2> QED BY <1>10, <2>1 DEF Reinit
<1> QED BY <1>1, <1>2, <1>3, <1>4, <1>5, <1>6, <1>7, <1>8, <1>9, <1>10
        DEF Teardown

\* So does sendToPc().
LEMMA TypeSender ==
    ASSUME TypeOK, NEW t \in Threads, SendStep(t) \/ Callback(t)
    PROVE  TypeOK'
<1> USE DEF TypeOK, serverVars, acceptVars, connVars, mainVars, sendVars, timerVars, histVars
<1>1. CASE Callback(t)
  BY <1>1 DEF Callback
<1>2. CASE SendLoad(t)
  BY <1>2 DEF SendLoad
<1>3. CASE SendCount(t)
  BY <1>3 DEF SendCount
<1>4. CASE SendGate(t)
  BY <1>4 DEF SendGate
<1>5. CASE SendLock(t)
  BY <1>5 DEF SendLock
<1>6. CASE Send(t)
  <2>1. Target(sptr[t]) \subseteq Conns \cup {NULL}
    BY DEF Target
  <2>2. broken' \subseteq Conns /\ resumed' \subseteq Conns /\ send_enable' \in {0, 1}
    BY <1>6, <2>1 DEF Send
  <2> QED BY <1>6, <2>2 DEF Send
<1>7. CASE SendUnlock(t)
  <2>1. sendLocked' \in BOOLEAN
    BY <1>7 DEF SendUnlock
  <2>2. spc' \in [Threads -> {"idle", "load", "count", "gate", "lock", "send", "unlock"}]
    BY <1>7 DEF SendUnlock
  <2> QED BY <1>7, <2>1, <2>2 DEF SendUnlock
<1> QED BY <1>1, <1>2, <1>3, <1>4, <1>5, <1>6, <1>7 DEF SendStep

\* So does the timer thread.
LEMMA TypeTimer ==
    ASSUME TypeOK, TimerStep \/ TimerSpurious
    PROVE  TypeOK'
<1> USE DEF TypeOK, others, serverVars, acceptVars, connVars, mainVars, sendVars, histVars,
            T!TimerPc
<1>1. CASE T!Cb \/ T!Bye
  <2>1. queue' \in Seq(Msg)
    BY <1>1, PostType DEF T!Cb, T!Bye, T!Q!Post, T!Q!Sent, Q!Post, Q!Sent, MsgTypes
  <2> QED BY <1>1, <2>1 DEF T!Cb, T!Bye, TimerStep, TimerSpurious
<1>2. CASE T!Test \/ T!Park \/ T!Sleep \/ T!State \/ T!Clear \/ T!Spurious
  BY <1>2 DEF T!Test, T!Park, T!Sleep, T!State, T!Clear, T!Spurious, TimerStep, TimerSpurious
<1> QED BY <1>1, <1>2 DEF TimerStep, TimerSpurious, T!ThreadStep

\* Every step of the process keeps the types.
LEMMA TypeStep == TypeOK /\ [Next]_vars => TypeOK'
<1> SUFFICES ASSUME TypeOK, [Next]_vars PROVE TypeOK'
  OBVIOUS
<1>1. CASE UNCHANGED vars
  BY <1>1 DEF TypeOK, vars, serverVars, acceptVars, connVars, mainVars, sendVars, timerVars,
              histVars
<1> QED BY <1>1, TypeServer, TypeReceiver, TypeHandler, TypeMain, TypeSender, TypeTimer
        DEF Next, Up, MainStep, Threads

\* What an earlier process left in the queue is messages, as many as fit.
LEMMA EarlierType ==
    ASSUME Init
    PROVE  queue \in Seq(Msg) /\ Len(queue) <= QMax
<1>1. PICK k \in 0..MaxLeft : queue \in [1..k -> EarlierMsgs]
  BY DEF Init
<1>2. EarlierMsgs \subseteq Msg
  BY SessionAssumption DEF EarlierMsgs, Msg, M, MsgTypes
<1>3. k \in Nat /\ k <= QMax
  BY SessionAssumption
<1>4. queue \in Seq(Msg) /\ Len(queue) = k
  BY <1>1, <1>2, <1>3
<1> QED BY <1>3, <1>4

\* They are from no connection of this process.
LEMMA EarlierConn ==
    ASSUME Init
    PROVE  \A i \in 1..Len(queue) : queue[i].conn = NULL
<1>1. PICK k \in 0..MaxLeft : queue \in [1..k -> EarlierMsgs]
  BY DEF Init
<1>2. \A m \in EarlierMsgs : m.conn = NULL
  BY DEF EarlierMsgs, M
<1>3. k \in Nat /\ Len(queue) = k
  BY <1>1, SessionAssumption
<1> QED BY <1>1, <1>2, <1>3

\* Connections, threads and flags of a running devAdapter keep their types.
THEOREM SessionTypes == Spec => []TypeOK
<1>1. Init => TypeOK
  <2> SUFFICES ASSUME Init PROVE TypeOK
    OBVIOUS
  <2> USE DEF Init
  <2>1. cbReg \in BOOLEAN /\ sendLocked \in BOOLEAN
    OBVIOUS
  <2>2. /\ running \in {0, 1} /\ closeState \in {0, 1} /\ hasTimer \in {0, 1}
        /\ tpc \in T!TimerPc /\ cpc \in {"idle", "run", "signal"}
        /\ missed \in BOOLEAN
    BY DEF T!InitTimer, T!TimerPc
  <2>3. rmsg \in [Conns -> MsgTypes]
    BY DEF MsgTypes
  <2>4. queue \in Seq(Msg)
    BY EarlierType
  <2> QED BY <2>1, <2>2, <2>3, <2>4 DEF TypeOK
<1> QED BY <1>1, TypeStep, PTL DEF Spec

-----------------------------------------------------------------------------
\* Who may touch a connection's memory

\* The state OwnershipInv is about.
ownership == <<object, rpc, mpc, mptr, svpc, svc, g_receive>>

\* The server thread: a connection is new when it is accepted and becomes
\* visible to the other threads in one step.
LEMMA OwnServer ==
    ASSUME TypeOK, OwnershipInv, ServerStep \/ \E c \in Conns : Accept(c)
    PROVE  OwnershipInv'
<1> USE SessionAssumption DEF OwnershipInv, FreeAfterExit, TeardownTargetLive, TypeOK, serverVars,
        acceptVars, connVars, mainVars
<1>1. CASE ServerInit
  BY <1>1 DEF ServerInit
<1>2. CASE Publish
  BY <1>2 DEF Publish
<1>3. CASE Connect
  BY <1>3 DEF Connect
<1>4. CASE PostAccept
  BY <1>4 DEF PostAccept
<1>5. ASSUME NEW c \in Conns, Accept(c) PROVE OwnershipInv'
  <2>1. c # g_receive /\ (mpc \in {"stop", "join", "free", "clear", "reinit"} => mptr # c)
    BY <1>5 DEF Accept
  <2>2. \A d \in Conns : d # c => object'[d] = object[d] /\ rpc'[d] = rpc[d]
    BY <1>5 DEF Accept
  <2>3. object'[c] = "live"
    BY <1>5 DEF Accept
  <2>4. /\ g_receive' = g_receive /\ mpc' = mpc /\ mptr' = mptr
        /\ svpc' = "publish" /\ svc' = c
    BY <1>5 DEF Accept
  <2> QED BY <2>1, <2>2, <2>3, <2>4
<1> QED BY <1>1, <1>2, <1>3, <1>4, <1>5 DEF ServerStep

\* The receive threads: a thread that has ended does not move again.
LEMMA OwnReceiver ==
    ASSUME TypeOK, OwnershipInv, NEW c \in Conns,
           RxStep(c) \/ \E ty \in ClientMsgs : RxFrame(c, ty)
    PROVE  OwnershipInv'
<1>1. UNCHANGED <<object, mpc, mptr, svpc, svc, g_receive>>
  BY DEF RxStep, RxCheck, RxIdle, RxFrame, RxPost, RxClose, serverVars, acceptVars, mainVars
<1>2. rpc[c] \notin {"done", "nothread"}
  BY DEF RxStep, RxCheck, RxIdle, RxFrame, RxPost, RxClose
<1>3. \A d \in Conns : d # c => rpc'[d] = rpc[d]
  BY DEF RxStep, RxCheck, RxIdle, RxFrame, RxPost, RxClose, TypeOK
<1> QED BY <1>1, <1>2, <1>3 DEF OwnershipInv, FreeAfterExit, TeardownTargetLive, TypeOK

\* The event loop up to freeReceThread(): it goes on with a pointer it has
\* just found set, and only the main thread resets it.
LEMMA OwnHandler ==
    ASSUME TypeOK, OwnershipInv, MainInit \/ Handler \/ Register \/ Arm \/ Enable
    PROVE  OwnershipInv'
<1>1. UNCHANGED <<object, rpc, mptr, svpc, svc, g_receive>>
  BY DEF MainInit, Handler, Register, Arm, Enable, OnAccept, OnHeartBeat, OnTimeout,
         OnStopTimer, OnClosed, OnStream, OnInquiry, OnRfMf, serverVars, acceptVars,
         connVars, mainVars
<1>2. mpc \in {"init", "get", "register", "arm", "enable"}
  BY DEF MainInit, Handler, Register, Arm, Enable, OnAccept, OnHeartBeat, OnTimeout,
         OnStopTimer, OnClosed, OnStream, OnInquiry, OnRfMf, Takes
<1>3. \/ mpc' \in {"init", "get", "register", "arm", "enable"}
      \/ mpc' = "quiet" /\ g_receive # NULL
  <2>1. CASE OnTimeout
    BY <1>2, <2>1 DEF OnTimeout
  <2>2. CASE MainInit \/ Register \/ Arm \/ Enable
    BY <1>2, <2>2 DEF MainInit, Register, Arm, Enable
  <2>3. CASE OnAccept \/ OnHeartBeat \/ OnStopTimer \/ OnClosed \/ OnStream \/ OnInquiry
             \/ OnRfMf
    BY <1>2, <2>3 DEF OnAccept, OnHeartBeat, OnStopTimer, OnClosed, OnStream, OnInquiry,
                      OnRfMf, mainVars
  <2> QED BY <2>1, <2>2, <2>3 DEF Handler
<1> QED BY <1>1, <1>2, <1>3 DEF OwnershipInv, FreeAfterExit, TeardownTargetLive, TypeOK

\* freeReceThread(), statement by statement.
LEMMA OwnTeardown ==
    ASSUME TypeOK, OwnershipInv, Teardown
    PROVE  OwnershipInv'
<1> USE SessionAssumption DEF OwnershipInv, FreeAfterExit, TeardownTargetLive, TypeOK, serverVars,
        acceptVars, connVars, mainVars
<1>1. CASE Quiet \/ Disconnect
  BY <1>1 DEF Quiet, Disconnect
<1>2. CASE Load
  BY <1>2 DEF Load
<1>3. CASE Stop
  BY <1>3 DEF Stop
<1>4. CASE Join
  BY <1>4 DEF Join
<1>5. CASE Free
  <2>1. mptr \in Conns /\ object[mptr] = "live" /\ rpc[mptr] \in {"done", "nothread"}
    BY <1>5 DEF Free
  <2>2. object'[mptr] = "freed" /\ \A d \in Conns : d # mptr => object'[d] = object[d]
    BY <1>5, <2>1 DEF Free
  <2>3. mpc = "free" /\ mpc' = "clear" /\ UNCHANGED <<mptr, g_receive, rpc, svpc, svc>>
    BY <1>5 DEF Free
  <2> QED BY <2>1, <2>2, <2>3
<1>6. CASE Clear
  BY <1>6 DEF Clear
<1>7. CASE Reinit
  BY <1>7 DEF Reinit
<1> QED BY <1>1, <1>2, <1>3, <1>4, <1>5, <1>6, <1>7 DEF Teardown

\* Every step of the process keeps the ownership of connections.
LEMMA OwnStep == TypeOK /\ OwnershipInv /\ [Next]_vars => OwnershipInv'
<1> SUFFICES ASSUME TypeOK, OwnershipInv, [Next]_vars PROVE OwnershipInv'
  OBVIOUS
<1>1. CASE UNCHANGED ownership
  BY <1>1 DEF ownership, OwnershipInv, FreeAfterExit, TeardownTargetLive
<1>2. CASE TimerStep \/ TimerSpurious
  BY <1>1, <1>2 DEF TimerStep, TimerSpurious, others, ownership, serverVars, acceptVars,
                    connVars, mainVars
<1>3. ASSUME NEW t \in Threads, SendStep(t) \/ Callback(t) PROVE OwnershipInv'
  <2>1. UNCHANGED ownership
    BY <1>3 DEF SendStep, Callback, SendLoad, SendCount, SendGate, SendLock, Send, SendUnlock,
                ownership, serverVars, acceptVars, connVars, mainVars
  <2> QED BY <1>1, <2>1
<1>4. CASE UNCHANGED vars
  BY <1>1, <1>4 DEF vars, ownership, serverVars, acceptVars, connVars, mainVars
<1> QED BY <1>2, <1>3, <1>4, OwnServer, OwnReceiver, OwnHandler, OwnTeardown
        DEF Next, Up, MainStep, Threads

\* The ownership discipline holds in every reachable state.
THEOREM Ownership == Spec => []OwnershipInv
<1>1. Init => OwnershipInv
  BY DEF Init, OwnershipInv, FreeAfterExit, TeardownTargetLive
<1> QED BY <1>1, OwnStep, SessionTypes, PTL DEF Spec

\* No receive thread outlives the memory of its connection.
THEOREM NoReceiverOnFreedMemory == Spec => []FreeAfterExit
<1>1. OwnershipInv => FreeAfterExit
  BY DEF OwnershipInv
<1> QED BY <1>1, Ownership, PTL

\* freeReceThread() never meets a NULL pointer and never frees twice.
THEOREM NoDoubleFree == Spec => []TeardownTargetLive
<1>1. OwnershipInv => TeardownTargetLive
  BY DEF OwnershipInv
<1> QED BY <1>1, Ownership, PTL

-----------------------------------------------------------------------------
\* Memory of a connection is allocated once and freed once: a connection that
\* was accepted stays accepted, one that was freed stays freed.
LEMMA ObjectsKept ==
    ASSUME TypeOK, OwnershipInv, [Next]_vars
    PROVE  \A c \in Conns : /\ object[c] # "none" => object'[c] # "none"
                            /\ object[c] = "freed" => object'[c] = "freed"
<1>1. CASE \E c \in Conns : Accept(c)
  BY <1>1 DEF Accept, TypeOK
<1>2. CASE Free
  BY <1>2 DEF Free, OwnershipInv, TeardownTargetLive, TypeOK
<1>3. ServerStep => UNCHANGED object
  BY DEF ServerStep, ServerInit, Publish, Connect, PostAccept, connVars
<1>4. \A c \in Conns : RxStep(c) \/ (\E ty \in ClientMsgs : RxFrame(c, ty)) => UNCHANGED object
  BY DEF RxStep, RxCheck, RxIdle, RxFrame, RxPost, RxClose
<1>5. MainStep => Free \/ UNCHANGED object
  BY DEF MainStep, MainInit, Handler, Register, Arm, Enable, Teardown, OnAccept, OnHeartBeat,
         OnTimeout, OnStopTimer, OnClosed, OnStream, OnInquiry, OnRfMf, Quiet, Disconnect,
         Load, Stop, Join, Clear, Reinit, connVars
<1>6. \A t \in Threads : SendStep(t) \/ Callback(t) => UNCHANGED object
  BY DEF SendStep, Callback, SendLoad, SendCount, SendGate, SendLock, Send, SendUnlock, connVars
<1>7. TimerStep \/ TimerSpurious \/ UNCHANGED vars => UNCHANGED object
  BY DEF TimerStep, TimerSpurious, others, vars, connVars
<1> QED BY <1>1, <1>2, <1>3, <1>4, <1>5, <1>6, <1>7 DEF Next, Up, Threads

-----------------------------------------------------------------------------
\* Mutual exclusion in sendToPc()

\* Every step keeps the lock discipline as long as no client was torn down:
\* mutex_reInit() runs only after a free().
LEMMA LockStep == TypeOK /\ OwnershipInv /\ LockInv /\ [Next]_vars => LockInv'
<1> SUFFICES ASSUME TypeOK, OwnershipInv, LockInv, [Next]_vars,
                    NoTeardown'
             PROVE  \A t \in Threads : InCritical(t)' =>
                       sendLocked' /\ \A u \in Threads : InCritical(u)' => u = t
  BY DEF LockInv
<1>1. NoTeardown
  BY ObjectsKept DEF NoTeardown
<1>2. \A t \in Threads : InCritical(t) =>
         sendLocked /\ \A u \in Threads : InCritical(u) => u = t
  BY <1>1 DEF LockInv
<1>3. CASE UNCHANGED <<spc, sendLocked>>
  BY <1>2, <1>3 DEF InCritical
<1>4. ASSUME NEW t \in Threads, SendStep(t) \/ Callback(t)
      PROVE  \A v \in Threads : InCritical(v)' =>
                sendLocked' /\ \A u \in Threads : InCritical(u)' => u = v
  <2>1. CASE Callback(t) \/ SendLoad(t) \/ SendCount(t) \/ SendGate(t)
    <3>1. \A v \in Threads : InCritical(v)' => InCritical(v)
      BY <2>1 DEF Callback, SendLoad, SendCount, SendGate, InCritical, TypeOK
    <3>2. sendLocked' = sendLocked
      BY <2>1 DEF Callback, SendLoad, SendCount, SendGate
    <3> QED BY <1>2, <3>1, <3>2
  <2>2. CASE SendLock(t)
    <3>1. \A v \in Threads : ~InCritical(v)
      BY <1>2, <2>2 DEF SendLock
    <3>2. \A v \in Threads : v # t => ~InCritical(v)'
      BY <2>2, <3>1 DEF SendLock, InCritical, TypeOK
    <3>3. InCritical(t)' => sendLocked'
      BY <2>2 DEF SendLock, InCritical, TypeOK
    <3> QED BY <3>2, <3>3
  <2>3. CASE Send(t)
    <3>1. \A v \in Threads : InCritical(v)' <=> InCritical(v)
      BY <2>3 DEF Send, InCritical, TypeOK
    <3>2. sendLocked' = sendLocked
      BY <2>3 DEF Send
    <3> QED BY <1>2, <3>1, <3>2
  <2>4. CASE SendUnlock(t)
    <3>1. InCritical(t)
      BY <2>4 DEF SendUnlock, InCritical
    <3>2. \A v \in Threads : InCritical(v) => v = t
      BY <1>2, <3>1
    <3>3. ~InCritical(t)' /\ \A v \in Threads : v # t => (InCritical(v)' <=> InCritical(v))
      BY <2>4 DEF SendUnlock, InCritical, TypeOK
    <3> QED BY <3>2, <3>3
  <2> QED BY <1>4, <2>1, <2>2, <2>3, <2>4 DEF SendStep
<1>5. CASE OnInquiry \/ OnRfMf
  <2>1. Main \in Threads /\ spc[Main] = "idle"
    BY <1>5 DEF OnInquiry, OnRfMf, Takes, Threads
  <2>2. \A v \in Threads : InCritical(v)' => InCritical(v)
    BY <1>5, <2>1 DEF OnInquiry, OnRfMf, InCritical, TypeOK
  <2>3. sendLocked' = sendLocked
    BY <1>5 DEF OnInquiry, OnRfMf
  <2> QED BY <1>2, <2>2, <2>3
<1>6. ~Reinit
  BY <1>1 DEF Reinit, OwnershipInv, NoTeardown, TypeOK
<1>7. MainStep => OnInquiry \/ OnRfMf \/ Reinit \/ UNCHANGED <<spc, sendLocked>>
  BY DEF MainStep, MainInit, Handler, Register, Arm, Enable, Teardown, OnAccept, OnHeartBeat,
         OnTimeout, OnStopTimer, OnClosed, OnStream, Quiet, Disconnect, Load, Stop,
         Join, Free, Clear, sendVars
<1>8. ServerStep \/ (\E c \in Conns : Accept(c)) => UNCHANGED <<spc, sendLocked>>
  BY DEF ServerStep, ServerInit, Publish, Connect, PostAccept, Accept, sendVars
<1>9. \A c \in Conns : RxStep(c) \/ (\E ty \in ClientMsgs : RxFrame(c, ty))
                       => UNCHANGED <<spc, sendLocked>>
  BY DEF RxStep, RxCheck, RxIdle, RxFrame, RxPost, RxClose, sendVars
<1>10. TimerStep \/ TimerSpurious \/ UNCHANGED vars => UNCHANGED <<spc, sendLocked>>
  BY DEF TimerStep, TimerSpurious, others, vars, sendVars
<1> QED BY <1>3, <1>4, <1>5, <1>6, <1>7, <1>8, <1>9, <1>10 DEF Next, Up, Threads

\* Until the first teardown, frames of different threads are not mixed.
THEOREM SendersExclude == Spec => []SendExclusion
<1>1. Init => LockInv
  BY DEF Init, LockInv, InCritical
<1>2. LockInv => SendExclusion
  BY DEF LockInv, SendExclusion
<1> QED BY <1>1, <1>2, LockStep, SessionTypes, Ownership, PTL DEF Spec

-----------------------------------------------------------------------------
\* The order of a client's messages in the event queue

\* Steps that post nothing, or at most take the oldest message, keep what a
\* receive thread says last the last, if no receive thread starts again.
LEMMA ClosedTake ==
    ASSUME TypeOK, ClosedInv, queue' = queue \/ Q!Get,
           \A c \in Conns : /\ rpc[c] = "done" => rpc'[c] = "done"
                            /\ rpc'[c] = "post" => rmsg'[c] \in FrameTypes
                            /\ object'[c] = "none" => rpc'[c] = "none"
    PROVE  ClosedInv'
<1>1. PICK k \in {0, 1} : /\ \A i \in 1..Len(queue') : /\ i + k \in 1..Len(queue)
                                                       /\ queue'[i] = queue[i + k]
  <2>1. CASE queue' = queue
    <3>1. \A i \in 1..Len(queue') : i + 0 \in 1..Len(queue) /\ queue'[i] = queue[i + 0]
      BY <2>1 DEF TypeOK
    <3> QED BY <3>1
  <2>2. CASE Q!Get
    <3>1. \A i \in 1..Len(queue') : i + 1 \in 1..Len(queue) /\ queue'[i] = queue[i + 1]
      BY <2>2 DEF TypeOK, Q!Get
    <3> QED BY <3>1
  <2> QED BY <2>1, <2>2
<1>2. \A i \in 1..Len(queue') : queue'[i].type = "CLOSED" /\ queue'[i].conn \in Conns
         => rpc'[queue'[i].conn] = "done"
  <2> SUFFICES ASSUME NEW i \in 1..Len(queue'), queue'[i].type = "CLOSED",
                      queue'[i].conn \in Conns
               PROVE  rpc'[queue'[i].conn] = "done"
    OBVIOUS
  <2>1. i + k \in 1..Len(queue) /\ queue'[i] = queue[i + k]
    BY <1>1
  <2>2. rpc[queue[i + k].conn] = "done"
    BY <2>1 DEF ClosedInv
  <2> QED BY <2>1, <2>2
<1>3. \A i, j \in 1..Len(queue') :
         i < j /\ queue'[i].type = "CLOSED" /\ queue'[i].conn \in Conns
            => queue'[j].conn # queue'[i].conn \/ queue'[j].type = "ACCEPT"
  <2> SUFFICES ASSUME NEW i \in 1..Len(queue'), NEW j \in 1..Len(queue'), i < j,
                      queue'[i].type = "CLOSED", queue'[i].conn \in Conns
               PROVE  queue'[j].conn # queue'[i].conn \/ queue'[j].type = "ACCEPT"
    OBVIOUS
  <2>1. /\ i + k \in 1..Len(queue) /\ queue'[i] = queue[i + k]
        /\ j + k \in 1..Len(queue) /\ queue'[j] = queue[j + k]
        /\ i + k < j + k
    BY <1>1
  <2> QED BY <2>1 DEF ClosedInv, ClosedIsLast
<1>4. \A c \in Conns, i \in 1..Len(queue') : rpc'[c] # "done" => queue'[i] # M("CLOSED", c)
  BY <1>2 DEF M
<1> QED BY <1>2, <1>3, <1>4 DEF ClosedInv, ClosedIsLast

\* So do posts: of a message from no client or an accept, of a frame by a
\* receive thread that has not ended, and of the last message of one that ends.
LEMMA ClosedPost ==
    ASSUME TypeOK, ClosedInv, NEW ty \in MsgTypes, NEW d \in Conns \cup {NULL},
           Q!Post(M(ty, d)),
           ty = "CLOSED" => rpc'[d] = "done",
           ty = "ACCEPT" \/ d = NULL \/ rpc[d] # "done",
           \A c \in Conns : /\ rpc[c] = "done" => rpc'[c] = "done"
                            /\ rpc'[c] = "post" => rmsg'[c] \in FrameTypes
                            /\ object'[c] = "none" => rpc'[c] = "none"
    PROVE  ClosedInv'
<1> DEFINE L == Len(queue)
<1>0. CASE UNCHANGED queue
  BY <1>0, ClosedTake
<1> SUFFICES ASSUME Q!Sent(M(ty, d)) PROVE ClosedInv'
  BY <1>0 DEF Q!Post
<1>1. /\ L \in Nat /\ Len(queue') = L + 1 /\ queue'[L + 1] = M(ty, d)
      /\ \A i \in 1..L : queue'[i] = queue[i]
  BY DEF TypeOK, Q!Sent, Msg, M
<1>2. \A i \in 1..Len(queue') : i \in 1..L \/ i = L + 1
  BY <1>1
<1>3. \A i \in 1..Len(queue') : queue'[i].type = "CLOSED" /\ queue'[i].conn \in Conns
         => rpc'[queue'[i].conn] = "done"
  BY <1>1, <1>2 DEF ClosedInv, M
<1>4. \A i, j \in 1..Len(queue') :
         i < j /\ queue'[i].type = "CLOSED" /\ queue'[i].conn \in Conns
            => queue'[j].conn # queue'[i].conn \/ queue'[j].type = "ACCEPT"
  <2> SUFFICES ASSUME NEW i \in 1..Len(queue'), NEW j \in 1..Len(queue'), i < j,
                      queue'[i].type = "CLOSED", queue'[i].conn \in Conns
               PROVE  queue'[j].conn # queue'[i].conn \/ queue'[j].type = "ACCEPT"
    OBVIOUS
  <2>1. i \in 1..L /\ queue'[i] = queue[i]
    BY <1>1
  <2>2. queue[i].conn \in Conns /\ rpc[queue[i].conn] = "done"
    BY <2>1 DEF ClosedInv
  <2>3. CASE j \in 1..L
    BY <1>1, <2>1, <2>3 DEF ClosedInv, ClosedIsLast
  <2>4. CASE j = L + 1
    BY <1>1, <2>1, <2>2, <2>4, SessionAssumption DEF M
  <2> QED BY <1>2, <2>3, <2>4
<1>5. \A c \in Conns, i \in 1..Len(queue') : rpc'[c] # "done" => queue'[i] # M("CLOSED", c)
  BY <1>3 DEF M
<1> QED BY <1>3, <1>4, <1>5 DEF ClosedInv, ClosedIsLast

\* Every step of the process keeps the order.
LEMMA ClosedStep ==
    ASSUME TypeOK, ClosedInv, [Next]_vars
    PROVE  ClosedInv'
<1> USE SessionAssumption
<1>1. \A c \in Conns : /\ rpc[c] = "post" => rmsg[c] \in FrameTypes
                       /\ object[c] = "none" => rpc[c] = "none"
  BY DEF ClosedInv
<1>2. CASE ServerInit \/ Publish \/ Connect
  BY <1>1, <1>2, ClosedTake DEF ServerInit, Publish, Connect, connVars
<1>3. CASE PostAccept
  <2>1. UNCHANGED <<object, rpc, rmsg>> /\ "ACCEPT" \in MsgTypes
    BY <1>3 DEF PostAccept, connVars, MsgTypes
  <2>2. CASE Q!Post(M("ACCEPT", svc))
    BY <1>1, <2>1, <2>2, ClosedPost DEF TypeOK
  <2>3. CASE UNCHANGED queue
    BY <1>1, <2>1, <2>3, ClosedTake
  <2> QED BY <1>3, <2>2, <2>3 DEF PostAccept
<1>4. ASSUME NEW c \in Conns, Accept(c) PROVE ClosedInv'
  <2>1. /\ rpc[c] = "none" /\ object'[c] = "live" /\ rpc'[c] \in {"check", "nothread"}
        /\ \A d \in Conns : d # c => rpc'[d] = rpc[d] /\ object'[d] = object[d]
        /\ UNCHANGED <<rmsg, queue>>
    BY <1>1, <1>4 DEF Accept, TypeOK
  <2> QED BY <1>1, <2>1, ClosedTake
<1>5. ASSUME NEW c \in Conns, RxCheck(c) \/ RxIdle(c) \/ \E ty \in ClientMsgs : RxFrame(c, ty)
      PROVE  ClosedInv'
  <2>1. /\ rpc[c] \in {"check", "recv"} /\ rpc'[c] \in {"check", "recv", "closing", "post"}
        /\ \A d \in Conns : d # c => rpc'[d] = rpc[d] /\ rmsg'[d] = rmsg[d]
        /\ rpc'[c] = "post" => rmsg'[c] \in FrameTypes
        /\ UNCHANGED <<object, queue>>
    BY <1>5 DEF RxCheck, RxIdle, RxFrame, TypeOK
  <2> QED BY <1>1, <2>1, ClosedTake
<1>6. ASSUME NEW c \in Conns, RxPost(c) PROVE ClosedInv'
  <2>1. /\ rpc[c] = "post" /\ rpc'[c] = "recv" /\ Q!Post(M(rmsg[c], c))
        /\ \A d \in Conns : d # c => rpc'[d] = rpc[d]
        /\ UNCHANGED <<object, rmsg>>
    BY <1>6 DEF RxPost, TypeOK
  <2>2. rmsg[c] \in MsgTypes /\ rmsg[c] # "CLOSED"
    BY <1>1, <2>1 DEF FrameTypes, MsgTypes
  <2> QED BY <1>1, <2>1, <2>2, ClosedPost
<1>7. ASSUME NEW c \in Conns, RxClose(c) PROVE ClosedInv'
  <2>1. /\ rpc[c] = "closing" /\ rpc'[c] = "done" /\ Q!Post(M("CLOSED", c))
        /\ \A d \in Conns : d # c => rpc'[d] = rpc[d]
        /\ UNCHANGED <<object, rmsg>>
    BY <1>7 DEF RxClose, TypeOK
  <2>2. "CLOSED" \in MsgTypes
    BY DEF MsgTypes
  <2> QED BY <1>1, <2>1, <2>2, ClosedPost
<1>8. CASE Free
  <2>1. \A c \in Conns : object'[c] = "none" => object[c] = "none"
    BY <1>8 DEF Free, TypeOK
  <2>2. UNCHANGED <<rpc, rmsg, queue>>
    BY <1>8 DEF Free
  <2> QED BY <1>1, <2>1, <2>2, ClosedTake
<1>9. ASSUME UNCHANGED <<object, rpc, rmsg>>, Q!Get \/ UNCHANGED queue
      PROVE  ClosedInv'
  BY <1>1, <1>9, ClosedTake
<1>10. ASSUME UNCHANGED <<object, rpc, rmsg>>, T!ThreadStep \/ T!StartOpen \/ T!StartRun
                                                \/ T!StartSignal \/ T!Spurious
       PROVE  ClosedInv'
  <2>1. \/ UNCHANGED queue
        \/ Q!Post(M("TIMEOUT", NULL))
        \/ Q!Post(M("STOP_TIMER", NULL))
    BY <1>10 DEF T!ThreadStep, T!StartOpen, T!StartRun, T!StartSignal, T!Spurious, T!Test,
                 T!Park, T!Sleep, T!State, T!Clear, T!Cb, T!Bye, T!Q!Post, T!Q!Sent, Q!Post, Q!Sent
  <2>2. "TIMEOUT" \in MsgTypes /\ "STOP_TIMER" \in MsgTypes
    BY DEF MsgTypes
  <2> QED BY <1>1, <1>9, <1>10, <2>1, <2>2, ClosedPost
<1>11. CASE MainStep
  <2>1. CASE Arm
    BY <1>9, <1>10, <2>1 DEF Arm, connVars
  <2>2. CASE Handler
    BY <1>9, <2>2 DEF Handler, OnAccept, OnHeartBeat, OnTimeout, OnStopTimer, OnClosed, OnStream,
                      OnInquiry, OnRfMf, Takes, connVars
  <2>3. CASE MainInit \/ Register \/ Enable
    BY <1>9, <2>3 DEF MainInit, Register, Enable, connVars
  <2>4. CASE Quiet \/ Disconnect \/ Load \/ Stop \/ Join \/ Clear \/ Reinit
    BY <1>9, <2>4 DEF Quiet, Disconnect, Load, Stop, Join, Clear, Reinit, connVars
  <2> QED BY <1>8, <1>11, <2>1, <2>2, <2>3, <2>4 DEF MainStep, Teardown
<1>12. ASSUME NEW t \in Threads, SendStep(t) \/ Callback(t) PROVE ClosedInv'
  BY <1>9, <1>12 DEF SendStep, Callback, SendLoad, SendCount, SendGate, SendLock, Send,
                     SendUnlock, connVars
<1>13. CASE TimerStep \/ TimerSpurious
  BY <1>10, <1>13 DEF TimerStep, TimerSpurious, others, connVars
<1>14. CASE UNCHANGED vars
  BY <1>9, <1>14 DEF vars, connVars
<1> QED BY <1>2, <1>3, <1>4, <1>5, <1>6, <1>7, <1>11, <1>12, <1>13, <1>14
        DEF Next, Up, ServerStep, RxStep, Threads

\* A receive thread that announced its end never posts again.
THEOREM ClosedDiscipline == Spec => []ClosedInv
<1>1. Init => ClosedInv
  <2> SUFFICES ASSUME Init PROVE ClosedInv
    OBVIOUS
  <2>1. \A i \in 1..Len(queue) : queue[i].conn = NULL
    BY EarlierConn
  <2> QED BY <2>1, SessionAssumption DEF Init, ClosedInv, ClosedIsLast, M
<1>2. TypeOK /\ ClosedInv /\ [Next]_vars => ClosedInv'
  BY ClosedStep
<1> QED BY <1>1, <1>2, SessionTypes, PTL DEF Spec

\* The event loop sees no frame of a client after it has been told that the
\* client's receive thread is gone.
THEOREM ClosedComesLast == Spec => []ClosedIsLast
<1>1. ClosedInv => ClosedIsLast
  BY DEF ClosedInv
<1> QED BY <1>1, ClosedDiscipline, PTL

-----------------------------------------------------------------------------
\* Nothing reaches a client after a failed send()

\* sendToPc() goes on with the connection it loaded, or ends the process.
LEMMA LoadedStep ==
    ASSUME TypeOK, OwnershipInv, LoadedInv, [Next]_vars
    PROVE  LoadedInv'
<1>1. \A c \in Conns : object[c] # "none" => object'[c] # "none"
  BY ObjectsKept
<1>2. CASE UNCHANGED <<spc, sptr>>
  BY <1>1, <1>2 DEF LoadedInv, TypeOK
<1>3. ASSUME NEW t \in Threads, SendStep(t) \/ Callback(t) PROVE LoadedInv'
  <2>1. \A u \in Threads : u # t => spc'[u] = spc[u] /\ sptr'[u] = sptr[u]
    BY <1>3 DEF SendStep, Callback, SendLoad, SendCount, SendGate, SendLock, Send, SendUnlock, TypeOK
  <2>2. CASE SendLoad(t)
    <3>1. spc'[t] = "count" /\ sptr'[t] = g_receive
      BY <2>2 DEF SendLoad, TypeOK
    <3>2. g_receive # NULL => g_receive \in Conns /\ object[g_receive] # "none"
      BY DEF OwnershipInv, TypeOK
    <3> QED BY <1>1, <2>1, <3>1, <3>2 DEF LoadedInv, TypeOK
  <2>3. CASE ~SendLoad(t)
    <3>1. sptr'[t] = sptr[t]
      BY <1>3, <2>3 DEF SendStep, Callback, SendCount, SendGate, SendLock, Send, SendUnlock
    <3>2. spc'[t] \in {"gate", "lock", "send", "unlock"} => sptr[t] # NULL
      BY <1>3, <2>3 DEF SendStep, Callback, SendCount, SendGate, SendLock, Send, SendUnlock,
                        TypeOK, LoadedInv
    <3>3. \A u \in Threads : sptr[u] # NULL => sptr[u] \in Conns /\ object'[sptr[u]] # "none"
      BY <1>1 DEF LoadedInv, TypeOK
    <3> QED BY <2>1, <3>1, <3>2, <3>3 DEF LoadedInv
  <2> QED BY <2>2, <2>3
<1>4. CASE OnInquiry \/ OnRfMf
  <2>1. /\ UNCHANGED sptr
        /\ \A t \in Threads : spc'[t] = spc[t] \/ spc'[t] = "load"
    BY <1>4 DEF OnInquiry, OnRfMf, TypeOK
  <2> QED BY <1>1, <2>1 DEF LoadedInv, TypeOK
<1>5. MainStep => OnInquiry \/ OnRfMf \/ UNCHANGED <<spc, sptr>>
  BY DEF MainStep, MainInit, Handler, Register, Arm, Enable, Teardown, OnAccept, OnHeartBeat,
         OnTimeout, OnStopTimer, OnClosed, OnStream, Quiet, Disconnect, Load, Stop,
         Join, Free, Clear, Reinit, sendVars
<1>6. ServerStep \/ (\E c \in Conns : Accept(c)) => UNCHANGED <<spc, sptr>>
  BY DEF ServerStep, ServerInit, Publish, Connect, PostAccept, Accept, sendVars
<1>7. \A c \in Conns : RxStep(c) \/ (\E ty \in ClientMsgs : RxFrame(c, ty))
                       => UNCHANGED <<spc, sptr>>
  BY DEF RxStep, RxCheck, RxIdle, RxFrame, RxPost, RxClose, sendVars
<1>8. TimerStep \/ TimerSpurious \/ UNCHANGED vars => UNCHANGED <<spc, sptr>>
  BY DEF TimerStep, TimerSpurious, others, vars, sendVars
<1> QED BY <1>2, <1>3, <1>4, <1>5, <1>6, <1>7, <1>8 DEF Next, Up, Threads

\* What a post does to the announcements in the queue.
LEMMA AnnouncedPost ==
    ASSUME TypeOK, NEW ty, NEW d, Q!Post(M(ty, d)), OwnAnnounced' # {}
    PROVE  OwnAnnounced # {} \/ ty = "ACCEPT"
<1>1. CASE UNCHANGED queue
  BY <1>1 DEF OwnAnnounced
<1>2. CASE Q!Sent(M(ty, d))
  <2>1. /\ Len(queue) \in Nat /\ Len(queue') = Len(queue) + 1
        /\ queue'[Len(queue) + 1].type = ty
        /\ \A i \in 1..Len(queue) : queue'[i] = queue[i]
    BY <1>2 DEF TypeOK, Q!Sent, M
  <2> QED BY <2>1 DEF OwnAnnounced
<1> QED BY <1>1, <1>2 DEF Q!Post

\* What taking a message does to them: the queue moves up by one.
LEMMA AnnouncedGet ==
    ASSUME TypeOK, Q!Get
    PROVE  \A i \in OwnAnnounced' : i + 1 \in OwnAnnounced
<1>1. \A i \in 1..Len(queue') : i + 1 \in 1..Len(queue) /\ queue'[i] = queue[i + 1]
  BY DEF TypeOK, Q!Get
<1> QED BY <1>1 DEF OwnAnnounced

\* The three steps that matter to send_enable and to who is inside sendToPc().
LEMMA SendKinds ==
    ASSUME TypeOK, [Next]_vars
    PROVE  \/ Enable
           \/ \E t \in Threads : SendLock(t)
           \/ \E t \in Threads : Send(t)
           \/ /\ UNCHANGED <<send_enable, broken, resumed, excused>>
              /\ \A t \in Threads : /\ InCritical(t)' => InCritical(t)
                                    /\ spc'[t] = "send" => spc[t] = "send"
<1> DEFINE Rest == /\ UNCHANGED <<send_enable, broken, resumed, excused>>
                   /\ \A t \in Threads : /\ InCritical(t)' => InCritical(t)
                                         /\ spc'[t] = "send" => spc[t] = "send"
<1>1. UNCHANGED <<send_enable, broken, resumed, excused, spc>> => Rest
  BY DEF InCritical
<1>2. ASSUME NEW t \in Threads,
             Callback(t) \/ SendLoad(t) \/ SendCount(t) \/ SendGate(t) \/ SendUnlock(t)
      PROVE  Rest
  <2>1. UNCHANGED <<send_enable, broken, resumed, excused>>
    BY <1>2 DEF Callback, SendLoad, SendCount, SendGate, SendUnlock, serverVars, histVars
  <2>2. \A u \in Threads : spc'[u] = spc[u] \/ spc'[u] \notin {"send", "unlock"}
    BY <1>2 DEF Callback, SendLoad, SendCount, SendGate, SendUnlock, TypeOK
  <2> QED BY <2>1, <2>2 DEF InCritical
<1>3. CASE OnInquiry \/ OnRfMf
  <2>1. UNCHANGED <<send_enable, broken, resumed, excused>>
    BY <1>3 DEF OnInquiry, OnRfMf, serverVars, histVars
  <2>2. \A u \in Threads : spc'[u] = spc[u] \/ spc'[u] = "load"
    BY <1>3 DEF OnInquiry, OnRfMf, TypeOK
  <2> QED BY <2>1, <2>2 DEF InCritical
<1>4. MainStep => Enable \/ OnInquiry \/ OnRfMf \/ UNCHANGED <<send_enable, broken, resumed, excused, spc>>
  BY DEF MainStep, MainInit, Handler, Register, Arm, Teardown, OnAccept, OnHeartBeat,
         OnTimeout, OnStopTimer, OnClosed, OnStream, Quiet, Disconnect, Load, Stop,
         Join, Free, Clear, Reinit, sendVars, serverVars, histVars
<1>5. ServerStep \/ (\E c \in Conns : Accept(c))
        => UNCHANGED <<send_enable, broken, resumed, excused, spc>>
  BY DEF ServerStep, ServerInit, Publish, Connect, PostAccept, Accept, sendVars, serverVars, histVars
<1>6. \A c \in Conns : RxStep(c) \/ (\E ty \in ClientMsgs : RxFrame(c, ty))
                       => UNCHANGED <<send_enable, broken, resumed, excused, spc>>
  BY DEF RxStep, RxCheck, RxIdle, RxFrame, RxPost, RxClose, sendVars, serverVars, histVars
<1>7. TimerStep \/ TimerSpurious \/ UNCHANGED vars
        => UNCHANGED <<send_enable, broken, resumed, excused, spc>>
  BY DEF TimerStep, TimerSpurious, others, vars, sendVars, serverVars, histVars
<1> QED BY <1>1, <1>2, <1>3, <1>4, <1>5, <1>6, <1>7 DEF Next, Up, Threads, SendStep

\* Every step of the process keeps a broken stream silent.
LEMMA ResumeStep ==
    ASSUME TypeOK, OwnershipInv, LockInv, LoadedInv, ResumeInv, [Next]_vars
    PROVE  ResumeInv'
<1> DEFINE Silenced == /\ broken \ excused # {} =>
                            send_enable = 0 /\ \A t \in Threads : spc[t] # "send"
<1>1. (OneClient' => OneClient) /\ (NoTeardown' => NoTeardown)
  BY ObjectsKept DEF OneClient, NoTeardown
<1>2. /\ NoTeardown \/ OneClient => resumed \subseteq excused
      /\ NoTeardown => Silenced
  BY DEF ResumeInv, NoResume
<1> SUFFICES ASSUME NoTeardown \/ OneClient
             PROVE  resumed' \subseteq excused' /\ (NoTeardown => Silenced')
  BY <1>1 DEF ResumeInv, NoResume
<1>3. CASE Enable
  <2>1. excused' = excused \cup broken /\ UNCHANGED <<broken, resumed>>
    BY <1>3 DEF Enable, sendVars
  <2> QED BY <1>2, <2>1
<1>4. ASSUME NEW t \in Threads, SendLock(t)
      PROVE  resumed' \subseteq excused' /\ (NoTeardown => Silenced')
  <2>1. UNCHANGED <<send_enable, broken, resumed, excused>>
    BY <1>4 DEF SendLock, serverVars, histVars
  <2>2. send_enable = 0 => \A u \in Threads : spc'[u] = "send" => spc[u] = "send"
    BY <1>4 DEF SendLock, TypeOK
  <2> QED BY <1>2, <2>1, <2>2
<1>5. ASSUME NEW t \in Threads, Send(t)
      PROVE  resumed' \subseteq excused' /\ (NoTeardown => Silenced')
  <2>1. spc[t] = "send" /\ spc'[t] = "unlock" /\ UNCHANGED excused
    BY <1>5 DEF Send, TypeOK, histVars
  <2>2. sptr[t] \in Conns /\ object[sptr[t]] # "none"
    BY <2>1 DEF LoadedInv, TypeOK
  <2>3. NoTeardown => \A u \in Threads : spc'[u] # "send"
    <3>1. NoTeardown => \A u \in Threads : u # t => spc[u] # "send"
      BY <2>1 DEF LockInv, InCritical
    <3> QED BY <1>5, <2>1, <3>1 DEF Send, TypeOK
  <2>4. PICK c \in Target(sptr[t]) :
           \/ /\ c # NULL
              /\ resumed' = resumed \cup ({c} \cap broken)
              /\ UNCHANGED <<send_enable, broken>>
           \/ send_enable' = 0 /\ UNCHANGED resumed
    BY <1>5 DEF Send
  <2>5. CASE c # NULL /\ resumed' = resumed \cup ({c} \cap broken)
             /\ UNCHANGED <<send_enable, broken>>
    <3>1. NoTeardown
      <4>1. SUFFICES ASSUME OneClient PROVE NoTeardown
        BY <4>1
      <4>2. \A d \in Conns : object[d] # "none" => d = sptr[t]
        BY <2>2, <4>1 DEF OneClient
      <4>3. object[sptr[t]] # "freed"
        BY <2>2, <2>5, <4>2 DEF Target
      <4> QED BY <4>2, <4>3 DEF NoTeardown
    <3>2. broken \subseteq excused
      BY <1>2, <2>1, <3>1
    <3> QED BY <1>2, <2>1, <2>5, <3>2
  <2>6. CASE send_enable' = 0 /\ UNCHANGED resumed
    BY <1>2, <2>1, <2>3, <2>6
  <2> QED BY <2>4, <2>5, <2>6
<1>6. CASE /\ UNCHANGED <<send_enable, broken, resumed, excused>>
           /\ \A t \in Threads : /\ InCritical(t)' => InCritical(t)
                                 /\ spc'[t] = "send" => spc[t] = "send"
  BY <1>2, <1>6
<1> QED BY <1>3, <1>4, <1>5, <1>6, SendKinds

\* Nothing reaches a client after a send() to it has failed, whichever threads
\* call sendToPc() and however they interleave, until the event loop handles
\* an accept: that of a later client, one left by an earlier process, or the
\* client's own if it comes so late.
THEOREM BrokenStaysSilent == Spec => []NoResume
<1>1. Init => LockInv /\ LoadedInv /\ ResumeInv
  BY DEF Init, LockInv, LoadedInv, ResumeInv, NoResume, InCritical
<1>2. ResumeInv => NoResume
  BY DEF ResumeInv
<1>3. /\ TypeOK /\ OwnershipInv /\ LockInv /\ LoadedInv /\ ResumeInv /\ [Next]_vars
      => LoadedInv' /\ ResumeInv'
  BY LoadedStep, ResumeStep
<1> QED BY <1>1, <1>2, <1>3, LockStep, SessionTypes, Ownership, PTL DEF Spec

-----------------------------------------------------------------------------
\* The parts inside the whole: the event queue and the timer

\* What a step of the process does to the queue: the event loop takes one
\* message, or one thread posts one; accepts are posted by the server thread.
LEMMA QueueSteps ==
    ASSUME TypeOK, ClosedInv, [Next]_vars
    PROVE  \/ UNCHANGED queue
           \/ Handler /\ Q!Get
           \/ PostAccept /\ Q!Post(M("ACCEPT", svc))
           \/ \E ty \in MsgTypes \ {"ACCEPT"}, d \in Conns \cup {NULL} : Q!Post(M(ty, d))
<1> DEFINE PostOther ==
      \E ty \in MsgTypes \ {"ACCEPT"}, d \in Conns \cup {NULL} : Q!Post(M(ty, d))
<1>1. T!ThreadStep \/ T!StartOpen \/ T!StartRun \/ T!StartSignal \/ T!Spurious
      => UNCHANGED queue \/ PostOther
  <2>1. {"TIMEOUT", "STOP_TIMER"} \subseteq MsgTypes \ {"ACCEPT"}
    BY DEF MsgTypes
  <2>2. T!ThreadStep \/ T!StartOpen \/ T!StartRun \/ T!StartSignal \/ T!Spurious
        => \/ UNCHANGED queue
           \/ Q!Post(M("TIMEOUT", NULL))
           \/ Q!Post(M("STOP_TIMER", NULL))
    BY DEF T!ThreadStep, T!StartOpen, T!StartRun, T!StartSignal, T!Spurious, T!Test,
           T!Park, T!Sleep, T!State, T!Clear, T!Cb, T!Bye, T!Q!Post, T!Q!Sent, Q!Post, Q!Sent
  <2> QED BY <2>1, <2>2
<1>2. \A c \in Conns : RxStep(c) \/ (\E ty \in ClientMsgs : RxFrame(c, ty))
                       => UNCHANGED queue \/ PostOther
  <2> SUFFICES ASSUME NEW c \in Conns,
                      RxStep(c) \/ \E ty \in ClientMsgs : RxFrame(c, ty)
               PROVE  UNCHANGED queue \/ PostOther
    OBVIOUS
  <2>1. CASE RxPost(c)
    <3>1. rmsg[c] \in MsgTypes \ {"ACCEPT"}
      BY <2>1 DEF RxPost, ClosedInv, FrameTypes, MsgTypes
    <3> QED BY <2>1, <3>1 DEF RxPost
  <2>2. CASE RxClose(c)
    <3>1. "CLOSED" \in MsgTypes \ {"ACCEPT"}
      BY DEF MsgTypes
    <3> QED BY <2>2, <3>1 DEF RxClose
  <2>3. CASE ~RxPost(c) /\ ~RxClose(c)
    BY <2>3 DEF RxStep, RxCheck, RxIdle, RxFrame
  <2> QED BY <2>1, <2>2, <2>3
<1>3. Handler => Q!Get
  BY DEF Handler, OnAccept, OnHeartBeat, OnTimeout, OnStopTimer, OnClosed, OnStream,
         OnInquiry, OnRfMf, Takes
<1>4. MainInit \/ Register \/ Enable \/ Teardown => UNCHANGED queue
  BY DEF MainInit, Register, Enable, Teardown, Quiet, Disconnect, Load, Stop, Join,
         Free, Clear, Reinit
<1>5. Arm => UNCHANGED queue \/ PostOther
  BY <1>1 DEF Arm
<1>6. ServerInit \/ Publish \/ Connect \/ (\E c \in Conns : Accept(c)) => UNCHANGED queue
  BY DEF ServerInit, Publish, Connect, Accept
<1>7. PostAccept => UNCHANGED queue \/ Q!Post(M("ACCEPT", svc))
  BY DEF PostAccept
<1>8. \A t \in Threads : SendStep(t) \/ Callback(t) => UNCHANGED queue
  BY DEF SendStep, Callback, SendLoad, SendCount, SendGate, SendLock, Send, SendUnlock
<1>9. TimerStep \/ TimerSpurious => UNCHANGED queue \/ PostOther
  BY <1>1 DEF TimerStep, TimerSpurious
<1>10. UNCHANGED vars => UNCHANGED queue
  BY DEF vars
<1> QED BY <1>2, <1>3, <1>4, <1>5, <1>6, <1>7, <1>8, <1>9, <1>10
        DEF Next, Up, ServerStep, MainStep, Threads

\* However many threads post, the queue they share is the bounded FIFO of
\* EventQueue, which MsgQueue is shown to implement: no thread of devAdapter
\* does more to it than one post or one get at a time.
THEOREM SessionUsesEventQueue == Spec => Q!Spec
<1>1. Init => Q!Init
  <2> SUFFICES ASSUME Init PROVE Q!Init
    OBVIOUS
  <2>1. queue \in Seq(Msg) /\ Len(queue) \in 0..QMax
    BY EarlierType
  <2> QED BY <2>1 DEF Q!Init
<1>2. TypeOK /\ ClosedInv /\ [Next]_vars => [Q!Next]_queue
  <2> SUFFICES ASSUME TypeOK, ClosedInv, [Next]_vars, ~UNCHANGED queue PROVE Q!Next
    OBVIOUS
  <2>1. \A ty \in MsgTypes, d \in Conns \cup {NULL} : M(ty, d) \in Msg
    BY DEF M, Msg
  <2>2. PostAccept => svc \in Conns \cup {NULL} /\ "ACCEPT" \in MsgTypes
    BY DEF TypeOK, MsgTypes
  <2> QED BY <2>1, <2>2, QueueSteps DEF Q!Next
<1> QED BY <1>1, <1>2, SessionTypes, ClosedDiscipline, PTL DEF Spec, Q!Spec

\* Start_Timer() is called from one handler of the event loop, stop_Timer()
\* from another: neither is called inside the other.
CallInv == cpc # "idle" => mpc = "arm"

\* What a step of the process does to the timer: it is a step of the timer's
\* thread, a part of Start_Timer(), or stop_Timer() outside of Start_Timer().
LEMMA TimerSteps ==
    ASSUME TypeOK, CallInv, [Next]_vars
    PROVE  /\ CallInv'
           /\ \/ UNCHANGED timerVars
              \/ T!ThreadStep \/ T!Spurious
              \/ T!StartOpen \/ T!StartRun \/ T!StartSignal
              \/ /\ cpc = "idle" /\ hasTimer = 1
                 /\ closeState' = 1 /\ hasTimer' = 0
                 /\ UNCHANGED <<running, tpc, cpc, missed>>
<1>1. CASE Arm
  <2>1. CASE UNCHANGED timerVars /\ cpc = "idle"
    BY <2>1 DEF CallInv, timerVars
  <2>2. CASE (T!StartOpen \/ T!StartRun) /\ UNCHANGED mpc
    BY <1>1, <2>2 DEF CallInv, Arm
  <2>3. CASE T!StartSignal
    BY <2>3 DEF CallInv, T!StartSignal
  <2> QED BY <1>1, <2>1, <2>2, <2>3 DEF Arm
<1>2. CASE OnClosed
  BY <1>2 DEF OnClosed, Takes, CallInv, mainVars, TypeOK, timerVars
<1>3. CASE TimerStep \/ TimerSpurious
  <2>1. UNCHANGED <<mpc, cpc>>
    BY <1>3 DEF TimerStep, TimerSpurious, others, mainVars, T!ThreadStep, T!Spurious, T!Test,
                T!Park, T!Sleep, T!State, T!Clear, T!Cb, T!Bye
  <2> QED BY <1>3, <2>1 DEF TimerStep, TimerSpurious, CallInv
<1>4. ASSUME UNCHANGED timerVars, UNCHANGED mpc \/ cpc = "idle"
      PROVE  CallInv'
  BY <1>4 DEF timerVars, CallInv
<1>5. MainInit \/ Register \/ Enable \/ Teardown \/ (Handler /\ ~OnClosed)
      => UNCHANGED timerVars /\ cpc = "idle"
  BY DEF MainInit, Register, Enable, Teardown, Quiet, Disconnect, Load, Stop, Join, Free,
         Clear, Reinit, Handler, OnAccept, OnHeartBeat, OnTimeout, OnStopTimer, OnStream,
         OnInquiry, OnRfMf, Takes, CallInv
<1>6. ServerStep \/ (\E c \in Conns : Accept(c)) => UNCHANGED <<timerVars, mpc>>
  BY DEF ServerStep, ServerInit, Publish, Connect, PostAccept, Accept, mainVars
<1>7. \A c \in Conns : RxStep(c) \/ (\E ty \in ClientMsgs : RxFrame(c, ty))
                       => UNCHANGED <<timerVars, mpc>>
  BY DEF RxStep, RxCheck, RxIdle, RxFrame, RxPost, RxClose, mainVars
<1>8. \A t \in Threads : SendStep(t) \/ Callback(t) => UNCHANGED <<timerVars, mpc>>
  BY DEF SendStep, Callback, SendLoad, SendCount, SendGate, SendLock, Send, SendUnlock, mainVars
<1>9. UNCHANGED vars => UNCHANGED <<timerVars, mpc>>
  BY DEF vars, mainVars
<1> QED BY <1>1, <1>2, <1>3, <1>4, <1>5, <1>6, <1>7, <1>8, <1>9
        DEF Next, Up, MainStep, Threads

\* Every step of the process keeps what the timer module relies on.
LEMMA HeardStep ==
    ASSUME TypeOK, CallInv, T!StartInv, [Next]_vars
    PROVE  T!StartInv'
<1> USE DEF T!StartInv, T!StartHeard, TypeOK
<1>1. CASE T!ThreadStep \/ T!Spurious
  BY <1>1 DEF T!ThreadStep, T!Spurious, T!Test, T!Park, T!Sleep, T!Cb, T!State, T!Clear, T!Bye
<1>2. CASE T!StartOpen
  BY <1>2 DEF T!StartOpen
<1>3. CASE T!StartRun
  <2>1. ~missed' => tpc' # "clear"
    BY <1>3 DEF T!StartRun
  <2>2. running' = 1 /\ cpc = "run" /\ UNCHANGED <<closeState, hasTimer>>
    BY <1>3 DEF T!StartRun
  <2> QED BY <2>1, <2>2
<1>4. CASE T!StartSignal
  BY <1>4 DEF T!StartSignal
<1>5. CASE /\ cpc = "idle" /\ hasTimer = 1
           /\ closeState' = 1 /\ hasTimer' = 0
           /\ UNCHANGED <<running, tpc, cpc, missed>>
  BY <1>5
<1>6. CASE UNCHANGED timerVars
  BY <1>6 DEF timerVars
<1> QED BY <1>1, <1>2, <1>3, <1>4, <1>5, <1>6, TimerSteps

\* The promise of the timer module, kept where the timer is used: whatever the
\* clients do, a start that does not fall in a window of timer_thread() is
\* heard, and the thread does not sleep until the event loop stops it.
THEOREM SessionTimerHeard == Spec => []TimerHeard
<1>1. Init => CallInv /\ T!StartInv
  BY DEF Init, CallInv, T!InitTimer, T!StartInv, T!StartHeard
<1>2. TypeOK /\ CallInv /\ T!StartInv /\ [Next]_vars => CallInv' /\ T!StartInv'
  BY TimerSteps, HeardStep
<1>3. T!StartInv => TimerHeard
  BY DEF T!StartInv, T!StartHeard, TimerHeard
<1> QED BY <1>1, <1>2, <1>3, SessionTypes, PTL DEF Spec

-----------------------------------------------------------------------------
\* Callbacks and the pointer they load

\* A step leaves g_server->g_receive alone, publishes or clears it, and
\* nothing announces a client before it is published, if no accept that an
\* earlier process left is handled.
LEMMA PublishedStep ==
    ASSUME TypeOK, ClosedInv, [Next]_vars, ~stale'
    PROVE  \/ Publish
           \/ Clear
           \/ UNCHANGED g_receive /\ (Published' => Published)
<1> DEFINE Goal == Publish \/ Clear \/ (UNCHANGED g_receive /\ (Published' => Published))
<1>1. OwnAnnounced' # {} => OwnAnnounced # {} \/ PostAccept
  <2>1. UNCHANGED queue => OwnAnnounced' = OwnAnnounced
    BY DEF OwnAnnounced
  <2> QED BY <2>1, QueueSteps, AnnouncedGet, AnnouncedPost
<1>2. ASSUME UNCHANGED <<g_receive, cbReg>>, ~PostAccept,
             svpc' = svpc \/ svpc' \notin {"connect", "post"}, Welcoming' => Welcoming
      PROVE  Goal
  BY <1>1, <1>2 DEF Published
<1>3. CASE ServerInit \/ \E c \in Conns : Accept(c)
  BY <1>2, <1>3 DEF ServerInit, Accept, PostAccept, Welcoming, serverVars, mainVars
<1>4. CASE Connect
  <2>1. UNCHANGED g_receive /\ svpc = "connect"
    BY <1>4 DEF Connect
  <2> QED BY <2>1 DEF Published
<1>5. CASE PostAccept
  BY <1>5 DEF PostAccept, serverVars, Published
<1>6. CASE OnAccept
  <2>1. Head(queue).conn # NULL
    BY <1>6 DEF OnAccept
  <2>2. 1 \in 1..Len(queue) /\ queue[1] = Head(queue) /\ queue[1].type = "ACCEPT"
    BY <1>6 DEF OnAccept, Takes, Q!Get, TypeOK
  <2>3. 1 \in OwnAnnounced
    BY <2>1, <2>2 DEF OwnAnnounced
  <2> QED BY <1>6, <2>3 DEF OnAccept, serverVars, Published
<1>7. CASE Register \/ Arm
  BY <1>7 DEF Register, Arm, Welcoming, Published, serverVars
<1>8. CASE \/ MainInit \/ Enable \/ (Handler /\ ~OnAccept)
           \/ Quiet \/ Disconnect \/ Load \/ Stop \/ Join \/ Free \/ Reinit
  <2>1. UNCHANGED <<g_receive, cbReg, svpc>> /\ (Welcoming' => Welcoming)
    BY <1>8 DEF MainInit, Enable, Handler, OnHeartBeat, OnTimeout, OnStopTimer, OnClosed,
                OnStream, OnInquiry, OnRfMf, Quiet, Disconnect, Load, Stop, Join, Free, Reinit,
                Welcoming, serverVars, acceptVars, mainVars
  <2> QED BY <1>2, <1>5, <2>1
<1>9. ASSUME NEW c \in Conns, RxStep(c) \/ \E ty \in ClientMsgs : RxFrame(c, ty)
      PROVE  Goal
  <2>1. UNCHANGED <<g_receive, cbReg, svpc, mpc>>
    BY <1>9 DEF RxStep, RxCheck, RxIdle, RxFrame, RxPost, RxClose, serverVars, acceptVars, mainVars
  <2> QED BY <1>2, <1>5, <2>1 DEF Welcoming
<1>10. ASSUME NEW t \in Threads, SendStep(t) \/ Callback(t) PROVE Goal
  <2>1. UNCHANGED <<g_receive, cbReg, svpc, mpc>>
    BY <1>10 DEF SendStep, Callback, SendLoad, SendCount, SendGate, SendLock, Send, SendUnlock,
                 serverVars, acceptVars, mainVars
  <2> QED BY <1>2, <1>5, <2>1 DEF Welcoming
<1>11. CASE TimerStep \/ TimerSpurious \/ UNCHANGED vars
  <2>1. UNCHANGED <<g_receive, cbReg, svpc, mpc>>
    BY <1>11 DEF TimerStep, TimerSpurious, others, vars, serverVars, acceptVars, mainVars
  <2> QED BY <1>2, <1>5, <2>1 DEF Welcoming
<1> QED BY <1>3, <1>4, <1>5, <1>6, <1>7, <1>8, <1>9, <1>10, <1>11
        DEF Next, Up, ServerStep, MainStep, Teardown, Threads

\* Callbacks are registered once, by the handler of the first announcement.
LEMMA RegisterStep ==
    ASSUME TypeOK, [Next]_vars,
           cbReg => enableCallback = 1, mpc = "register" => enableCallback = 0
    PROVE  /\ cbReg' => enableCallback' = 1
           /\ mpc' = "register" => enableCallback' = 0
           /\ Register \/ UNCHANGED cbReg
<1> DEFINE Goal == /\ cbReg' => enableCallback' = 1
                   /\ mpc' = "register" => enableCallback' = 0
                   /\ Register \/ UNCHANGED cbReg
<1>1. UNCHANGED <<cbReg, enableCallback>> /\ (mpc' = mpc \/ mpc' # "register") => Goal
  OBVIOUS
<1>2. CASE MainStep
  <2>1. CASE OnAccept \/ Register
    BY <2>1 DEF OnAccept, Register, serverVars
  <2>2. CASE \/ MainInit \/ Arm \/ Enable \/ Teardown \/ (Handler /\ ~OnAccept)
    BY <1>1, <2>2 DEF MainInit, Arm, Enable, Teardown, Quiet, Disconnect, Load, Stop, Join, Free,
        Clear, Reinit, Handler, OnHeartBeat, OnTimeout, OnStopTimer, OnClosed, OnStream,
        OnInquiry, OnRfMf, Takes, serverVars, mainVars
  <2> QED BY <1>2, <2>1, <2>2 DEF MainStep
<1>3. CASE ServerStep \/ \E c \in Conns : Accept(c)
  BY <1>1, <1>3 DEF ServerStep, ServerInit, Publish, Connect, PostAccept, Accept, serverVars, mainVars
<1>4. ASSUME NEW c \in Conns, RxStep(c) \/ \E ty \in ClientMsgs : RxFrame(c, ty) PROVE Goal
  BY <1>1, <1>4 DEF RxStep, RxCheck, RxIdle, RxFrame, RxPost, RxClose, serverVars, mainVars
<1>5. ASSUME NEW t \in Threads, SendStep(t) \/ Callback(t) PROVE Goal
  BY <1>1, <1>5 DEF SendStep, Callback, SendLoad, SendCount, SendGate, SendLock, Send, SendUnlock,
                    serverVars, mainVars
<1>6. CASE TimerStep \/ TimerSpurious \/ UNCHANGED vars
  BY <1>1, <1>6 DEF TimerStep, TimerSpurious, others, vars, serverVars, mainVars
<1> QED BY <1>2, <1>3, <1>4, <1>5, <1>6 DEF Next, Up, Threads

\* That an accept of an earlier process was handled stays so.
LEMMA StaleKept ==
    ASSUME [Next]_vars, stale
    PROVE  stale'
<1>1. ServerStep \/ (\E c \in Conns : Accept(c)) => stale'
  BY DEF ServerStep, ServerInit, Publish, Connect, PostAccept, Accept, histVars
<1>2. \A c \in Conns : RxStep(c) \/ (\E ty \in ClientMsgs : RxFrame(c, ty)) => stale'
  BY DEF RxStep, RxCheck, RxIdle, RxFrame, RxPost, RxClose, histVars
<1>3. MainStep => stale'
  BY DEF MainStep, MainInit, Handler, Register, Arm, Enable, Teardown, OnAccept, OnHeartBeat,
         OnTimeout, OnStopTimer, OnClosed, OnStream, OnInquiry, OnRfMf, Quiet, Disconnect,
         Load, Stop, Join, Free, Clear, Reinit, histVars
<1>4. \A t \in Threads : SendStep(t) \/ Callback(t) => stale'
  BY DEF SendStep, Callback, SendLoad, SendCount, SendGate, SendLock, Send, SendUnlock, histVars
<1>5. TimerStep \/ TimerSpurious \/ UNCHANGED vars => stale'
  BY DEF TimerStep, TimerSpurious, others, vars, histVars
<1> QED BY <1>1, <1>2, <1>3, <1>4, <1>5 DEF Next, Up, Threads

\* Every step keeps what callbacks rely on until a client is torn down.
LEMMA CallbackStep ==
    ASSUME TypeOK, OwnershipInv, ClosedInv, CallbackInv, [Next]_vars
    PROVE  CallbackInv'
<1>0. /\ cbReg' => enableCallback' = 1
      /\ mpc' = "register" => enableCallback' = 0
      /\ Register \/ UNCHANGED cbReg
  BY RegisterStep DEF CallbackInv
<1> SUFFICES ASSUME NoTeardown', ~stale'
             PROVE  /\ Published' => g_receive' # NULL
                    /\ \A t \in Callers :
                          /\ spc'[t] # "idle" => cbReg'
                          /\ spc'[t] \notin {"idle", "load"} => sptr'[t] # NULL
  BY <1>0 DEF CallbackInv
<1>1. NoTeardown /\ ~stale
  BY ObjectsKept, StaleKept DEF NoTeardown
<1>2. /\ Published => g_receive # NULL
      /\ \A t \in Callers : /\ spc[t] # "idle" => cbReg
                            /\ spc[t] \notin {"idle", "load"} => sptr[t] # NULL
  BY <1>1 DEF CallbackInv
<1>3. Published' => g_receive' # NULL
  <2>1. Publish => g_receive' # NULL
    BY DEF Publish, OwnershipInv
  <2>2. ~Clear
    BY <1>1 DEF Clear, OwnershipInv, NoTeardown, TypeOK
  <2> QED BY <1>2, <2>1, <2>2, PublishedStep
<1>4. ASSUME \A t \in Callers : spc'[t] = spc[t] /\ sptr'[t] = sptr[t], cbReg' \/ UNCHANGED cbReg
      PROVE  \A t \in Callers : /\ spc'[t] # "idle" => cbReg'
                                /\ spc'[t] \notin {"idle", "load"} => sptr'[t] # NULL
  BY <1>2, <1>4
<1>5. ASSUME NEW u \in Threads, SendStep(u) \/ Callback(u)
      PROVE  \A t \in Callers : /\ spc'[t] # "idle" => cbReg'
                                /\ spc'[t] \notin {"idle", "load"} => sptr'[t] # NULL
  <2>1. UNCHANGED cbReg
    BY <1>5 DEF SendStep, Callback, SendLoad, SendCount, SendGate, SendLock, Send, SendUnlock,
                serverVars
  <2>2. \A t \in Threads : t # u => spc'[t] = spc[t] /\ sptr'[t] = sptr[t]
    BY <1>5 DEF SendStep, Callback, SendLoad, SendCount, SendGate, SendLock, Send, SendUnlock, TypeOK
  <2>3. CASE Callback(u)
    BY <1>2, <2>1, <2>2, <2>3 DEF Callback, TypeOK, Threads
  <2>4. CASE SendLoad(u)
    <3>1. u \in Callers => g_receive # NULL
      BY <1>2, <2>4 DEF SendLoad, Published
    <3> QED BY <1>2, <2>1, <2>2, <2>4, <3>1 DEF SendLoad, TypeOK, Threads
  <2>5. CASE SendCount(u) \/ SendGate(u) \/ SendLock(u) \/ Send(u) \/ SendUnlock(u)
    <3>1. spc[u] \notin {"idle", "load"} /\ sptr' = sptr
      BY <2>5 DEF SendCount, SendGate, SendLock, Send, SendUnlock
    <3> QED BY <1>2, <2>1, <2>2, <3>1 DEF Threads
  <2> QED BY <1>5, <2>3, <2>4, <2>5 DEF SendStep
<1>6. CASE Register
  <2>1. ~cbReg
    BY <1>6 DEF Register, CallbackInv
  <2>2. \A t \in Callers : spc'[t] = spc[t] /\ sptr'[t] = sptr[t]
    BY <1>6 DEF Register, sendVars
  <2> QED BY <1>2, <1>3, <2>1, <2>2
<1>7. CASE OnInquiry \/ OnRfMf
  <2>1. \A t \in Callers : spc'[t] = spc[t] /\ sptr'[t] = sptr[t]
    BY <1>7, SessionAssumption DEF OnInquiry, OnRfMf, TypeOK, Threads
  <2> QED BY <1>3, <1>4, <1>7, <2>1 DEF OnInquiry, OnRfMf, serverVars
<1>8. CASE UNCHANGED <<spc, sptr>> /\ ~Register
  BY <1>0, <1>3, <1>4, <1>8
<1>9. MainStep => OnInquiry \/ OnRfMf \/ UNCHANGED <<spc, sptr>>
  BY DEF MainStep, MainInit, Handler, Register, Arm, Enable, Teardown, OnAccept, OnHeartBeat,
         OnTimeout, OnStopTimer, OnClosed, OnStream, Quiet, Disconnect, Load, Stop,
         Join, Free, Clear, Reinit, sendVars
<1>10. ServerStep \/ (\E c \in Conns : Accept(c)) => UNCHANGED <<spc, sptr>>
  BY DEF ServerStep, ServerInit, Publish, Connect, PostAccept, Accept, sendVars
<1>11. \A c \in Conns : RxStep(c) \/ (\E ty \in ClientMsgs : RxFrame(c, ty))
                       => UNCHANGED <<spc, sptr>>
  BY DEF RxStep, RxCheck, RxIdle, RxFrame, RxPost, RxClose, sendVars
<1>12. TimerStep \/ TimerSpurious \/ UNCHANGED vars => UNCHANGED <<spc, sptr>>
  BY DEF TimerStep, TimerSpurious, others, vars, sendVars
<1> QED BY <1>3, <1>5, <1>6, <1>7, <1>8, <1>9, <1>10, <1>11, <1>12 DEF Next, Up, Threads

\* sendToPc() is safe in the callbacks until the first client is torn down, if
\* the event loop was not told of a client by an earlier process: the NULL
\* pointer and the freed memory that SendThreadSafe meets come from there, from
\* freeReceThread(), or from the main thread's own replies.
THEOREM CallbacksFindClient == Spec => []CallbacksSafe
<1>1. Init => CallbackInv
  <2> SUFFICES ASSUME Init PROVE CallbackInv
    OBVIOUS
  <2>1. OwnAnnounced = {}
    BY EarlierConn DEF OwnAnnounced
  <2> QED BY <2>1 DEF Init, CallbackInv, Published, Welcoming, Threads
<1>2. TypeOK /\ CallbackInv => CallbacksSafe
  BY DEF TypeOK, CallbackInv, CallbacksSafe, SafeFor, NoTeardown, Threads
<1>3. TypeOK /\ OwnershipInv /\ ClosedInv /\ CallbackInv /\ [Next]_vars => CallbackInv'
  BY CallbackStep
<1> QED BY <1>1, <1>2, <1>3, SessionTypes, Ownership, ClosedDiscipline, PTL DEF Spec
=============================================================================
