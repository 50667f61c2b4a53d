------------------------------- MODULE Session -------------------------------
(***************************************************************************)
(* The life of a client connection in devAdapter, and the threads that     *)
(* share it:                                                               *)
(*   - the server thread, runServer(), which accepts clients and publishes *)
(*     the connection in g_server->g_receive (code/src/server.c);          *)
(*   - one receive thread per connection, receive_thread();                *)
(*   - the timer thread (module Timer);                                    *)
(*   - the main thread, which initialises the process and runs eventLoop() *)
(*     (code/src/event_process.c), where a client that sent no heart beat  *)
(*     between two time-outs is torn down by freeReceThread();             *)
(*   - the threads of the broker and the DMA library, whose callbacks call *)
(*     sendToPc() whenever they like.                                      *)
(*                                                                         *)
(* Posting to the event queue is the atomic operation of EventQueue, which *)
(* MsgQueue implements: it may fail, and the queue may hold messages of an *)
(* earlier process when this one starts.  Messages carry the connection    *)
(* they come from as history (NULL: the timer's, or an earlier process's). *)
(*                                                                         *)
(* A NULL pointer dereference ends the process (status).  A read of freed  *)
(* memory finds what free() left (connfd = -1) or, if malloc() gave the    *)
(* block to a later connection, that connection.                           *)
(***************************************************************************)
EXTENDS Naturals, Sequences, FiniteSets

CONSTANTS Conns,         \* connections (bound: a connection is accepted once)
          Callers,       \* broker and DMA threads that run callbacks
          Main,          \* the main thread, as a caller of sendToPc()
          NULL,
          QMax,          \* messages the event queue holds
          MaxLeft,       \* bound: messages an earlier process left in it
          ClientMsgs,    \* kinds of frame the clients send
          Talkers,       \* bound: connections whose clients send frames
          ThreadMayFail  \* whether pthread_create() may fail for a receive thread

\* Frames of processMessage() that the model tells apart.
FrameTypes == {"HEART_BEAT", "INQUIRY", "RF_MF", "START_CSI", "STOP_CSI"}

ASSUME SessionAssumption ==
    /\ NULL \notin Conns
    /\ Main \notin Callers
    /\ QMax \in Nat \ {0}
    /\ MaxLeft \in 0..QMax
    /\ ClientMsgs \subseteq FrameTypes
    /\ Talkers \subseteq Conns
    /\ ThreadMayFail \in BOOLEAN

VARIABLES
    \* struct g_server_para
    waiting, g_receive, send_enable, enableCallback,
    cbReg,           \* the callbacks are known to the broker and DMA libraries
    csi_state,       \* g_dma->csi_state
    svpc, svc,       \* server thread: position, connection in hand
    \* struct g_receive_para, by connection
    object,          \* its memory: none, live, freed
    receive_running, connected,
    rpc, rmsg,       \* receive thread: position, frame in hand
    \* main thread
    mpc, mptr,       \* position, freeReceThread()'s g_receive
    \* sendToPc()
    spc, sptr,       \* by thread: position, its g_receive
    sendLocked,      \* g_server->para_t->mutex_ is locked
    broken, resumed, \* history: clients a send() failed for, and later succeeded
    \* timer and event queue
    running, closeState, tpc, cpc, hasTimer, missed, queue,
    \* history
    excused,         \* clients broken when send_enable was set again
    stale,           \* an accept left by an earlier process was handled
    lost,            \* accepts and ends of receive threads whose post failed
    status           \* of the process: up, exit, segv

\* Events a promise may fail to survive (history).
histVars   == <<excused, stale, lost>>
serverVars == <<waiting, g_receive, send_enable, enableCallback, cbReg, csi_state>>
acceptVars == <<svpc, svc>>
connVars   == <<object, receive_running, connected, rpc, rmsg>>
mainVars   == <<mpc, mptr>>
sendVars   == <<spc, sptr, sendLocked, broken, resumed>>
timerVars  == <<running, closeState, tpc, cpc, hasTimer, missed>>
vars == <<serverVars, acceptVars, connVars, mainVars, sendVars, timerVars, queue,
          histVars, status>>

Threads == Callers \cup {Main}

MsgTypes == FrameTypes \cup {"ACCEPT", "CLOSED", "TIMEOUT", "STOP_TIMER"}
Msg == [type : MsgTypes, conn : Conns \cup {NULL}]
M(ty, c) == [type |-> ty, conn |-> c]

Q == INSTANCE EventQueue
T == INSTANCE Timer WITH TIMEOUT <- M("TIMEOUT", NULL),
                         STOP_TIMER <- M("STOP_TIMER", NULL),
                         late <- 0

\* What msgget() may find in the queue: anything an earlier process posted.
EarlierMsgs == {M(ty, NULL) : ty \in ClientMsgs \cup {"ACCEPT", "CLOSED", "TIMEOUT", "STOP_TIMER"}}

\* main() up to InitServerThread(): the threads exist, the broker does not.
Init ==
    /\ waiting = "STARTUP" /\ g_receive = NULL
    /\ send_enable = 0 /\ enableCallback = 0
    /\ cbReg = FALSE /\ csi_state = 0
    /\ svpc = "init" /\ svc = NULL
    /\ object = [c \in Conns |-> "none"]
    /\ receive_running = [c \in Conns |-> 0]
    /\ connected = [c \in Conns |-> 0]
    /\ rpc = [c \in Conns |-> "none"]
    /\ rmsg = [c \in Conns |-> "CLOSED"]
    /\ mpc = "init" /\ mptr = NULL
    /\ spc = [t \in Threads |-> "idle"]
    /\ sptr = [t \in Threads |-> NULL]
    /\ sendLocked = FALSE
    /\ broken = {} /\ resumed = {}
    /\ T!InitTimer
    /\ \E k \in 0..MaxLeft : queue \in [1..k -> EarlierMsgs]
    /\ excused = {} /\ stale = FALSE /\ lost = {}
    /\ status = "up"

\* lost after the post of m: msgsnd() may have failed.
Lost(m) == IF UNCHANGED queue THEN lost \cup {m} ELSE lost

-----------------------------------------------------------------------------
\* Server thread: runServer()

\* socket(), bind(), listen(): a failure ends the thread.
ServerInit ==
    /\ svpc = "init"
    /\ \/ svpc' = "accept" /\ waiting' = "STARTUP"
       \/ svpc' = "failed" /\ waiting' = "DISCONNECTED"
    /\ UNCHANGED <<g_receive, send_enable, enableCallback, cbReg, csi_state, svc,
                   connVars, mainVars, sendVars, timerVars, queue, status, histVars>>

\* accept() and InitReceThread(), whose result is not looked at.
Accept(c) ==
    /\ svpc = "accept"
    /\ object[c] = "none"
    /\ object' = [object EXCEPT ![c] = "live"]
    /\ receive_running' = [receive_running EXCEPT ![c] = 1]
    /\ \/ rpc' = [rpc EXCEPT ![c] = "check"]
       \/ ThreadMayFail /\ rpc' = [rpc EXCEPT ![c] = "nothread"]
    /\ svc' = c
    /\ svpc' = "publish"
    /\ UNCHANGED <<serverVars, connected, rmsg, mainVars, sendVars,
                   timerVars, queue, status, histVars>>

\* g_server->g_receive = g_receive
Publish ==
    /\ svpc = "publish"
    /\ g_receive' = svc
    /\ svpc' = "connect"
    /\ UNCHANGED <<waiting, send_enable, enableCallback, cbReg, csi_state, svc,
                   connVars, mainVars, sendVars, timerVars, queue, status, histVars>>

\* g_server->waiting = STATE_CONNECTED
Connect ==
    /\ svpc = "connect"
    /\ waiting' = "CONNECTED"
    /\ svpc' = "post"
    /\ UNCHANGED <<g_receive, send_enable, enableCallback, cbReg, csi_state, svc,
                   connVars, mainVars, sendVars, timerVars, queue, status, histVars>>

\* postMsg(MSG_ACCEPT_NEW_CLIENT), which finds the queue through g_receive.
PostAccept ==
    /\ svpc = "post"
    /\ \/ /\ Q!Post(M("ACCEPT", svc))
          /\ lost' = Lost(M("ACCEPT", svc))
          /\ svpc' = "accept"
          /\ svc' = NULL
          /\ UNCHANGED status
       \/ /\ object[svc] = "freed"
          /\ status' = "segv"
          /\ UNCHANGED <<queue, acceptVars, lost>>
    /\ UNCHANGED <<serverVars, connVars, mainVars, sendVars, timerVars,
                   excused, stale>>

ServerStep == ServerInit \/ Publish \/ Connect \/ PostAccept

-----------------------------------------------------------------------------
\* Receive threads: receive_thread()

\* while(getRunningState(g_receive,0) == 1)
RxCheck(c) ==
    /\ rpc[c] = "check"
    /\ rpc' = [rpc EXCEPT ![c] = IF receive_running[c] = 1 THEN "recv" ELSE "closing"]
    /\ UNCHANGED <<serverVars, acceptVars, object, receive_running, connected, rmsg,
                   mainVars, sendVars, timerVars, queue, status, histVars>>

\* receive(): recv() times out or fails, or no complete frame is left.
RxIdle(c) ==
    /\ rpc[c] = "recv"
    /\ rpc' = [rpc EXCEPT ![c] = "check"]
    /\ UNCHANGED <<serverVars, acceptVars, object, receive_running, connected, rmsg,
                   mainVars, sendVars, timerVars, queue, status, histVars>>

\* receive(): the next frame of the buffer goes to processMessage().
RxFrame(c, ty) ==
    /\ rpc[c] = "recv"
    /\ c \in Talkers
    /\ rmsg' = [rmsg EXCEPT ![c] = ty]
    /\ rpc' = [rpc EXCEPT ![c] = "post"]
    /\ UNCHANGED <<serverVars, acceptVars, object, receive_running, connected, mainVars,
                   sendVars, timerVars, queue, status, histVars>>

\* processMessage(): postMsg()
RxPost(c) ==
    /\ rpc[c] = "post"
    /\ Q!Post(M(rmsg[c], c))
    /\ rpc' = [rpc EXCEPT ![c] = "recv"]
    /\ UNCHANGED <<serverVars, acceptVars, object, receive_running, connected, rmsg,
                   mainVars, sendVars, timerVars, status, histVars>>

\* The message posted from inside the loop.
MutRxClose(c) ==
    /\ rpc[c] = "closing"
    /\ Q!Post(M("CLOSED", c))
    /\ lost' = Lost(M("CLOSED", c))
    /\ rpc' = [rpc EXCEPT ![c] = "recv"]
    /\ UNCHANGED <<serverVars, acceptVars, object, receive_running, connected, rmsg,
                   mainVars, sendVars, timerVars, status, excused, stale>>

\* postMsg(MSG_RECEIVE_THREAD_CLOSED), and the thread ends.
RxClose(c) ==
    /\ rpc[c] = "closing"
    /\ Q!Post(M("CLOSED", c))
    /\ lost' = Lost(M("CLOSED", c))
    /\ rpc' = [rpc EXCEPT ![c] = "done"]
    /\ UNCHANGED <<serverVars, acceptVars, object, receive_running, connected, rmsg,
                   mainVars, sendVars, timerVars, status, excused, stale>>

RxStep(c) == RxCheck(c) \/ RxIdle(c) \/ RxPost(c) \/ RxClose(c)

-----------------------------------------------------------------------------
\* Main thread: main() and eventLoop()

\* The callbacks are registered by initProcBroker().
MutMainInit ==
    /\ mpc = "init"
    /\ mpc' = "get"
    /\ cbReg' = TRUE /\ enableCallback' = 1
    /\ UNCHANGED <<waiting, g_receive, send_enable, csi_state, acceptVars, connVars, mptr,
                   sendVars, timerVars, queue, status, histVars>>

\* initProcBroker() and init_dma_state(): a failure ends the process.
MainInit ==
    /\ mpc = "init"
    /\ \/ mpc' = "get" /\ UNCHANGED status
       \/ status' = "exit" /\ UNCHANGED mpc
    /\ UNCHANGED <<serverVars, acceptVars, connVars, mptr, sendVars, timerVars, queue,
                   histVars>>

\* getMsgQueue() returned a message of type ty.
Takes(ty) == /\ mpc = "get"
             /\ spc[Main] = "idle"
             /\ Q!Get
             /\ Head(queue).type = ty

\* MSG_ACCEPT_NEW_CLIENT, up to the test of enableCallback.
OnAccept ==
    /\ Takes("ACCEPT")
    /\ stale' = (stale \/ Head(queue).conn = NULL)
    /\ mpc' = IF enableCallback = 0 THEN "register" ELSE "arm"
    /\ UNCHANGED <<serverVars, acceptVars, connVars, mptr, sendVars, timerVars, status,
                   excused, lost>>

\* broker_register_callback(), dma_register_callback(): results not looked at.
Register ==
    /\ mpc = "register"
    /\ cbReg' \in BOOLEAN
    /\ enableCallback' = 1
    /\ mpc' = "arm"
    /\ UNCHANGED <<waiting, g_receive, send_enable, csi_state, acceptVars, connVars,
                   mptr, sendVars, timerVars, queue, status, histVars>>

\* Start_Timer() if hasTimer == 0
Arm ==
    /\ mpc = "arm"
    /\ \/ /\ cpc = "idle" /\ hasTimer = 1
          /\ mpc' = "enable"
          /\ UNCHANGED <<timerVars, queue>>
       \/ /\ T!StartOpen \/ T!StartRun
          /\ UNCHANGED mpc
       \/ /\ T!StartSignal
          /\ mpc' = "enable"
    /\ UNCHANGED <<serverVars, acceptVars, connVars, mptr, sendVars, status, histVars>>

\* send_enable as a count of clients.
MutEnable ==
    /\ mpc = "enable"
    /\ send_enable' = send_enable + 1
    /\ excused' = excused \cup broken
    /\ mpc' = "get"
    /\ UNCHANGED <<waiting, g_receive, enableCallback, cbReg, csi_state, acceptVars,
                   connVars, mptr, sendVars, timerVars, queue, status,
                   stale, lost>>

\* g_server->send_enable = 1
Enable ==
    /\ mpc = "enable"
    /\ send_enable' = 1
    /\ excused' = excused \cup broken
    /\ mpc' = "get"
    /\ UNCHANGED <<waiting, g_receive, enableCallback, cbReg, csi_state, acceptVars,
                   connVars, mptr, sendVars, timerVars, queue, status,
                   stale, lost>>

\* MSG_RECEIVED_HEART_BEAT: g_server->g_receive->connected = 1
OnHeartBeat ==
    /\ Takes("HEART_BEAT")
    /\ \/ /\ g_receive = NULL
          /\ status' = "segv"
          /\ UNCHANGED connected
       \/ /\ g_receive # NULL
          /\ connected' = [connected EXCEPT ![g_receive] = 1]
          /\ UNCHANGED status
    /\ UNCHANGED <<serverVars, acceptVars, object, receive_running, rpc, rmsg,
                   mainVars, sendVars, timerVars, histVars>>

\* A time-out that trusts the state indicator and not the pointer.
MutOnTimeout ==
    /\ Takes("TIMEOUT")
    /\ mpc' = IF waiting = "CONNECTED" THEN "quiet" ELSE mpc
    /\ UNCHANGED <<serverVars, acceptVars, connVars, mptr, sendVars, timerVars, status,
                   histVars>>

\* One heart beat is good forever.
MutKeepConnected ==
    /\ Takes("TIMEOUT")
    /\ mpc' = IF waiting = "CONNECTED" /\ g_receive # NULL
              THEN IF connected[g_receive] = 1 THEN "get" ELSE "quiet"
              ELSE mpc
    /\ UNCHANGED <<serverVars, acceptVars, connVars, mptr, sendVars, timerVars, status,
                   histVars>>

\* MSG_TIMEOUT, up to the decision to tear the client down.
OnTimeout ==
    /\ Takes("TIMEOUT")
    /\ \/ /\ waiting = "DISCONNECTED"
          /\ UNCHANGED <<connected, mpc, status>>
       \/ /\ waiting # "DISCONNECTED" /\ g_receive = NULL
          /\ status' = "segv"
          /\ UNCHANGED <<connected, mpc>>
       \/ /\ waiting # "DISCONNECTED" /\ g_receive # NULL
          /\ connected' = [connected EXCEPT ![g_receive] = 0]
          /\ mpc' = IF connected[g_receive] = 1 THEN "get" ELSE "quiet"
          /\ UNCHANGED status
    /\ UNCHANGED <<serverVars, acceptVars, object, receive_running, rpc, rmsg,
                   mptr, sendVars, timerVars, histVars>>

\* close_rssi(), gw_stopcsi(), gw_stop_constellation()
Quiet ==
    /\ mpc = "quiet"
    /\ csi_state' = 0
    /\ mpc' = "disconnect"
    /\ UNCHANGED <<waiting, g_receive, send_enable, enableCallback, cbReg, acceptVars,
                   connVars, mptr, sendVars, timerVars, queue, status, histVars>>

\* freeReceThread(): getServerwaiting(g_server,1)
Disconnect ==
    /\ mpc = "disconnect"
    /\ waiting' = "DISCONNECTED"
    /\ mpc' = "load"
    /\ UNCHANGED <<g_receive, send_enable, enableCallback, cbReg, csi_state, acceptVars,
                   connVars, mptr, sendVars, timerVars, queue, status, histVars>>

\* freeReceThread(): g_receive = g_server->g_receive
Load ==
    /\ mpc = "load"
    /\ mptr' = g_receive
    /\ mpc' = "stop"
    /\ UNCHANGED <<serverVars, acceptVars, connVars, sendVars, timerVars, queue, status,
                   histVars>>

\* freeReceThread(): getRunningState(g_receive,1)
Stop ==
    /\ mpc = "stop"
    /\ receive_running' = [receive_running EXCEPT ![mptr] = 0]
    /\ mpc' = "join"
    /\ UNCHANGED <<serverVars, acceptVars, object, connected, rpc, rmsg, mptr,
                   sendVars, timerVars, queue, status, histVars>>

\* The receive thread is not waited for.
MutJoin ==
    /\ mpc = "join"
    /\ mpc' = "free"
    /\ UNCHANGED <<serverVars, acceptVars, connVars, mptr, sendVars, timerVars, queue, status,
                   histVars>>

\* freeReceThread(): pthread_join(); of a thread never created, anything.
Join ==
    /\ mpc = "join"
    /\ \/ rpc[mptr] \in {"done", "nothread"} /\ mpc' = "free" /\ UNCHANGED status
       \/ rpc[mptr] = "nothread" /\ status' = "segv" /\ UNCHANGED mpc
    /\ UNCHANGED <<serverVars, acceptVars, connVars, mptr, sendVars, timerVars, queue,
                   histVars>>

\* freeReceThread(): buffers, mutexes, close(connfd), free(g_receive)
Free ==
    /\ mpc = "free"
    /\ object' = [object EXCEPT ![mptr] = "freed"]
    /\ connected' = [connected EXCEPT ![mptr] = 0]
    /\ mpc' = "clear"
    /\ UNCHANGED <<serverVars, acceptVars, receive_running, rpc, rmsg, mptr,
                   sendVars, timerVars, queue, status, histVars>>

\* freeReceThread(): g_server->g_receive = NULL
Clear ==
    /\ mpc = "clear"
    /\ g_receive' = NULL
    /\ mpc' = "reinit"
    /\ UNCHANGED <<waiting, send_enable, enableCallback, cbReg, csi_state, acceptVars,
                   connVars, mptr, sendVars, timerVars, queue, status, histVars>>

\* mutex_reInit(): the mutex is unlocked, whoever holds it.
Reinit ==
    /\ mpc = "reinit"
    /\ sendLocked' = FALSE
    /\ mpc' = "get"
    /\ mptr' = NULL
    /\ UNCHANGED <<serverVars, acceptVars, connVars, spc, sptr, broken, resumed,
                   timerVars, queue, status, histVars>>

\* MSG_STOP_TIMER
OnStopTimer ==
    /\ Takes("STOP_TIMER")
    /\ UNCHANGED <<serverVars, acceptVars, connVars, mainVars, sendVars, timerVars, status,
                   histVars>>

\* stop_Timer() without the reset of hasTimer.
MutOnClosed ==
    /\ Takes("CLOSED")
    /\ closeState' = IF hasTimer = 1 THEN 1 ELSE closeState
    /\ UNCHANGED <<running, tpc, cpc, missed, hasTimer>>
    /\ UNCHANGED <<serverVars, acceptVars, connVars, mainVars, sendVars, status,
                   histVars>>

\* MSG_RECEIVE_THREAD_CLOSED: stop_Timer() if hasTimer == 1
OnClosed ==
    /\ Takes("CLOSED")
    /\ hasTimer' = 0
    /\ closeState' = IF hasTimer = 1 THEN 1 ELSE closeState
    /\ UNCHANGED <<running, tpc, cpc, missed>>
    /\ UNCHANGED <<serverVars, acceptVars, connVars, mainVars, sendVars, status,
                   histVars>>

\* MSG_START_CSI, MSG_STOP_CSI
OnStream ==
    /\ \/ Takes("START_CSI") /\ csi_state' = 1
       \/ Takes("STOP_CSI") /\ csi_state' = 0
    /\ UNCHANGED <<waiting, g_receive, send_enable, enableCallback, cbReg, acceptVars,
                   connVars, mainVars, sendVars, timerVars, status, histVars>>

\* MSG_INQUIRY_STATE, inquiry_state_from(): sendToPc() if dev_transfer()
\* answered and g_receive was set before it.
OnInquiry ==
    /\ Takes("INQUIRY")
    /\ \/ UNCHANGED spc
       \/ g_receive # NULL /\ spc' = [spc EXCEPT ![Main] = "load"]
    /\ UNCHANGED <<serverVars, acceptVars, connVars, mainVars, sptr, sendLocked, broken,
                   resumed, timerVars, status, histVars>>

\* MSG_RF_MF_STATE, inquiry_rf_and_mf(): sendToPc() in any case.
OnRfMf ==
    /\ Takes("RF_MF")
    /\ spc' = [spc EXCEPT ![Main] = "load"]
    /\ UNCHANGED <<serverVars, acceptVars, connVars, mainVars, sptr, sendLocked, broken,
                   resumed, timerVars, status, histVars>>

Handler == \/ OnAccept \/ OnHeartBeat \/ OnTimeout \/ OnStopTimer
           \/ OnClosed \/ OnStream \/ OnInquiry \/ OnRfMf
Teardown == Quiet \/ Disconnect \/ Load \/ Stop \/ Join \/ Free \/ Clear \/ Reinit
MainStep == MainInit \/ Handler \/ Register \/ Arm \/ Enable \/ Teardown

-----------------------------------------------------------------------------
\* sendToPc(), by the main thread and by the callbacks

\* process_exception() outside STATE_DISCONNECTED, or IQ_register_callback()
\* while the DMA runs.
Callback(t) ==
    /\ cbReg
    /\ spc[t] = "idle"
    /\ waiting # "DISCONNECTED" \/ csi_state = 1
    /\ spc' = [spc EXCEPT ![t] = "load"]
    /\ UNCHANGED <<serverVars, acceptVars, connVars, mainVars, sptr, sendLocked, broken,
                   resumed, timerVars, queue, status, histVars>>

\* g_receive = g_server->g_receive
SendLoad(t) ==
    /\ spc[t] = "load"
    /\ sptr' = [sptr EXCEPT ![t] = g_receive]
    /\ spc' = [spc EXCEPT ![t] = "count"]
    /\ UNCHANGED <<serverVars, acceptVars, connVars, mainVars, sendLocked, broken, resumed,
                   timerVars, queue, status, histVars>>

\* g_receive->send_cnt = g_receive->send_cnt + 1
SendCount(t) ==
    /\ spc[t] = "count"
    /\ \/ sptr[t] = NULL /\ status' = "segv" /\ UNCHANGED spc
       \/ /\ sptr[t] # NULL
          /\ spc' = [spc EXCEPT ![t] = "gate"]
          /\ UNCHANGED status
    /\ UNCHANGED <<serverVars, acceptVars, connVars, mainVars, sptr, sendLocked, broken,
                   resumed, timerVars, queue, histVars>>

\* The early returns: STATE_DISCONNECTED, g_receive == NULL.
SendGate(t) ==
    /\ spc[t] = "gate"
    /\ spc' = [spc EXCEPT ![t] = IF waiting = "DISCONNECTED" \/ sptr[t] = NULL
                                 THEN "idle" ELSE "lock"]
    /\ UNCHANGED <<serverVars, acceptVars, connVars, mainVars, sptr, sendLocked, broken,
                   resumed, timerVars, queue, status, histVars>>

\* send_enable is tested before the mutex is taken, and the mutex forgotten.
MutSendLock(t) ==
    /\ spc[t] = "lock"
    /\ spc' = [spc EXCEPT ![t] = IF send_enable = 1 THEN "send" ELSE "idle"]
    /\ UNCHANGED <<serverVars, acceptVars, connVars, mainVars, sptr, sendLocked, broken,
                   resumed, timerVars, queue, status, histVars>>

\* pthread_mutex_lock(); unlock and return if send_enable == 0
SendLock(t) ==
    /\ spc[t] = "lock"
    /\ ~sendLocked
    /\ sendLocked' = (send_enable = 1)
    /\ spc' = [spc EXCEPT ![t] = IF send_enable = 1 THEN "send" ELSE "idle"]
    /\ UNCHANGED <<serverVars, acceptVars, connVars, mainVars, sptr, broken, resumed,
                   timerVars, queue, status, histVars>>

\* The connection that connfd stands for: NULL for fd -1.
Target(p) == IF object[p] = "freed"
             THEN {NULL} \cup {c \in Conns : object[c] = "live"}
             ELSE {p}

\* An error that is logged and nothing else.
MutSend(t) ==
    /\ spc[t] = "send"
    /\ \E c \in Target(sptr[t]) :
          \/ /\ c # NULL
             /\ resumed' = resumed \cup ({c} \cap broken)
             /\ UNCHANGED <<send_enable, broken>>
          \/ /\ broken' = broken \cup ({c} \ {NULL})
             /\ UNCHANGED <<send_enable, resumed>>
    /\ spc' = [spc EXCEPT ![t] = "unlock"]
    /\ UNCHANGED <<waiting, g_receive, enableCallback, cbReg, csi_state, acceptVars, connVars,
                   mainVars, sptr, sendLocked, timerVars, queue, status, histVars>>

\* send() of the whole frame, or an error or a short count: send_enable = 0.
Send(t) ==
    /\ spc[t] = "send"
    /\ \E c \in Target(sptr[t]) :
          \/ /\ c # NULL
             /\ resumed' = resumed \cup ({c} \cap broken)
             /\ UNCHANGED <<send_enable, broken>>
          \/ /\ send_enable' = 0
             /\ broken' = broken \cup ({c} \ {NULL})
             /\ UNCHANGED resumed
    /\ spc' = [spc EXCEPT ![t] = "unlock"]
    /\ UNCHANGED <<waiting, g_receive, enableCallback, cbReg, csi_state, acceptVars, connVars,
                   mainVars, sptr, sendLocked, timerVars, queue, status, histVars>>

\* pthread_mutex_unlock(), return
SendUnlock(t) ==
    /\ spc[t] = "unlock"
    /\ sendLocked' = FALSE
    /\ spc' = [spc EXCEPT ![t] = "idle"]
    /\ UNCHANGED <<serverVars, acceptVars, connVars, mainVars, sptr, broken, resumed,
                   timerVars, queue, status, histVars>>

SendStep(t) == \/ SendLoad(t) \/ SendCount(t) \/ SendGate(t)
               \/ SendLock(t) \/ Send(t) \/ SendUnlock(t)

-----------------------------------------------------------------------------
\* The timer thread, and the whole process

others == <<serverVars, acceptVars, connVars, mainVars, sendVars, histVars, status>>

TimerStep == T!ThreadStep /\ UNCHANGED others
TimerSpurious == T!Spurious /\ UNCHANGED others

\* A step of a process that has not ended.
Up(A) == status = "up" /\ A

Next ==
    \/ Up(ServerStep)
    \/ Up(MainStep)
    \/ Up(TimerStep)
    \/ Up(TimerSpurious)
    \/ \E c \in Conns : Up(Accept(c)) \/ Up(RxStep(c))
    \/ \E c \in Conns, ty \in ClientMsgs : Up(RxFrame(c, ty))
    \/ \E t \in Callers : Up(Callback(t))
    \/ \E t \in Threads : Up(SendStep(t))

Spec == Init /\ [][Next]_vars

\* The scheduler runs every thread; a library call other than accept() and
\* the condition variable comes back.  Clients and callbacks owe nothing.
\* msgsnd() comes back when there is room: nothing makes it fail, and a thread
\* that competes for room may lose forever, but for the timer's, whose
\* time-outs do not all fail.
Fairness ==
    /\ WF_vars(Up(ServerStep /\ (svpc = "post" => queue' # queue)))
    /\ WF_vars(Up(MainStep))
    /\ WF_vars(Up(TimerStep /\ (tpc \in {"cb", "bye"} => queue' # queue)))
    /\ SF_vars(Up(TimerStep /\ tpc = "cb" /\ queue' # queue))
    /\ \A c \in Conns :
          WF_vars(Up(RxStep(c) /\ (rpc[c] \in {"post", "closing"} => queue' # queue)))
    /\ \A t \in Threads : WF_vars(Up(SendStep(t)))

FairSpec == Spec /\ Fairness

-----------------------------------------------------------------------------
\* Types of g_server_para, g_receive_para and the threads' positions.
TypeOK ==
    /\ waiting \in {"DISCONNECTED", "STARTUP", "CONNECTED"}
    /\ g_receive \in Conns \cup {NULL}
    /\ send_enable \in {0, 1} /\ enableCallback \in {0, 1}
    /\ cbReg \in BOOLEAN /\ csi_state \in {0, 1}
    /\ svpc \in {"init", "accept", "publish", "connect", "post", "failed"}
    /\ svc \in Conns \cup {NULL}
    /\ object \in [Conns -> {"none", "live", "freed"}]
    /\ receive_running \in [Conns -> {0, 1}]
    /\ connected \in [Conns -> {0, 1}]
    /\ rpc \in [Conns -> {"none", "check", "recv", "post", "closing", "done", "nothread"}]
    /\ rmsg \in [Conns -> MsgTypes]
    /\ mpc \in {"init", "get", "register", "arm", "enable", "quiet", "disconnect", "load",
                "stop", "join", "free", "clear", "reinit"}
    /\ mptr \in Conns \cup {NULL}
    /\ spc \in [Threads -> {"idle", "load", "count", "gate", "lock", "send", "unlock"}]
    /\ sptr \in [Threads -> Conns \cup {NULL}]
    /\ sendLocked \in BOOLEAN
    /\ broken \subseteq Conns /\ resumed \subseteq Conns
    /\ running \in {0, 1} /\ closeState \in {0, 1} /\ hasTimer \in {0, 1}
    /\ tpc \in T!TimerPc
    /\ cpc \in {"idle", "run", "signal"}
    /\ missed \in BOOLEAN
    /\ queue \in Seq(Msg)
    /\ excused \subseteq Conns
    /\ stale \in BOOLEAN /\ lost \subseteq Msg
    /\ status \in {"up", "exit", "segv"}

(* No receive thread outlives the memory it works on, however many clients *)
(* come and whichever of them the time-out strikes: freeReceThread() joins *)
(* the thread of the very connection it frees.                             *)
FreeAfterExit ==
    \A c \in Conns : object[c] = "freed" => rpc[c] \in {"done", "nothread"}

(* freeReceThread() works on a connection that is there: it never finds a  *)
(* NULL pointer and never frees a connection twice, even if a client is    *)
(* accepted in the middle of it.                                           *)
TeardownTargetLive ==
    mpc \in {"stop", "join", "free"} => mptr # NULL /\ object[mptr] = "live"

(* Who may touch a connection's memory, which makes the two properties     *)
(* above inductive: a published connection is live until freeReceThread()  *)
(* is between free() and the reset of the pointer; a connection that is    *)
(* not published yet is not the one being freed; freeReceThread() frees    *)
(* after the join.                                                         *)
OwnershipInv ==
    /\ FreeAfterExit
    /\ TeardownTargetLive
    /\ g_receive # NULL =>
          \/ object[g_receive] = "live"
          \/ mpc = "clear" /\ g_receive = mptr
    /\ mpc \in {"quiet", "disconnect", "load"} => g_receive # NULL
    /\ mpc = "free" => rpc[mptr] \in {"done", "nothread"}
    /\ mpc \in {"clear", "reinit"} => mptr # NULL /\ object[mptr] = "freed"
    /\ svpc \in {"publish", "connect", "post"} => svc # NULL
    /\ svpc = "publish" =>
          /\ object[svc] = "live"
          /\ g_receive # svc
          /\ mpc \in {"stop", "join", "free", "clear"} => mptr # svc

(* What a receive thread says last is MSG_RECEIVE_THREAD_CLOSED: the event *)
(* loop sees no frame of a client after it has been told that the client's *)
(* receive thread is gone.  (Of the clients of an earlier process it may   *)
(* still see anything.)                                                    *)
ClosedIsLast ==
    /\ \A i, j \in 1..Len(queue) :
          i < j /\ queue[i].type = "CLOSED" /\ queue[i].conn \in Conns
             => queue[j].conn # queue[i].conn \/ queue[j].type = "ACCEPT"
    /\ \A c \in Conns : rpc[c] \in {"check", "recv", "post", "closing"}
          => \A i \in 1..Len(queue) : queue[i] # M("CLOSED", c)

(* Why: a receive thread that has posted MSG_RECEIVE_THREAD_CLOSED has     *)
(* ended and is never started again, and the clients' frames are of other  *)
(* types.                                                                  *)
ClosedInv ==
    /\ ClosedIsLast
    /\ \A i \in 1..Len(queue) : queue[i].type = "CLOSED" /\ queue[i].conn \in Conns
          => rpc[queue[i].conn] = "done"
    /\ \A c \in Conns : /\ rpc[c] = "post" => rmsg[c] \in FrameTypes
                        /\ object[c] = "none" => rpc[c] = "none"

\* freeReceThread() has not freed a connection yet.
NoTeardown == \A c \in Conns : object[c] # "freed"

InCritical(t) == spc[t] \in {"send", "unlock"}

(* Frames of two threads are not mixed on the wire: as long as no client   *)
(* was ever torn down, at most one thread is between lock and unlock of    *)
(* sendToPc().  (mutex_reInit() makes the restriction necessary.)          *)
SendExclusion ==
    NoTeardown
       => \A t, u \in Threads : InCritical(t) /\ InCritical(u) => t = u

(* Until a client is torn down the mutex says who is inside sendToPc():    *)
(* a thread between lock and unlock has locked it.                         *)
LockInv ==
    NoTeardown
       => \A t \in Threads : InCritical(t) =>
             sendLocked /\ \A u \in Threads : InCritical(u) => u = t

\* At most one client has ever been accepted.
OneClient == \A c, d \in Conns : object[c] # "none" /\ object[d] # "none" => c = d

(* "if network send error in sendToPc , set disable" (server.h:49): after  *)
(* a failed or short send() nothing more reaches that client, whose stream *)
(* of frames may be cut in the middle of one, unless the event loop has    *)
(* handled an accept since.  (send_enable is one flag for all clients, and *)
(* every MSG_ACCEPT_NEW_CLIENT sets it: the client's own if it comes late, *)
(* that of a second client, one that an earlier process left in the queue. *)
(* After a teardown a thread may still use the freed connection, which a   *)
(* later client may have got.)                                             *)
NoResume == NoTeardown \/ OneClient => resumed \subseteq excused

(* What a thread has loaded from g_server->g_receive is a connection that  *)
(* was accepted, and from the test of the pointer on it is not NULL.       *)
LoadedInv ==
    \A t \in Threads :
       /\ spc[t] \in {"gate", "lock", "send", "unlock"} => sptr[t] # NULL
       /\ sptr[t] # NULL => object[sptr[t]] # "none"

(* Why NoResume: a send() that fails was made under the lock, and leaves   *)
(* send_enable 0 and nobody else at send().  Once the only client's memory *)
(* is freed, its descriptor is closed.                                     *)
ResumeInv ==
    /\ NoResume
    /\ NoTeardown /\ broken \ excused # {} =>
          send_enable = 0 /\ \A t \in Threads : spc[t] # "send"

\* A thread that is about to use the connection it loaded finds it there.
SafeFor(t) == spc[t] \in {"count", "send"} => sptr[t] # NULL /\ object[sptr[t]] # "freed"

(* sendToPc() is "send thread safe" (server.c:227): so it is for every     *)
(* thread that calls it.                                                   *)
SendThreadSafe == \A t \in Threads : SafeFor(t)

(* What is left of it: until a client is torn down, a callback of the      *)
(* broker or the DMA library finds a connection to send to, however early  *)
(* it comes after its registration, unless the event loop has handled an   *)
(* accept that an earlier process left in the queue, which registers the   *)
(* callbacks before there is any connection.                               *)
CallbacksSafe == NoTeardown /\ ~stale => \A t \in Callers : SafeFor(t)

\* Clients of this process the event loop has not been told of yet.
OwnAnnounced == {i \in 1..Len(queue) : queue[i].type = "ACCEPT" /\ queue[i].conn # NULL}
Welcoming    == mpc \in {"register", "arm", "enable"}

\* What announces a client to the callbacks.
Published == svpc \in {"connect", "post"} \/ OwnAnnounced # {} \/ Welcoming \/ cbReg

(* Why: callbacks are registered when the first client is announced, which *)
(* is after g_server->g_receive was set, and only freeReceThread() resets  *)
(* the pointer.  (They are registered once.)                               *)
CallbackInv ==
    /\ cbReg => enableCallback = 1
    /\ mpc = "register" => enableCallback = 0
    /\ NoTeardown /\ ~stale =>
          /\ Published => g_receive # NULL
          /\ \A t \in Callers : /\ spc[t] # "idle" => cbReg
                                /\ spc[t] \notin {"idle", "load"} => sptr[t] # NULL

(* The promise of the timer module, kept where the timer is used: whatever *)
(* the clients do, a timer that the event loop counts on is not asleep,    *)
(* unless a part of its start fell in a window of timer_thread().          *)
TimerHeard == hasTimer = 1 /\ ~missed => tpc \notin {"park", "wait"}

\* pthread_join() waits for a thread that waits for room in the event queue,
\* which only the joining thread could make.
Wedged == mpc = "join" /\ rpc[mptr] \in {"post", "closing"} /\ Len(queue) = QMax

\* The connection is not the one the event loop knows, and will not be.
Orphaned(c) == g_receive # c /\ ~(svpc = "publish" /\ svc = c)

\* No frame comes from any client (a heart beat counts for the latest one).
Silent == \A c \in Conns : rpc[c] # "post"

(* A client that falls silent is torn down and its memory freed, unless    *)
(* the process died or one of the ways out of what timerout_cb() and the   *)
(* handler of MSG_TIMEOUT are for is taken: the event loop is wedged, the  *)
(* start of the timer was missed, the accept was never posted, or the      *)
(* event loop lost the connection, because a later client took its place   *)
(* or the teardown of an earlier one reset g_server->g_receive.  (The end  *)
(* of another client's receive thread stops the timer as well, but of no   *)
(* client that the event loop still knows.)                                *)
SilentClientReaped ==
    \A c \in Conns :
        [](object[c] = "live" /\ []Silent
           => <>(\/ object[c] = "freed" \/ status # "up"
                 \/ Wedged \/ (hasTimer = 1 /\ missed)
                 \/ M("ACCEPT", c) \in lost \/ Orphaned(c)))

(* The timer does not outlive its client: after a teardown the event loop  *)
(* gets MSG_RECEIVE_THREAD_CLOSED and stops the timer, unless the message  *)
(* was lost, there never was a thread to post it, the process died or the  *)
(* event loop is wedged in the teardown of another client.                 *)
TimerFollowsClient ==
    \A c \in Conns :
        (mpc = "clear" /\ mptr = c)
           ~> (\/ hasTimer = 0 \/ status # "up" \/ Wedged
               \/ M("CLOSED", c) \in lost \/ rpc[c] = "nothread")

=============================================================================
