-------------------------------- MODULE Timer --------------------------------
(***************************************************************************)
(* The heart-beat timer of code/src/gw_timer.c: a thread that sleeps 4 s,  *)
(* posts a time-out and looks at closeState, for as long as closeState is  *)
(* 0, and otherwise waits on a condition variable until running is set.    *)
(* The event loop (code/src/event_process.c) starts it for a new client    *)
(* and stops it when a receive thread has exited; hasTimer is the event    *)
(* loop's own idea of whether the timer is started.                        *)
(*                                                                         *)
(* Start_Timer() writes running and signals the condition variable without *)
(* taking the mutex the timer thread waits with, so every access is a step *)
(* of its own.  That mutex is taken by the timer thread alone and is left  *)
(* out.  (After the first process_loop() the thread even waits without     *)
(* having locked it, gw_timer.c:68-70, which POSIX does not define: taken  *)
(* here as a wait like any other.)  pthread_cond_wait() may return without *)
(* a signal.                                                               *)
(*                                                                         *)
(* missed and late are history variables.  missed: a part of the latest    *)
(* Start_Timer() fell where the timer thread does not notice it, between   *)
(* its look at closeState and its reset of running, or between its look at *)
(* running and its wait.  late: time-outs posted since stop_Timer(); the   *)
(* component's steps do not mention it, so that Session can use them.      *)
(***************************************************************************)
EXTENDS Naturals, Sequences

CONSTANTS TIMEOUT,     \* the message MSG_TIMEOUT
          STOP_TIMER,  \* the message MSG_STOP_TIMER
          QMax         \* messages the event queue holds

ASSUME TimerAssumption == TIMEOUT # STOP_TIMER /\ QMax \in Nat \ {0}

VARIABLES running,     \* g_timer->running
          closeState,  \* g_timer->closeState
          tpc,         \* where timer_thread() is
          cpc,         \* where the event loop is in Start_Timer()
          hasTimer,    \* g_server->hasTimer
          missed,      \* history: the latest start may have been missed
          queue,       \* the event queue
          late         \* history: time-outs posted since stop_Timer()

timerVars == <<running, closeState, tpc, cpc, hasTimer, missed>>
vars == <<timerVars, queue, late>>

Q == INSTANCE EventQueue WITH Msg <- {TIMEOUT, STOP_TIMER}

\* test: the loop condition; park: about to wait; wait: on the condition
\* variable; sleep, cb, state, clear, bye: process_loop().
TimerPc == {"test", "park", "wait", "sleep", "cb", "state", "clear", "bye"}

\* InitTimerThread()
InitTimer == /\ running = 0
             /\ closeState = 1
             /\ tpc = "test"
             /\ cpc = "idle"
             /\ hasTimer = 0
             /\ missed = FALSE

Init == InitTimer /\ Q!Init /\ late = 0

-----------------------------------------------------------------------------
\* timer_thread()

\* while (g_timer->running == 0)
Test == /\ tpc = "test"
        /\ tpc' = IF running = 0 THEN "park" ELSE "sleep"
        /\ UNCHANGED <<running, closeState, cpc, hasTimer, missed, queue>>

\* pthread_cond_wait() starts to wait ...
Park == /\ tpc = "park"
        /\ tpc' = "wait"
        /\ UNCHANGED <<running, closeState, cpc, hasTimer, missed, queue>>

\* ... and may return for no reason.
Spurious == /\ tpc = "wait"
            /\ tpc' = "test"
            /\ UNCHANGED <<running, closeState, cpc, hasTimer, missed, queue>>

\* set_Timer(): select() for g_timer->seconds.
Sleep == /\ tpc = "sleep"
         /\ tpc' = "cb"
         /\ UNCHANGED <<running, closeState, cpc, hasTimer, missed, queue>>

\* timerout_cb()
Cb == /\ tpc = "cb"
      /\ Q!Post(TIMEOUT)
      /\ tpc' = "state"
      /\ UNCHANGED <<running, closeState, cpc, hasTimer, missed>>

\* A loop that tests running instead of closeState: stop_Timer() is never seen.
MutState == /\ tpc = "state"
            /\ tpc' = IF running = 0 THEN "clear" ELSE "sleep"
            /\ UNCHANGED <<running, closeState, cpc, hasTimer, missed, queue>>

\* getState(g_timer,0,0) == 1
State == /\ tpc = "state"
         /\ tpc' = IF closeState = 1 THEN "clear" ELSE "sleep"
         /\ UNCHANGED <<running, closeState, cpc, hasTimer, missed, queue>>

\* g_timer->running = 0
Clear == /\ tpc = "clear"
         /\ running' = 0
         /\ tpc' = "bye"
         /\ UNCHANGED <<closeState, cpc, hasTimer, missed, queue>>

\* running reset only after the message is out: a start in between is undone.
MutBye == /\ tpc = "bye"
          /\ Q!Post(STOP_TIMER)
          /\ running' = 0
          /\ tpc' = "test"
          /\ UNCHANGED <<closeState, cpc, hasTimer, missed>>

\* postMsg_stoptimer(), and back to the wait loop.
Bye == /\ tpc = "bye"
       /\ Q!Post(STOP_TIMER)
       /\ tpc' = "test"
       /\ UNCHANGED <<running, closeState, cpc, hasTimer, missed>>

ThreadStep == Test \/ Park \/ Sleep \/ Cb \/ State \/ Clear \/ Bye

-----------------------------------------------------------------------------
\* Start_Timer() and stop_Timer(), called by the event loop

\* MSG_ACCEPT_NEW_CLIENT with hasTimer == 0: getState(g_timer, 0, 1).
StartOpen == /\ cpc = "idle"
             /\ hasTimer = 0
             /\ closeState' = 0
             /\ missed' = FALSE
             /\ cpc' = "run"
             /\ UNCHANGED <<running, tpc, hasTimer, queue>>

\* running as a count of starts.
MutStartRun == /\ cpc = "run"
               /\ running' = running + 1
               /\ missed' = (tpc = "clear")
               /\ cpc' = "signal"
               /\ UNCHANGED <<closeState, tpc, hasTimer, queue>>

\* g_timer->running = 1, which the thread is about to reset if it has seen
\* closeState = 1.
StartRun == /\ cpc = "run"
            /\ running' = 1
            /\ missed' = (tpc = "clear")
            /\ cpc' = "signal"
            /\ UNCHANGED <<closeState, tpc, hasTimer, queue>>

\* pthread_cond_signal(): lost unless the thread waits, which it is about to do
\* if it has seen running = 0; hasTimer = 1.
StartSignal == /\ cpc = "signal"
               /\ tpc' = IF tpc = "wait" THEN "test" ELSE tpc
               /\ missed' = (missed \/ tpc = "park")
               /\ hasTimer' = 1
               /\ cpc' = "idle"
               /\ UNCHANGED <<running, closeState, queue>>

\* MSG_RECEIVE_THREAD_CLOSED with hasTimer == 1: stop_Timer(), hasTimer = 0.
OnClosed == /\ cpc = "idle"
            /\ hasTimer = 1
            /\ closeState' = 1
            /\ hasTimer' = 0
            /\ UNCHANGED <<running, tpc, cpc, missed, queue>>

\* The event loop takes one of the timer's messages.
Take == /\ cpc = "idle"
        /\ Q!Get
        /\ UNCHANGED timerVars

-----------------------------------------------------------------------------
\* Bound: the history variable counts no further.
LateMax == 2

Counted == CASE closeState = 0 -> 0
             [] closeState # 0 /\ late < LateMax -> late + 1
             [] OTHER -> late

\* The timer and the event loop's use of it.  When clients come and receive
\* threads exit is up to the environment.
Next ==
    \/ /\ Cb
       /\ late' = Counted
    \/ /\ StartOpen \/ OnClosed
       /\ late' = 0
    \/ /\ Test \/ Park \/ Spurious \/ Sleep \/ State \/ Clear \/ Bye
       /\ UNCHANGED late
    \/ /\ StartRun \/ StartSignal \/ Take
       /\ UNCHANGED late

Spec == Init /\ [][Next]_vars

\* The scheduler runs both threads, select() returns after 4 s, and msgsnd()
\* when there is room: nothing makes it fail.
Fairness == /\ WF_vars(Next /\ ThreadStep /\ (tpc \in {"cb", "bye"} => queue' # queue))
            /\ WF_vars(Next /\ (StartRun \/ StartSignal))
            /\ WF_vars(Next /\ Take)

FairSpec == Spec /\ Fairness

-----------------------------------------------------------------------------
\* Types of g_timer_para and of the two threads' positions.
TypeOK == /\ running \in {0, 1}
          /\ closeState \in {0, 1}
          /\ tpc \in TimerPc
          /\ cpc \in {"idle", "run", "signal"}
          /\ hasTimer \in {0, 1}
          /\ missed \in BOOLEAN
          /\ queue \in Seq({TIMEOUT, STOP_TIMER})
          /\ late \in Nat

(* Once stop_Timer() has been called, at most one more time-out is posted  *)
(* before the timer is started again (process_loop() looks at closeState   *)
(* only after timer_cb()).                                                 *)
AtMostOneLateTick == late <= 1

(* The inductive strengthening: once a late time-out is out, the thread is *)
(* leaving process_loop() or finds running = 0.                            *)
LateInv == /\ closeState = 0 => late = 0
           /\ closeState = 1 => cpc = "idle"
           /\ late # 0 => /\ late = 1
                          /\ \/ tpc \in {"state", "clear"}
                             \/ tpc \in {"bye", "test", "park", "wait"} /\ running = 0

(* A timer that the event loop counts on is not asleep: with hasTimer set  *)
(* the timer thread is not at its condition variable, whatever stops and   *)
(* starts came before, unless a part of the latest start fell in one of    *)
(* the two windows of timer_thread().  (A start right after a stop, before *)
(* the thread has looked at closeState, takes effect, and so does one that *)
(* finds the thread at postMsg_stoptimer().)                               *)
StartHeard == hasTimer = 1 /\ ~missed => tpc \notin {"park", "wait"}

(* Why: a start outside of the windows leaves running = 1 and closeState   *)
(* = 0, and the thread, wherever it is, finds them so until the next stop. *)
StartInv == /\ cpc # "idle" => hasTimer = 0
            /\ hasTimer = 1 \/ cpc # "idle" => closeState = 0
            /\ (hasTimer = 1 \/ cpc = "signal") /\ ~missed => running = 1 /\ tpc # "clear"
            /\ StartHeard


=============================================================================
