---------------------------- MODULE TimerProofs ----------------------------
(***************************************************************************)
(* Theorems about the heart-beat timer of code/src/gw_timer.c.             *)
(***************************************************************************)
EXTENDS Timer, TLAPS

\* Posting to the event queue and taking from it keep its type.
LEMMA QueueType ==
    ASSUME NEW S, NEW q \in Seq(S)
    PROVE  /\ \A m \in S : Append(q, m) \in Seq(S)
           /\ q # <<>> => Tail(q) \in Seq(S)
  OBVIOUS

\* Every step of the timer and the event loop keeps the fields of
\* g_timer_para and the threads' positions in their types.
LEMMA TypeStep == TypeOK /\ [Next]_vars => TypeOK'
<1> SUFFICES ASSUME TypeOK, [Next]_vars PROVE TypeOK'
  OBVIOUS
<1> USE DEF TypeOK, TimerPc
<1>0. (StartRun \/ StartSignal \/ StartOpen) => missed' \in BOOLEAN
  BY DEF StartRun, StartSignal, StartOpen
<1>1. CASE Cb /\ late' = Counted
  <2>1. queue' \in Seq({TIMEOUT, STOP_TIMER})
    BY <1>1, QueueType DEF Cb, Q!Post, Q!Sent
  <2> QED BY <1>1, <2>1 DEF Cb, Counted, LateMax
<1>2. CASE (StartOpen \/ OnClosed) /\ late' = 0
  BY <1>0, <1>2 DEF StartOpen, OnClosed
<1>3. CASE Bye /\ UNCHANGED late
  <2>1. queue' \in Seq({TIMEOUT, STOP_TIMER})
    BY <1>3, QueueType DEF Bye, Q!Post, Q!Sent
  <2> QED BY <1>3, <2>1 DEF Bye
<1>4. CASE Take /\ UNCHANGED late
  <2>1. queue' \in Seq({TIMEOUT, STOP_TIMER})
    BY <1>4, QueueType DEF Take, Q!Get
  <2> QED BY <1>4, <2>1 DEF Take, timerVars
<1>5. CASE (Test \/ Park \/ Spurious \/ Sleep \/ State \/ Clear) /\ UNCHANGED late
  BY <1>5 DEF Test, Park, Spurious, Sleep, State, Clear
<1>6. CASE StartRun /\ UNCHANGED late
  BY <1>0, <1>6 DEF StartRun
<1>7. CASE StartSignal /\ UNCHANGED late
  BY <1>0, <1>7 DEF StartSignal
<1>8. CASE UNCHANGED vars
  BY <1>8 DEF vars, timerVars
<1> QED BY <1>1, <1>2, <1>3, <1>4, <1>5, <1>6, <1>7, <1>8 DEF Next

\* The fields of g_timer_para keep their types in every reachable state.
THEOREM TimerTypes == Spec => []TypeOK
<1>1. Init => TypeOK
  <2> SUFFICES ASSUME Init PROVE TypeOK
    OBVIOUS
  <2>1. queue \in Seq({TIMEOUT, STOP_TIMER})
    BY TimerAssumption DEF Init, Q!Init
  <2> QED BY <2>1 DEF Init, InitTimer, TypeOK, TimerPc
<1> QED BY <1>1, TypeStep, PTL DEF Spec

\* Every step keeps the bookkeeping of late time-outs: only Cb counts, and it
\* leaves the thread on its way to Clear.
LEMMA LateStep == TypeOK /\ LateInv /\ [Next]_vars => LateInv'
<1> SUFFICES ASSUME TypeOK, LateInv, [Next]_vars PROVE LateInv'
  OBVIOUS
<1> USE DEF LateInv, TypeOK, TimerPc
<1>1. CASE Cb /\ late' = Counted
  BY <1>1 DEF Cb, Counted, LateMax
<1>2. CASE (StartOpen \/ OnClosed) /\ late' = 0
  BY <1>2 DEF StartOpen, OnClosed
<1>3. CASE (Test \/ Park \/ Spurious \/ Sleep) /\ UNCHANGED late
  BY <1>3 DEF Test, Park, Spurious, Sleep
<1>4. CASE (State \/ Clear \/ Bye) /\ UNCHANGED late
  BY <1>4 DEF State, Clear, Bye
<1>5. CASE (StartRun \/ StartSignal) /\ UNCHANGED late
  BY <1>5 DEF StartRun, StartSignal
<1>6. CASE Take /\ UNCHANGED late
  BY <1>6 DEF Take, timerVars
<1>7. CASE UNCHANGED vars
  BY <1>7 DEF vars, timerVars
<1> QED BY <1>1, <1>2, <1>3, <1>4, <1>5, <1>6, <1>7 DEF Next

\* After stop_Timer() at most one more MSG_TIMEOUT is posted, whatever the
\* interleaving with Start_Timer() and however full the event queue is.
THEOREM OneLateTick == Spec => []AtMostOneLateTick
<1>1. Init => LateInv
  BY DEF Init, InitTimer, LateInv
<1>2. TypeOK /\ LateInv => AtMostOneLateTick
  BY DEF TypeOK, LateInv, AtMostOneLateTick
<1> QED BY <1>1, <1>2, LateStep, TimerTypes, PTL DEF Spec

\* Every step keeps what a start has achieved: only Clear undoes running = 1,
\* and a start that finds the thread before Clear counts as missed.
LEMMA StartStep == TypeOK /\ StartInv /\ [Next]_vars => StartInv'
<1> SUFFICES ASSUME TypeOK, StartInv, [Next]_vars PROVE StartInv'
  OBVIOUS
<1> USE DEF StartInv, StartHeard, TypeOK, TimerPc
<1>1. CASE Cb \/ Bye
  BY <1>1 DEF Cb, Bye
<1>2. CASE StartOpen \/ OnClosed
  BY <1>2 DEF StartOpen, OnClosed
<1>3. CASE Test \/ Park \/ Spurious \/ Sleep
  BY <1>3 DEF Test, Park, Spurious, Sleep
<1>4. CASE State \/ Clear
  BY <1>4 DEF State, Clear
<1>5. CASE StartRun
  <2>1. ~missed' => tpc # "clear"
    BY <1>5 DEF StartRun
  <2> QED BY <1>5, <2>1 DEF StartRun
<1>6. CASE StartSignal
  <2>1. ~missed' => ~missed /\ tpc # "park"
    BY <1>6 DEF StartSignal
  <2> QED BY <1>6, <2>1 DEF StartSignal
<1>7. CASE Take
  BY <1>7 DEF Take, timerVars
<1>8. CASE UNCHANGED vars
  BY <1>8 DEF vars, timerVars
<1> QED BY <1>1, <1>2, <1>3, <1>4, <1>5, <1>6, <1>7, <1>8 DEF Next

\* A timer the event loop counts on is not asleep, whatever stops and starts
\* came before and whichever of its messages were lost, unless a part of the
\* latest Start_Timer() fell in one of the two windows of timer_thread().
THEOREM StartTakesEffect == Spec => []StartHeard
<1>1. Init => StartInv
  BY DEF Init, InitTimer, StartInv, StartHeard
<1>2. StartInv => StartHeard
  BY DEF StartInv
<1> QED BY <1>1, <1>2, StartStep, TimerTypes, PTL DEF Spec
=============================================================================
