--------------------------- MODULE StreamsProofs ---------------------------
(***************************************************************************)
(* Theorems about the streams of code/src/dma_handler.c.                   *)
(***************************************************************************)
EXTENDS Streams, TLAPS

\* Steps of the event loop's handlers.
Starts == Register \/ OnStartCsi \/ OnStartConstellation
Engine == Select \/ StartEngine \/ EngineFails \/ StopEngine
Marks  == Mark \/ Clear \/ ClearOther
Stops  == OnStopCsi \/ OnStopConstellation \/ Teardown \/ TeardownSecond

\* Every handler is one of the four.
LEMMA HandlerCases == Handlers <=> Starts \/ Engine \/ Marks \/ Stops
  BY DEF Handlers, Starts, Engine, Marks, Stops

\* The event loop keeps its part of the state in its types.
LEMMA HandlerTypes ==
    ASSUME TypeOK, Handlers, stirred' = 1, UNCHANGED <<dmaVars, rssiVars>>
    PROVE  TypeOK'
<1> USE DEF TypeOK, Kinds, Other, dmaVars, rssiVars
<1>1. CASE Starts
  BY <1>1 DEF Starts, Register, OnStartCsi, OnStartConstellation, Start
<1>2. CASE Engine
  BY <1>2 DEF Engine, Select, StartEngine, EngineFails, StopEngine
<1>3. CASE Marks
  BY <1>3 DEF Marks, Mark, Clear, ClearOther
<1>4. CASE Stops
  BY <1>4 DEF Stops, OnStopCsi, OnStopConstellation, Teardown, TeardownSecond, Stop
<1> QED BY <1>1, <1>2, <1>3, <1>4, HandlerCases

\* The DMA callback keeps its part of the state in its types; the counter of
\* dropped callbacks never passes Slow.
LEMMA DmaTypes ==
    ASSUME TypeOK, Dma, UNCHANGED <<mainVars, rssiVars>>
    PROVE  TypeOK'
<1> USE StreamsAssumption DEF TypeOK, Kinds, mainVars, rssiVars
<1>1. CASE Throttle
  BY <1>1 DEF Throttle
<1>2. CASE Callback
  BY <1>2 DEF Callback
<1>3. CASE IsCsi \/ IsCsiAlone
  BY <1>3 DEF IsCsi, IsCsiAlone
<1>4. CASE IsConstellation \/ IsConstellationAlone \/ SendIq
  BY <1>4 DEF IsConstellation, IsConstellationAlone, SendIq
<1> QED BY <1>1, <1>2, <1>3, <1>4 DEF Dma

\* The broker's callback threads keep the shared buffer in its types.
LEMMA RssiTypes ==
    ASSUME TypeOK, Rssi, UNCHANGED <<mainVars, dmaVars, stirred>>
    PROVE  TypeOK'
<1> USE DEF TypeOK, mainVars, dmaVars
<1> PICK k \in Callers : WriteHeader(k) \/ WriteSamples(k) \/ SendRssi(k)
  BY DEF Rssi
<1>1. CASE WriteHeader(k)
  BY <1>1 DEF WriteHeader
<1>2. CASE WriteSamples(k)
  BY <1>2 DEF WriteSamples
<1>3. CASE SendRssi(k)
  BY <1>3 DEF SendRssi
<1> QED BY <1>1, <1>2, <1>3

\* Every step keeps the types.
LEMMA TypeStep == TypeOK /\ [Next]_vars => TypeOK'
<1> SUFFICES ASSUME TypeOK, [Next]_vars PROVE TypeOK'
  OBVIOUS
<1>1. CASE UNCHANGED vars
  BY <1>1 DEF TypeOK, vars, mainVars, dmaVars, rssiVars
<1> QED BY <1>1, HandlerTypes, DmaTypes, RssiTypes DEF Next

\* The state of the streams keeps its types, for any throttle and any number
\* of broker threads.
THEOREM StreamTypes == Spec => []TypeOK
<1>1. Init => TypeOK
  BY StreamsAssumption DEF Init, TypeOK, Kinds
<1> QED BY <1>1, TypeStep, PTL DEF Spec

-----------------------------------------------------------------------------
\* Where the engine, its channel and the flags are inside a handler, as long as
\* no call to the engine failed.  A stream that is on alone has the engine on
\* its channel; of two the later one has it and the first has no data.
EngineInv ==
    failed = 0 =>
        /\ mpc \in {"idle", "channel", "second", "start", "stop"} =>
               (on = 1 <=> Streaming)
        /\ mpc = "mark" => on = 1
        /\ mpc \in {"start", "mark"} => channel = kind
        /\ mpc \in {"channel", "start", "mark"} => state[kind] = 0
        /\ mpc \in {"clear", "clear_other"} => on = 0
        /\ mpc = "clear_other" => state[kind] = 0
        /\ mpc \in {"idle", "channel", "second"} =>
               \A s \in Kinds : state[s] = 1 /\ state[Other(s)] = 0 => channel = s

\* Every step of a handler keeps the engine and the flags together.
LEMMA EngineStep == TypeOK /\ EngineInv /\ [Next]_vars => EngineInv'
<1> SUFFICES ASSUME TypeOK, EngineInv, [Next]_vars PROVE EngineInv'
  OBVIOUS
<1> USE DEF TypeOK, EngineInv, Streaming, Kinds, Other
<1>1. CASE Starts
  BY <1>1 DEF Starts, Register, OnStartCsi, OnStartConstellation, Start
<1>2. CASE Select \/ StartEngine
  BY <1>2 DEF Select, StartEngine
<1>3. CASE EngineFails \/ StopEngine
  BY <1>3 DEF EngineFails, StopEngine
<1>4. CASE Mark
  BY <1>4 DEF Mark
<1>5. CASE Clear
  BY <1>5 DEF Clear
<1>6. CASE ClearOther
  BY <1>6 DEF ClearOther
<1>7. CASE OnStopCsi \/ OnStopConstellation
  BY <1>7 DEF OnStopCsi, OnStopConstellation, Stop
<1>8. CASE Teardown \/ TeardownSecond
  BY <1>8 DEF Teardown, TeardownSecond, Stop
<1>9. CASE UNCHANGED mainVars
  BY <1>9 DEF mainVars
<1> QED BY <1>1, <1>2, <1>3, <1>4, <1>5, <1>6, <1>7, <1>8, <1>9, HandlerCases
        DEF Next, vars, Engine, Marks, Stops

\* Between two handlers the engine runs exactly when a flag of g_dma_para says
\* so, after any sequence of starts, stops and tear-downs that did not fail.
THEOREM EngineFollowsFlags == Spec => []StreamBacked
<1>1. Init => EngineInv
  BY DEF Init, EngineInv, Streaming, Kinds, Other
<1>2. EngineInv => StreamBacked
  BY DEF EngineInv, StreamBacked
<1>3. Init => TypeOK
  BY StreamsAssumption DEF Init, TypeOK, Kinds
<1> QED BY <1>1, <1>2, <1>3, TypeStep, EngineStep, PTL DEF Spec

-----------------------------------------------------------------------------
\* What IQ_register_callback() knows at each of its tests when no handler ran
\* since it began.
CallbackInv ==
    stirred = 0 /\ failed = 0 /\ dpc # "idle" =>
        /\ mpc = "idle" /\ Streaming
        /\ \A s \in Kinds : state[s] = 1 /\ state[Other(s)] = 0 => data = s
        /\ dpc = "csi_alone" => state["csi"] = 1
        /\ dpc = "constellation" => state["csi"] = 0 \/ state["constellation"] = 1
        /\ dpc = "constellation_alone" => state["constellation"] = 1
        /\ TypedByContent

\* Every step keeps it: a handler's step makes stirred 1, and a callback begins
\* with the engine on the channel its flags name.
LEMMA CallbackStep ==
    TypeOK /\ EngineInv /\ CallbackInv /\ [Next]_vars => CallbackInv'
<1> SUFFICES ASSUME TypeOK, EngineInv, CallbackInv, [Next]_vars PROVE CallbackInv'
  OBVIOUS
<1>1. CASE stirred' = 1
  BY <1>1 DEF CallbackInv
<1>2. CASE Dma /\ UNCHANGED mainVars
  <2> USE DEF TypeOK, CallbackInv, TypedByContent, TypeOf, Streaming, Kinds, Other, mainVars
  <2>1. CASE Throttle \/ SendIq
    BY <1>2, <2>1 DEF Throttle, SendIq
  <2>2. CASE Callback
    BY <1>2, <2>2 DEF Callback, EngineInv
  <2>3. CASE IsCsi \/ IsCsiAlone
    BY <1>2, <2>3 DEF IsCsi, IsCsiAlone
  <2>4. CASE IsConstellation \/ IsConstellationAlone
    BY <1>2, <2>4 DEF IsConstellation, IsConstellationAlone
  <2> QED BY <1>2, <2>1, <2>2, <2>3, <2>4 DEF Dma
<1>3. CASE UNCHANGED <<mainVars, dmaVars, stirred>>
  BY <1>3 DEF CallbackInv, TypedByContent, Streaming, mainVars, dmaVars
<1> QED BY <1>1, <1>2, <1>3 DEF Next, vars

\* IQ_register_callback() gives a frame the type of its data whenever no
\* handler of the event loop ran during the callback and the engine obeyed.
THEOREM FramesTyped == Spec => []TypedByContent
<1>1. Init => CallbackInv
  BY DEF Init, CallbackInv
<1>2. CallbackInv => TypedByContent
  BY DEF CallbackInv, TypedByContent
<1>3. Init => EngineInv
  BY DEF Init, EngineInv, Streaming, Kinds, Other
<1>4. Init => TypeOK
  BY StreamsAssumption DEF Init, TypeOK, Kinds
<1> QED BY <1>1, <1>2, <1>3, <1>4, TypeStep, EngineStep, CallbackStep, PTL DEF Spec
=============================================================================
