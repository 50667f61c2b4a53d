------------------------------- MODULE Streams -------------------------------
(***************************************************************************)
(* The three streams devAdapter sends to a client.                         *)
(*                                                                         *)
(* CSI and constellation come from the DMA engine                          *)
(* (code/src/dma_handler.c): the event loop selects a channel and starts   *)
(* or stops the engine, and a thread of the DMA library calls              *)
(* IQ_register_callback() with the data of the selected channel for as     *)
(* long as the engine runs.  The callback finds out which stream its data  *)
(* belong to from csi_state and constellation_state, which the event loop  *)
(* changes under no lock.                                                  *)
(*                                                                         *)
(* RSSI reports come from the broker, each on a thread of its own, and all *)
(* of them build their frame in the one buffer g_broker->shareInfo         *)
(* (print_rssi_struct() in code/src/procBroker.c).                         *)
(*                                                                         *)
(* sendToPc() is one step here; module Session has its inside.             *)
(* The library's return values are thrown away; a call may fail.  failed   *)
(* and stirred are history variables.                                      *)
(***************************************************************************)
EXTENDS Naturals

CONSTANTS Slow,     \* callbacks dropped between two frames (50 in the code)
          Callers,  \* broker threads that run print_rssi_struct()
          NULL

ASSUME StreamsAssumption == Slow \in Nat /\ NULL \notin Callers

Kinds == {"csi", "constellation"}
Other(s) == IF s = "csi" THEN "constellation" ELSE "csi"

VARIABLES
    \* struct g_dma_para
    state,           \* csi_state and constellation_state
    slow_cnt,
    \* the DMA engine
    on, channel,
    \* event loop: position, stream in hand, what follows a stop
    mpc, kind, back,
    enableCallback,
    registered,      \* the DMA library knows IQ_register_callback()
    failed,          \* history: a call to the engine failed since it was last stopped
    \* thread of the DMA library: position, stream of the data, type found
    dpc, data, type,
    stirred,         \* history: a handler was under way during this callback
    \* print_rssi_struct(), and whose header and samples shareInfo->buf_ holds
    bpc, header, samples

mainVars == <<state, on, channel, mpc, kind, back, enableCallback, registered, failed>>
dmaVars  == <<slow_cnt, dpc, data, type>>
rssiVars == <<bpc, header, samples>>
vars == <<mainVars, dmaVars, stirred, rssiVars>>

\* init_dma_state(), initProcBroker(): the engine is open and at rest.
Init ==
    /\ state = [s \in Kinds |-> 0]
    /\ slow_cnt = 0
    /\ on = 0 /\ channel = "csi"
    /\ mpc = "idle" /\ kind = "csi" /\ back = "idle"
    /\ enableCallback = 0 /\ registered = 0 /\ failed = 0
    /\ dpc = "idle" /\ data = "csi" /\ type = 0
    /\ stirred = 0
    /\ bpc = [k \in Callers |-> "idle"]
    /\ header = NULL /\ samples = NULL

-----------------------------------------------------------------------------
\* The event loop's handlers.

\* MSG_ACCEPT_NEW_CLIENT: the first one registers the callback; the result of
\* dma_register_callback() is not looked at.
Register ==
    /\ mpc = "idle" /\ enableCallback = 0
    /\ enableCallback' = 1
    /\ registered' \in {0, 1}
    /\ UNCHANGED <<state, on, channel, mpc, kind, back, failed>>

\* A stream that is on already is left alone.
Start(s) ==
    /\ mpc = "idle" /\ state[s] = 0
    /\ mpc' = "channel" /\ kind' = s
    /\ UNCHANGED <<state, on, channel, back, enableCallback, registered, failed>>

OnStartCsi == Start("csi")
OnStartConstellation == Start("constellation")

\* axidma_chan()
Select ==
    /\ mpc = "channel"
    /\ channel' = kind
    /\ mpc' = "start"
    /\ UNCHANGED <<state, on, kind, back, enableCallback, registered, failed>>

\* axidma_start()
StartEngine ==
    /\ mpc = "start"
    /\ on' = 1
    /\ mpc' = "mark"
    /\ UNCHANGED <<state, channel, kind, back, enableCallback, registered, failed>>

\* axidma_chan(), axidma_start() or axidma_stop() fails; nobody looks at rc.
EngineFails ==
    /\ mpc \in {"channel", "start", "stop"}
    /\ mpc' = IF mpc = "channel" THEN "start" ELSE IF mpc = "start" THEN "mark" ELSE "clear"
    /\ failed' = 1
    /\ UNCHANGED <<state, on, channel, kind, back, enableCallback, registered>>

\* csi_state = 1 or constellation_state = 1
Mark ==
    /\ mpc = "mark"
    /\ state' = [state EXCEPT ![kind] = 1]
    /\ mpc' = "idle"
    /\ UNCHANGED <<on, channel, kind, back, enableCallback, registered, failed>>

\* A stream that is off already is left alone.
Stop(s, then) ==
    /\ state[s] = 1
    /\ mpc' = "stop" /\ kind' = s /\ back' = then
    /\ UNCHANGED <<state, on, channel, enableCallback, registered, failed>>

OnStopCsi == mpc = "idle" /\ Stop("csi", "idle")
OnStopConstellation == mpc = "idle" /\ Stop("constellation", "idle")

\* The client fell silent: gw_stopcsi(), then gw_stop_constellation().
Teardown ==
    /\ mpc = "idle"
    /\ \/ Stop("csi", "second")
       \/ state["csi"] = 0 /\ Stop("constellation", "idle")

TeardownSecond ==
    /\ mpc = "second"
    /\ \/ Stop("constellation", "idle")
       \/ /\ state["constellation"] = 0
          /\ mpc' = "idle"
          /\ UNCHANGED <<state, on, channel, kind, back, enableCallback, registered, failed>>

\* A stop that leaves the engine running.
MutStopEngine ==
    /\ mpc = "stop"
    /\ mpc' = "clear" /\ failed' = 0
    /\ UNCHANGED <<state, on, channel, kind, back, enableCallback, registered>>

\* axidma_stop()
StopEngine ==
    /\ mpc = "stop"
    /\ on' = 0 /\ failed' = 0
    /\ mpc' = "clear"
    /\ UNCHANGED <<state, channel, kind, back, enableCallback, registered>>

\* The two flags are cleared one after the other, the stopped stream's first.
Clear ==
    /\ mpc = "clear"
    /\ state' = [state EXCEPT ![kind] = 0]
    /\ mpc' = "clear_other"
    /\ UNCHANGED <<on, channel, kind, back, enableCallback, registered, failed>>

ClearOther ==
    /\ mpc = "clear_other"
    /\ state' = [state EXCEPT ![Other(kind)] = 0]
    /\ mpc' = back
    /\ UNCHANGED <<on, channel, kind, back, enableCallback, registered, failed>>

Handlers ==
    \/ Register
    \/ OnStartCsi \/ OnStartConstellation \/ Select \/ StartEngine \/ Mark
    \/ OnStopCsi \/ OnStopConstellation \/ Teardown \/ TeardownSecond
    \/ StopEngine \/ EngineFails \/ Clear \/ ClearOther

-----------------------------------------------------------------------------
\* IQ_register_callback()

\* A throttle that compares with <=.
MutThrottle ==
    /\ dpc = "idle" /\ registered = 1 /\ on = 1
    /\ slow_cnt <= Slow
    /\ slow_cnt' = slow_cnt + 1
    /\ UNCHANGED <<dpc, data, type, stirred>>

\* All callbacks but one in Slow + 1 are dropped.
Throttle ==
    /\ dpc = "idle" /\ registered = 1 /\ on = 1
    /\ slow_cnt < Slow
    /\ slow_cnt' = slow_cnt + 1
    /\ UNCHANGED <<dpc, data, type, stirred>>

\* A callback that lets a frame through one count too late.
MutCallback ==
    /\ dpc = "idle" /\ registered = 1 /\ on = 1
    /\ slow_cnt > Slow
    /\ slow_cnt' = 0
    /\ data' = channel
    /\ dpc' = "csi"
    /\ stirred' = IF mpc = "idle" THEN 0 ELSE 1
    /\ UNCHANGED type

Callback ==
    /\ dpc = "idle" /\ registered = 1 /\ on = 1
    /\ slow_cnt >= Slow
    /\ slow_cnt' = 0
    /\ data' = channel
    /\ dpc' = "csi"
    /\ stirred' = IF mpc = "idle" THEN 0 ELSE 1
    /\ UNCHANGED type

\* The four tests of the two conditions, in the order of the code.
IsCsi ==
    /\ dpc = "csi"
    /\ dpc' = IF state["csi"] = 1 THEN "csi_alone" ELSE "constellation"
    /\ UNCHANGED <<slow_cnt, data, type, stirred>>

IsCsiAlone ==
    /\ dpc = "csi_alone"
    /\ IF state["constellation"] = 0
       THEN dpc' = "send" /\ type' = 2
       ELSE dpc' = "constellation" /\ UNCHANGED type
    /\ UNCHANGED <<slow_cnt, data, stirred>>

IsConstellation ==
    /\ dpc = "constellation"
    /\ IF state["constellation"] = 1
       THEN dpc' = "constellation_alone" /\ UNCHANGED type
       ELSE dpc' = "send" /\ type' = 0
    /\ UNCHANGED <<slow_cnt, data, stirred>>

\* A callback that takes every frame for a constellation when that is on.
MutIsConstellationAlone ==
    /\ dpc = "constellation_alone"
    /\ dpc' = "send" /\ type' = 4
    /\ UNCHANGED <<slow_cnt, data, stirred>>

IsConstellationAlone ==
    /\ dpc = "constellation_alone"
    /\ dpc' = "send"
    /\ type' = IF state["csi"] = 0 THEN 4 ELSE 0
    /\ UNCHANGED <<slow_cnt, data, stirred>>

SendIq ==
    /\ dpc = "send"
    /\ dpc' = "idle"
    /\ UNCHANGED <<slow_cnt, data, type, stirred>>

Dma == Throttle \/ Callback \/ IsCsi \/ IsCsiAlone \/ IsConstellation
       \/ IsConstellationAlone \/ SendIq

-----------------------------------------------------------------------------
\* print_rssi_struct()

\* Length, type, time stamp and number of samples.
WriteHeader(k) ==
    /\ bpc[k] = "idle"
    /\ header' = k
    /\ bpc' = [bpc EXCEPT ![k] = "samples"]
    /\ UNCHANGED samples

\* memcpy() of the samples
WriteSamples(k) ==
    /\ bpc[k] = "samples"
    /\ samples' = k
    /\ bpc' = [bpc EXCEPT ![k] = "send"]
    /\ UNCHANGED header

SendRssi(k) ==
    /\ bpc[k] = "send"
    /\ bpc' = [bpc EXCEPT ![k] = "idle"]
    /\ UNCHANGED <<header, samples>>

Rssi == \E k \in Callers : WriteHeader(k) \/ WriteSamples(k) \/ SendRssi(k)

-----------------------------------------------------------------------------
Next ==
    \/ Handlers /\ stirred' = 1 /\ UNCHANGED <<dmaVars, rssiVars>>
    \/ Dma /\ UNCHANGED <<mainVars, rssiVars>>
    \/ Rssi /\ UNCHANGED <<mainVars, dmaVars, stirred>>

\* The event loop ends a handler it began, and a running engine calls back.
Spec == Init /\ [][Next]_vars
             /\ WF_vars(mpc # "idle" /\ Handlers /\ stirred' = 1 /\ UNCHANGED <<dmaVars, rssiVars>>)
             /\ WF_vars(Dma /\ UNCHANGED <<mainVars, rssiVars>>)

-----------------------------------------------------------------------------
TypeOK ==
    /\ state \in [Kinds -> {0, 1}]
    /\ slow_cnt \in 0 .. Slow
    /\ on \in {0, 1} /\ channel \in Kinds
    /\ mpc \in {"idle", "channel", "start", "mark", "stop", "clear",
               "clear_other", "second"}
    /\ kind \in Kinds /\ back \in {"idle", "second"}
    /\ enableCallback \in {0, 1} /\ registered \in {0, 1} /\ failed \in {0, 1}
    /\ dpc \in {"idle", "csi", "csi_alone", "constellation",
               "constellation_alone", "send"}
    /\ data \in Kinds /\ type \in {0, 2, 4} /\ stirred \in {0, 1}
    /\ bpc \in [Callers -> {"idle", "samples", "send"}]
    /\ header \in Callers \cup {NULL} /\ samples \in Callers \cup {NULL}

\* Some stream is on, or none is.
Streaming == \E s \in Kinds : state[s] = 1

\* Between two handlers the engine runs exactly when one of the flags says so,
\* whatever starts, stops and tear-downs came before: both stop functions
\* return early on a flag of 0, so a flag that lies would leave the engine
\* running for good, or a client without its stream.  A call that fails breaks
\* this, and the next stop that succeeds mends it.
StreamBacked == mpc = "idle" /\ failed = 0 => (on = 1 <=> Streaming)

\* The number the protocol gives to a stream ("2--CSI, 4--Constellation").
TypeOf(s) == IF s = "csi" THEN 2 ELSE 4

\* IQ_register_callback() finds the right type for its data, or 0 when both
\* streams are on, unless a handler of the event loop ran during the callback
\* or a call to the engine failed.
TypedByContent ==
    dpc = "send" /\ stirred = 0 /\ failed = 0 =>
        type = IF state["csi"] = 1 /\ state["constellation"] = 1 THEN 0 ELSE TypeOf(data)

\* A stream that is on alone gets its own data through the throttle with its
\* own type, again and again, until it is switched off or the other one is
\* switched on, which takes the engine's channel; or a call to the engine
\* failed; or the callback is not registered, as for good after a registration
\* that failed, since enableCallback keeps it from being tried again.
StreamFlows ==
    \A s \in Kinds :
        state[s] = 1 /\ state[Other(s)] = 0
            ~> \/ dpc = "send" /\ data = s /\ type = TypeOf(s)
               \/ state[s] = 0 \/ state[Other(s)] = 1
               \/ failed = 1
               \/ registered = 0
=============================================================================
