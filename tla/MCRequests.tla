------------------------------ MODULE MCRequests ------------------------------
(* The receive thread and the event loop for the model checker. *)
EXTENDS Requests

\* Two frames: an inquiry beside every kind of frame, and the state of rf and mf
\* in front of and behind an inquiry, behind a heart beat and in front of a frame
\* of an unknown type.
MCWants ==
    {w \in [0 .. 1 -> {"reg", "rf", "heart beat", "unknown"}] :
        \/ w[0] = "reg" /\ w[1] \in {"reg", "rf", "heart beat"}
        \/ w[1] = "reg" /\ w[0] \in {"rf", "unknown"}
        \/ w[0] = "heart beat" /\ w[1] = "rf"
        \/ w[0] = "rf" /\ w[1] = "unknown"}
=============================================================================
