---- MODULE MCSession ----
\* Model-checking instances of Session.
EXTENDS Session, TLC

CONSTANTS c1, c2, k1, k2

OneConn == {c1}
TwoConns == {c1, c2}

\* Connections are interchangeable, and so are the callback threads (not used
\* where a liveness property is checked).
MCSymmetry == Permutations(Conns) \cup Permutations(Callers)
====
