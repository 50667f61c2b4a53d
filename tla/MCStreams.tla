---- MODULE MCStreams ----
\* Model-checking instance of Streams.
EXTENDS Streams

CONSTANTS k1, k2
====
