---- MODULE MCJsonItems ----
\* Model-checking instance of JsonItems, with the comparison of duplicates.
EXTENDS JsonCompare
====
