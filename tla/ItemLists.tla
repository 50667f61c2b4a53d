------------------------------ MODULE ItemLists ------------------------------
(***************************************************************************)
(* What the list functions of cJSON are for: f gives every array or object *)
(* the sequence of its items, and an item goes to the end of those of p or *)
(* to place n (counted from 0), is taken out, or gives way to another.     *)
(***************************************************************************)
EXTENDS Naturals, Sequences, FiniteSets

SE == INSTANCE SequencesExt

AtEnd(f, p, i) == [f EXCEPT ![p] = Append(@, i)]
AtPlace(f, p, n, i) ==
    [f EXCEPT ![p] = IF n < Len(@) THEN SE!InsertAt(@, n + 1, i) ELSE Append(@, i)]
Taken(f, p, n) == [f EXCEPT ![p] = SE!RemoveAt(@, n + 1)]
GivenWay(f, p, n, i) == [f EXCEPT ![p] = SE!ReplaceAt(@, n + 1, i)]

\* What can be reached from i, where step says what is next to what.
Reached(step, i) ==
    LET in[n \in Nat] == [j \in DOMAIN step |->
            {j} \cup IF n = 0 THEN {} ELSE UNION {in[n - 1][k] : k \in step[j]}]
    IN  in[Cardinality(DOMAIN step)][i]

ItemsOf(q) == {q[n] : n \in 1 .. Len(q)}

\* Item i and everything in it.
Within(f, i) == Reached([j \in DOMAIN f |-> ItemsOf(f[j])], i)
=============================================================================
