------------------------------ MODULE ItemTree ------------------------------
(***************************************************************************)
(* What cJSON promises of its documents: every array or object has a       *)
(* sequence of items, which the calls change as ItemLists says.  An item   *)
(* that is not in use has none.                                            *)
(***************************************************************************)
EXTENDS ItemLists

CONSTANT Items

VARIABLES used, kids

vars == <<used, kids>>

\* Any number of documents may be there already.
Init ==
    /\ used \subseteq Items /\ DOMAIN kids = Items
    /\ \A i \in Items : ItemsOf(kids[i]) \subseteq IF i \in used THEN used ELSE {}

Tree(i) == Within(kids, i)

Without(f, S) == [i \in Items |-> IF i \in S THEN <<>> ELSE f[i]]

\* New items, nobody's children yet except each other's.
Make ==
    /\ used \subseteq used'
    /\ \A i \in used : kids'[i] = kids[i]
    /\ \A i \in used' \ used : ItemsOf(kids'[i]) \cap used = {}

Add(p, n, i) == UNCHANGED used /\ kids' = AtPlace(kids, p, n, i)

Take(p, n) == UNCHANGED used /\ kids' = Taken(kids, p, n)

TakeAndFree(p, n) ==
    LET S == Tree(kids[p][n + 1]) IN
    used' = used \ S /\ kids' = Without(Taken(kids, p, n), S)

\* The item at place n of p gives way to another, and goes with what is in it.
Swap(p, n) ==
    LET S == Tree(kids[p][n + 1]) IN
    /\ used' = used \ S
    /\ \E i \in used \ {p} : kids' = Without(GivenWay(kids, p, n, i), S)

Free(i) ==
    LET S == Tree(i) IN
    used' = used \ S /\ kids' = Without(kids, S)

AddNew(p) ==
    \E i \in used' \ used : used' = used \cup {i} /\ kids' = AtEnd(kids, p, i)

Next ==
    \/ Make
    \/ \E i \in used \ used' : Free(i)
    \/ \E p \in used :
           \/ AddNew(p)
           \/ \E n \in 0 .. Len(kids[p]) : \E i \in used \ {p} : Add(p, n, i)
           \/ \E n \in 0 .. Len(kids[p]) - 1 :
                 IF kids[p][n + 1] \in used' THEN Take(p, n)
                 ELSE TakeAndFree(p, n) \/ Swap(p, n)

Spec == Init /\ [][Next]_vars
=============================================================================
