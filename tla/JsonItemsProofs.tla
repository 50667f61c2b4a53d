--------------------------- MODULE JsonItemsProofs ---------------------------
(***************************************************************************)
(* Proofs about the items of cJSON (modules JsonLists and JsonItems), for  *)
(* heaps of any size and lists of any length.  First the functions that    *)
(* set pointers: each does to the lists what it is for, and nothing else.  *)
(* Then what is in an item, what its delete frees, and what the functions  *)
(* that allocate leave, whichever allocation fails.  From these JsonInv:   *)
(* between two calls the heap is in order (Order), that is,                *)
(*   - the lists are linked, every item in use is in one place or with the *)
(*     client or lost, no item is in itself, and free cells are blank      *)
(*     (Sound);                                                            *)
(*   - keys and texts are as many as items own (Counted);                  *)
(*   - members of objects have names, unless one was not copied (Named).   *)
(* Every call of the client keeps it and is a step of ItemTree.            *)
(***************************************************************************)
EXTENDS JsonItems, FiniteSetTheorems, SequenceTheorems, WellFoundedInduction, TLAPS

-----------------------------------------------------------------------------
\* An item is not NULL, and so is the element of a list.
LEMMA ItemNotNull ==
    /\ \A i \in Items : i # NULL /\ i \in Nat
    /\ \A s \in Seq(Items) : \A n \in 1 .. Len(s) : s[n] \in Items /\ s[n] # NULL
<1>1. \A i \in Items : i # NULL /\ i \in Nat
  BY HeapAssumption DEF Items, NULL
<1>2. ASSUME NEW s \in Seq(Items), NEW n \in 1 .. Len(s) PROVE s[n] \in Items
  OBVIOUS
<1> QED BY <1>1, <1>2

-----------------------------------------------------------------------------
\* Walking along a list

\* The library's theorem that < is well-founded, with its relation written out.
LEMMA LessWellFounded ==
    IsWellFoundedOn({ss \in Nat \X Nat : ss[1] < ss[2]}, Nat)
  BY NatLessThanWellFounded, Zenon DEF OpToRel

\* A set of natural numbers that is not empty has a least element: what stands
\* for induction in this module.
LEMMA LeastNat ==
    ASSUME NEW S, S \subseteq Nat, S # {}
    PROVE  \E k \in S : \A j \in S : k <= j
<1> DEFINE R == {ss \in Nat \X Nat : ss[1] < ss[2]}
<1>1. PICK k \in S : \A j \in S : ~(<<j, k>> \in R)
  <2>1. IsWellFoundedOn(R, Nat)
    BY LessWellFounded
  <2> HIDE DEF R
  <2> QED BY <2>1, WFMin
<1>2. \A j \in S : k <= j
  <2> SUFFICES ASSUME NEW j \in S PROVE k <= j
    OBVIOUS
  <2>1. j \in Nat /\ k \in Nat /\ ~(<<j, k>> \in R)
    BY <1>1
  <2>2. j < k => <<j, k>> \in R
    BY <2>1
  <2> HIDE DEF R
  <2> QED BY <2>1, <2>2
<1> QED BY <1>2

\* What Path computes along a list that is linked as s.
LEMMA PathOf ==
    ASSUME NEW h, NEW c, NEW s \in Seq(Items),
           c = IF s = <<>> THEN NULL ELSE s[1],
           \A n \in 1 .. Len(s) : h.node[s[n]].next = IF n = Len(s) THEN NULL ELSE s[n + 1]
    PROVE  \A n \in Nat : Path(h, c)[n] = IF n < Len(s) THEN s[n + 1] ELSE NULL
<1> DEFINE follower == [i \in Nat |-> IF i = NULL THEN NULL ELSE h.node[i].next]
           body(a) == [n \in Nat |-> IF n = 0 THEN c ELSE follower[a[n - 1]]]
           g == [n \in Nat |-> IF n < Len(s) THEN s[n + 1] ELSE NULL]
           at == CHOOSE a : a = body(a)
<1>1. \A n \in Nat \ {0} : g[n] = follower[g[n - 1]]
  <2> SUFFICES ASSUME NEW n \in Nat \ {0} PROVE g[n] = follower[g[n - 1]]
    OBVIOUS
  <2>1. CASE n - 1 < Len(s)
    <3>1. n \in 1 .. Len(s) /\ g[n - 1] = s[n] /\ s[n] # NULL /\ s[n] \in Nat
      BY <2>1, ItemNotNull
    <3> QED BY <3>1
  <2>2. CASE ~(n - 1 < Len(s))
    <3>1. g[n - 1] = NULL /\ NULL \in Nat /\ g[n] = NULL
      BY <2>2 DEF NULL
    <3> QED BY <3>1
  <2> QED BY <2>1, <2>2
<1>2. at = body(at)
  <2>1. g[0] = c
    OBVIOUS
  <2> HIDE DEF follower
  <2>2. g = body(g)
    <3>1. \A n \in Nat : g[n] = body(g)[n]
      BY <1>1, <2>1
    <3> QED BY <3>1
  <2> HIDE DEF g, body
  <2> QED BY <2>2, Zenon
<1>3. at[0] = c /\ \A n \in Nat \ {0} : at[n] = follower[at[n - 1]]
  <2> HIDE DEF at, follower
  <2> QED BY <1>2
<1>4. ASSUME NEW n \in Nat PROVE at[n] = g[n]
  <2> HIDE DEF at, body, follower
  <2> DEFINE Bad == {j \in Nat : at[j] # g[j]}
  <2> HIDE DEF g
  <2> SUFFICES ASSUME Bad # {} PROVE FALSE
    OBVIOUS
  <2>1. PICK j \in Bad : \A i \in Bad : j <= i
    <3>1. Bad \subseteq Nat
      OBVIOUS
    <3> HIDE DEF Bad
    <3> QED BY <3>1, LeastNat
  <2>2. CASE j = 0
    BY <1>3, <2>1, <2>2 DEF g
  <2>3. CASE j # 0
    <3>1. j - 1 \in Nat /\ j - 1 \notin Bad
      BY <2>1, <2>3
    <3> QED BY <1>1, <1>3, <2>1, <2>3, <3>1
  <2> QED BY <2>2, <2>3
<1>5. at = Path(h, c)
  BY DEF Path
<1> HIDE DEF at
<1> QED BY <1>4, <1>5

-----------------------------------------------------------------------------
\* Lists that are linked as a function says

\* The list of an owner, walked from its first item.
LEMMA OwnerPath ==
    ASSUME NEW h, NEW f, LinkedAs(h, f), NEW p \in Items, Owner(h, p)
    PROVE  /\ f[p] \in Seq(Items)
           /\ \A n \in Nat : Path(h, h.node[p].child)[n] =
                               IF n < Len(f[p]) THEN f[p][n + 1] ELSE NULL
<1>1. f[p] \in Seq(Items)
  BY DEF LinkedAs
<1>2. h.node[p].child = IF f[p] = <<>> THEN NULL ELSE f[p][1]
  BY DEF LinkedAs
<1>3. \A n \in 1 .. Len(f[p]) :
         h.node[f[p][n]].next = IF n = Len(f[p]) THEN NULL ELSE f[p][n + 1]
  BY DEF LinkedAs
<1> QED BY <1>1, <1>2, <1>3, PathOf

\* An item is in one place, so no list is longer than the heap.
LEMMA ListLength ==
    ASSUME NEW h, NEW f, LinkedAs(h, f), NEW p \in Items
    PROVE  f[p] \in Seq(Items) /\ Len(f[p]) \in 0 .. N
<1>1. f[p] \in Seq(Items)
  BY DEF LinkedAs
<1>2. CASE Len(f[p]) > N
  <2>1. IsFiniteSet(1 .. Len(f[p])) /\ Cardinality(1 .. Len(f[p])) = Len(f[p])
    <3>1. 1 \in Int /\ Len(f[p]) \in Int /\ Len(f[p]) >= 1 /\ Len(f[p]) - 1 + 1 = Len(f[p])
      BY <1>1, <1>2, HeapAssumption
    <3> QED BY <3>1, FS_Interval
  <2>2. IsFiniteSet(Items) /\ Cardinality(Items) = N
    BY FS_Interval, HeapAssumption DEF Items
  <2>3. f[p] \in [1 .. Len(f[p]) -> Items]
    BY <1>1
  <2>4. Cardinality(Items) < Cardinality(1 .. Len(f[p]))
    BY <1>1, <1>2, <2>1, <2>2, HeapAssumption
  <2>5. PICK m, n \in 1 .. Len(f[p]) : m # n /\ f[p][m] = f[p][n]
    BY <2>1, <2>2, <2>3, <2>4, FS_PigeonHole
  <2> QED BY <2>5 DEF LinkedAs
<1> QED BY <1>1, <1>2, HeapAssumption

\* get_array_item() finds the item at its place, and nothing beyond the end.
LEMMA ItemAtIs ==
    ASSUME NEW h, NEW f, LinkedAs(h, f), NEW p \in Items, Owner(h, p), NEW n \in Nat
    PROVE  ItemAt(h, p, n) = IF n < Len(f[p]) THEN f[p][n + 1] ELSE NULL
  BY OwnerPath DEF ItemAt

\* The loop of add_item_to_array() ends at the last item.
LEMMA LastIs ==
    ASSUME NEW h, NEW f, LinkedAs(h, f), NEW p \in Items, Owner(h, p), f[p] # <<>>
    PROVE  Last(h, h.node[p].child) = f[p][Len(f[p])]
<1> DEFINE at == Path(h, h.node[p].child)
           end(n) == at[n] # NULL /\ at[n + 1] = NULL
<1>1. f[p] \in Seq(Items) /\ Len(f[p]) \in 1 .. N
  BY ListLength, HeapAssumption
<1>2. \A n \in Nat : at[n] = IF n < Len(f[p]) THEN f[p][n + 1] ELSE NULL
  BY OwnerPath
<1>3. \A n \in Nat : end(n) <=> n = Len(f[p]) - 1
  <2> HIDE DEF at
  <2> SUFFICES ASSUME NEW n \in Nat PROVE end(n) <=> n = Len(f[p]) - 1
    OBVIOUS
  <2>1. at[n] # NULL <=> n < Len(f[p])
    BY <1>1, <1>2, ItemNotNull
  <2>2. at[n + 1] # NULL <=> n + 1 < Len(f[p])
    BY <1>1, <1>2, ItemNotNull
  <2> QED BY <1>1, <2>1, <2>2
<1>4. (CHOOSE n \in 0 .. N : end(n)) = Len(f[p]) - 1
  <2> HIDE DEF end
  <2>1. Len(f[p]) - 1 \in 0 .. N
    BY <1>1, HeapAssumption
  <2>2. \A n \in 0 .. N : end(n) <=> n = Len(f[p]) - 1
    BY <1>3, HeapAssumption
  <2> QED BY <2>1, <2>2
<1>5. at[Len(f[p]) - 1] = f[p][Len(f[p])]
  BY <1>1, <1>2, HeapAssumption
<1> QED BY <1>4, <1>5 DEF Last

\* ListFrom reads off the pointers what they were set for.
LEMMA ListFromIs ==
    ASSUME NEW h, NEW f, LinkedAs(h, f), NEW p \in Items, Owner(h, p)
    PROVE  ListFrom(h, h.node[p].child) = f[p]
<1> DEFINE at == Path(h, h.node[p].child)
           last(n) == at[n] = NULL \/ n = N + 1
           length == CHOOSE n \in 0 .. N + 1 : last(n) /\ (n = 0 \/ at[n - 1] # NULL)
<1>1. f[p] \in Seq(Items) /\ Len(f[p]) \in 0 .. N
  BY ListLength
<1>2. \A n \in Nat : at[n] = IF n < Len(f[p]) THEN f[p][n + 1] ELSE NULL
  BY OwnerPath
<1> HIDE DEF at
<1>3. \A n \in Nat : at[n] # NULL <=> n < Len(f[p])
  BY <1>1, <1>2, ItemNotNull
<1>4. \A n \in 0 .. N + 1 : (last(n) /\ (n = 0 \/ at[n - 1] # NULL)) <=> n = Len(f[p])
  <2> SUFFICES ASSUME NEW n \in 0 .. N + 1
               PROVE  (last(n) /\ (n = 0 \/ at[n - 1] # NULL)) <=> n = Len(f[p])
    OBVIOUS
  <2>1. n # 0 => (at[n - 1] # NULL <=> n - 1 < Len(f[p]))
    BY <1>3, HeapAssumption
  <2>2. at[n] # NULL <=> n < Len(f[p])
    BY <1>3, HeapAssumption
  <2> QED BY <1>1, <2>1, <2>2, HeapAssumption
<1>5. length = Len(f[p])
  <2> HIDE DEF last
  <2> QED BY <1>1, <1>4, HeapAssumption
<1>6. [n \in 1 .. length |-> at[n - 1]] = f[p]
  <2>1. \A n \in 1 .. Len(f[p]) : at[n - 1] = f[p][n]
    BY <1>1, <1>2
  <2>2. f[p] = [n \in 1 .. Len(f[p]) |-> f[p][n]]
    BY <1>1
  <2> HIDE DEF length
  <2> QED BY <1>5, <2>1, <2>2
<1> QED BY <1>6 DEF ListFrom, at

\* Lists linked as f are what following the pointers finds: f is unique.
LEMMA KidsAre ==
    ASSUME NEW h, NEW f, LinkedAs(h, f)
    PROVE  Kids(h) = f
<1>1. \A p \in Items : Kids(h)[p] = f[p]
  <2> SUFFICES ASSUME NEW p \in Items PROVE Kids(h)[p] = f[p]
    OBVIOUS
  <2>1. f[p] \in Seq(Items)
    BY DEF LinkedAs
  <2>2. CASE ~Owner(h, p)
    BY <2>2 DEF LinkedAs, Kids
  <2>3. CASE Owner(h, p) /\ f[p] = <<>>
    BY <2>3 DEF LinkedAs, Kids
  <2>4. CASE Owner(h, p) /\ f[p] # <<>>
    <3>1. h.node[p].child = f[p][1] /\ f[p][1] # NULL
      BY <2>1, <2>4, ItemNotNull DEF LinkedAs
    <3> QED BY <2>4, <3>1, ListFromIs DEF Kids
  <2> QED BY <2>2, <2>3, <2>4
<1> QED BY <1>1 DEF Kids, LinkedAs

-----------------------------------------------------------------------------
\* What the functions on lists set

\* Nothing but pointers is changed.
Keeps(h, g) ==
    /\ g \in Heap /\ g.status = h.status /\ g.strings = h.strings
    /\ \A j \in Items : /\ g.node[j].kind = h.node[j].kind /\ g.node[j].ref = h.node[j].ref
                        /\ g.node[j].key = h.node[j].key /\ g.node[j].const = h.node[j].const

\* One pointer is changed, of item a to v.
NextSet(h, g, a, v) ==
    /\ Keeps(h, g)
    /\ \A j \in Items : /\ g.node[j].next = IF j = a THEN v ELSE h.node[j].next
                        /\ g.node[j].prev = h.node[j].prev
                        /\ g.node[j].child = h.node[j].child
PrevSet(h, g, a, v) ==
    /\ Keeps(h, g)
    /\ \A j \in Items : /\ g.node[j].next = h.node[j].next
                        /\ g.node[j].prev = IF j = a THEN v ELSE h.node[j].prev
                        /\ g.node[j].child = h.node[j].child
ChildSet(h, g, a, v) ==
    /\ Keeps(h, g)
    /\ \A j \in Items : /\ g.node[j].next = h.node[j].next
                        /\ g.node[j].prev = h.node[j].prev
                        /\ g.node[j].child = IF j = a THEN v ELSE h.node[j].child

\* One assignment to a pointer, and nothing else.
LEMMA SetPointer ==
    ASSUME NEW h \in Heap, NEW a \in Items, NEW v \in Pointers
    PROVE  /\ NextSet(h, [h EXCEPT !.node[a].next = v], a, v)
           /\ PrevSet(h, [h EXCEPT !.node[a].prev = v], a, v)
           /\ ChildSet(h, [h EXCEPT !.node[a].child = v], a, v)
<1>1. NextSet(h, [h EXCEPT !.node[a].next = v], a, v)
  BY DEF Heap, Node, Keeps, NextSet
<1>2. PrevSet(h, [h EXCEPT !.node[a].prev = v], a, v)
  BY DEF Heap, Node, Keeps, PrevSet
<1>3. ChildSet(h, [h EXCEPT !.node[a].child = v], a, v)
  BY DEF Heap, Node, Keeps, ChildSet
<1> QED BY <1>1, <1>2, <1>3

\* What an item points to is an item unless it is NULL.
LEMMA Pointed ==
    ASSUME NEW h \in Heap, NEW i \in Items
    PROVE  /\ h.node[i].next \in Pointers /\ h.node[i].prev \in Pointers
           /\ h.node[i].child \in Pointers
           /\ \A q \in Pointers : q # NULL => q \in Items
  BY DEF Heap, Node, Pointers

\* The pointers that differ after cJSON_DetachItemViaPointer().
LEMMA DetachSets ==
    ASSUME NEW h \in Heap, NEW p \in Items, NEW i \in Items
    PROVE  LET g == Detach(h, p, i) IN
           /\ Keeps(h, g) /\ g.ret = i
           /\ \A j \in Items :
                 /\ g.node[j].next = IF j = i THEN NULL
                                     ELSE IF j = h.node[i].prev THEN h.node[i].next
                                     ELSE h.node[j].next
                 /\ g.node[j].prev = IF j = i THEN NULL
                                     ELSE IF j = h.node[i].next THEN h.node[i].prev
                                     ELSE h.node[j].prev
                 /\ g.node[j].child = IF j = p /\ h.node[p].child = i THEN h.node[i].next
                                      ELSE h.node[j].child
<1> DEFINE n == h.node[i]
           h1 == IF n.prev = NULL THEN h ELSE [h EXCEPT !.node[n.prev].next = n.next]
           h2 == IF n.next = NULL THEN h1 ELSE [h1 EXCEPT !.node[n.next].prev = n.prev]
           h3 == IF h2.node[p].child = i THEN [h2 EXCEPT !.node[p].child = n.next] ELSE h2
           h4 == [h3 EXCEPT !.node[i].prev = NULL]
           h5 == [h4 EXCEPT !.node[i].next = NULL]
           g == [h5 EXCEPT !.ret = i]
<1>1. n.next \in Pointers /\ n.prev \in Pointers /\ NULL \in Pointers
  BY Pointed DEF Pointers
<1>2. /\ Keeps(h, h1)
      /\ \A j \in Items : /\ h1.node[j].next = IF j = n.prev THEN n.next ELSE h.node[j].next
                          /\ h1.node[j].prev = h.node[j].prev
                          /\ h1.node[j].child = h.node[j].child
  <2>1. CASE n.prev = NULL
    BY <2>1, ItemNotNull DEF Keeps
  <2>2. CASE n.prev # NULL
    <3>1. NextSet(h, h1, n.prev, n.next)
      BY <1>1, <2>2, Pointed, SetPointer
    <3> QED BY <3>1 DEF NextSet
  <2> QED BY <2>1, <2>2
<1> HIDE DEF h1
<1>3. /\ Keeps(h, h2)
      /\ \A j \in Items : /\ h2.node[j].next = h1.node[j].next
                          /\ h2.node[j].prev = IF j = n.next THEN n.prev ELSE h.node[j].prev
                          /\ h2.node[j].child = h.node[j].child
  <2>1. CASE n.next = NULL
    BY <1>2, <2>1, ItemNotNull
  <2>2. CASE n.next # NULL
    <3>1. n.next \in Items /\ h1 \in Heap
      BY <1>1, <1>2, <2>2, Pointed DEF Keeps
    <3>2. PrevSet(h1, h2, n.next, n.prev)
      BY <1>1, <2>2, <3>1, SetPointer
    <3> QED BY <1>2, <3>2 DEF Keeps, PrevSet
  <2> QED BY <2>1, <2>2
<1> HIDE DEF h2
<1>4. /\ Keeps(h, h3)
      /\ \A j \in Items : /\ h3.node[j].next = h2.node[j].next
                          /\ h3.node[j].prev = h2.node[j].prev
                          /\ h3.node[j].child = IF j = p /\ h.node[p].child = i THEN n.next
                                                ELSE h.node[j].child
  <2>1. CASE h2.node[p].child # i
    BY <1>3, <2>1
  <2>2. CASE h2.node[p].child = i
    <3>1. ChildSet(h2, h3, p, n.next)
      BY <1>1, <1>3, <2>2, SetPointer DEF Keeps
    <3> QED BY <1>3, <2>2, <3>1 DEF Keeps, ChildSet
  <2> QED BY <2>1, <2>2
<1> HIDE DEF h3
<1>5. /\ Keeps(h, h5)
      /\ \A j \in Items : /\ h5.node[j].next = IF j = i THEN NULL ELSE h3.node[j].next
                          /\ h5.node[j].prev = IF j = i THEN NULL ELSE h3.node[j].prev
                          /\ h5.node[j].child = h3.node[j].child
  <2>1. PrevSet(h3, h4, i, NULL)
    BY <1>1, <1>4, SetPointer DEF Keeps
  <2> HIDE DEF h4
  <2>2. NextSet(h4, h5, i, NULL)
    BY <1>1, <2>1, SetPointer DEF Keeps, PrevSet
  <2> HIDE DEF h5
  <2> QED BY <1>4, <2>1, <2>2 DEF Keeps, PrevSet, NextSet
<1>6. Detach(h, p, i) = g
  <2>1. i # NULL
    BY ItemNotNull
  <2>2. Detach(h, p, i) = [h3 EXCEPT !.node[i].prev = NULL, !.node[i].next = NULL, !.ret = i]
    BY <2>1, Zenon DEF Detach, NextTo, PrevTo, FirstTo, h1, h2, h3
  <2> QED BY <2>2
<1> HIDE DEF h5
<1>7. Keeps(h, g) /\ g.ret = i /\ g.node = h5.node
  BY <1>5 DEF Keeps, Heap, Pointers
<1> HIDE DEF g
<1> QED BY <1>2, <1>3, <1>4, <1>5, <1>6, <1>7

\* What a call returns is no pointer of the heap.
ReturnSet(h, g, v) == Keeps(h, g) /\ g.ret = v /\ g.node = h.node

\* What a function returns is not a pointer of the lists.
LEMMA SetReturn ==
    ASSUME NEW h \in Heap, NEW v \in Pointers
    PROVE  ReturnSet(h, [h EXCEPT !.ret = v], v)
  BY DEF Heap, Keeps, ReturnSet

\* i becomes the first item of p, or the follower of l.
AddedFirst(h, g, p, i) ==
    /\ Keeps(h, g) /\ g.ret = 1
    /\ \A j \in Items : /\ g.node[j].next = h.node[j].next
                        /\ g.node[j].prev = h.node[j].prev
                        /\ g.node[j].child = IF j = p THEN i ELSE h.node[j].child
AddedLast(h, g, l, i) ==
    /\ Keeps(h, g) /\ g.ret = 1
    /\ \A j \in Items : /\ g.node[j].next = IF j = l THEN i ELSE h.node[j].next
                        /\ g.node[j].prev = IF j = i THEN l ELSE h.node[j].prev
                        /\ g.node[j].child = h.node[j].child

\* The two ways through add_item_to_array(), assignment by assignment.
LEMMA AddSets ==
    ASSUME NEW h \in Heap, NEW i \in Items, NEW p \in Items
    PROVE  /\ AddedFirst(h, [h EXCEPT !.node[p].child = i, !.ret = 1], p, i)
           /\ AddedLast(h, [Suffix(h, p, i) EXCEPT !.ret = 1], p, i)
<1> DEFINE h1 == [h EXCEPT !.node[p].child = i]
           h2 == [h EXCEPT !.node[p].next = i]
           h3 == [h2 EXCEPT !.node[i].prev = p]
<1>1. i \in Pointers /\ p \in Pointers /\ 1 \in Pointers
  BY HeapAssumption DEF Items, Pointers
<1>2. ChildSet(h, h1, p, i) /\ NextSet(h, h2, p, i)
  BY <1>1, SetPointer
<1>3. Suffix(h, p, i) = h3
  BY DEF Suffix
<1>4. [h EXCEPT !.node[p].child = i, !.ret = 1] = [h1 EXCEPT !.ret = 1]
  OBVIOUS
<1> HIDE DEF h1, h2
<1>5. PrevSet(h2, h3, i, p)
  BY <1>1, <1>2, SetPointer DEF NextSet, Keeps
<1> HIDE DEF h3
<1>6. ReturnSet(h1, [h1 EXCEPT !.ret = 1], 1) /\ ReturnSet(h3, [h3 EXCEPT !.ret = 1], 1)
  BY <1>1, <1>2, <1>5, SetReturn DEF ChildSet, PrevSet, Keeps
<1>7. AddedFirst(h, [h1 EXCEPT !.ret = 1], p, i)
  BY <1>2, <1>6 DEF ChildSet, ReturnSet, Keeps, AddedFirst
<1>8. AddedLast(h, [h3 EXCEPT !.ret = 1], p, i)
  BY <1>2, <1>5, <1>6 DEF NextSet, PrevSet, ReturnSet, Keeps, AddedLast
<1> QED BY <1>3, <1>4, <1>7, <1>8

\* i goes before a, which is an item of p.
Inserted(h, g, p, a, i) ==
    /\ Keeps(h, g)
    /\ \A j \in Items :
          /\ g.node[j].next = IF j = i THEN a
                              ELSE IF j = h.node[a].prev /\ h.node[p].child # a THEN i
                              ELSE h.node[j].next
          /\ g.node[j].prev = IF j = a THEN i
                              ELSE IF j = i THEN h.node[a].prev
                              ELSE h.node[j].prev
          /\ g.node[j].child = IF j = p /\ h.node[p].child = a THEN i ELSE h.node[j].child

\* The pointers that differ after cJSON_InsertItemInArray() at a place there is.
LEMMA InsertSets ==
    ASSUME NEW h \in Heap, NEW p \in Items, NEW n \in Nat, NEW i \in Items,
           ItemAt(h, p, n) \in Items \ {i},
           \/ h.node[p].child = ItemAt(h, p, n)
           \/ h.node[ItemAt(h, p, n)].prev \in Items \ {i}
    PROVE  Inserted(h, Insert(h, p, n, i), p, ItemAt(h, p, n), i)
<1> DEFINE a == ItemAt(h, p, n)
           b == h.node[a].prev
           g1 == [h EXCEPT !.node[i].next = a]
           g2 == [g1 EXCEPT !.node[i].prev = b]
           g3 == [h EXCEPT !.node[i].next = a, !.node[i].prev = b, !.node[a].prev = i]
           g4 == IF h.node[p].child = a THEN [g3 EXCEPT !.node[p].child = i]
                 ELSE [g3 EXCEPT !.node[b].next = i]
<1>1. a \in Pointers /\ i \in Pointers /\ b \in Pointers /\ a # NULL
  BY Pointed, ItemNotNull DEF Pointers
<1>11. a \in Items /\ a # i /\ (h.node[p].child # a => b \in Items /\ b # i)
  OBVIOUS
<1>2. NextSet(h, g1, i, a)
  BY <1>1, SetPointer
<1>3. Insert(h, p, n, i) = IF a = NULL THEN AddToArray(h, p, i)
                           ELSE IF h.node[p].child = a THEN [g3 EXCEPT !.node[p].child = i]
                           ELSE [g3 EXCEPT !.node[g3.node[i].prev].next = i]
  BY Zenon DEF Insert
<1>10. g3 = [g2 EXCEPT !.node[a].prev = i]
  OBVIOUS
<1> HIDE DEF a, g1
<1>4. PrevSet(g1, g2, i, b)
  BY <1>1, <1>2, SetPointer DEF NextSet, Keeps
<1> HIDE DEF g2, g3
<1>5. PrevSet(g2, g3, a, i)
  <2>1. g2 \in Heap
    BY <1>4 DEF PrevSet, Keeps
  <2> QED BY <1>1, <1>10, <1>11, <2>1, SetPointer
<1>6. g3.node[i].prev = b
  BY <1>4, <1>5, <1>11 DEF PrevSet
<1>7. g3 \in Heap
  BY <1>5 DEF PrevSet, Keeps
<1>8. CASE h.node[p].child = a
  <2>1. ChildSet(g3, g4, p, i)
    BY <1>1, <1>7, <1>8, SetPointer
  <2>2. Insert(h, p, n, i) = g4
    BY <1>1, <1>3, <1>8
  <2> HIDE DEF g4
  <2>3. Keeps(h, g4)
    BY <1>2, <1>4, <1>5, <2>1 DEF NextSet, PrevSet, ChildSet, Keeps
  <2>4. ASSUME NEW j \in Items
        PROVE  /\ g4.node[j].next = IF j = i THEN a ELSE h.node[j].next
               /\ g4.node[j].prev = IF j = a THEN i ELSE IF j = i THEN b ELSE h.node[j].prev
               /\ g4.node[j].child = IF j = p THEN i ELSE h.node[j].child
    BY <1>2, <1>4, <1>5, <1>11, <2>1 DEF NextSet, PrevSet, ChildSet
  <2> QED BY <1>8, <2>2, <2>3, <2>4 DEF Inserted, a
<1>9. CASE h.node[p].child # a
  <2>1. NextSet(g3, g4, b, i)
    BY <1>1, <1>7, <1>9, <1>11, SetPointer
  <2>2. Insert(h, p, n, i) = g4
    BY <1>1, <1>3, <1>6, <1>9
  <2> HIDE DEF g4
  <2>3. Keeps(h, g4)
    BY <1>2, <1>4, <1>5, <2>1 DEF NextSet, PrevSet, ChildSet, Keeps
  <2>4. ASSUME NEW j \in Items
        PROVE  /\ g4.node[j].next = IF j = i THEN a ELSE IF j = b THEN i ELSE h.node[j].next
               /\ g4.node[j].prev = IF j = a THEN i ELSE IF j = i THEN b ELSE h.node[j].prev
               /\ g4.node[j].child = h.node[j].child
    BY <1>2, <1>4, <1>5, <1>9, <1>11, <2>1 DEF NextSet, PrevSet, ChildSet
  <2> QED BY <1>9, <2>2, <2>3, <2>4 DEF Inserted, a
<1> QED BY <1>8, <1>9 DEF a

\* r takes the place of i, which is an item of p.
TakesPlace(h, g, p, i, r) ==
    /\ Keeps(h, g)
    /\ \A j \in Items :
          /\ g.node[j].next = IF j = i THEN NULL
                              ELSE IF j = h.node[i].prev THEN r
                              ELSE IF j = r THEN h.node[i].next
                              ELSE h.node[j].next
          /\ g.node[j].prev = IF j = i THEN NULL
                              ELSE IF j = h.node[i].next THEN r
                              ELSE IF j = r THEN h.node[i].prev
                              ELSE h.node[j].prev
          /\ g.node[j].child = IF j = p /\ h.node[p].child = i THEN r ELSE h.node[j].child

\* The pointers that differ after the linking of cJSON_ReplaceItemViaPointer().
LEMMA RelinkSets ==
    ASSUME NEW h \in Heap, NEW p \in Items, NEW i \in Items, NEW r \in Items
    PROVE  TakesPlace(h, Relink(h, p, i, r), p, i, r)
<1> DEFINE n == h.node[i]
           h0 == [h EXCEPT !.node[r].next = n.next]
           h1 == [h EXCEPT !.node[r].next = n.next, !.node[r].prev = n.prev]
           h2 == IF n.next = NULL THEN h1 ELSE [h1 EXCEPT !.node[n.next].prev = r]
           h3 == IF n.prev = NULL THEN h2 ELSE [h2 EXCEPT !.node[n.prev].next = r]
           h4 == IF h3.node[p].child = i THEN [h3 EXCEPT !.node[p].child = r] ELSE h3
           h5 == [h4 EXCEPT !.node[i].next = NULL]
           h6 == [h5 EXCEPT !.node[i].prev = NULL]
<1>1. /\ n.next \in Pointers /\ n.prev \in Pointers /\ NULL \in Pointers /\ r \in Pointers
      /\ n.next # NULL => n.next \in Items
      /\ n.prev # NULL => n.prev \in Items
  BY Pointed DEF Pointers
<1>2. Relink(h, p, i, r) = h6
  <2>1. Relink(h, p, i, r) = [h4 EXCEPT !.node[i].next = NULL, !.node[i].prev = NULL]
    BY Zenon DEF Relink, NextTo, PrevTo, FirstTo
  <2> HIDE DEF h4
  <2> QED BY <2>1
<1>13. h1 = [h0 EXCEPT !.node[r].prev = n.prev]
  OBVIOUS
<1>3. NextSet(h, h0, r, n.next)
  BY <1>1, SetPointer
<1> HIDE DEF h0, h1
<1>4. PrevSet(h0, h1, r, n.prev)
  BY <1>1, <1>3, <1>13, SetPointer DEF NextSet, Keeps
<1>5. /\ Keeps(h, h2)
      /\ \A j \in Items : /\ h2.node[j].next = h1.node[j].next
                          /\ h2.node[j].prev = IF j = n.next THEN r ELSE h1.node[j].prev
                          /\ h2.node[j].child = h1.node[j].child
  <2>1. CASE n.next = NULL
    BY <1>3, <1>4, <2>1, ItemNotNull DEF NextSet, PrevSet, Keeps
  <2>2. CASE n.next # NULL
    <3>1. h1 \in Heap
      BY <1>4 DEF PrevSet, Keeps
    <3>2. PrevSet(h1, h2, n.next, r)
      BY <1>1, <2>2, <3>1, SetPointer
    <3> HIDE DEF h2
    <3> QED BY <1>3, <1>4, <3>2 DEF NextSet, PrevSet, Keeps
  <2> QED BY <2>1, <2>2
<1> HIDE DEF h2
<1>6. /\ Keeps(h, h3)
      /\ \A j \in Items : /\ h3.node[j].next = IF j = n.prev THEN r ELSE h2.node[j].next
                          /\ h3.node[j].prev = h2.node[j].prev
                          /\ h3.node[j].child = h2.node[j].child
  <2>1. CASE n.prev = NULL
    BY <1>5, <2>1, ItemNotNull
  <2>2. CASE n.prev # NULL
    <3>1. NextSet(h2, h3, n.prev, r)
      BY <1>1, <1>5, <2>2, SetPointer DEF Keeps
    <3> HIDE DEF h3
    <3> QED BY <1>5, <3>1 DEF NextSet, Keeps
  <2> QED BY <2>1, <2>2
<1> HIDE DEF h3
<1>7. \A j \in Items : h3.node[j].child = h.node[j].child
  BY <1>3, <1>4, <1>5, <1>6 DEF NextSet, PrevSet
<1>8. /\ Keeps(h, h4)
      /\ \A j \in Items : /\ h4.node[j].next = h3.node[j].next
                          /\ h4.node[j].prev = h3.node[j].prev
                          /\ h4.node[j].child = IF j = p /\ h.node[p].child = i THEN r
                                                ELSE h.node[j].child
  <2>1. CASE h3.node[p].child # i
    BY <1>6, <1>7, <2>1
  <2>2. CASE h3.node[p].child = i
    <3>1. ChildSet(h3, h4, p, r)
      BY <1>1, <1>6, <2>2, SetPointer DEF Keeps
    <3> HIDE DEF h4
    <3> QED BY <1>6, <1>7, <2>2, <3>1 DEF ChildSet, Keeps
  <2> QED BY <2>1, <2>2
<1> HIDE DEF h4
<1>9. NextSet(h4, h5, i, NULL)
  BY <1>1, <1>8, SetPointer DEF Keeps
<1> HIDE DEF h5
<1>10. PrevSet(h5, h6, i, NULL)
  BY <1>1, <1>9, SetPointer DEF NextSet, Keeps
<1> HIDE DEF h6
<1>11. Keeps(h, h6)
  BY <1>8, <1>9, <1>10 DEF NextSet, PrevSet, Keeps
<1>12. ASSUME NEW j \in Items
       PROVE  /\ h6.node[j].next = IF j = i THEN NULL
                                   ELSE IF j = n.prev THEN r
                                   ELSE IF j = r THEN n.next
                                   ELSE h.node[j].next
              /\ h6.node[j].prev = IF j = i THEN NULL
                                   ELSE IF j = n.next THEN r
                                   ELSE IF j = r THEN n.prev
                                   ELSE h.node[j].prev
              /\ h6.node[j].child = IF j = p /\ h.node[p].child = i THEN r
                                    ELSE h.node[j].child
  BY <1>3, <1>4, <1>5, <1>6, <1>8, <1>9, <1>10 DEF NextSet, PrevSet
<1> QED BY <1>2, <1>11, <1>12 DEF TakesPlace

-----------------------------------------------------------------------------
\* Sequences of items

\* What the operators of ItemLists make of a sequence, place by place.
LEMMA RemoveAtIs ==
    ASSUME NEW s \in Seq(Items), NEW k \in 1 .. Len(s)
    PROVE  /\ SE!RemoveAt(s, k) \in Seq(Items)
           /\ Len(SE!RemoveAt(s, k)) = Len(s) - 1
           /\ \A m \in 1 .. Len(s) - 1 :
                 SE!RemoveAt(s, k)[m] = IF m < k THEN s[m] ELSE s[m + 1]
<1> DEFINE a == SubSeq(s, 1, k - 1)
           b == SubSeq(s, k + 1, Len(s))
<1>1. a \in Seq(Items) /\ Len(a) = k - 1 /\ \A m \in 1 .. k - 1 : a[m] = s[m]
  OBVIOUS
<1>2. b \in Seq(Items) /\ Len(b) = Len(s) - k /\ \A m \in 1 .. Len(s) - k : b[m] = s[m + k]
  OBVIOUS
<1> HIDE DEF a, b
<1>3. /\ a \o b \in Seq(Items) /\ Len(a \o b) = Len(s) - 1
      /\ \A m \in 1 .. Len(s) - 1 : (a \o b)[m] = IF m < k THEN a[m] ELSE b[m - (k - 1)]
  <2>1. /\ a \o b \in Seq(Items) /\ Len(a \o b) = Len(a) + Len(b)
        /\ \A m \in 1 .. Len(a) + Len(b) :
              (a \o b)[m] = IF m <= Len(a) THEN a[m] ELSE b[m - Len(a)]
    BY <1>1, <1>2, ConcatProperties
  <2>2. Len(a) + Len(b) = Len(s) - 1 /\ \A m \in Nat : m <= Len(a) <=> m < k
    BY <1>1, <1>2
  <2> QED BY <1>1, <2>1, <2>2
<1>4. \A m \in 1 .. Len(s) - 1 : (a \o b)[m] = IF m < k THEN s[m] ELSE s[m + 1]
  BY <1>1, <1>2, <1>3
<1>5. SE!RemoveAt(s, k) = a \o b
  BY DEF SE!RemoveAt, a, b
<1> QED BY <1>3, <1>4, <1>5

\* What SequencesExt!InsertAt makes of a list.
LEMMA InsertAtIs ==
    ASSUME NEW s \in Seq(Items), NEW k \in 1 .. Len(s), NEW i \in Items
    PROVE  /\ SE!InsertAt(s, k, i) \in Seq(Items)
           /\ Len(SE!InsertAt(s, k, i)) = Len(s) + 1
           /\ \A m \in 1 .. Len(s) + 1 :
                 SE!InsertAt(s, k, i)[m] = IF m < k THEN s[m]
                                           ELSE IF m = k THEN i ELSE s[m - 1]
<1> DEFINE a == SubSeq(s, 1, k - 1)
           b == SubSeq(s, k, Len(s))
           c == a \o <<i>>
<1>1. a \in Seq(Items) /\ Len(a) = k - 1 /\ \A m \in 1 .. k - 1 : a[m] = s[m]
  OBVIOUS
<1>2. /\ b \in Seq(Items) /\ Len(b) = Len(s) - k + 1
      /\ \A m \in 1 .. Len(s) - k + 1 : b[m] = s[m + k - 1]
  OBVIOUS
<1>3. SE!InsertAt(s, k, i) = c \o b
  BY DEF SE!InsertAt
<1> HIDE DEF a, b
<1>4. /\ c \in Seq(Items) /\ Len(c) = k
      /\ \A m \in 1 .. k : c[m] = IF m < k THEN a[m] ELSE i
  BY <1>1
<1> HIDE DEF c
<1>5. /\ c \o b \in Seq(Items) /\ Len(c \o b) = Len(c) + Len(b)
      /\ \A m \in 1 .. Len(c) + Len(b) :
            (c \o b)[m] = IF m <= Len(c) THEN c[m] ELSE b[m - Len(c)]
  BY <1>2, <1>4, ConcatProperties
<1>6. Len(c) + Len(b) = Len(s) + 1
  BY <1>2, <1>4
<1>7. \A m \in 1 .. Len(s) + 1 :
         (c \o b)[m] = IF m < k THEN s[m] ELSE IF m = k THEN i ELSE s[m - 1]
  <2> SUFFICES ASSUME NEW m \in 1 .. Len(s) + 1
               PROVE  (c \o b)[m] = IF m < k THEN s[m] ELSE IF m = k THEN i ELSE s[m - 1]
    OBVIOUS
  <2>1. CASE m <= k
    BY <1>1, <1>4, <1>5, <1>6, <2>1
  <2>2. CASE m > k
    <3>1. (c \o b)[m] = b[m - k] /\ m - k \in 1 .. Len(s) - k + 1
      BY <1>4, <1>5, <1>6, <2>2
    <3>2. b[m - k] = s[(m - k) + k - 1]
      BY <1>2, <3>1
    <3> QED BY <2>2, <3>1, <3>2
  <2>3. m <= k \/ m > k
    OBVIOUS
  <2> QED BY <2>1, <2>2, <2>3, Zenon
<1> QED BY <1>3, <1>5, <1>6, <1>7

\* What SequencesExt!ReplaceAt makes of a list.
LEMMA ReplaceAtIs ==
    ASSUME NEW s \in Seq(Items), NEW k \in 1 .. Len(s), NEW i \in Items
    PROVE  /\ SE!ReplaceAt(s, k, i) \in Seq(Items)
           /\ Len(SE!ReplaceAt(s, k, i)) = Len(s)
           /\ \A m \in 1 .. Len(s) : SE!ReplaceAt(s, k, i)[m] = IF m = k THEN i ELSE s[m]
  BY DEF SE!ReplaceAt

\* An item is in one place.
LEMMA OnePlace ==
    ASSUME NEW h, NEW f, LinkedAs(h, f), NEW p \in Items, NEW q \in Items,
           NEW n \in 1 .. Len(f[p]), NEW m \in 1 .. Len(f[q]), f[p][n] = f[q][m]
    PROVE  p = q /\ n = m
<1>1. \A r, t \in Items : \A k \in 1 .. Len(f[r]), l \in 1 .. Len(f[t]) :
         f[r][k] = f[t][l] => r = t /\ k = l
  BY Zenon DEF LinkedAs
<1> QED BY <1>1, Zenon

\* The list of p is linked anew, as t, and the others are left alone.
Relinked(h, g, f, p, t) ==
    /\ Keeps(h, g) /\ t \in Seq(Items)
    /\ g.node[p].child = IF t = <<>> THEN NULL ELSE t[1]
    /\ \A q \in Items \ {p} : g.node[q].child = h.node[q].child
    /\ \A m \in 1 .. Len(t) :
          /\ g.node[t[m]].next = IF m = Len(t) THEN NULL ELSE t[m + 1]
          /\ g.node[t[m]].prev = IF m = 1 THEN NULL ELSE t[m - 1]
    /\ \A l, m \in 1 .. Len(t) : t[l] = t[m] => l = m
    /\ \A q \in Items \ {p} : \A m \in 1 .. Len(f[q]) :
          /\ g.node[f[q][m]].next = h.node[f[q][m]].next
          /\ g.node[f[q][m]].prev = h.node[f[q][m]].prev
          /\ \A l \in 1 .. Len(t) : f[q][m] # t[l]

\* Linking the list of p anew as t, apart from all others, is all it takes.
LEMMA OneListChanged ==
    ASSUME NEW h, NEW g, NEW f, LinkedAs(h, f), NEW p \in Items, Owner(h, p), NEW t,
           Relinked(h, g, f, p, t)
    PROVE  LinkedAs(g, [f EXCEPT ![p] = t])
<1> USE DEF Relinked
<1> DEFINE e == [f EXCEPT ![p] = t]
<1>1. e \in [Items -> Seq(Items)] /\ e[p] = t /\ \A q \in Items \ {p} : e[q] = f[q]
  BY DEF LinkedAs
<1>2. \A q \in Items : Owner(g, q) <=> Owner(h, q)
  BY DEF Keeps, Owner
<1> HIDE DEF e
<1>3. ASSUME NEW q \in Items
      PROVE  /\ ~Owner(g, q) => e[q] = <<>>
             /\ Owner(g, q) => g.node[q].child = IF e[q] = <<>> THEN NULL ELSE e[q][1]
  <2>1. CASE q = p
    BY <1>1, <1>2, <2>1
  <2>2. CASE q # p
    BY <1>1, <1>2, <2>2 DEF LinkedAs
  <2> QED BY <2>1, <2>2
<1>4. ASSUME NEW q \in Items, NEW m \in 1 .. Len(e[q])
      PROVE  /\ g.node[e[q][m]].next = IF m = Len(e[q]) THEN NULL ELSE e[q][m + 1]
             /\ g.node[e[q][m]].prev = IF m = 1 THEN NULL ELSE e[q][m - 1]
  <2>1. CASE q = p
    BY <1>1, <2>1
  <2>2. CASE q # p
    <3>1. e[q] = f[q] /\ m \in 1 .. Len(f[q])
      BY <1>1, <2>2
    <3>2. /\ h.node[f[q][m]].next = IF m = Len(f[q]) THEN NULL ELSE f[q][m + 1]
          /\ h.node[f[q][m]].prev = IF m = 1 THEN NULL ELSE f[q][m - 1]
      BY <3>1 DEF LinkedAs
    <3> QED BY <2>2, <3>1, <3>2
  <2> QED BY <2>1, <2>2
<1>5. ASSUME NEW q \in Items, NEW r \in Items, NEW m \in 1 .. Len(e[q]),
             NEW n \in 1 .. Len(e[r]), e[q][m] = e[r][n]
      PROVE  q = r /\ m = n
  <2>1. q = p => e[q] = t /\ m \in 1 .. Len(t)
    BY <1>1
  <2>2. q # p => e[q] = f[q] /\ m \in 1 .. Len(f[q])
    BY <1>1
  <2>3. r = p => e[r] = t /\ n \in 1 .. Len(t)
    BY <1>1
  <2>4. r # p => e[r] = f[r] /\ n \in 1 .. Len(f[r])
    BY <1>1
  <2>5. CASE q = p /\ r = p
    BY <1>5, <2>1, <2>3, <2>5
  <2>6. CASE q # p /\ r # p
    <3>1. f[q][m] = f[r][n] /\ m \in 1 .. Len(f[q]) /\ n \in 1 .. Len(f[r])
      BY <1>5, <2>2, <2>4, <2>6
    <3> QED BY <3>1, OnePlace
  <2>7. CASE q # p /\ r = p
    <3>1. f[q][m] = t[n] /\ m \in 1 .. Len(f[q]) /\ n \in 1 .. Len(t)
      BY <1>5, <2>2, <2>3, <2>7
    <3> QED BY <2>7, <3>1
  <2>8. CASE q = p /\ r # p
    <3>1. t[m] = f[r][n] /\ m \in 1 .. Len(t) /\ n \in 1 .. Len(f[r])
      BY <1>5, <2>1, <2>4, <2>8
    <3> QED BY <2>8, <3>1
  <2> QED BY <2>5, <2>6, <2>7, <2>8
<1> QED BY <1>1, <1>3, <1>4, <1>5 DEF LinkedAs, e

\* What is known of the list of an owner and of the items elsewhere.
LEMMA ListOf ==
    ASSUME NEW h, NEW f, LinkedAs(h, f), NEW p \in Items, Owner(h, p)
    PROVE  /\ f[p] \in Seq(Items) /\ Len(f[p]) \in Nat
           /\ \A m \in 1 .. Len(f[p]) : f[p][m] \in Items /\ f[p][m] # NULL
           /\ h.node[p].child = IF f[p] = <<>> THEN NULL ELSE f[p][1]
           /\ \A m \in 1 .. Len(f[p]) :
                 /\ h.node[f[p][m]].next = IF m = Len(f[p]) THEN NULL ELSE f[p][m + 1]
                 /\ h.node[f[p][m]].prev = IF m = 1 THEN NULL ELSE f[p][m - 1]
           /\ \A m, n \in 1 .. Len(f[p]) : f[p][m] = f[p][n] => m = n
           /\ \A q \in Items \ {p} : \A m \in 1 .. Len(f[q]) :
                 /\ f[q][m] \in Items /\ f[q][m] # NULL
                 /\ \A n \in 1 .. Len(f[p]) : f[q][m] # f[p][n]
<1>1. \A q \in Items : f[q] \in Seq(Items)
  BY DEF LinkedAs
<1>2. \A q \in Items : \A m \in 1 .. Len(f[q]) : f[q][m] \in Items /\ f[q][m] # NULL
  BY <1>1, ItemNotNull
<1>3. h.node[p].child = IF f[p] = <<>> THEN NULL ELSE f[p][1]
  BY DEF LinkedAs
<1>4. \A m \in 1 .. Len(f[p]) :
         /\ h.node[f[p][m]].next = IF m = Len(f[p]) THEN NULL ELSE f[p][m + 1]
         /\ h.node[f[p][m]].prev = IF m = 1 THEN NULL ELSE f[p][m - 1]
  BY DEF LinkedAs
<1>5. \A m, n \in 1 .. Len(f[p]) : f[p][m] = f[p][n] => m = n
  BY OnePlace
<1>6. \A q \in Items \ {p} : \A m \in 1 .. Len(f[q]), n \in 1 .. Len(f[p]) : f[q][m] # f[p][n]
  BY OnePlace
<1>7. Len(f[p]) \in Nat
  BY <1>1
<1> QED BY <1>1, <1>2, <1>3, <1>4, <1>5, <1>6, <1>7

\* An item that the new list does not have, and whose pointers are NULL, is loose.
LEMMA LooseKept ==
    ASSUME NEW h, NEW g, NEW f, LinkedAs(h, f), NEW p \in Items, NEW t, NEW j,
           Loose(h, f, j), g.node[j].next = NULL, g.node[j].prev = NULL,
           \A m \in 1 .. Len(t) : t[m] # j
    PROVE  Loose(g, [f EXCEPT ![p] = t], j)
<1> DEFINE e == [f EXCEPT ![p] = t]
<1>1. e[p] = t /\ \A q \in Items \ {p} : e[q] = f[q]
  BY DEF LinkedAs
<1> HIDE DEF e
<1>2. \A q \in Items : \A m \in 1 .. Len(e[q]) : e[q][m] # j
  BY <1>1 DEF Loose
<1> QED BY <1>2 DEF Loose, e

-----------------------------------------------------------------------------
\* What the functions on lists do

\* An item that is detached is taken out of its list, and is loose; all other
\* lists stay as they were, and so does every other item that was loose.
THEOREM DetachTakesOut ==
    ASSUME NEW h \in Heap, NEW f, LinkedAs(h, f), NEW p \in Items, Owner(h, p),
           NEW n \in 0 .. Len(f[p]) - 1
    PROVE  LET i == f[p][n + 1]
               g == Detach(h, p, i)
           IN  /\ Keeps(h, g) /\ g.ret = i
               /\ LinkedAs(g, Taken(f, p, n))
               /\ \A j \in Items : j = i \/ Loose(h, f, j) => Loose(g, Taken(f, p, n), j)
<1> DEFINE s == f[p]
           k == n + 1
           i == s[k]
           t == SE!RemoveAt(s, k)
           g == Detach(h, p, i)
<1>1. /\ s \in Seq(Items) /\ Len(s) \in Nat
      /\ \A m \in 1 .. Len(s) : s[m] \in Items /\ s[m] # NULL
      /\ \A l, m \in 1 .. Len(s) : s[l] = s[m] => l = m
  BY ListOf
<1>2. k \in 1 .. Len(s) /\ i \in Items /\ i # NULL
  BY <1>1
<1>3. \A m \in 1 .. Len(s) :
         /\ h.node[s[m]].next = IF m = Len(s) THEN NULL ELSE s[m + 1]
         /\ h.node[s[m]].prev = IF m = 1 THEN NULL ELSE s[m - 1]
  BY ListOf
<1>4. h.node[p].child = s[1]
  BY <1>2, ListOf
<1>5. /\ t \in Seq(Items) /\ Len(t) = Len(s) - 1
      /\ \A m \in 1 .. Len(t) : t[m] = IF m < k THEN s[m] ELSE s[m + 1]
  BY <1>1, <1>2, RemoveAtIs
<1>6. Keeps(h, g) /\ g.ret = i
  BY <1>2, DetachSets
<1>7. \A j \in Items :
         /\ g.node[j].next = IF j = i THEN NULL
                             ELSE IF j = h.node[i].prev THEN h.node[i].next
                             ELSE h.node[j].next
         /\ g.node[j].prev = IF j = i THEN NULL
                             ELSE IF j = h.node[i].next THEN h.node[i].prev
                             ELSE h.node[j].prev
         /\ g.node[j].child = IF j = p /\ h.node[p].child = i THEN h.node[i].next
                              ELSE h.node[j].child
  BY <1>2, DetachSets
<1> DEFINE e == [f EXCEPT ![p] = t]
<1>8. Taken(f, p, n) = e
  BY DEF Taken
<1>9. \A q \in Items \ {p} : \A m \in 1 .. Len(f[q]) :
         /\ f[q][m] \in Items /\ f[q][m] # NULL
         /\ \A l \in 1 .. Len(s) : f[q][m] # s[l]
  BY ListOf
<1> HIDE DEF t, g, k, s
<1>10. h.node[i].next = (IF k = Len(s) THEN NULL ELSE s[k + 1])
  BY <1>2, <1>3
<1>11. h.node[i].prev = (IF k = 1 THEN NULL ELSE s[k - 1])
  BY <1>2, <1>3
<1>12. g.node[p].child = IF t = <<>> THEN NULL ELSE t[1]
  <2>1. CASE k = 1
    <3>1. g.node[p].child = h.node[i].next
      BY <1>4, <1>7, <2>1
    <3>2. CASE Len(s) = 1
      BY <1>5, <1>10, <2>1, <3>1, <3>2
    <3>3. CASE Len(s) # 1
      <4>1. t # <<>> /\ t[1] = s[2]
        BY <1>1, <1>2, <1>5, <2>1, <3>3
      <4> QED BY <1>10, <2>1, <3>1, <3>3, <4>1
    <3> QED BY <3>2, <3>3
  <2>2. CASE k # 1
    <3>1. s[1] # i
      BY <1>1, <1>2, <2>2
    <3>2. t # <<>> /\ t[1] = s[1]
      BY <1>1, <1>2, <1>5, <2>2
    <3> QED BY <1>4, <1>7, <3>1, <3>2
  <2> QED BY <2>1, <2>2
<1>13. \A q \in Items \ {p} : g.node[q].child = h.node[q].child
  BY <1>7
<1>14. ASSUME NEW m \in 1 .. Len(t)
       PROVE  /\ g.node[t[m]].next = IF m = Len(t) THEN NULL ELSE t[m + 1]
              /\ g.node[t[m]].prev = IF m = 1 THEN NULL ELSE t[m - 1]
  <2>1. CASE m < k
    <3>1. m \in 1 .. Len(s) /\ t[m] = s[m] /\ s[m] \in Items /\ s[m] # NULL /\ s[m] # i
      BY <1>1, <1>2, <1>5, <2>1
    <3>2. s[m] # h.node[i].next
      BY <1>1, <1>2, <1>10, <2>1, <3>1
    <3>3. g.node[s[m]].prev = h.node[s[m]].prev
      BY <1>7, <3>1, <3>2
    <3>4. m # 1 => t[m - 1] = s[m - 1]
      BY <1>2, <1>5, <2>1
    <3>5. CASE m = k - 1
      <4>1. g.node[s[m]].next = h.node[i].next
        BY <1>2, <1>7, <1>11, <3>1, <3>5
      <4>2. m # Len(t) => t[m + 1] = s[k + 1]
        BY <1>2, <1>5, <3>5
      <4> QED BY <1>1, <1>2, <1>3, <1>5, <1>10, <3>1, <3>3, <3>4, <3>5, <4>1, <4>2
    <3>6. CASE m # k - 1
      <4>1. s[m] # h.node[i].prev
        BY <1>1, <1>2, <1>11, <3>1, <3>6
      <4>2. g.node[s[m]].next = h.node[s[m]].next
        BY <1>7, <3>1, <4>1
      <4>3. m # Len(t) /\ m # Len(s) /\ t[m + 1] = s[m + 1]
        BY <1>1, <1>2, <1>5, <2>1, <3>6
      <4> QED BY <1>3, <3>1, <3>3, <3>4, <4>2, <4>3
    <3> QED BY <3>5, <3>6
  <2>2. CASE ~(m < k)
    <3>1. /\ m + 1 \in 1 .. Len(s) /\ t[m] = s[m + 1]
          /\ s[m + 1] \in Items /\ s[m + 1] # NULL /\ s[m + 1] # i
      BY <1>1, <1>2, <1>5, <2>2
    <3>2. s[m + 1] # h.node[i].prev
      BY <1>1, <1>2, <1>11, <2>2, <3>1
    <3>3. g.node[s[m + 1]].next = h.node[s[m + 1]].next
      BY <1>7, <3>1, <3>2
    <3>4. h.node[s[m + 1]].next = IF m + 1 = Len(s) THEN NULL ELSE s[(m + 1) + 1]
      BY <1>3, <3>1
    <3>5. g.node[t[m]].next = IF m = Len(t) THEN NULL ELSE t[m + 1]
      <4>1. CASE m = Len(t)
        BY <1>1, <1>5, <3>1, <3>3, <3>4, <4>1
      <4>2. CASE m # Len(t)
        <5>1. t[m + 1] = s[(m + 1) + 1] /\ m + 1 # Len(s)
          BY <1>1, <1>2, <1>5, <2>2, <4>2
        <5> QED BY <3>1, <3>3, <3>4, <4>2, <5>1
      <4> QED BY <4>1, <4>2
    <3>6. CASE m = k
      <4>1. g.node[s[m + 1]].prev = h.node[i].prev
        BY <1>1, <1>2, <1>7, <1>10, <3>1, <3>6
      <4>2. m # 1 => t[m - 1] = s[k - 1]
        BY <1>2, <1>5, <3>6
      <4> QED BY <1>11, <3>1, <3>5, <3>6, <4>1, <4>2
    <3>7. CASE m # k
      <4>1. s[m + 1] # h.node[i].next
        BY <1>1, <1>2, <1>10, <3>1, <3>7
      <4>2. g.node[s[m + 1]].prev = h.node[s[m + 1]].prev
        BY <1>7, <3>1, <4>1
      <4>3. m # 1 /\ t[m - 1] = s[m]
        BY <1>1, <1>2, <1>5, <2>2, <3>7
      <4>4. h.node[s[m + 1]].prev = s[m]
        BY <1>3, <3>1, <4>3
      <4> QED BY <3>1, <3>5, <4>2, <4>3, <4>4
    <3> QED BY <3>6, <3>7
  <2> QED BY <2>1, <2>2
<1>15. \A l, m \in 1 .. Len(t) : t[l] = t[m] => l = m
  <2> SUFFICES ASSUME NEW l \in 1 .. Len(t), NEW m \in 1 .. Len(t), t[l] = t[m] PROVE l = m
    OBVIOUS
  <2> DEFINE place(x) == IF x < k THEN x ELSE x + 1
  <2>1. /\ place(l) \in 1 .. Len(s) /\ t[l] = s[place(l)]
        /\ place(m) \in 1 .. Len(s) /\ t[m] = s[place(m)]
    BY <1>1, <1>2, <1>5
  <2>2. place(l) = place(m) => l = m
    BY <1>1, <1>2, <1>5
  <2> HIDE DEF place
  <2> QED BY <1>1, <2>1, <2>2
<1>16. \A q \in Items \ {p} : \A m \in 1 .. Len(f[q]) :
          /\ g.node[f[q][m]].next = h.node[f[q][m]].next
          /\ g.node[f[q][m]].prev = h.node[f[q][m]].prev
          /\ \A l \in 1 .. Len(t) : f[q][m] # t[l]
  <2> SUFFICES ASSUME NEW q \in Items \ {p}, NEW m \in 1 .. Len(f[q])
               PROVE  /\ g.node[f[q][m]].next = h.node[f[q][m]].next
                      /\ g.node[f[q][m]].prev = h.node[f[q][m]].prev
                      /\ \A l \in 1 .. Len(t) : f[q][m] # t[l]
    OBVIOUS
  <2>1. f[q][m] \in Items /\ f[q][m] # NULL /\ \A l \in 1 .. Len(s) : f[q][m] # s[l]
    BY <1>9
  <2>2. f[q][m] # i /\ f[q][m] # h.node[i].next /\ f[q][m] # h.node[i].prev
    BY <1>1, <1>2, <1>10, <1>11, <2>1
  <2>3. \A l \in 1 .. Len(t) : f[q][m] # t[l]
    <3> SUFFICES ASSUME NEW l \in 1 .. Len(t) PROVE f[q][m] # t[l]
      OBVIOUS
    <3>1. PICK x \in 1 .. Len(s) : t[l] = s[x]
      BY <1>1, <1>2, <1>5
    <3> QED BY <2>1, <3>1
  <2> QED BY <1>7, <2>1, <2>2, <2>3
<1>17. LinkedAs(g, e)
  <2>1. Relinked(h, g, f, p, t)
    BY <1>5, <1>6, <1>12, <1>13, <1>14, <1>15, <1>16 DEF Relinked
  <2> QED BY <2>1, OneListChanged
<1>18. ASSUME NEW j \in Items, j = i \/ Loose(h, f, j) PROVE Loose(g, e, j)
  <2>1. ASSUME NEW q \in Items, NEW m \in 1 .. Len(e[q]), e[q][m] = j PROVE FALSE
    <3>1. CASE q = p
      <4>1. e[q] = t /\ m \in 1 .. Len(t)
        BY <3>1 DEF LinkedAs
      <4>2. PICK l \in 1 .. Len(s) : l # k /\ t[m] = s[l]
        BY <1>1, <1>2, <1>5, <4>1
      <4> QED BY <1>1, <1>2, <1>18, <2>1, <4>1, <4>2 DEF Loose, s
    <3>2. CASE q # p
      <4>1. e[q] = f[q] /\ m \in 1 .. Len(f[q])
        BY <3>2 DEF LinkedAs
      <4> QED BY <1>2, <1>9, <1>18, <2>1, <3>2, <4>1 DEF Loose
    <3> QED BY <3>1, <3>2
  <2>2. g.node[j].next = NULL /\ g.node[j].prev = NULL
    <3>1. CASE j = i
      BY <1>2, <1>7, <3>1
    <3>2. CASE j # i /\ Loose(h, f, j)
      <4>1. \A l \in 1 .. Len(s) : s[l] # j
        BY <3>2 DEF Loose, s
      <4>2. j # NULL
        BY ItemNotNull
      <4>3. j # h.node[i].next /\ j # h.node[i].prev
        BY <1>1, <1>2, <1>10, <1>11, <4>1, <4>2
      <4> QED BY <1>7, <3>2, <4>3 DEF Loose
    <3> QED BY <1>18, <3>1, <3>2
  <2> QED BY <2>1, <2>2 DEF Loose
<1> QED BY <1>6, <1>8, <1>17, <1>18 DEF s, k, g

\* An item that is added is the last of its list.
THEOREM AddAppends ==
    ASSUME NEW h \in Heap, NEW f, LinkedAs(h, f), NEW p \in Items, Owner(h, p),
           NEW i \in Items, Loose(h, f, i)
    PROVE  LET g == AddToArray(h, p, i)
           IN  /\ Keeps(h, g) /\ g.ret = 1
               /\ LinkedAs(g, AtEnd(f, p, i))
               /\ \A j \in Items \ {i} : Loose(h, f, j) => Loose(g, AtEnd(f, p, i), j)
<1> DEFINE s == f[p]
           t == Append(s, i)
           g == AddToArray(h, p, i)
<1>1. /\ s \in Seq(Items) /\ Len(s) \in Nat
      /\ \A m \in 1 .. Len(s) : s[m] \in Items /\ s[m] # NULL
      /\ \A l, m \in 1 .. Len(s) : s[l] = s[m] => l = m
  BY ListOf
<1>2. h.node[p].child = IF s = <<>> THEN NULL ELSE s[1]
  BY ListOf
<1>3. \A m \in 1 .. Len(s) :
          /\ h.node[s[m]].next = IF m = Len(s) THEN NULL ELSE s[m + 1]
          /\ h.node[s[m]].prev = IF m = 1 THEN NULL ELSE s[m - 1]
  BY ListOf
<1>4. \A q \in Items \ {p} : \A m \in 1 .. Len(f[q]) :
         /\ f[q][m] \in Items /\ f[q][m] # NULL
         /\ \A l \in 1 .. Len(s) : f[q][m] # s[l]
  BY ListOf
<1>5. /\ h.node[i].next = NULL /\ h.node[i].prev = NULL /\ i # NULL
      /\ \A q \in Items : \A m \in 1 .. Len(f[q]) : f[q][m] # i
      /\ \A m \in 1 .. Len(s) : s[m] # i
  BY ItemNotNull DEF Loose
<1>6. /\ t \in Seq(Items) /\ Len(t) = Len(s) + 1 /\ t # <<>> /\ t[Len(s) + 1] = i
      /\ \A m \in 1 .. Len(s) : t[m] = s[m]
  BY <1>1, AppendProperties
<1>7. Last(h, h.node[p].child) = s[Len(s)] \/ s = <<>>
  BY LastIs
<1>8. AtEnd(f, p, i) = [f EXCEPT ![p] = t]
  BY DEF AtEnd
<1> HIDE DEF s, t
<1>9. /\ Keeps(h, g) /\ g.ret = 1
      /\ \A j \in Items :
            /\ g.node[j].next = IF s # <<>> /\ j = s[Len(s)] THEN i ELSE h.node[j].next
            /\ g.node[j].prev = IF s # <<>> /\ j = i THEN s[Len(s)] ELSE h.node[j].prev
            /\ g.node[j].child = IF s = <<>> /\ j = p THEN i ELSE h.node[j].child
  <2>1. CASE s = <<>>
    <3>1. g = [h EXCEPT !.node[p].child = i, !.ret = 1]
      BY <1>1, <1>2, <1>5, <2>1 DEF AddToArray
    <3>2. AddedFirst(h, g, p, i)
      BY <3>1, AddSets
    <3> HIDE DEF g
    <3> QED BY <2>1, <3>2 DEF AddedFirst
  <2>2. CASE s # <<>>
    <3>1. Len(s) \in 1 .. Len(s) /\ s[Len(s)] \in Items /\ s[1] # NULL
      BY <1>1, <2>2
    <3>2. g = [Suffix(h, s[Len(s)], i) EXCEPT !.ret = 1]
      BY <1>1, <1>2, <1>5, <1>7, <2>2, <3>1 DEF AddToArray
    <3>3. AddedLast(h, g, s[Len(s)], i)
      BY <3>1, <3>2, AddSets
    <3> HIDE DEF g
    <3> QED BY <2>2, <3>3 DEF AddedLast
  <2> QED BY <2>1, <2>2
<1> HIDE DEF g
<1>10. s # <<>> => Len(s) \in 1 .. Len(s)
  BY <1>1
<1>11. g.node[p].child = t[1]
  <2>1. CASE s = <<>>
    BY <1>6, <1>9, <2>1
  <2>2. CASE s # <<>>
    BY <1>1, <1>2, <1>6, <1>9, <2>2
  <2> QED BY <2>1, <2>2
<1>12. ASSUME NEW m \in 1 .. Len(t)
       PROVE  /\ g.node[t[m]].next = IF m = Len(t) THEN NULL ELSE t[m + 1]
              /\ g.node[t[m]].prev = IF m = 1 THEN NULL ELSE t[m - 1]
  <2>1. CASE m = Len(s) + 1
    <3>1. t[m] = i /\ g.node[i].next = NULL
      BY <1>5, <1>6, <1>9, <1>10, <2>1
    <3>2. CASE s = <<>>
      BY <1>5, <1>6, <1>9, <2>1, <3>1, <3>2
    <3>3. CASE s # <<>>
      <4>1. m # 1 /\ t[m - 1] = s[Len(s)]
        BY <1>1, <1>6, <1>10, <2>1, <3>3
      <4> QED BY <1>6, <1>9, <2>1, <3>1, <3>3, <4>1
    <3> QED BY <3>2, <3>3
  <2>2. CASE m # Len(s) + 1
    <3>1. m \in 1 .. Len(s) /\ m # Len(t) /\ t[m] = s[m] /\ s # <<>>
      BY <1>1, <1>6, <2>2
    <3>2. s[m] \in Items /\ s[m] # i
      BY <1>1, <1>5, <3>1
    <3>3. m # 1 => t[m - 1] = s[m - 1]
      BY <1>1, <1>6, <3>1
    <3>4. g.node[s[m]].prev = h.node[s[m]].prev
      BY <1>9, <3>2
    <3>5. g.node[s[m]].next = t[m + 1]
      <4>1. CASE m = Len(s)
        BY <1>6, <1>9, <3>1, <3>2, <4>1
      <4>2. CASE m # Len(s)
        <5>1. s[m] # s[Len(s)] /\ t[m + 1] = s[m + 1]
          BY <1>1, <1>6, <1>10, <3>1, <4>2
        <5> QED BY <1>1, <1>3, <1>9, <3>1, <3>2, <4>2, <5>1
      <4> QED BY <4>1, <4>2
    <3> QED BY <1>1, <1>3, <3>1, <3>3, <3>4, <3>5
  <2> QED BY <2>1, <2>2
<1>13. \A l, m \in 1 .. Len(t) : t[l] = t[m] => l = m
  <2> SUFFICES ASSUME NEW l \in 1 .. Len(t), NEW m \in 1 .. Len(t), t[l] = t[m] PROVE l = m
    OBVIOUS
  <2>1. CASE l = Len(s) + 1 \/ m = Len(s) + 1
    BY <1>1, <1>5, <1>6, <2>1
  <2>2. CASE l # Len(s) + 1 /\ m # Len(s) + 1
    BY <1>1, <1>6, <2>2
  <2> QED BY <2>1, <2>2
<1>14. \A q \in Items \ {p} : \A m \in 1 .. Len(f[q]) :
          /\ g.node[f[q][m]].next = h.node[f[q][m]].next
          /\ g.node[f[q][m]].prev = h.node[f[q][m]].prev
          /\ \A l \in 1 .. Len(t) : f[q][m] # t[l]
  <2> SUFFICES ASSUME NEW q \in Items \ {p}, NEW m \in 1 .. Len(f[q])
               PROVE  /\ g.node[f[q][m]].next = h.node[f[q][m]].next
                      /\ g.node[f[q][m]].prev = h.node[f[q][m]].prev
                      /\ \A l \in 1 .. Len(t) : f[q][m] # t[l]
    OBVIOUS
  <2>1. f[q][m] \in Items /\ f[q][m] # i /\ \A l \in 1 .. Len(s) : f[q][m] # s[l]
    BY <1>4, <1>5
  <2>2. \A l \in 1 .. Len(t) : f[q][m] # t[l]
    BY <1>1, <1>6, <2>1
  <2> QED BY <1>9, <1>10, <2>1, <2>2
<1>15. Relinked(h, g, f, p, t)
  BY <1>6, <1>9, <1>11, <1>12, <1>13, <1>14 DEF Relinked
<1>16. LinkedAs(g, [f EXCEPT ![p] = t])
  BY <1>15, OneListChanged
<1>17. ASSUME NEW j \in Items \ {i}, Loose(h, f, j) PROVE Loose(g, [f EXCEPT ![p] = t], j)
  <2>1. \A m \in 1 .. Len(s) : s[m] # j
    BY <1>17 DEF Loose, s
  <2>2. \A m \in 1 .. Len(t) : t[m] # j
    BY <1>1, <1>6, <2>1
  <2>3. g.node[j].next = NULL /\ g.node[j].prev = NULL
    BY <1>9, <1>10, <1>17, <2>1 DEF Loose
  <2> QED BY <1>17, <2>2, <2>3, LooseKept
<1> QED BY <1>8, <1>9, <1>16, <1>17 DEF g

\* An item that is inserted is at its place, or last if the list is shorter.
THEOREM InsertPlaces ==
    ASSUME NEW h \in Heap, NEW f, LinkedAs(h, f), NEW p \in Items, Owner(h, p),
           NEW n \in Nat, NEW i \in Items, Loose(h, f, i)
    PROVE  LET g == Insert(h, p, n, i)
           IN  /\ Keeps(h, g)
               /\ LinkedAs(g, AtPlace(f, p, n, i))
               /\ \A j \in Items \ {i} : Loose(h, f, j) => Loose(g, AtPlace(f, p, n, i), j)
<1> DEFINE s == f[p]
           k == n + 1
           a == s[k]
           t == SE!InsertAt(s, k, i)
           g == Insert(h, p, n, i)
<1>1. CASE ~(n < Len(s))
  <2>1. ItemAt(h, p, n) = NULL
    BY <1>1, ItemAtIs
  <2>2. g = AddToArray(h, p, i)
    BY <2>1, Zenon DEF Insert
  <2>3. AtPlace(f, p, n, i) = AtEnd(f, p, i)
    BY <1>1 DEF AtPlace, AtEnd
  <2> HIDE DEF g
  <2> QED BY <2>2, <2>3, AddAppends DEF g
<1>2. CASE n < Len(s)
  <2>1. /\ s \in Seq(Items) /\ Len(s) \in Nat
        /\ \A m \in 1 .. Len(s) : s[m] \in Items /\ s[m] # NULL
        /\ \A l, m \in 1 .. Len(s) : s[l] = s[m] => l = m
    BY ListOf
  <2>2. k \in 1 .. Len(s) /\ k \in Nat
    BY <1>2, <2>1
  <2>3. \A m \in 1 .. Len(s) :
           /\ h.node[s[m]].next = IF m = Len(s) THEN NULL ELSE s[m + 1]
           /\ h.node[s[m]].prev = IF m = 1 THEN NULL ELSE s[m - 1]
    BY ListOf
  <2>4. h.node[p].child = s[1]
    BY <2>2, ListOf
  <2>5. \A q \in Items \ {p} : \A m \in 1 .. Len(f[q]) :
           /\ f[q][m] \in Items /\ f[q][m] # NULL
           /\ \A l \in 1 .. Len(s) : f[q][m] # s[l]
    BY ListOf
  <2>6. /\ h.node[i].next = NULL /\ h.node[i].prev = NULL /\ i # NULL
        /\ \A q \in Items : \A m \in 1 .. Len(f[q]) : f[q][m] # i
        /\ \A m \in 1 .. Len(s) : s[m] # i
    BY ItemNotNull DEF Loose
  <2>7. /\ t \in Seq(Items) /\ Len(t) = Len(s) + 1
        /\ \A m \in 1 .. Len(s) + 1 : t[m] = IF m < k THEN s[m]
                                              ELSE IF m = k THEN i ELSE s[m - 1]
    <3> HIDE DEF s, k
    <3> QED BY <2>1, <2>2, InsertAtIs
  <2>8. AtPlace(f, p, n, i) = [f EXCEPT ![p] = t]
    BY <1>2 DEF AtPlace
  <2>9. ItemAt(h, p, n) = a
    BY <1>2, ItemAtIs
  <2> HIDE DEF s, t, g, k
  <2>10. a \in Items /\ a # NULL /\ a # i /\ (s[1] = a <=> k = 1)
    BY <2>1, <2>2, <2>6
  <2>11. h.node[a].prev = IF k = 1 THEN NULL ELSE s[k - 1]
    BY <2>2, <2>3
  <2>12. k # 1 => k - 1 \in 1 .. Len(s) /\ s[k - 1] \in Items /\ s[k - 1] # i
    BY <2>1, <2>2, <2>6
  <2>13. Inserted(h, g, p, a, i)
    BY <2>4, <2>9, <2>10, <2>11, <2>12, InsertSets DEF g
  <2>14. /\ Keeps(h, g)
         /\ \A j \in Items :
               /\ g.node[j].next = IF j = i THEN a
                                   ELSE IF k # 1 /\ j = s[k - 1] THEN i
                                   ELSE h.node[j].next
               /\ g.node[j].prev = IF j = a THEN i
                                   ELSE IF j = i THEN h.node[a].prev
                                   ELSE h.node[j].prev
               /\ g.node[j].child = IF j = p /\ k = 1 THEN i ELSE h.node[j].child
    BY <2>4, <2>10, <2>11, <2>13, ItemNotNull DEF Inserted
  <2>15. t # <<>> /\ g.node[p].child = t[1]
    <3>1. t # <<>> /\ 1 \in 1 .. Len(s) + 1
      BY <2>1, <2>7
    <3>2. t[1] = IF k = 1 THEN i ELSE s[1]
      BY <2>2, <2>7, <3>1
    <3> QED BY <2>4, <2>14, <3>1, <3>2
  <2>16. ASSUME NEW m \in 1 .. Len(t)
         PROVE  /\ g.node[t[m]].next = IF m = Len(t) THEN NULL ELSE t[m + 1]
                /\ g.node[t[m]].prev = IF m = 1 THEN NULL ELSE t[m - 1]
    <3>1. CASE m < k
      <4>1. m \in 1 .. Len(s) /\ t[m] = s[m] /\ m # Len(t)
        BY <2>1, <2>2, <2>7, <3>1
      <4>2. s[m] \in Items /\ s[m] # i /\ s[m] # a
        BY <2>1, <2>2, <2>6, <3>1, <4>1
      <4>3. g.node[s[m]].prev = h.node[s[m]].prev
        BY <2>14, <4>2
      <4>4. m # 1 => t[m - 1] = s[m - 1]
        BY <2>2, <2>7, <3>1
      <4>5. g.node[s[m]].next = t[m + 1]
        <5>1. CASE m = k - 1
          <6>1. t[m + 1] = i
            BY <2>1, <2>2, <2>7, <5>1
          <6>2. k # 1 /\ s[m] = s[k - 1]
            BY <2>2, <5>1
          <6> QED BY <2>14, <4>2, <6>1, <6>2
        <5>2. CASE m # k - 1
          <6>1. t[m + 1] = s[m + 1] /\ m # Len(s)
            BY <2>1, <2>2, <2>7, <3>1, <5>2
          <6>2. k # 1 => s[m] # s[k - 1]
            BY <2>1, <2>12, <4>1, <5>2
          <6>3. g.node[s[m]].next = h.node[s[m]].next
            BY <2>14, <4>2, <6>2
          <6> QED BY <2>3, <4>1, <6>1, <6>3
        <5> QED BY <5>1, <5>2
      <4> QED BY <2>3, <4>1, <4>3, <4>4, <4>5
    <3>2. CASE m = k
      <4>1. t[m] = i /\ m # Len(t) /\ t[m + 1] = a
        <5>1. /\ k \in 1 .. Len(s) + 1 /\ ~(k < k) /\ k # Len(t)
              /\ k + 1 \in 1 .. Len(s) + 1 /\ ~(k + 1 < k) /\ k + 1 # k /\ (k + 1) - 1 = k
          BY <2>1, <2>2, <2>7
        <5> QED BY <2>7, <3>2, <5>1
      <4>2. m # 1 => t[m - 1] = s[k - 1]
        BY <2>1, <2>2, <2>7, <3>2
      <4> QED BY <2>10, <2>11, <2>14, <3>2, <4>1, <4>2
    <3>3. CASE m > k
      <4> DEFINE l == m - 1
      <4>1. l \in 1 .. Len(s) /\ t[m] = s[l] /\ l >= k /\ m = l + 1 /\ m # 1
        BY <2>1, <2>2, <2>7, <3>3
      <4> HIDE DEF l
      <4>2. s[l] \in Items /\ s[l] # i /\ (k # 1 => s[l] # s[k - 1])
        BY <2>1, <2>2, <2>6, <2>12, <4>1
      <4>3. g.node[s[l]].next = h.node[s[l]].next
        BY <2>14, <4>2
      <4>4. m = Len(t) <=> l = Len(s)
        BY <2>1, <2>7, <4>1
      <4>5. m # Len(t) => t[m + 1] = s[l + 1]
        BY <2>1, <2>2, <2>7, <3>3, <4>1
      <4>6. g.node[s[l]].prev = t[m - 1]
        <5>1. CASE l = k
          <6>1. t[m - 1] = i
            BY <2>1, <2>2, <2>7, <4>1, <5>1
          <6> QED BY <2>14, <4>2, <5>1, <6>1
        <5>2. CASE l # k
          <6>1. s[l] # a /\ l # 1 /\ t[m - 1] = s[l - 1]
            BY <2>1, <2>2, <2>7, <4>1, <5>2
          <6> QED BY <2>3, <2>14, <4>1, <4>2, <6>1
        <5> QED BY <5>1, <5>2
      <4> QED BY <2>3, <4>1, <4>3, <4>4, <4>5, <4>6
    <3> QED BY <2>2, <2>7, <3>1, <3>2, <3>3
  <2>17. ASSUME NEW l \in 1 .. Len(t), NEW m \in 1 .. Len(t), t[l] = t[m] PROVE l = m
    <3> DEFINE place(x) == IF x < k THEN x ELSE x - 1
    <3>1. CASE l = k \/ m = k
      <4>1. \A x \in 1 .. Len(t) : x # k => t[x] # i
        <5> SUFFICES ASSUME NEW x \in 1 .. Len(t), x # k PROVE t[x] # i
          OBVIOUS
        <5>1. place(x) \in 1 .. Len(s) /\ t[x] = s[place(x)]
          BY <2>1, <2>2, <2>7
        <5> HIDE DEF place
        <5> QED BY <2>6, <5>1
      <4>2. t[k] = i
        <5>1. k \in 1 .. Len(s) + 1 /\ ~(k < k)
          BY <2>1, <2>2
        <5> QED BY <2>7, <5>1
      <4> QED BY <2>17, <3>1, <4>1, <4>2
    <3>2. CASE l # k /\ m # k
      <4>1. /\ place(l) \in 1 .. Len(s) /\ t[l] = s[place(l)]
            /\ place(m) \in 1 .. Len(s) /\ t[m] = s[place(m)]
        BY <2>1, <2>2, <2>7, <3>2
      <4>2. place(l) = place(m) => l = m
        BY <2>1, <2>2, <2>7, <3>2
      <4> HIDE DEF place
      <4> QED BY <2>1, <2>17, <4>1, <4>2
    <3> QED BY <3>1, <3>2
  <2>18. \A x \in 1 .. Len(t) : t[x] = i \/ \E y \in 1 .. Len(s) : t[x] = s[y]
    BY <2>1, <2>2, <2>7
  <2>19. ASSUME NEW q \in Items \ {p}, NEW m \in 1 .. Len(f[q])
         PROVE  /\ g.node[f[q][m]].next = h.node[f[q][m]].next
                /\ g.node[f[q][m]].prev = h.node[f[q][m]].prev
                /\ \A l \in 1 .. Len(t) : f[q][m] # t[l]
    <3>1. f[q][m] \in Items /\ f[q][m] # i /\ \A l \in 1 .. Len(s) : f[q][m] # s[l]
      BY <2>5, <2>6
    <3>2. \A l \in 1 .. Len(t) : f[q][m] # t[l]
      BY <2>18, <3>1
    <3>3. f[q][m] # a /\ (k # 1 => f[q][m] # s[k - 1])
      BY <2>2, <2>12, <3>1
    <3> QED BY <2>14, <3>1, <3>2, <3>3
  <2>20. Relinked(h, g, f, p, t)
    BY <2>7, <2>14, <2>15, <2>16, <2>17, <2>19 DEF Relinked
  <2>21. LinkedAs(g, [f EXCEPT ![p] = t])
    BY <2>20, OneListChanged
  <2>22. ASSUME NEW j \in Items \ {i}, Loose(h, f, j) PROVE Loose(g, [f EXCEPT ![p] = t], j)
    <3>1. \A m \in 1 .. Len(s) : s[m] # j
      BY <2>22 DEF Loose, s
    <3>2. \A m \in 1 .. Len(t) : t[m] # j
      BY <2>18, <3>1
    <3>3. j # a /\ (k # 1 => j # s[k - 1])
      BY <2>2, <2>12, <3>1
    <3>4. g.node[j].next = NULL /\ g.node[j].prev = NULL
      BY <2>14, <2>22, <3>3 DEF Loose
    <3> QED BY <2>22, <3>2, <3>4, LooseKept
  <2> QED BY <2>8, <2>14, <2>21, <2>22 DEF g
<1> QED BY <1>1, <1>2

\* A replacement is where the item was that it replaces, which is loose.
THEOREM RelinkReplaces ==
    ASSUME NEW h \in Heap, NEW f, LinkedAs(h, f), NEW p \in Items, Owner(h, p),
           NEW n \in 0 .. Len(f[p]) - 1, NEW r \in Items, Loose(h, f, r)
    PROVE  LET i == f[p][n + 1]
               g == Relink(h, p, i, r)
           IN  /\ Keeps(h, g)
               /\ LinkedAs(g, GivenWay(f, p, n, r))
               /\ \A j \in Items \ {r} :
                     j = i \/ Loose(h, f, j) => Loose(g, GivenWay(f, p, n, r), j)
<1> DEFINE s == f[p]
           k == n + 1
           i == s[k]
           t == SE!ReplaceAt(s, k, r)
           g == Relink(h, p, i, r)
<1>1. /\ s \in Seq(Items) /\ Len(s) \in Nat
      /\ \A m \in 1 .. Len(s) : s[m] \in Items /\ s[m] # NULL
      /\ \A l, m \in 1 .. Len(s) : s[l] = s[m] => l = m
  BY ListOf
<1>2. k \in 1 .. Len(s) /\ k \in Nat
  BY <1>1
<1>3. \A m \in 1 .. Len(s) :
         /\ h.node[s[m]].next = IF m = Len(s) THEN NULL ELSE s[m + 1]
         /\ h.node[s[m]].prev = IF m = 1 THEN NULL ELSE s[m - 1]
  BY ListOf
<1>4. h.node[p].child = s[1]
  BY <1>2, ListOf
<1>5. \A q \in Items \ {p} : \A m \in 1 .. Len(f[q]) :
         /\ f[q][m] \in Items /\ f[q][m] # NULL
         /\ \A l \in 1 .. Len(s) : f[q][m] # s[l]
  BY ListOf
<1>6. /\ r # NULL
      /\ \A q \in Items : \A m \in 1 .. Len(f[q]) : f[q][m] # r
      /\ \A m \in 1 .. Len(s) : s[m] # r
  BY ItemNotNull DEF Loose
<1>7. /\ t \in Seq(Items) /\ Len(t) = Len(s)
      /\ \A m \in 1 .. Len(s) : t[m] = IF m = k THEN r ELSE s[m]
  <2> HIDE DEF s, k
  <2> QED BY <1>1, <1>2, ReplaceAtIs
<1>8. GivenWay(f, p, n, r) = [f EXCEPT ![p] = t]
  BY DEF GivenWay
<1> HIDE DEF s, t, g, k
<1>9. i \in Items /\ i # NULL /\ i # r /\ (s[1] = i <=> k = 1)
  BY <1>1, <1>2, <1>6
<1>10. h.node[i].next = (IF k = Len(s) THEN NULL ELSE s[k + 1])
  BY <1>2, <1>3
<1>11. h.node[i].prev = (IF k = 1 THEN NULL ELSE s[k - 1])
  BY <1>2, <1>3
<1>12. TakesPlace(h, g, p, i, r)
  BY <1>9, RelinkSets DEF g
<1>13. /\ Keeps(h, g)
       /\ \A j \in Items :
             /\ g.node[j].next = IF j = i THEN NULL
                                 ELSE IF j = h.node[i].prev THEN r
                                 ELSE IF j = r THEN h.node[i].next
                                 ELSE h.node[j].next
             /\ g.node[j].prev = IF j = i THEN NULL
                                 ELSE IF j = h.node[i].next THEN r
                                 ELSE IF j = r THEN h.node[i].prev
                                 ELSE h.node[j].prev
             /\ g.node[j].child = IF j = p /\ k = 1 THEN r ELSE h.node[j].child
  BY <1>4, <1>9, <1>12 DEF TakesPlace
<1>14. \A j \in Items : (\A l \in 1 .. Len(s) : j # s[l]) =>
                            j # i /\ j # h.node[i].next /\ j # h.node[i].prev
  BY <1>1, <1>2, <1>10, <1>11, ItemNotNull
<1>15. t # <<>> /\ g.node[p].child = t[1]
  BY <1>1, <1>2, <1>4, <1>7, <1>13
<1>16. ASSUME NEW m \in 1 .. Len(t)
       PROVE  /\ g.node[t[m]].next = IF m = Len(t) THEN NULL ELSE t[m + 1]
              /\ g.node[t[m]].prev = IF m = 1 THEN NULL ELSE t[m - 1]
  <2>1. CASE m = k
    <3>1. t[m] = r
      BY <1>1, <1>2, <1>7, <2>1
    <3>2. g.node[r].next = h.node[i].next /\ g.node[r].prev = h.node[i].prev
      BY <1>6, <1>9, <1>13, <1>14
    <3>3. (m # Len(t) => t[m + 1] = s[k + 1]) /\ (m # 1 => t[m - 1] = s[k - 1])
      BY <1>1, <1>2, <1>7, <2>1
    <3> QED BY <1>7, <1>10, <1>11, <2>1, <3>1, <3>2, <3>3
  <2>2. CASE m # k
    <3>1. m \in 1 .. Len(s) /\ t[m] = s[m] /\ s[m] \in Items /\ s[m] # i /\ s[m] # r
      BY <1>1, <1>2, <1>6, <1>7, <2>2
    <3>2. g.node[s[m]].next = IF m = Len(t) THEN NULL ELSE t[m + 1]
      <4>1. CASE m = k - 1
        <5>1. s[m] = h.node[i].prev /\ m # Len(t) /\ t[m + 1] = r
          BY <1>1, <1>2, <1>7, <1>11, <3>1, <4>1
        <5> QED BY <1>13, <3>1, <5>1
      <4>2. CASE m # k - 1
        <5>1. s[m] # h.node[i].prev
          BY <1>1, <1>2, <1>11, <3>1, <4>2
        <5>2. g.node[s[m]].next = h.node[s[m]].next
          BY <1>13, <3>1, <5>1
        <5>3. m # Len(t) => t[m + 1] = s[m + 1]
          BY <1>1, <1>2, <1>7, <3>1, <4>2
        <5> QED BY <1>3, <1>7, <3>1, <5>2, <5>3
      <4> QED BY <4>1, <4>2
    <3>3. g.node[s[m]].prev = IF m = 1 THEN NULL ELSE t[m - 1]
      <4>1. CASE m = k + 1
        <5>1. s[m] = h.node[i].next /\ m # 1 /\ t[m - 1] = r
          BY <1>1, <1>2, <1>7, <1>10, <3>1, <4>1
        <5> QED BY <1>13, <3>1, <5>1
      <4>2. CASE m # k + 1
        <5>1. s[m] # h.node[i].next
          BY <1>1, <1>2, <1>10, <3>1, <4>2
        <5>2. g.node[s[m]].prev = h.node[s[m]].prev
          BY <1>13, <3>1, <5>1
        <5>3. m # 1 => t[m - 1] = s[m - 1]
          BY <1>1, <1>2, <1>7, <3>1, <4>2
        <5> QED BY <1>3, <3>1, <5>2, <5>3
      <4> QED BY <4>1, <4>2
    <3> QED BY <3>1, <3>2, <3>3
  <2> QED BY <2>1, <2>2
<1>17. ASSUME NEW l \in 1 .. Len(t), NEW m \in 1 .. Len(t), t[l] = t[m] PROVE l = m
  BY <1>1, <1>2, <1>6, <1>7, <1>17
<1>18. \A x \in 1 .. Len(t) : t[x] = r \/ \E y \in 1 .. Len(s) : y # k /\ t[x] = s[y]
  BY <1>1, <1>2, <1>7
<1>19. ASSUME NEW q \in Items \ {p}, NEW m \in 1 .. Len(f[q])
       PROVE  /\ g.node[f[q][m]].next = h.node[f[q][m]].next
              /\ g.node[f[q][m]].prev = h.node[f[q][m]].prev
              /\ \A l \in 1 .. Len(t) : f[q][m] # t[l]
  <2>1. f[q][m] \in Items /\ f[q][m] # r /\ \A l \in 1 .. Len(s) : f[q][m] # s[l]
    BY <1>5, <1>6
  <2>2. \A l \in 1 .. Len(t) : f[q][m] # t[l]
    BY <1>18, <2>1
  <2>3. f[q][m] # i /\ f[q][m] # h.node[i].next /\ f[q][m] # h.node[i].prev
    BY <1>14, <2>1
  <2> QED BY <1>13, <2>1, <2>2, <2>3
<1>20. Relinked(h, g, f, p, t)
  BY <1>7, <1>13, <1>15, <1>16, <1>17, <1>19 DEF Relinked
<1> DEFINE e == [f EXCEPT ![p] = t]
<1>21. LinkedAs(g, e)
  BY <1>20, OneListChanged
<1>22. ASSUME NEW j \in Items \ {r}, j = i \/ Loose(h, f, j) PROVE Loose(g, e, j)
  <2>1. CASE j = i
    <3>1. g.node[j].next = NULL /\ g.node[j].prev = NULL
      BY <1>13, <2>1
    <3>2. \A m \in 1 .. Len(t) : t[m] # j
      BY <1>1, <1>2, <1>9, <1>18, <2>1
    <3>3. e[p] = t /\ \A q \in Items \ {p} : e[q] = f[q]
      BY DEF LinkedAs
    <3>4. \A q \in Items \ {p} : \A m \in 1 .. Len(f[q]) : f[q][m] # j
      BY <1>2, <1>5, <2>1
    <3> HIDE DEF e
    <3>5. \A q \in Items : \A m \in 1 .. Len(e[q]) : e[q][m] # j
      BY <3>2, <3>3, <3>4
    <3> QED BY <3>1, <3>5 DEF Loose
  <2>2. CASE j # i /\ Loose(h, f, j)
    <3>1. \A m \in 1 .. Len(s) : s[m] # j
      BY <2>2 DEF Loose, s
    <3>2. \A m \in 1 .. Len(t) : t[m] # j
      BY <1>18, <1>22, <3>1
    <3>3. g.node[j].next = NULL /\ g.node[j].prev = NULL
      BY <1>13, <1>14, <1>22, <2>2, <3>1 DEF Loose
    <3> QED BY <2>2, <3>2, <3>3, LooseKept
  <2> QED BY <1>22, <2>1, <2>2
<1> QED BY <1>8, <1>13, <1>21, <1>22 DEF s, k, g
-----------------------------------------------------------------------------
\* The heap of the model

\* From linked lists alone, for every heap and lists of every length:
\* cJSON_GetArrayItem(), cJSON_DetachItemViaPointer(), add_item_to_array(),
\* cJSON_InsertItemInArray() and the linking of cJSON_ReplaceItemViaPointer()
\* work on the place that is named, and every other list stays.
THEOREM PlacesFollow ==
    ASSUME mem \in Heap, held \subseteq Items, ListsLinked
    PROVE  RightPlace
<1> DEFINE f == Kids(mem)
<1> SUFFICES ASSUME mem.status = "ok", NEW p \in Live, mem.node[p].ref = 0
             PROVE
                 /\ \A n \in 0 .. Len(f[p]) - 1 :
                       /\ ItemAt(mem, p, n) = f[p][n + 1]
                       /\ Kids(Detach(mem, p, f[p][n + 1])) = Taken(f, p, n)
                 /\ \A i \in held :
                       /\ Kids(AddToArray(mem, p, i)) = AtEnd(f, p, i)
                       /\ \A n \in 0 .. Len(f[p]) + 1 :
                              Kids(Insert(mem, p, n, i)) = AtPlace(f, p, n, i)
                       /\ \A n \in 0 .. Len(f[p]) - 1 :
                              Kids(Relink(mem, p, f[p][n + 1], i)) = GivenWay(f, p, n, i)
  BY Zenon DEF RightPlace
<1>1. p \in Items /\ Owner(mem, p)
  BY DEF Live, Owner
<1>2. LinkedAs(mem, f) /\ \A i \in held : Loose(mem, f, i)
  BY DEF ListsLinked
<1> HIDE DEF f
<1>3. Len(f[p]) \in Nat
  BY <1>1, <1>2, ListLength
<1>4. ASSUME NEW n \in 0 .. Len(f[p]) - 1
      PROVE  /\ ItemAt(mem, p, n) = f[p][n + 1]
             /\ Kids(Detach(mem, p, f[p][n + 1])) = Taken(f, p, n)
  <2>1. n \in Nat /\ n < Len(f[p])
    BY <1>3
  <2>2. ItemAt(mem, p, n) = f[p][n + 1]
    BY <1>1, <1>2, <2>1, ItemAtIs
  <2>3. LinkedAs(Detach(mem, p, f[p][n + 1]), Taken(f, p, n))
    BY <1>1, <1>2, DetachTakesOut
  <2> QED BY <2>2, <2>3, KidsAre
<1>5. ASSUME NEW i \in held
      PROVE  /\ Kids(AddToArray(mem, p, i)) = AtEnd(f, p, i)
             /\ \A n \in 0 .. Len(f[p]) + 1 :
                    Kids(Insert(mem, p, n, i)) = AtPlace(f, p, n, i)
             /\ \A n \in 0 .. Len(f[p]) - 1 :
                    Kids(Relink(mem, p, f[p][n + 1], i)) = GivenWay(f, p, n, i)
  <2>1. i \in Items /\ Loose(mem, f, i)
    BY <1>2
  <2>2. LinkedAs(AddToArray(mem, p, i), AtEnd(f, p, i))
    BY <1>1, <1>2, <2>1, AddAppends
  <2>3. ASSUME NEW n \in 0 .. Len(f[p]) + 1
        PROVE  Kids(Insert(mem, p, n, i)) = AtPlace(f, p, n, i)
    <3>1. n \in Nat
      BY <1>3
    <3>2. LinkedAs(Insert(mem, p, n, i), AtPlace(f, p, n, i))
      BY <1>1, <1>2, <2>1, <3>1, InsertPlaces
    <3> QED BY <3>2, KidsAre
  <2>4. ASSUME NEW n \in 0 .. Len(f[p]) - 1
        PROVE  Kids(Relink(mem, p, f[p][n + 1], i)) = GivenWay(f, p, n, i)
    <3>1. LinkedAs(Relink(mem, p, f[p][n + 1], i), GivenWay(f, p, n, i))
      BY <1>1, <1>2, <2>1, RelinkReplaces
    <3> QED BY <3>1, KidsAre
  <2> QED BY <2>2, <2>3, <2>4, KidsAre
<1> QED BY <1>4, <1>5
\* A call of the client that only moves an item into a list or out of it, on
\* an array or object of its own: no bound on the places or the calls.
ListCall ==
    /\ mem.status = "ok"
    /\ \E p \in Live : mem.node[p].ref = 0 /\
          \/ \E i \in held : AddItemToArray(p, i)
          \/ \E i \in held, n \in Nat : InsertInArray(p, n, i)
          \/ \E n \in Nat : DetachFromArray(p, n)

\* What the client holds or lost is there, and in no list.
ListInv ==
    /\ mem \in Heap
    /\ held \cup lost \subseteq Live /\ held \cap lost = {}
    /\ ListsLinked

\* The end of a call touches no item.
LEMMA EndedIs ==
    ASSUME NEW h \in Heap
    PROVE  Keeps(h, Ended(h)) /\ Ended(h).node = h.node
  BY HeapAssumption DEF Ended, Heap, Keeps, Pointers

\* Nothing that the lists are about changes at the end of a call.
LEMMA EndedLinked ==
    ASSUME NEW h, NEW g, NEW f, NEW j, g.node = h.node
    PROVE  /\ LinkedAs(h, f) => LinkedAs(g, f)
           /\ Loose(h, f, j) => Loose(g, f, j)
<1>1. LinkedAs(h, f) => LinkedAs(g, f)
  BY SMT DEF LinkedAs, Owner
<1> QED BY <1>1, Zenon DEF Loose

\* Inserting adds one item to those of a sequence, and removing adds none.
LEMMA ItemsMoved ==
    ASSUME NEW s \in Seq(Items), NEW k \in 1 .. Len(s), NEW i \in Items
    PROVE  /\ ItemsOf(SE!InsertAt(s, k, i)) \subseteq ItemsOf(s) \cup {i}
           /\ ItemsOf(SE!RemoveAt(s, k)) \subseteq ItemsOf(s)
<1> DEFINE t == SE!InsertAt(s, k, i)
           u == SE!RemoveAt(s, k)
<1>1. /\ Len(t) = Len(s) + 1
      /\ \A m \in 1 .. Len(s) + 1 : t[m] = IF m < k THEN s[m] ELSE IF m = k THEN i ELSE s[m - 1]
  BY InsertAtIs, Zenon
<1>2. /\ Len(u) = Len(s) - 1
      /\ \A m \in 1 .. Len(s) - 1 : u[m] = IF m < k THEN s[m] ELSE s[m + 1]
  BY RemoveAtIs, Zenon
<1> HIDE DEF t, u
<1>3. \A m \in 1 .. Len(t) : t[m] \in ItemsOf(s) \cup {i}
  BY <1>1 DEF ItemsOf
<1>4. \A m \in 1 .. Len(u) : u[m] \in ItemsOf(s)
  BY <1>2 DEF ItemsOf
<1> QED BY <1>3, <1>4 DEF ItemsOf, t, u

\* In no list of f is anything new afterwards, but the item i.
LEMMA NothingElse ==
    ASSUME NEW h, NEW f, LinkedAs(h, f), NEW p \in Items, NEW i \in Items, NEW n \in Nat
    PROVE  \A q \in Items :
               /\ ItemsOf(AtEnd(f, p, i)[q]) \subseteq ItemsOf(f[q]) \cup {i}
               /\ ItemsOf(AtPlace(f, p, n, i)[q]) \subseteq ItemsOf(f[q]) \cup {i}
               /\ n < Len(f[p]) => ItemsOf(Taken(f, p, n)[q]) \subseteq ItemsOf(f[q])
<1> SUFFICES ASSUME NEW q \in Items
             PROVE  /\ ItemsOf(AtEnd(f, p, i)[q]) \subseteq ItemsOf(f[q]) \cup {i}
                    /\ ItemsOf(AtPlace(f, p, n, i)[q]) \subseteq ItemsOf(f[q]) \cup {i}
                    /\ n < Len(f[p]) => ItemsOf(Taken(f, p, n)[q]) \subseteq ItemsOf(f[q])
  OBVIOUS
<1>1. f \in [Items -> Seq(Items)]
  BY DEF LinkedAs
<1>2. CASE q # p
  BY <1>1, <1>2 DEF AtEnd, AtPlace, Taken
<1>3. CASE q = p
  <2> DEFINE s == f[p]
  <2>1. s \in Seq(Items) /\ Len(s) \in Nat
    BY <1>1
  <2>2. ItemsOf(Append(s, i)) \subseteq ItemsOf(s) \cup {i}
    BY <2>1 DEF ItemsOf
  <2>3. ASSUME n < Len(s)
        PROVE  /\ ItemsOf(SE!InsertAt(s, n + 1, i)) \subseteq ItemsOf(s) \cup {i}
               /\ ItemsOf(SE!RemoveAt(s, n + 1)) \subseteq ItemsOf(s)
    <3>1. s \in Seq(Items) /\ n + 1 \in 1 .. Len(s) /\ i \in Items
      BY <2>1, <2>3
    <3> HIDE DEF s
    <3> QED BY <3>1, ItemsMoved, Zenon
  <2>4. /\ AtEnd(f, p, i)[p] = Append(s, i)
        /\ AtPlace(f, p, n, i)[p] = IF n < Len(s) THEN SE!InsertAt(s, n + 1, i) ELSE Append(s, i)
        /\ Taken(f, p, n)[p] = SE!RemoveAt(s, n + 1)
    BY <1>1 DEF AtEnd, AtPlace, Taken
  <2> QED BY <1>3, <2>2, <2>3, <2>4
<1> QED BY <1>2, <1>3

\* What a call of ListCall has to leave for ListInv to hold after it.
LEMMA CallLeaves ==
    ASSUME NEW g, NEW e, ListInv, mem.status = "ok",
           Keeps(mem, g), mem' = Ended(g), LinkedAs(g, e),
           \A q \in Items : ItemsOf(e[q]) \subseteq Live,
           held' \cup lost' \subseteq Live, held' \cap lost' = {},
           \A i \in held' \cup lost' : Loose(g, e, i)
    PROVE  ListInv'
<1>1. g \in Heap
  BY DEF Keeps
<1>2. Keeps(g, mem') /\ (mem').node = g.node
  BY <1>1, EndedIs
<1>3. mem' \in Heap
  BY <1>2 DEF Keeps
<1>4. Live' = Live
  BY <1>2 DEF Keeps, Live
<1>5. LinkedAs(mem', e) /\ \A i \in held' \cup lost' : Loose(mem', e, i)
  BY <1>2, EndedLinked
<1>6. Kids(mem)' = e
  BY <1>5, KidsAre
<1>7. ListsLinked'
  BY <1>4, <1>5, <1>6 DEF ListsLinked, Live
<1> QED BY <1>3, <1>4, <1>7 DEF ListInv
\* An item that is taken out is live, and was in the list of its array.
LEMMA TakenIs ==
    ASSUME NEW f, ListInv, f = Kids(mem), mem.status = "ok",
           NEW p \in Items, NEW n \in Nat, n < Len(f[p])
    PROVE  /\ f[p][n + 1] \in Live
           /\ f[p][n + 1] \notin held \cup lost
<1>1. f \in [Items -> Seq(Items)] /\ LinkedAs(mem, f)
  BY DEF ListInv, ListsLinked, LinkedAs
<1>2. n + 1 \in 1 .. Len(f[p]) /\ f[p] \in Seq(Items)
  BY <1>1
<1>3. p \in Live
  <2> SUFFICES ASSUME p \notin Live PROVE FALSE
    OBVIOUS
  <2>1. ~Owner(mem, p)
    BY DEF Live, Owner
  <2>2. f[p] = <<>>
    BY <1>1, <2>1 DEF LinkedAs
  <2> QED BY <1>2, <2>2
<1>4. f[p][n + 1] \in Live
  BY <1>2, <1>3 DEF ListInv, ListsLinked, ItemsOf
<1>5. \A i \in held \cup lost : f[p][n + 1] # i
  BY <1>2 DEF ListInv, ListsLinked, Loose
<1> QED BY <1>4, <1>5

\* cJSON_AddItemToArray(), cJSON_InsertItemInArray() and cJSON_DetachItemFromArray():
\* from lists that are linked they make lists that are linked, and leave what the
\* client holds outside of them, for every heap, place and number of calls.
THEOREM ListsStayLinked == ListInv /\ [][ListCall]_<<mem, held, lost>> => []ListsLinked
<1>1. ASSUME ListInv, [ListCall]_<<mem, held, lost>>
      PROVE  ListInv'
  <2> USE <1>1
  <2>1. CASE UNCHANGED <<mem, held, lost>>
    BY <2>1 DEF ListInv, ListsLinked, Live
  <2>2. ASSUME mem.status = "ok", NEW p \in Live, mem.node[p].ref = 0,
               \/ \E i \in held : AddItemToArray(p, i)
               \/ \E i \in held, n \in Nat : InsertInArray(p, n, i)
               \/ \E n \in Nat : DetachFromArray(p, n)
        PROVE  ListInv'
    <3> USE <2>2
    <3> DEFINE f == Kids(mem)
    <3>1. /\ mem \in Heap /\ p \in Items /\ Owner(mem, p) /\ LinkedAs(mem, f)
          /\ held \subseteq Items /\ lost \subseteq Items
          /\ \A i \in held \cup lost : Loose(mem, f, i)
      BY DEF ListInv, ListsLinked, Live, Owner
    <3>2. \A q \in Items : ItemsOf(f[q]) \subseteq Live
      <4> SUFFICES ASSUME NEW q \in Items, q \notin Live PROVE ItemsOf(f[q]) = {}
        BY DEF ListInv, ListsLinked
      <4>1. f[q] = <<>>
        BY <3>1 DEF LinkedAs, Live, Owner
      <4> QED BY <4>1 DEF ItemsOf
    <3>3. held \subseteq Live /\ lost \subseteq Live /\ held \cap lost = {}
      BY DEF ListInv
    <3> HIDE DEF f
    <3>4. ASSUME NEW i \in held, AddItemToArray(p, i)
          PROVE  ListInv'
      <4> DEFINE g == AddToArray(mem, p, i)
                 e == AtEnd(f, p, i)
      <4>1. /\ Keeps(mem, g) /\ LinkedAs(g, e)
            /\ \A j \in Items \ {i} : Loose(mem, f, j) => Loose(g, e, j)
        BY <3>1, AddAppends
      <4>2. \A q \in Items : ItemsOf(e[q]) \subseteq Live
        <5>1. \A q \in Items : ItemsOf(e[q]) \subseteq ItemsOf(f[q]) \cup {i}
          BY <3>1, NothingElse, 0 \in Nat, Zenon
        <5> QED BY <3>2, <3>3, <5>1
      <4>3. mem' = Ended(g) /\ held' = held \ {i} /\ lost' = lost
        BY <3>4 DEF AddItemToArray
      <4> HIDE DEF g, e
      <4> QED BY <3>1, <3>3, <4>1, <4>2, <4>3, CallLeaves
    <3>5. ASSUME NEW i \in held, NEW n \in Nat, InsertInArray(p, n, i)
          PROVE  ListInv'
      <4> DEFINE g == Insert(mem, p, n, i)
                 e == AtPlace(f, p, n, i)
      <4>1. /\ Keeps(mem, g) /\ LinkedAs(g, e)
            /\ \A j \in Items \ {i} : Loose(mem, f, j) => Loose(g, e, j)
        BY <3>1, InsertPlaces
      <4>2. \A q \in Items : ItemsOf(e[q]) \subseteq Live
        BY <3>1, <3>2, <3>3, NothingElse
      <4>3. mem' = Ended(g) /\ held' = held \ {i} /\ lost' = lost
        BY <3>5 DEF InsertInArray
      <4> HIDE DEF g, e
      <4> QED BY <3>1, <3>3, <4>1, <4>2, <4>3, CallLeaves
    <3>6. ASSUME NEW n \in Nat, DetachFromArray(p, n)
          PROVE  ListInv'
      <4> DEFINE i == ItemAt(mem, p, n)
                 g == Detach(mem, p, i)
      <4>1. /\ mem' = Ended(g) /\ lost' = lost
            /\ held' = IF g.ret = NULL THEN held ELSE held \cup {g.ret}
        BY <3>6 DEF DetachFromArray, Gained
      <4>2. i = IF n < Len(f[p]) THEN f[p][n + 1] ELSE NULL
        BY <3>1, ItemAtIs
      <4>3. CASE n < Len(f[p])
        <5> DEFINE e == Taken(f, p, n)
        <5>1. n \in 0 .. Len(f[p]) - 1
          BY <3>1, <4>3, ListLength
        <5>2. i = f[p][n + 1]
          BY <4>2, <4>3
        <5>3. i \in Live /\ i \notin held \cup lost
          BY <3>1, <4>3, <5>2, TakenIs DEF f
        <5>4. /\ Keeps(mem, g) /\ g.ret = i /\ LinkedAs(g, e)
              /\ \A j \in Items : j = i \/ Loose(mem, f, j) => Loose(g, e, j)
          BY <3>1, <5>1, <5>2, DetachTakesOut
        <5>5. \A q \in Items : ItemsOf(e[q]) \subseteq Live
          BY <3>1, <3>2, <4>3, NothingElse
        <5>6. held' = held \cup {i}
          BY <4>1, <5>3, <5>4, ItemNotNull DEF Live
        <5>7. i \in Items
          BY <5>3 DEF Live
        <5> HIDE DEF g, e, i
        <5> QED BY <3>1, <3>3, <4>1, <5>3, <5>4, <5>5, <5>6, <5>7, CallLeaves
      <4>4. CASE ~(n < Len(f[p]))
        <5>1. g = [mem EXCEPT !.ret = NULL]
          BY <4>2, <4>4 DEF Detach
        <5>2. Keeps(mem, g) /\ g.ret = NULL /\ g.node = mem.node
          BY <3>1, <5>1, SetReturn DEF ReturnSet, Pointers
        <5>3. LinkedAs(g, f) /\ \A j \in held \cup lost : Loose(g, f, j)
          BY <3>1, <5>2, EndedLinked
        <5> HIDE DEF g, i
        <5> QED BY <3>1, <3>2, <3>3, <4>1, <5>2, <5>3, CallLeaves
      <4> QED BY <4>3, <4>4
    <3> QED BY <3>4, <3>5, <3>6
  <2> QED BY <2>1, <2>2 DEF ListCall
<1>2. ListInv => ListsLinked
  BY DEF ListInv
<1> QED BY <1>1, <1>2, PTL

-----------------------------------------------------------------------------
\* Recursion and induction

\* The first n steps of a recursion that begins with a and goes on by G.
Steps(g, n, S, a, G) ==
    /\ g \in [0 .. n -> S] /\ g[0] = a
    /\ \A m \in 1 .. n : g[m] = G[m][g[m - 1]]

Recursion(d, S, a, G) ==
    d \in [Nat -> S] /\ \A n \in Nat : d[n] = IF n = 0 THEN a ELSE G[n][d[n - 1]]

\* A function that is defined by recursion over the naturals exists.
LEMMA RecursionIs ==
    ASSUME NEW S, NEW a \in S, NEW G \in [Nat -> [S -> S]]
    PROVE  \E d : Recursion(d, S, a, G)
<1>1. ASSUME NEW n \in Nat PROVE \E g : Steps(g, n, S, a, G)
  <2> DEFINE Bad == {m \in Nat : ~ \E g : Steps(g, m, S, a, G)}
  <2> SUFFICES ASSUME n \in Bad PROVE FALSE
    OBVIOUS
  <2>1. PICK k \in Bad : \A j \in Bad : k <= j
    <3> HIDE DEF Bad
    <3>1. Bad \subseteq Nat /\ Bad # {}
      BY DEF Bad
    <3> QED BY <3>1, LeastNat, Zenon
  <2>2. k \in Nat
    OBVIOUS
  <2>3. k # 0
    <3>1. Steps([m \in 0 .. 0 |-> a], 0, S, a, G)
      BY DEF Steps
    <3> QED BY <3>1
  <2>4. k - 1 \in Nat /\ ~(k <= k - 1)
    BY <2>2, <2>3
  <2>5. PICK g : Steps(g, k - 1, S, a, G)
    BY <2>1, <2>4
  <2> DEFINE e == [m \in 0 .. k |-> IF m = k THEN G[k][g[k - 1]] ELSE g[m]]
  <2>6. g \in [0 .. k - 1 -> S] /\ g[0] = a /\ \A m \in 1 .. k - 1 : g[m] = G[m][g[m - 1]]
    BY <2>5 DEF Steps
  <2>7. g[k - 1] \in S /\ G[k] \in [S -> S]
    BY <2>2, <2>4, <2>6
  <2>8. e \in [0 .. k -> S] /\ e[0] = a
    BY <2>2, <2>3, <2>4, <2>6, <2>7
  <2>9. \A m \in 1 .. k : e[m] = G[m][e[m - 1]]
    BY <2>2, <2>3, <2>4, <2>6
  <2>10. Steps(e, k, S, a, G)
    BY <2>8, <2>9 DEF Steps
  <2> QED BY <2>10
<1>2. ASSUME NEW n \in Nat, NEW m \in Nat, NEW g, NEW e, Steps(g, n, S, a, G),
             Steps(e, m, S, a, G), NEW l \in Nat, l <= n, l <= m
      PROVE  g[l] = e[l]
  <2> DEFINE Bad == {j \in Nat : j <= n /\ j <= m /\ g[j] # e[j]}
  <2> SUFFICES ASSUME l \in Bad PROVE FALSE
    BY <1>2
  <2>1. PICK k \in Bad : \A j \in Bad : k <= j
    <3> HIDE DEF Bad
    <3>1. Bad \subseteq Nat /\ Bad # {}
      BY DEF Bad
    <3> QED BY <3>1, LeastNat, Zenon
  <2>2. k # 0
    BY <1>2 DEF Steps
  <2>3. k - 1 \in Nat /\ k \in 1 .. n /\ k \in 1 .. m /\ k - 1 \notin Bad
    BY <2>1, <2>2
  <2>4. g[k - 1] = e[k - 1]
    BY <2>3
  <2>5. g[k] = e[k]
    BY <1>2, <2>3, <2>4 DEF Steps
  <2> QED BY <2>5
<1> DEFINE s(n) == CHOOSE g : Steps(g, n, S, a, G)
           d == [n \in Nat |-> s(n)[n]]
<1>3. ASSUME NEW n \in Nat PROVE Steps(s(n), n, S, a, G)
  BY <1>1, Zenon
<1> HIDE DEF s
<1>4. ASSUME NEW n \in Nat PROVE d[n] \in S /\ d[n] = IF n = 0 THEN a ELSE G[n][d[n - 1]]
  <2>1. Steps(s(n), n, S, a, G)
    BY <1>3
  <2>2. s(n) \in [0 .. n -> S] /\ s(n)[0] = a /\ \A m \in 1 .. n : s(n)[m] = G[m][s(n)[m - 1]]
    BY <2>1 DEF Steps
  <2>3. n # 0 => s(n - 1)[n - 1] = s(n)[n - 1]
    <3> SUFFICES ASSUME n # 0 PROVE s(n - 1)[n - 1] = s(n)[n - 1]
      OBVIOUS
    <3>1. n - 1 \in Nat /\ n - 1 <= n - 1 /\ n - 1 <= n
      OBVIOUS
    <3>2. Steps(s(n - 1), n - 1, S, a, G)
      BY <1>3, <3>1
    <3> QED BY <1>2, <2>1, <3>1, <3>2
  <2> QED BY <2>2, <2>3
<1>5. d \in [Nat -> S]
  BY <1>4
<1> HIDE DEF d
<1>6. Recursion(d, S, a, G)
  BY <1>4, <1>5 DEF Recursion
<1> QED BY <1>6

-----------------------------------------------------------------------------
\* Induction, for a set of naturals.
LEMMA AllNat ==
    ASSUME NEW T, 0 \in T, \A n \in Nat : n \in T => n + 1 \in T
    PROVE  \A n \in Nat : n \in T
<1> DEFINE Bad == {n \in Nat : n \notin T}
<1> SUFFICES ASSUME Bad # {} PROVE FALSE
  OBVIOUS
<1>1. PICK k \in Bad : \A j \in Bad : k <= j
  <2>1. Bad \subseteq Nat
    OBVIOUS
  <2> HIDE DEF Bad
  <2> QED BY <2>1, LeastNat, Zenon
<1>2. k # 0 /\ k \in Nat
  OBVIOUS
<1>3. k - 1 \in Nat /\ ~(k <= k - 1) /\ (k - 1) + 1 = k
  BY <1>2
<1>4. k - 1 \in T
  BY <1>1, <1>3
<1> QED BY <1>3, <1>4

\* From i one gets to i, to what is next to what one gets to, and no further.
LEMMA ReachedIs ==
    ASSUME NEW D, IsFiniteSet(D), NEW step \in [D -> SUBSET D], NEW i \in D
    PROVE  /\ i \in Reached(step, i) /\ Reached(step, i) \subseteq D
           /\ \A j \in Reached(step, i) : step[j] \subseteq Reached(step, i)
           /\ \A T \in SUBSET D : i \in T /\ (\A j \in T : step[j] \subseteq T)
                                  => Reached(step, i) \subseteq T
<1> DEFINE S == [D -> SUBSET D]
           body(e) == [n \in Nat |-> [j \in DOMAIN step |->
                         {j} \cup IF n = 0 THEN {} ELSE UNION {e[n - 1][k] : k \in step[j]}]]
           in == CHOOSE in : in = body(in)
<1>1. DOMAIN step = D /\ \A j \in D : step[j] \subseteq D
  OBVIOUS
<1>2. /\ in \in [Nat -> S]
      /\ \A j \in D : in[0][j] = {j}
      /\ \A n \in Nat : \A j \in D : in[n + 1][j] = {j} \cup UNION {in[n][k] : k \in step[j]}
  <2> DEFINE a == [j \in D |-> {j}]
             F == [x \in S |-> [j \in D |-> {j} \cup UNION {x[k] : k \in step[j]}]]
             G == [n \in Nat |-> F]
  <2>1. a \in S
    OBVIOUS
  <2>2. F \in [S -> S]
    <3> SUFFICES ASSUME NEW x \in S, NEW j \in D PROVE UNION {x[k] : k \in step[j]} \subseteq D
      OBVIOUS
    <3>1. \A k \in step[j] : x[k] \subseteq D
      BY <1>1
    <3> QED BY <3>1
  <2>3. G \in [Nat -> [S -> S]]
    BY <2>2
  <2> HIDE DEF S, a, F, G
  <2>4. PICK d : Recursion(d, S, a, G)
    BY <2>1, <2>3, RecursionIs
  <2>5. \A n \in Nat : d[n] = IF n = 0 THEN a ELSE F[d[n - 1]]
    <3>1. \A n \in Nat : d[n] = IF n = 0 THEN a ELSE G[n][d[n - 1]]
      BY <2>4 DEF Recursion
    <3> QED BY <3>1 DEF G
  <2>6. \A n \in Nat : d[n] = [j \in DOMAIN step |->
                         {j} \cup IF n = 0 THEN {} ELSE UNION {d[n - 1][k] : k \in step[j]}]
    <3> SUFFICES ASSUME NEW n \in Nat
                 PROVE  d[n] = [j \in DOMAIN step |->
                           {j} \cup IF n = 0 THEN {} ELSE UNION {d[n - 1][k] : k \in step[j]}]
      OBVIOUS
    <3>1. CASE n = 0
      BY <1>1, <2>5, <3>1 DEF a
    <3>2. CASE n # 0
      <4>1. d[n - 1] \in S
        BY <2>4, <3>2 DEF Recursion
      <4>2. d[n] = F[d[n - 1]]
        BY <2>5, <3>2
      <4>3. d[n] = [j \in D |-> {j} \cup UNION {d[n - 1][k] : k \in step[j]}]
        BY <4>1, <4>2 DEF F
      <4> QED BY <1>1, <3>2, <4>3
    <3> QED BY <3>1, <3>2
  <2>7. d = body(d)
    <3>1. \A n \in Nat : d[n] = body(d)[n]
      BY <2>6
    <3>2. DOMAIN d = Nat /\ d = [n \in Nat |-> d[n]]
      BY <2>4 DEF Recursion
    <3> QED BY <3>1, <3>2
  <2>8. in = body(in)
    <3> HIDE DEF body
    <3> QED BY <2>7, Zenon
  <2> HIDE DEF in
  <2>9. \A n \in Nat : in[n] = [j \in DOMAIN step |->
                         {j} \cup IF n = 0 THEN {} ELSE UNION {in[n - 1][k] : k \in step[j]}]
    <3> SUFFICES ASSUME NEW n \in Nat
                 PROVE  in[n] = [j \in DOMAIN step |->
                         {j} \cup IF n = 0 THEN {} ELSE UNION {in[n - 1][k] : k \in step[j]}]
      OBVIOUS
    <3>1. in[n] = body(in)[n]
      BY <2>8
    <3> QED BY <3>1
  <2>10. \A j \in D : in[0][j] = {j}
    <3> SUFFICES ASSUME NEW j \in D PROVE in[0][j] = {j}
      OBVIOUS
    <3>1. in[0] = [k \in DOMAIN step |-> {k} \cup IF 0 = 0 THEN {} ELSE UNION {in[0 - 1][l] : l \in step[k]}]
      BY <2>9, Zenon
    <3>2. in[0][j] = {j} \cup {}
      BY <1>1, <3>1, Zenon
    <3> QED BY <3>2
  <2>11. \A n \in Nat : \A j \in D : in[n + 1][j] = {j} \cup UNION {in[n][k] : k \in step[j]}
    <3> SUFFICES ASSUME NEW n \in Nat, NEW j \in D
                 PROVE  in[n + 1][j] = {j} \cup UNION {in[n][k] : k \in step[j]}
      OBVIOUS
    <3>1. n + 1 \in Nat /\ n + 1 # 0 /\ (n + 1) - 1 = n
      OBVIOUS
    <3>2. in[n + 1] = [k \in DOMAIN step |-> {k} \cup IF n + 1 = 0 THEN {}
                                      ELSE UNION {in[(n + 1) - 1][l] : l \in step[k]}]
      BY <2>9, <3>1, Zenon
    <3>3. in[n + 1][j] = {j} \cup UNION {in[(n + 1) - 1][l] : l \in step[j]}
      BY <1>1, <3>1, <3>2, Zenon
    <3> QED BY <3>1, <3>3
  <2>12. in \in [Nat -> S]
    <3>1. in = [n \in Nat |-> in[n]]
      BY <2>8
    <3> DEFINE T == {n \in Nat : in[n] \in S}
    <3> DEFINE is(n) == in[n] = [j \in DOMAIN step |-> in[n][j]]
    <3>5. ASSUME NEW n \in Nat PROVE is(n)
      <4>1. in[n] = [j \in DOMAIN step |-> {j} \cup IF n = 0 THEN {}
                                        ELSE UNION {in[n - 1][k] : k \in step[j]}]
        BY <2>9, Zenon
      <4> DEFINE v(j) == {j} \cup IF n = 0 THEN {} ELSE UNION {in[n - 1][k] : k \in step[j]}
      <4>2. in[n] = [j \in DOMAIN step |-> v(j)]
        BY <4>1
      <4> HIDE DEF v
      <4> QED BY <4>2
    <3>2. 0 \in T
      <4> HIDE DEF is
      <4>1. 0 \in Nat
        OBVIOUS
      <4>2. is(0)
        BY <3>5, <4>1, Zenon
      <4> QED BY <1>1, <2>10, <4>2 DEF S, is
    <3>3. \A n \in Nat : n \in T => n + 1 \in T
      <4> SUFFICES ASSUME NEW n \in Nat, n \in T PROVE in[n + 1] \in S
        OBVIOUS
      <4>1. \A k \in D : in[n][k] \subseteq D
        BY DEF S
      <4>2. \A j \in D : in[n + 1][j] \subseteq D
        BY <1>1, <2>11, <4>1
      <4>3. is(n + 1)
        <5>1. n + 1 \in Nat
          OBVIOUS
        <5> HIDE DEF is
        <5> QED BY <3>5, <5>1, Zenon
      <4> QED BY <1>1, <4>2, <4>3 DEF S
    <3>4. \A n \in Nat : n \in T
      <4> HIDE DEF T
      <4> QED BY <3>2, <3>3, AllNat
    <3> QED BY <3>1, <3>4
  <2> QED BY <2>10, <2>11, <2>12
<1>3. Reached(step, i) = in[Cardinality(D)][i]
  BY <1>1 DEF Reached
<1> HIDE DEF in, body, S
<1>4. \A n \in Nat : \A j \in D : in[n][j] \subseteq D /\ j \in in[n][j]
  <2> SUFFICES ASSUME NEW n \in Nat, NEW j \in D PROVE in[n][j] \subseteq D /\ j \in in[n][j]
    OBVIOUS
  <2>1. in[n][j] \subseteq D
    BY <1>2 DEF S
  <2>2. CASE n = 0
    BY <1>2, <2>1, <2>2
  <2>3. CASE n # 0
    <3>1. n - 1 \in Nat /\ (n - 1) + 1 = n
      BY <2>3
    <3>2. in[n][j] = {j} \cup UNION {in[n - 1][k] : k \in step[j]}
      BY <1>2, <3>1
    <3> QED BY <2>1, <3>2
  <2> QED BY <2>2, <2>3
<1> DEFINE Next1(A) == UNION {step[x] : x \in A}
<1>5. \A n \in Nat : \A j \in D : in[n + 1][j] = in[n][j] \cup Next1(in[n][j])
  <2> DEFINE T == {n \in Nat : \A j \in D : in[n + 1][j] = in[n][j] \cup Next1(in[n][j])}
  <2>1. 0 \in T
    <3> SUFFICES ASSUME NEW j \in D PROVE in[0 + 1][j] = in[0][j] \cup Next1(in[0][j])
      OBVIOUS
    <3>1. \A k \in step[j] : in[0][k] = {k}
      BY <1>1, <1>2
    <3>2. UNION {in[0][k] : k \in step[j]} = step[j]
      BY <3>1
    <3>3. in[0 + 1][j] = {j} \cup step[j]
      BY <1>2, <3>2
    <3>4. Next1(in[0][j]) = step[j]
      BY <1>2
    <3> HIDE DEF Next1
    <3> QED BY <1>2, <3>3, <3>4
  <2>2. \A n \in Nat : n \in T => n + 1 \in T
    <3> SUFFICES ASSUME NEW n \in Nat, n \in T, NEW j \in D
                 PROVE  in[(n + 1) + 1][j] = in[n + 1][j] \cup Next1(in[n + 1][j])
      OBVIOUS
    <3>1. n + 1 \in Nat
      OBVIOUS
    <3>2. \A k \in step[j] : in[n + 1][k] = in[n][k] \cup Next1(in[n][k]) /\ k \in in[n][k]
      BY <1>1, <1>4
    <3>3. in[(n + 1) + 1][j] = {j} \cup UNION {in[n + 1][k] : k \in step[j]}
      BY <1>2, <3>1
    <3>4. in[n + 1][j] = {j} \cup UNION {in[n][k] : k \in step[j]}
      BY <1>2
    <3>5. UNION {in[n + 1][k] : k \in step[j]}
             = (UNION {in[n][k] : k \in step[j]}) \cup (UNION {Next1(in[n][k]) : k \in step[j]})
      <4> DEFINE X(k) == in[n + 1][k]
                 Y(k) == in[n][k]
                 Z(k) == Next1(in[n][k])
                 L == UNION {X(k) : k \in step[j]}
                 R1 == UNION {Y(k) : k \in step[j]}
                 R2 == UNION {Z(k) : k \in step[j]}
      <4>1. \A k \in step[j] : X(k) = Y(k) \cup Z(k)
        BY <3>2
      <4> HIDE DEF X, Y, Z
      <4>2. \A x : x \in L <=> x \in R1 \/ x \in R2
        BY <4>1
      <4>3. ASSUME NEW A, NEW B, NEW C, \A x : x \in A <=> x \in B \/ x \in C
            PROVE  A = B \cup C
        BY <4>3
      <4> HIDE DEF L, R1, R2
      <4>4. L = R1 \cup R2
        BY <4>2, <4>3
      <4> QED BY <4>4 DEF L, R1, R2, X, Y, Z
    <3>6. Next1(in[n + 1][j]) = step[j] \cup UNION {Next1(in[n][k]) : k \in step[j]}
      BY <3>4
    <3>7. step[j] \subseteq UNION {in[n][k] : k \in step[j]}
      BY <3>2
    <3> HIDE DEF Next1
    <3> QED BY <3>3, <3>4, <3>5, <3>6, <3>7
  <2>3. \A n \in Nat : n \in T
    <3> HIDE DEF T
    <3> QED BY <2>1, <2>2, AllNat
  <2> QED BY <2>3
<1> DEFINE r(n) == in[n][i]
<1>6. \A n \in Nat : r(n) \subseteq D /\ r(n + 1) = r(n) \cup Next1(r(n))
  BY <1>4, <1>5
<1>7. Cardinality(D) \in Nat
  BY FS_CardinalityType
<1>8. \A j \in Reached(step, i) : step[j] \subseteq Reached(step, i)
  <2> SUFFICES ASSUME ~ (Next1(r(Cardinality(D))) \subseteq r(Cardinality(D))) PROVE FALSE
    BY <1>3
  <2> DEFINE T == {n \in Nat : n <= Cardinality(D) + 1 => Cardinality(r(n)) >= n}
  <2> HIDE DEF Next1
  <2>1. ASSUME NEW n \in Nat, n <= Cardinality(D) PROVE r(n + 1) # r(n)
    <3> SUFFICES ASSUME r(n + 1) = r(n) PROVE FALSE
      OBVIOUS
    <3> DEFINE U == {m \in Nat : r(n + m) = r(n)}
    <3>1. 0 \in U
      OBVIOUS
    <3>2. \A m \in Nat : m \in U => m + 1 \in U
      <4> SUFFICES ASSUME NEW m \in Nat, r(n + m) = r(n) PROVE r(n + (m + 1)) = r(n)
        OBVIOUS
      <4>1. n + (m + 1) = (n + m) + 1 /\ n + m \in Nat
        OBVIOUS
      <4>2. r((n + m) + 1) = r(n + m) \cup Next1(r(n + m))
        BY <1>6, <4>1
      <4>3. r(n + 1) = r(n) \cup Next1(r(n))
        BY <1>6
      <4> HIDE DEF r
      <4> QED BY <4>1, <4>2, <4>3
    <3>3. \A m \in Nat : m \in U
      <4> HIDE DEF U
      <4> QED BY <3>1, <3>2, AllNat
    <3>4. Cardinality(D) - n \in Nat /\ n + (Cardinality(D) - n) = Cardinality(D)
      BY <1>7, <2>1
    <3>5. r(Cardinality(D)) = r(n)
      BY <3>3, <3>4
    <3>6. r(n + 1) = r(n) \cup Next1(r(n))
      BY <1>6
    <3> HIDE DEF r
    <3> QED BY <3>5, <3>6
  <2>2. \A n \in Nat : IsFiniteSet(r(n)) /\ Cardinality(r(n)) \in Nat /\ Cardinality(r(n)) <= Cardinality(D)
    BY <1>6, FS_Subset, FS_CardinalityType
  <2>3. 0 \in T
    BY <2>2
  <2>4. \A n \in Nat : n \in T => n + 1 \in T
    <3> SUFFICES ASSUME NEW n \in Nat, n \in T, n + 1 <= Cardinality(D) + 1
                 PROVE  Cardinality(r(n + 1)) >= n + 1
      OBVIOUS
    <3>1. n <= Cardinality(D) /\ n + 1 \in Nat
      BY <1>7
    <3>2. Cardinality(r(n)) >= n
      BY <1>7, <3>1
    <3>3. r(n) \in SUBSET r(n + 1) /\ r(n) # r(n + 1)
      BY <1>6, <2>1, <3>1
    <3> HIDE DEF r
    <3>4. Cardinality(r(n)) <= Cardinality(r(n + 1)) /\ Cardinality(r(n)) # Cardinality(r(n + 1))
      BY <2>2, <3>1, <3>3, FS_Subset
    <3> QED BY <2>2, <3>1, <3>2, <3>4
  <2>5. \A n \in Nat : n \in T
    <3> HIDE DEF T
    <3> QED BY <2>3, <2>4, AllNat
  <2>6. Cardinality(D) + 1 \in Nat
    BY <1>7
  <2> QED BY <1>7, <2>2, <2>5, <2>6
<1>9. ASSUME NEW U \in SUBSET D, i \in U, \A j \in U : step[j] \subseteq U
      PROVE  Reached(step, i) \subseteq U
  <2> DEFINE T == {n \in Nat : r(n) \subseteq U}
  <2>1. 0 \in T
    BY <1>2, <1>9
  <2>2. \A n \in Nat : n \in T => n + 1 \in T
    BY <1>6, <1>9
  <2>3. \A n \in Nat : n \in T
    <3> HIDE DEF T
    <3> QED BY <2>1, <2>2, AllNat
  <2> QED BY <1>3, <1>7, <2>3
<1> QED BY <1>3, <1>4, <1>7, <1>8, <1>9

-----------------------------------------------------------------------------
\* What is in an item

\* Documents are trees: items can be given depths that grow downwards, and what
\* is in an item is the smallest set that is closed under taking items.

\* No item is in two places.
PlacedOnce(f) ==
    \A p, q \in Items : \A n \in 1 .. Len(f[p]), m \in 1 .. Len(f[q]) :
        f[p][n] = f[q][m] => p = q /\ n = m

\* Items have a depth, which is greater than that of what they are in.
Deeper(d, f) ==
    d \in [Items -> Nat] /\ \A p \in Items : \A i \in ItemsOf(f[p]) : d[p] < d[i]
Layered(f) == \E d : Deeper(d, f)

\* The heap has N cells.
LEMMA ItemsFinite == IsFiniteSet(Items) /\ Cardinality(Items) = N /\ N \in Nat
  BY FS_Interval, HeapAssumption DEF Items

\* The items of a list are its elements.
LEMMA ItemsOfAre ==
    ASSUME NEW s \in Seq(Items)
    PROVE  /\ ItemsOf(s) \subseteq Items
           /\ \A n \in 1 .. Len(s) : s[n] \in ItemsOf(s)
           /\ \A i \in ItemsOf(s) : \E n \in 1 .. Len(s) : i = s[n]
           /\ s = <<>> <=> ItemsOf(s) = {}
<1>1. /\ ItemsOf(s) \subseteq Items
      /\ \A n \in 1 .. Len(s) : s[n] \in ItemsOf(s)
      /\ \A i \in ItemsOf(s) : \E n \in 1 .. Len(s) : i = s[n]
  BY DEF ItemsOf
<1>2. CASE s = <<>>
  <2>1. 1 .. Len(s) = {}
    BY <1>2
  <2> QED BY <1>1, <1>2, <2>1
<1>3. CASE s # <<>>
  <2>1. 1 \in 1 .. Len(s)
    BY <1>3
  <2> QED BY <1>1, <1>3, <2>1
<1> QED BY <1>1, <1>2, <1>3

\* What is in an item: itself, the items of whatever is in it, and no more.
LEMMA WithinIs ==
    ASSUME NEW f \in [Items -> Seq(Items)], NEW i \in Items
    PROVE  /\ i \in Within(f, i) /\ Within(f, i) \subseteq Items
           /\ \A j \in Within(f, i) : ItemsOf(f[j]) \subseteq Within(f, i)
           /\ \A T \in SUBSET Items : i \in T /\ (\A j \in T : ItemsOf(f[j]) \subseteq T)
                                      => Within(f, i) \subseteq T
<1> DEFINE step == [j \in DOMAIN f |-> ItemsOf(f[j])]
<1>1. DOMAIN f = Items /\ \A j \in Items : f[j] \in Seq(Items)
  OBVIOUS
<1>2. step \in [Items -> SUBSET Items] /\ \A j \in Items : step[j] = ItemsOf(f[j])
  BY <1>1, ItemsOfAre
<1>3. Within(f, i) = Reached(step, i)
  BY DEF Within
<1> HIDE DEF step
<1>4. /\ i \in Reached(step, i) /\ Reached(step, i) \subseteq Items
      /\ \A j \in Reached(step, i) : step[j] \subseteq Reached(step, i)
      /\ \A T \in SUBSET Items : i \in T /\ (\A j \in T : step[j] \subseteq T)
                                  => Reached(step, i) \subseteq T
  BY <1>2, ItemsFinite, ReachedIs
<1>5. ASSUME NEW T \in SUBSET Items, i \in T, \A j \in T : ItemsOf(f[j]) \subseteq T
      PROVE  Within(f, i) \subseteq T
  <2>1. \A j \in T : step[j] \subseteq T
    BY <1>2, <1>5
  <2> QED BY <1>3, <1>4, <1>5, <2>1
<1>6. \A j \in Within(f, i) : ItemsOf(f[j]) \subseteq Within(f, i)
  BY <1>2, <1>3, <1>4
<1> QED BY <1>3, <1>4, <1>5, <1>6

\* A set that holds i, and the items of all it holds, holds what is in i.
LEMMA WithinSmallest ==
    ASSUME NEW f \in [Items -> Seq(Items)], NEW i \in Items, NEW T \in SUBSET Items,
           i \in T, \A j \in T : ItemsOf(f[j]) \subseteq T
    PROVE  Within(f, i) \subseteq T
  BY WithinIs

\* What is in an item: itself and what is in its items.
LEMMA WithinParts ==
    ASSUME NEW f \in [Items -> Seq(Items)], NEW i \in Items
    PROVE  /\ Within(f, i) = {i} \cup (UNION {Within(f, j) : j \in ItemsOf(f[i])})
           /\ \A j \in Within(f, i) : Within(f, j) \subseteq Within(f, i)
           /\ \A j \in Within(f, i) : j = i \/ \E p \in Within(f, i) : j \in ItemsOf(f[p])
<1>1. /\ i \in Within(f, i) /\ Within(f, i) \subseteq Items
      /\ \A j \in Within(f, i) : ItemsOf(f[j]) \subseteq Within(f, i)
  BY WithinIs
<1>2. ASSUME NEW j \in Within(f, i) PROVE Within(f, j) \subseteq Within(f, i)
  <2>1. j \in Items
    BY <1>1
  <2> QED BY <1>1, <2>1, WithinSmallest
<1>3. ItemsOf(f[i]) \subseteq Items
  BY ItemsOfAre
<1> DEFINE T == {i} \cup (UNION {Within(f, j) : j \in ItemsOf(f[i])})
<1>4. T \subseteq Within(f, i)
  BY <1>1, <1>2
<1>5. Within(f, i) \subseteq T
  <2>1. T \in SUBSET Items
    BY <1>1, <1>4
  <2>2. ASSUME NEW j \in T PROVE ItemsOf(f[j]) \subseteq T
    <3>1. CASE j = i
      BY <1>3, <3>1, WithinIs
    <3>2. ASSUME NEW k \in ItemsOf(f[i]), j \in Within(f, k) PROVE ItemsOf(f[j]) \subseteq T
      <4>1. k \in Items
        BY <1>3
      <4>2. ItemsOf(f[j]) \subseteq Within(f, k)
        BY <3>2, <4>1, WithinIs
      <4> QED BY <4>2
    <3> QED BY <3>1, <3>2
  <2> HIDE DEF T
  <2>3. i \in T
    BY DEF T
  <2> QED BY <2>1, <2>2, <2>3, WithinSmallest
<1> DEFINE U == {j \in Within(f, i) : j = i \/ \E p \in Within(f, i) : j \in ItemsOf(f[p])}
<1>6. Within(f, i) \subseteq U
  <2>1. U \in SUBSET Items /\ i \in U
    BY <1>1
  <2>2. \A j \in U : ItemsOf(f[j]) \subseteq U
    BY <1>1
  <2> HIDE DEF U
  <2> QED BY <2>1, <2>2, WithinSmallest
<1> QED BY <1>2, <1>4, <1>5, <1>6

\* Nothing is less deep than what it is in.
LEMMA DepthWithin ==
    ASSUME NEW f \in [Items -> Seq(Items)], NEW d, Deeper(d, f), NEW i \in Items
    PROVE  \A j \in Within(f, i) : d[i] <= d[j]
<1> DEFINE T == {j \in Items : d[i] <= d[j]}
<1>1. \A j \in Items : d[j] \in Nat
  BY DEF Deeper
<1>2. i \in T
  BY <1>1
<1>3. ASSUME NEW j \in T, NEW k \in ItemsOf(f[j]) PROVE k \in T
  <2>1. k \in Items
    BY ItemsOfAre
  <2>2. d[j] < d[k]
    BY DEF Deeper
  <2> QED BY <1>1, <2>1, <2>2
<1>4. T \in SUBSET Items
  OBVIOUS
<1>5. Within(f, i) \subseteq T
  <2> HIDE DEF T
  <2> QED BY <1>2, <1>3, <1>4, WithinSmallest
<1> QED BY <1>5

\* That nothing is in its own items, and that everything has a depth, is one.
LEMMA LayeredIs ==
    ASSUME NEW f \in [Items -> Seq(Items)]
    PROVE  Layered(f) <=> \A p \in Items : \A i \in ItemsOf(f[p]) : p \notin Within(f, i)
<1>1. ASSUME NEW d, Deeper(d, f), NEW p \in Items, NEW i \in ItemsOf(f[p]), p \in Within(f, i)
      PROVE  FALSE
  <2>1. i \in Items /\ d[p] \in Nat /\ d[i] \in Nat
    BY <1>1, ItemsOfAre DEF Deeper
  <2>2. d[i] <= d[p]
    BY <1>1, <2>1, DepthWithin
  <2>3. d[p] < d[i]
    BY <1>1 DEF Deeper
  <2> QED BY <2>1, <2>2, <2>3
<1>2. ASSUME \A p \in Items : \A i \in ItemsOf(f[p]) : p \notin Within(f, i)
      PROVE  Layered(f)
  <2> DEFINE above(i) == {x \in Items : i \in Within(f, x)}
             d == [i \in Items |-> Cardinality(above(i))]
  <2>1. ASSUME NEW i \in Items PROVE IsFiniteSet(above(i)) /\ Cardinality(above(i)) \in Nat
    <3>1. above(i) \in SUBSET Items
      OBVIOUS
    <3> HIDE DEF above
    <3> QED BY <3>1, ItemsFinite, FS_Subset, FS_CardinalityType
  <2>2. ASSUME NEW p \in Items, NEW i \in ItemsOf(f[p])
        PROVE  Cardinality(above(p)) < Cardinality(above(i))
    <3>1. i \in Items
      BY ItemsOfAre
    <3>2. above(p) \in SUBSET above(i)
      <4> SUFFICES ASSUME NEW x \in Items, p \in Within(f, x) PROVE i \in Within(f, x)
        OBVIOUS
      <4> QED BY WithinIs
    <3>3. i \in above(i) /\ i \notin above(p)
      BY <1>2, <3>1, WithinIs
    <3>4. above(p) # above(i)
      BY <3>3
    <3> HIDE DEF above
    <3>5. Cardinality(above(p)) <= Cardinality(above(i)) /\ Cardinality(above(p)) # Cardinality(above(i))
      BY <2>1, <3>1, <3>2, <3>4, FS_Subset
    <3> QED BY <2>1, <3>1, <3>5
  <2> HIDE DEF above
  <2>3. \A p \in Items : \A i \in ItemsOf(f[p]) : i \in Items
    BY ItemsOfAre
  <2>4. d \in [Items -> Nat] /\ \A p \in Items : \A i \in ItemsOf(f[p]) : d[p] < d[i]
    BY <2>1, <2>2, <2>3
  <2>5. Deeper(d, f)
    BY <2>4 DEF Deeper
  <2> QED BY <2>5 DEF Layered
<1> QED BY <1>1, <1>2 DEF Layered

\* Fewer items in each list, or an item put where nothing of it is.
LEMMA LayeredKept ==
    ASSUME NEW f \in [Items -> Seq(Items)], NEW e \in [Items -> Seq(Items)], Layered(f),
           NEW i \in Items, NEW p \in Items, p \notin Within(f, i),
           \A q \in Items : ItemsOf(e[q]) \subseteq ItemsOf(f[q]) \cup (IF q = p THEN {i} ELSE {})
    PROVE  Layered(e)
<1>1. PICK d : Deeper(d, f)
  BY DEF Layered
<1> DEFINE c == [j \in Items |-> IF j \in Within(f, i) THEN d[j] + d[p] + 1 ELSE d[j]]
<1>2. \A j \in Items : d[j] \in Nat
  BY <1>1 DEF Deeper
<1>3. c \in [Items -> Nat]
  BY <1>2
<1>4. ASSUME NEW q \in Items, NEW j \in ItemsOf(e[q]) PROVE c[q] < c[j]
  <2>1. j \in Items
    BY ItemsOfAre
  <2>2. CASE j \in ItemsOf(f[q])
    <3>1. d[q] < d[j]
      BY <1>1, <2>2 DEF Deeper
    <3>2. q \in Within(f, i) => j \in Within(f, i)
      BY <2>2, WithinIs
    <3> QED BY <1>2, <2>1, <3>1, <3>2
  <2>3. CASE q = p /\ j = i
    <3>1. i \in Within(f, i)
      BY WithinIs
    <3> QED BY <1>2, <2>3, <3>1
  <2> QED BY <2>2, <2>3
<1> HIDE DEF c
<1>5. Deeper(c, e)
  BY <1>3, <1>4 DEF Deeper
<1> QED BY <1>5 DEF Layered

\* With fewer items in every list there is still no cycle.
LEMMA LayeredFewer ==
    ASSUME NEW f \in [Items -> Seq(Items)], NEW e, Layered(f),
           \A q \in Items : ItemsOf(e[q]) \subseteq ItemsOf(f[q])
    PROVE  Layered(e)
<1>1. PICK d : Deeper(d, f)
  BY DEF Layered
<1>2. Deeper(d, e)
  BY <1>1 DEF Deeper
<1> QED BY <1>2 DEF Layered

\* What is in two items that are in one list is not in both.
LEMMA Apart ==
    ASSUME NEW f \in [Items -> Seq(Items)], PlacedOnce(f), Layered(f), NEW p \in Items,
           NEW a \in ItemsOf(f[p]), NEW b \in ItemsOf(f[p]), a # b
    PROVE  Within(f, a) \cap Within(f, b) = {}
<1>1. PICK d : Deeper(d, f)
  BY DEF Layered
<1>2. a \in Items /\ b \in Items
  BY ItemsOfAre
<1>3. /\ \A j \in Within(f, a) : j = a \/ \E q \in Within(f, a) : j \in ItemsOf(f[q])
      /\ Within(f, a) \subseteq Items /\ Within(f, b) \subseteq Items
      /\ \A j \in Within(f, b) : ItemsOf(f[j]) \subseteq Within(f, b)
      /\ b \in Within(f, b)
  BY <1>2, WithinIs, WithinParts
<1>4. p \notin Within(f, a) /\ p \notin Within(f, b)
  BY LayeredIs
<1>5. \A q, r \in Items : \A j : j \in ItemsOf(f[q]) /\ j \in ItemsOf(f[r]) => q = r
  <2> SUFFICES ASSUME NEW q \in Items, NEW r \in Items, NEW j, j \in ItemsOf(f[q]), j \in ItemsOf(f[r])
               PROVE  q = r
    OBVIOUS
  <2>1. f[q] \in Seq(Items) /\ f[r] \in Seq(Items)
    OBVIOUS
  <2>2. PICK n \in 1 .. Len(f[q]) : j = f[q][n]
    BY <2>1, ItemsOfAre
  <2>3. PICK m \in 1 .. Len(f[r]) : j = f[r][m]
    BY <2>1, ItemsOfAre
  <2>4. f[q][n] = f[r][m]
    BY <2>2, <2>3
  <2> QED BY <2>4, Zenon DEF PlacedOnce
<1> DEFINE T == Within(f, b) \ Within(f, a)
<1>6. b \in T
  <2> SUFFICES ASSUME b \in Within(f, a) PROVE FALSE
    BY <1>3
  <2> QED BY <1>3, <1>4, <1>5
<1>7. ASSUME NEW j \in T, NEW k \in ItemsOf(f[j]), k \in Within(f, a) PROVE FALSE
  <2>1. CASE k = a
    <3>1. j = p
      BY <1>3, <1>5, <1>7, <2>1
    <3> QED BY <1>4, <3>1
  <2>2. ASSUME NEW q \in Within(f, a), k \in ItemsOf(f[q]) PROVE FALSE
    <3>1. j = q
      BY <1>3, <1>5, <1>7, <2>2
    <3> QED BY <3>1
  <2> QED BY <1>3, <1>7, <2>1, <2>2
<1>8. T \in SUBSET Items /\ \A j \in T : ItemsOf(f[j]) \subseteq T
  BY <1>3, <1>7
<1>9. Within(f, b) \subseteq T
  <2> HIDE DEF T
  <2> QED BY <1>2, <1>6, <1>8, WithinSmallest
<1> QED BY <1>9

\* What is in no list is where everything is in.
LEMMA Rooted ==
    ASSUME NEW f \in [Items -> Seq(Items)], Layered(f), NEW A \in SUBSET Items, NEW R,
           \A i \in A : i \in R \/ \E p \in A : i \in ItemsOf(f[p])
    PROVE  \A i \in A : \E r \in A \cap R : i \in Within(f, r)
<1>1. PICK d : Deeper(d, f)
  BY DEF Layered
<1>2. \A j \in Items : d[j] \in Nat
  BY <1>1 DEF Deeper
<1> DEFINE X == {i \in A : \A r \in A \cap R : i \notin Within(f, r)}
           Y == {d[i] : i \in X}
<1> SUFFICES ASSUME X # {} PROVE FALSE
  OBVIOUS
<1>3. PICK k \in Y : \A y \in Y : k <= y
  <2>1. Y \subseteq Nat /\ Y # {}
    BY <1>2
  <2> HIDE DEF Y
  <2> QED BY <2>1, LeastNat, Zenon
<1>4. PICK i \in X : k = d[i]
  OBVIOUS
<1>5. \A r \in A : r \in Within(f, r)
  BY WithinIs
<1>6. PICK p \in A : i \in ItemsOf(f[p])
  BY <1>4, <1>5
<1>7. d[p] < d[i] /\ d[p] \in Nat /\ d[i] \in Nat
  BY <1>1, <1>2, <1>4, <1>6 DEF Deeper
<1>8. p \notin X
  <2> SUFFICES ASSUME p \in X PROVE FALSE
    OBVIOUS
  <2>1. d[p] \in Y
    OBVIOUS
  <2>2. k <= d[p]
    BY <1>3, <2>1
  <2> QED BY <1>4, <1>7, <2>2
<1>9. PICK r \in A \cap R : p \in Within(f, r)
  BY <1>8
<1>10. i \in Within(f, r)
  BY <1>6, <1>9, WithinIs
<1> QED BY <1>4, <1>9, <1>10

-----------------------------------------------------------------------------
\* Keys and texts

\* Pointers are items and NULL, which differs from each item.
LEMMA PointersAre ==
    /\ NULL \in Pointers /\ Items \subseteq Pointers /\ NULL \notin Items
    /\ \A i \in Pointers : i # NULL => i \in Items
    /\ 1 \in Items /\ 0 \in Pointers /\ 1 \in Pointers /\ 1 # NULL
  BY HeapAssumption, JsonAssumption DEF Pointers, Items, NULL

\* A new cell and a free one own nothing and point nowhere.
LEMMA BlankIs ==
    /\ Blank \in Node /\ Freed \in Node
    /\ ~OwnsText(Blank) /\ ~OwnsKey(Blank) /\ ~OwnsText(Freed) /\ ~OwnsKey(Freed)
    /\ Freed.kind = "free" /\ Blank.kind = "invalid"
    /\ Blank.next = NULL /\ Blank.prev = NULL /\ Blank.child = NULL /\ Blank.ref = 0
    /\ Blank.key = NoKey /\ Blank.const = 0
    /\ Freed.next = NULL /\ Freed.prev = NULL /\ Freed.child = NULL
  BY PointersAre DEF Blank, Freed, Node, OwnsText, OwnsKey, Keys, NoKey, Kinds

\* The keys and texts that belong to the items of S.
TextsOf(h, S) == {j \in S : OwnsText(h.node[j])}
KeysOf(h, S) == {j \in S : OwnsKey(h.node[j])}
OwnedBy(h, S) == Cardinality(TextsOf(h, S)) + Cardinality(KeysOf(h, S))

\* Heap g is h with the items of S freed.
Frees(h, g, S) ==
    /\ g \in Heap /\ g.status = h.status /\ g.left = h.left /\ g.ret = h.ret
    /\ g.strings = h.strings - OwnedBy(h, S)
    /\ \A j \in Items : g.node[j] = IF j \in S THEN Freed ELSE h.node[j]

\* Keys and texts of disjoint sets of items add up.
LEMMA OwnedParts ==
    ASSUME NEW h, NEW S \in SUBSET Items, NEW T \in SUBSET Items, S \cap T = {}
    PROVE  /\ OwnedBy(h, S) \in Nat /\ OwnedBy(h, T) \in Nat
           /\ OwnedBy(h, S \cup T) = OwnedBy(h, S) + OwnedBy(h, T)
<1> DEFINE A(X) == TextsOf(h, X)
           B(X) == KeysOf(h, X)
<1>1. \A X \in SUBSET Items : A(X) \in SUBSET Items /\ B(X) \in SUBSET Items
  BY DEF TextsOf, KeysOf
<1>2. /\ A(S \cup T) = A(S) \cup A(T) /\ A(S) \cap A(T) = {}
      /\ B(S \cup T) = B(S) \cup B(T) /\ B(S) \cap B(T) = {}
  BY DEF TextsOf, KeysOf
<1> HIDE DEF A, B
<1>3. \A X \in SUBSET Items :
          /\ IsFiniteSet(A(X)) /\ Cardinality(A(X)) \in Nat
          /\ IsFiniteSet(B(X)) /\ Cardinality(B(X)) \in Nat
  BY <1>1, ItemsFinite, FS_Subset, FS_CardinalityType
<1>4. Cardinality({}) = 0
  BY FS_EmptySet
<1>5. /\ Cardinality(A(S \cup T)) = Cardinality(A(S)) + Cardinality(A(T))
      /\ Cardinality(B(S \cup T)) = Cardinality(B(S)) + Cardinality(B(T))
  <2>1. ASSUME NEW X, NEW Y, IsFiniteSet(X), IsFiniteSet(Y), X \cap Y = {},
               Cardinality(X) \in Nat, Cardinality(Y) \in Nat
        PROVE  Cardinality(X \cup Y) = Cardinality(X) + Cardinality(Y)
    <3>1. Cardinality(X \cup Y) = Cardinality(X) + Cardinality(Y) - Cardinality(X \cap Y)
      BY <2>1, FS_Union
    <3>2. Cardinality(X \cap Y) = 0
      BY <1>4, <2>1, Zenon
    <3> QED BY <2>1, <3>1, <3>2
  <2> QED BY <1>2, <1>3, <2>1
<1>6. \A X : OwnedBy(h, X) = Cardinality(A(X)) + Cardinality(B(X))
  BY DEF A, B, OwnedBy
<1>7. S \cup T \in SUBSET Items
  OBVIOUS
<1> QED BY <1>3, <1>5, <1>6, <1>7

\* No items own nothing.
LEMMA OwnedNone == \A h : OwnedBy(h, {}) = 0
<1> SUFFICES ASSUME NEW h PROVE OwnedBy(h, {}) = 0
  OBVIOUS
<1>1. TextsOf(h, {}) = {} /\ KeysOf(h, {}) = {}
  BY DEF TextsOf, KeysOf
<1> QED BY <1>1, FS_EmptySet DEF OwnedBy

\* How many keys and texts one item owns.
Owns(n) == Count(OwnsText(n)) + Count(OwnsKey(n))

\* What one item owns: its text, and its key unless that is constant.
LEMMA OwnedOne ==
    ASSUME NEW h, NEW i
    PROVE  OwnedBy(h, {i}) = Owns(h.node[i])
<1>1. Cardinality({i}) = 1 /\ Cardinality({}) = 0
  BY FS_Singleton, FS_EmptySet
<1>2. TextsOf(h, {i}) = IF OwnsText(h.node[i]) THEN {i} ELSE {}
  BY DEF TextsOf
<1>3. KeysOf(h, {i}) = IF OwnsKey(h.node[i]) THEN {i} ELSE {}
  BY DEF KeysOf
<1>4. Cardinality(TextsOf(h, {i})) = IF OwnsText(h.node[i]) THEN 1 ELSE 0
  BY <1>1, <1>2
<1>5. Cardinality(KeysOf(h, {i})) = IF OwnsKey(h.node[i]) THEN 1 ELSE 0
  BY <1>1, <1>3
<1> QED BY <1>4, <1>5 DEF OwnedBy, Owns, Count

\* Items that stay the same own the same.
LEMMA OwnedSame ==
    ASSUME NEW h, NEW g, NEW S, \A j \in S : g.node[j] = h.node[j]
    PROVE  OwnedBy(g, S) = OwnedBy(h, S)
<1>1. TextsOf(g, S) = TextsOf(h, S) /\ KeysOf(g, S) = KeysOf(h, S)
  BY DEF TextsOf, KeysOf
<1> QED BY <1>1 DEF OwnedBy

\* Leaving the heap as it is frees nothing.
LEMMA FreesNone ==
    ASSUME NEW h \in Heap
    PROVE  Frees(h, h, {})
<1>1. OwnedBy(h, {}) = 0 /\ h.strings \in Int
  BY OwnedNone DEF Heap
<1> QED BY <1>1 DEF Frees

\* Heap g is h with item i set to n, and s keys and texts.
NodeIs(h, g, i, n, s) ==
    /\ g \in Heap /\ g.status = h.status /\ g.left = h.left /\ g.ret = h.ret
    /\ g.strings = s /\ g.node = [h.node EXCEPT ![i] = n]
    /\ \A j \in Items : g.node[j] = IF j = i THEN n ELSE h.node[j]

\* Setting one cell and the number of strings sets these alone.
LEMMA NodeSet ==
    ASSUME NEW h \in Heap, NEW i \in Items, NEW n \in Node, NEW s \in Int
    PROVE  NodeIs(h, [h EXCEPT !.strings = s, !.node[i] = n], i, n, s)
  BY DEF Heap, NodeIs

\* Freeing one cell with its text and key frees that item.
LEMMA FreesOne ==
    ASSUME NEW h \in Heap, NEW i \in Items
    PROVE  Frees(h, [h EXCEPT !.strings = @ - Count(OwnsText(h.node[i])) - Count(OwnsKey(h.node[i])),
                              !.node[i] = Freed], {i})
<1> DEFINE s == h.strings - Count(OwnsText(h.node[i])) - Count(OwnsKey(h.node[i]))
           g == [h EXCEPT !.strings = s, !.node[i] = Freed]
<1>1. h.strings \in Int /\ s \in Int /\ s = h.strings - Owns(h.node[i])
  BY DEF Heap, Count, Owns
<1> HIDE DEF s
<1>2. /\ g \in Heap /\ g.status = h.status /\ g.left = h.left /\ g.ret = h.ret
      /\ g.strings = s
      /\ \A j \in Items : g.node[j] = IF j = i THEN Freed ELSE h.node[j]
  <2>1. Freed \in Node
    BY BlankIs
  <2>2. NodeIs(h, g, i, Freed, s)
    BY <1>1, <2>1, NodeSet
  <2> QED BY <2>2 DEF NodeIs
<1> HIDE DEF g
<1>3. Frees(h, g, {i})
  BY <1>1, <1>2, OwnedOne DEF Frees
<1> QED BY <1>3 DEF g, s

\* Freeing one set of items and then another frees both.
LEMMA FreesMore ==
    ASSUME NEW h \in Heap, NEW g, NEW k, NEW S \in SUBSET Items, NEW T \in SUBSET Items,
           S \cap T = {}, Frees(h, g, S), Frees(g, k, T)
    PROVE  Frees(h, k, S \cup T)
<1>1. \A j \in T : g.node[j] = h.node[j]
  BY DEF Frees
<1>2. OwnedBy(g, T) = OwnedBy(h, T)
  BY <1>1, OwnedSame
<1>3. /\ OwnedBy(h, S) \in Nat /\ OwnedBy(h, T) \in Nat
      /\ OwnedBy(h, S \cup T) = OwnedBy(h, S) + OwnedBy(h, T)
  BY OwnedParts
<1>4. h.strings \in Int
  BY DEF Heap
<1>5. k.strings = h.strings - OwnedBy(h, S \cup T)
  BY <1>2, <1>3, <1>4 DEF Frees
<1>6. \A j \in Items : k.node[j] = IF j \in S \cup T THEN Freed ELSE h.node[j]
  BY DEF Frees
<1> QED BY <1>5, <1>6 DEF Frees

-----------------------------------------------------------------------------
\* cJSON_Delete()

\* One step of a delete whose nested and further steps are d.
DeleteStep(d, h, i) ==
    IF i = NULL \/ h.status # "ok" THEN h
    ELSE IF h.node[i].kind = "free" THEN [h EXCEPT !.status = "corrupt"]
    ELSE LET x  == h.node[i]
             h1 == IF x.ref = 0 THEN d[h][x.child] ELSE h
             h2 == [h1 EXCEPT !.strings = @ - Count(OwnsText(x)) - Count(OwnsKey(x)),
                              !.node[i] = Freed]
         IN  d[h2][x.next]

\* A delete that may take no step any more.
NoStep(h, i) ==
    IF i = NULL \/ h.status # "ok" THEN h ELSE [h EXCEPT !.status = "corrupt"]

Deletes == [Heap -> [Pointers -> Heap]]

\* One level of cJSON_Delete() turns heaps into heaps.
LEMMA DeleteTyped ==
    ASSUME NEW d \in Deletes, NEW h \in Heap, NEW i \in Pointers
    PROVE  DeleteStep(d, h, i) \in Heap /\ NoStep(h, i) \in Heap
<1>1. [h EXCEPT !.status = "corrupt"] \in Heap
  BY DEF Heap
<1>2. ASSUME i # NULL PROVE DeleteStep(d, h, i) \in Heap
  <2> DEFINE x == h.node[i]
             h1 == IF x.ref = 0 THEN d[h][x.child] ELSE h
             h2 == [h1 EXCEPT !.strings = @ - Count(OwnsText(x)) - Count(OwnsKey(x)),
                              !.node[i] = Freed]
  <2>1. i \in Items
    BY <1>2, PointersAre
  <2>2. x \in Node /\ x.child \in Pointers /\ x.next \in Pointers
    BY <2>1 DEF Heap, Node
  <2>3. h1 \in Heap
    BY <2>2 DEF Deletes
  <2> DEFINE s == h1.strings - Count(OwnsText(x)) - Count(OwnsKey(x))
  <2> HIDE DEF h1
  <2>4. s \in Int
    BY <2>3 DEF Heap, Count
  <2>5. h2 = [h1 EXCEPT !.strings = s, !.node[i] = Freed]
    OBVIOUS
  <2> HIDE DEF s
  <2>6. h2 \in Heap
    <3>1. Freed \in Node
      BY BlankIs
    <3>2. NodeIs(h1, [h1 EXCEPT !.strings = s, !.node[i] = Freed], i, Freed, s)
      BY <2>1, <2>3, <2>4, <3>1, NodeSet
    <3> QED BY <2>5, <3>2 DEF NodeIs
  <2> HIDE DEF h2
  <2>7. d[h2][x.next] \in Heap
    BY <2>2, <2>6 DEF Deletes
  <2> QED BY <1>1, <2>7 DEF DeleteStep, h1, h2
<1>3. i = NULL => DeleteStep(d, h, i) \in Heap
  BY DEF DeleteStep
<1> QED BY <1>1, <1>2, <1>3 DEF NoStep

\* The recursion of cJSON_Delete(), level by level: every level takes a step
\* and leaves the rest to the level below.
LEMMA DeleteInIs ==
    /\ DeleteIn \in [Nat -> Deletes]
    /\ \A n \in Nat : \A h \in Heap, i \in Pointers :
          DeleteIn[n][h][i] = IF n = 0 THEN NoStep(h, i) ELSE DeleteStep(DeleteIn[n - 1], h, i)
<1> DEFINE a == [h \in Heap |-> [i \in Pointers |-> NoStep(h, i)]]
           F == [d \in Deletes |-> [h \in Heap |-> [i \in Pointers |-> DeleteStep(d, h, i)]]]
           G == [n \in Nat |-> F]
           v(e, n, h, i) ==
               IF i = NULL \/ h.status # "ok" THEN h
               ELSE IF n = 0 \/ h.node[i].kind = "free" THEN [h EXCEPT !.status = "corrupt"]
               ELSE LET x  == h.node[i]
                        h1 == IF x.ref = 0 THEN e[n - 1][h][x.child] ELSE h
                        h2 == [h1 EXCEPT !.strings = @ - Count(OwnsText(x)) - Count(OwnsKey(x)),
                                         !.node[i] = Freed]
                    IN  e[n - 1][h2][x.next]
           body(e) == [n \in Nat |-> [h \in Heap |-> [i \in Pointers |-> v(e, n, h, i)]]]
<1>1. a \in Deletes
  <2>0. {} \in SUBSET Heap
    OBVIOUS
  <2>1. \A h \in Heap : \A i \in Pointers : NoStep(h, i) \in Heap
    <3>1. \A h \in Heap : [h EXCEPT !.status = "corrupt"] \in Heap
      BY DEF Heap
    <3> QED BY <3>1 DEF NoStep
  <2> QED BY <2>1 DEF Deletes
<1>2. F \in [Deletes -> Deletes]
  <2>1. ASSUME NEW d \in Deletes
        PROVE [h \in Heap |-> [i \in Pointers |-> DeleteStep(d, h, i)]] \in Deletes
    <3>1. \A h \in Heap : \A i \in Pointers : DeleteStep(d, h, i) \in Heap
      BY DeleteTyped
    <3> QED BY <3>1 DEF Deletes
  <2> QED BY <2>1
<1>3. G \in [Nat -> [Deletes -> Deletes]]
  BY <1>2
<1> HIDE DEF a, F, G
<1>4. PICK d : Recursion(d, Deletes, a, G)
  BY <1>1, <1>3, RecursionIs
<1>5. d \in [Nat -> Deletes] /\ \A n \in Nat : d[n] = IF n = 0 THEN a ELSE F[d[n - 1]]
  <2>1. d \in [Nat -> Deletes] /\ \A n \in Nat : d[n] = IF n = 0 THEN a ELSE G[n][d[n - 1]]
    BY <1>4 DEF Recursion
  <2> QED BY <2>1 DEF G
<1>6. ASSUME NEW e, NEW n \in Nat, NEW h \in Heap, NEW i \in Pointers
      PROVE  v(e, n, h, i) = IF n = 0 THEN NoStep(h, i) ELSE DeleteStep(e[n - 1], h, i)
  <2>1. v(e, n, h, i) =
               IF i = NULL \/ h.status # "ok" THEN h
               ELSE IF n = 0 \/ h.node[i].kind = "free" THEN [h EXCEPT !.status = "corrupt"]
               ELSE LET x  == h.node[i]
                        h1 == IF x.ref = 0 THEN e[n - 1][h][x.child] ELSE h
                        h2 == [h1 EXCEPT !.strings = @ - Count(OwnsText(x)) - Count(OwnsKey(x)),
                                         !.node[i] = Freed]
                    IN  e[n - 1][h2][x.next]
    OBVIOUS
  <2> HIDE DEF v
  <2> QED BY <2>1 DEF NoStep, DeleteStep
<1>0. DeleteIn = CHOOSE e : e = body(e)
  BY Zenon DEF DeleteIn
<1> HIDE DEF v
<1>7. ASSUME NEW n \in Nat, NEW h \in Heap, NEW i \in Pointers
      PROVE  d[n][h][i] = IF n = 0 THEN NoStep(h, i) ELSE DeleteStep(d[n - 1], h, i)
  <2>1. CASE n = 0
    BY <1>5, <2>1 DEF a
  <2>2. CASE n # 0
    <3>1. d[n - 1] \in Deletes /\ d[n] = F[d[n - 1]]
      BY <1>5, <2>2
    <3>2. d[n][h][i] = DeleteStep(d[n - 1], h, i)
      BY <3>1 DEF F
    <3> QED BY <2>2, <3>2
  <2> QED BY <2>1, <2>2
<1>8. d = body(d)
  <2>1. ASSUME NEW n \in Nat PROVE d[n] = body(d)[n]
    <3>1. \A h \in Heap, i \in Pointers : v(d, n, h, i) = d[n][h][i]
      BY <1>6, <1>7
    <3>2. d[n] = [h \in Heap |-> d[n][h]] /\ \A h \in Heap : d[n][h] = [i \in Pointers |-> d[n][h][i]]
      BY <1>5 DEF Deletes
    <3>3. \A h \in Heap : d[n][h] = [i \in Pointers |-> v(d, n, h, i)]
      BY <3>1, <3>2
    <3>4. d[n] = [h \in Heap |-> [i \in Pointers |-> v(d, n, h, i)]]
      BY <3>2, <3>3
    <3> QED BY <3>4
  <2>2. d = [n \in Nat |-> d[n]] /\ body(d) = [n \in Nat |-> body(d)[n]]
    BY <1>5
  <2> HIDE DEF body
  <2> QED BY <2>1, <2>2
<1> DEFINE c == CHOOSE e : e = body(e)
<1>9. c = body(c)
  <2> HIDE DEF body
  <2> QED BY <1>8, Zenon
<1>10. DeleteIn = c
  BY <1>0
<1> HIDE DEF c
<1>11. \A n \in Nat : \A h \in Heap, i \in Pointers :
          c[n][h][i] = IF n = 0 THEN NoStep(h, i) ELSE DeleteStep(c[n - 1], h, i)
  <2> SUFFICES ASSUME NEW n \in Nat, NEW h \in Heap, NEW i \in Pointers
               PROVE  c[n][h][i] = IF n = 0 THEN NoStep(h, i) ELSE DeleteStep(c[n - 1], h, i)
    OBVIOUS
  <2>1. v(c, n, h, i) = IF n = 0 THEN NoStep(h, i) ELSE DeleteStep(c[n - 1], h, i)
    BY <1>6
  <2>2. body(c)[n][h][i] = v(c, n, h, i)
    OBVIOUS
  <2> HIDE DEF body
  <2> QED BY <1>9, <2>1, <2>2, Zenon
<1>12. ASSUME NEW n \in Nat
       PROVE  /\ c[n] = [h \in Heap |-> c[n][h]]
              /\ \A h \in Heap : c[n][h] = [i \in Pointers |-> c[n][h][i]]
  <2> DEFINE b == body(c)[n]
  <2>1. b = [h \in Heap |-> b[h]] /\ \A h \in Heap : b[h] = [i \in Pointers |-> b[h][i]]
    OBVIOUS
  <2>2. c[n] = b
    <3> HIDE DEF body
    <3> QED BY <1>9, Zenon
  <2> HIDE DEF b
  <2> QED BY <2>1, <2>2
<1>13. ASSUME NEW n \in Nat, \A h \in Heap, i \in Pointers : c[n][h][i] \in Heap
       PROVE  c[n] \in Deletes
  BY <1>12, <1>13 DEF Deletes
<1>14. \A n \in Nat : c[n] \in Deletes
  <2> DEFINE T == {n \in Nat : c[n] \in Deletes}
  <2>1. 0 \in T
    <3>1. \A h \in Heap, i \in Pointers : NoStep(h, i) \in Heap
      BY <1>1, DeleteTyped
    <3>2. \A h \in Heap, i \in Pointers : c[0][h][i] = NoStep(h, i)
      BY <1>11
    <3> QED BY <1>13, <3>1, <3>2
  <2>2. \A n \in Nat : n \in T => n + 1 \in T
    <3> SUFFICES ASSUME NEW n \in Nat, n \in T PROVE n + 1 \in T
      OBVIOUS
    <3>1. n + 1 \in Nat /\ n + 1 # 0 /\ (n + 1) - 1 = n
      OBVIOUS
    <3>2. \A h \in Heap, i \in Pointers : DeleteStep(c[n], h, i) \in Heap
      BY DeleteTyped
    <3>3. \A h \in Heap, i \in Pointers : c[n + 1][h][i] = DeleteStep(c[n], h, i)
      BY <1>11, <3>1
    <3> QED BY <1>13, <3>1, <3>2, <3>3
  <2>3. \A n \in Nat : n \in T
    <3> HIDE DEF T
    <3> QED BY <2>1, <2>2, AllNat
  <2> QED BY <2>3
<1>15. c \in [Nat -> Deletes]
  <2>1. c = [n \in Nat |-> body(c)[n]]
    <3>1. body(c) = [n \in Nat |-> body(c)[n]]
      OBVIOUS
    <3> HIDE DEF body
    <3> QED BY <1>9, <3>1
  <2>2. \A n \in Nat : body(c)[n] = c[n]
    <3> HIDE DEF body
    <3> QED BY <1>9, Zenon
  <2> HIDE DEF body
  <2> QED BY <1>14, <2>1, <2>2
<1> QED BY <1>10, <1>11, <1>15

-----------------------------------------------------------------------------
\* cJSON_Delete() of an item with all that is in it, and of all that follow it

\* The lists of a linked heap are sequences of items, each in one place.
LEMMA LinkedLists ==
    ASSUME NEW h, NEW f, LinkedAs(h, f)
    PROVE  /\ f \in [Items -> Seq(Items)] /\ PlacedOnce(f)
           /\ \A p \in Items : Len(f[p]) \in Nat /\ ItemsOf(f[p]) \subseteq Items
<1>1. f \in [Items -> Seq(Items)]
  BY DEF LinkedAs
<1>2. PlacedOnce(f)
  BY Zenon DEF LinkedAs, PlacedOnce
<1> QED BY <1>1, <1>2, ItemsOfAre

\* The items in use.
Alive(h) == {i \in Items : h.node[i].kind # "free"}

\* What is in the items of p from place k on, and the pointer to the first of these.
TailOf(f, p, k) == UNION {Within(f, f[p][m]) : m \in k .. Len(f[p])}
FrontOf(f, p, k) == IF k <= Len(f[p]) THEN f[p][k] ELSE NULL

\* What is in the items of p from place k on is made of disjoint parts.
LEMMA TailIs ==
    ASSUME NEW f \in [Items -> Seq(Items)], PlacedOnce(f), Layered(f), NEW p \in Items
    PROVE  /\ \A k \in 1 .. Len(f[p]) + 1 : TailOf(f, p, k) \in SUBSET Items
           /\ TailOf(f, p, Len(f[p]) + 1) = {}
           /\ Within(f, p) = TailOf(f, p, 1) \cup {p} /\ p \notin TailOf(f, p, 1)
           /\ \A k \in 1 .. Len(f[p]) :
                 /\ f[p][k] \in Items
                 /\ TailOf(f, p, k) = Within(f, f[p][k]) \cup TailOf(f, p, k + 1)
                 /\ Within(f, f[p][k]) \cap TailOf(f, p, k + 1) = {}
<1> DEFINE s == f[p]
<1>1. s \in Seq(Items) /\ Len(s) \in Nat /\ \A m \in 1 .. Len(s) : s[m] \in Items /\ s[m] \in ItemsOf(s)
  BY ItemsOfAre
<1>2. ASSUME NEW k \in 1 .. Len(s) + 1 PROVE TailOf(f, p, k) \in SUBSET Items
  <2>1. \A m \in k .. Len(s) : Within(f, s[m]) \subseteq Items
    BY <1>1, <1>2, WithinIs
  <2> QED BY <2>1 DEF TailOf
<1>3. TailOf(f, p, Len(s) + 1) = {}
  <2>1. (Len(s) + 1) .. Len(s) = {}
    BY <1>1
  <2> QED BY <2>1 DEF TailOf
<1>4. TailOf(f, p, 1) = UNION {Within(f, j) : j \in ItemsOf(s)}
  BY DEF TailOf, ItemsOf
<1>5. Within(f, p) = {p} \cup (UNION {Within(f, j) : j \in ItemsOf(s)})
  BY WithinParts
<1>6. p \notin TailOf(f, p, 1)
  <2>1. \A j \in ItemsOf(s) : p \notin Within(f, j)
    BY LayeredIs
  <2> QED BY <1>4, <2>1
<1>7. ASSUME NEW k \in 1 .. Len(s)
      PROVE  /\ TailOf(f, p, k) = Within(f, s[k]) \cup TailOf(f, p, k + 1)
             /\ Within(f, s[k]) \cap TailOf(f, p, k + 1) = {}
  <2>1. k .. Len(s) = {k} \cup (k + 1 .. Len(s))
    BY <1>1
  <2>2. TailOf(f, p, k) = Within(f, s[k]) \cup TailOf(f, p, k + 1)
    BY <2>1 DEF TailOf
  <2>3. ASSUME NEW m \in k + 1 .. Len(s) PROVE Within(f, s[k]) \cap Within(f, s[m]) = {}
    <3>1. s[k] \in ItemsOf(s) /\ s[m] \in ItemsOf(s) /\ m \in 1 .. Len(s) /\ k # m
      BY <1>1, <1>7, <2>3
    <3>2. s[k] # s[m]
      BY <1>7, <3>1 DEF PlacedOnce
    <3> HIDE DEF s
    <3> QED BY <3>1, <3>2, Apart DEF s
  <2>4. ASSUME NEW x, x \in Within(f, s[k]), x \in TailOf(f, p, k + 1) PROVE FALSE
    <3>1. PICK m \in k + 1 .. Len(s) : x \in Within(f, s[m])
      BY <2>4 DEF TailOf
    <3> QED BY <2>3, <2>4, <3>1
  <2> QED BY <2>2, <2>4
<1> QED BY <1>1, <1>2, <1>3, <1>4, <1>5, <1>6, <1>7

\* What is in the items of p from place k on stays there.
LEMMA TailParts ==
    ASSUME NEW f \in [Items -> Seq(Items)], PlacedOnce(f), Layered(f), NEW p \in Items,
           NEW k \in 1 .. Len(f[p])
    PROVE  /\ TailOf(f, p, k) = Within(f, f[p][k]) \cup TailOf(f, p, k + 1)
           /\ Within(f, f[p][k]) \cap TailOf(f, p, k + 1) = {}
  BY TailIs

\* All that cJSON_Delete() goes through when it is given v: the items of a list
\* from some place on, or one that is in no list.
Ahead(h, f, v, Q) ==
    \/ v = NULL /\ Q = {}
    \/ \E p \in Items : \E k \in 1 .. Len(f[p]) : v = f[p][k] /\ Q = TailOf(f, p, k)
    \/ v \in Items /\ h.node[v].kind # "free" /\ h.node[v].next = NULL /\ Q = Within(f, v)

\* What a delete has ahead when it goes along the items of p.
LEMMA AheadTail ==
    ASSUME NEW h, NEW f, LinkedAs(h, f), Layered(f), NEW p \in Items, NEW k \in 1 .. Len(f[p]) + 1
    PROVE  Ahead(h, f, FrontOf(f, p, k), TailOf(f, p, k))
<1>1. Len(f[p]) \in Nat /\ f \in [Items -> Seq(Items)] /\ PlacedOnce(f)
  BY LinkedLists
<1>2. CASE k <= Len(f[p])
  <2>1. k \in 1 .. Len(f[p]) /\ FrontOf(f, p, k) = f[p][k]
    BY <1>1, <1>2 DEF FrontOf
  <2> QED BY <2>1 DEF Ahead
<1>3. CASE ~(k <= Len(f[p]))
  <2>1. k = Len(f[p]) + 1 /\ FrontOf(f, p, k) = NULL
    BY <1>1, <1>3 DEF FrontOf
  <2>2. TailOf(f, p, k) = {}
    BY <1>1, <2>1, TailIs
  <2> QED BY <2>1, <2>2 DEF Ahead
<1> QED BY <1>2, <1>3

\* The parts in which they go: what is in v, v, and what is after it.
Apart3(S, v, T) == v \notin S /\ v \notin T /\ S \cap T = {} /\ S \in SUBSET Items /\ T \in SUBSET Items

\* A delete has ahead what is in the item and what is in those that follow.
LEMMA AheadParts ==
    ASSUME NEW h, NEW f, LinkedAs(h, f), Layered(f),
           \A p \in Items : ItemsOf(f[p]) \subseteq Alive(h),
           NEW v \in Items, NEW Q, Ahead(h, f, v, Q)
    PROVE  /\ h.node[v].kind # "free" /\ Q \in SUBSET Items
           /\ \E S, T : /\ Q = (S \cup {v}) \cup T /\ Apart3(S, v, T)
                        /\ Ahead(h, f, h.node[v].next, T)
                        /\ IF h.node[v].ref = 0 THEN Ahead(h, f, h.node[v].child, S) ELSE S = {}
<1>1. f \in [Items -> Seq(Items)] /\ PlacedOnce(f) /\ \A p \in Items : Len(f[p]) \in Nat
  BY LinkedLists
<1>2. v # NULL
  BY PointersAre
<1> DEFINE S == TailOf(f, v, 1)
<1>3. /\ S \in SUBSET Items /\ Within(f, v) = S \cup {v} /\ v \notin S
  <2>1. 1 \in 1 .. Len(f[v]) + 1
    BY <1>1
  <2> QED BY <1>1, <2>1, TailIs
<1>4. h.node[v].kind # "free" =>
         IF h.node[v].ref = 0 THEN Ahead(h, f, h.node[v].child, S) ELSE S = {}
  <2> SUFFICES ASSUME h.node[v].kind # "free"
               PROVE  IF h.node[v].ref = 0 THEN Ahead(h, f, h.node[v].child, S) ELSE S = {}
    OBVIOUS
  <2>1. CASE h.node[v].ref = 0
    <3>1. Owner(h, v)
      BY <2>1 DEF Owner
    <3>2. h.node[v].child = IF f[v] = <<>> THEN NULL ELSE f[v][1]
      BY <3>1 DEF LinkedAs
    <3>3. f[v] = <<>> <=> ~(1 <= Len(f[v]))
      BY <1>1
    <3>4. h.node[v].child = FrontOf(f, v, 1)
      BY <3>2, <3>3 DEF FrontOf
    <3>5. 1 \in 1 .. Len(f[v]) + 1
      BY <1>1
    <3> QED BY <2>1, <3>4, <3>5, AheadTail
  <2>2. CASE h.node[v].ref # 0
    <3>1. ~Owner(h, v)
      BY <2>2 DEF Owner
    <3>2. f[v] = <<>>
      BY <3>1 DEF LinkedAs
    <3>3. TailOf(f, v, Len(f[v]) + 1) = {}
      BY <1>1, TailIs
    <3>4. Len(f[v]) + 1 = 1
      BY <3>2
    <3> QED BY <2>2, <3>3, <3>4
  <2> QED BY <2>1, <2>2
<1>5. ASSUME NEW p \in Items, NEW k \in 1 .. Len(f[p]), v = f[p][k], Q = TailOf(f, p, k)
      PROVE  /\ h.node[v].kind # "free"
             /\ LET T == TailOf(f, p, k + 1) IN
                /\ Q = (S \cup {v}) \cup T /\ Apart3(S, v, T) /\ Ahead(h, f, h.node[v].next, T)
  <2> DEFINE T == TailOf(f, p, k + 1)
  <2>1. k + 1 \in 1 .. Len(f[p]) + 1
    BY <1>1, <1>5
  <2>2. v \in ItemsOf(f[p])
    BY <1>5 DEF ItemsOf
  <2>3. h.node[v].kind # "free"
    BY <2>2 DEF Alive
  <2>4. Q = Within(f, v) \cup T /\ Within(f, v) \cap T = {} /\ T \in SUBSET Items
    <3>1. T \in SUBSET Items
      BY <1>1, <2>1, TailIs
    <3>2. /\ TailOf(f, p, k) = Within(f, f[p][k]) \cup TailOf(f, p, k + 1)
          /\ Within(f, f[p][k]) \cap TailOf(f, p, k + 1) = {}
      BY <1>1, TailParts
    <3> QED BY <1>5, <3>1, <3>2
  <2>5. h.node[v].next = IF k = Len(f[p]) THEN NULL ELSE f[p][k + 1]
    BY <1>5 DEF LinkedAs
  <2>6. h.node[v].next = FrontOf(f, p, k + 1)
    BY <1>1, <1>5, <2>5 DEF FrontOf
  <2>7. Ahead(h, f, h.node[v].next, T)
    BY <2>1, <2>6, AheadTail
  <2> HIDE DEF S, T
  <2>8. Q = (S \cup {v}) \cup T /\ Apart3(S, v, T)
    BY <1>3, <2>4 DEF Apart3
  <2> QED BY <2>3, <2>7, <2>8 DEF T
<1>6. ASSUME h.node[v].kind # "free", h.node[v].next = NULL, Q = Within(f, v)
      PROVE  Q = (S \cup {v}) \cup {} /\ Apart3(S, v, {}) /\ Ahead(h, f, h.node[v].next, {})
  <2> HIDE DEF S
  <2> QED BY <1>3, <1>6 DEF Apart3, Ahead
<1>7. Q \in SUBSET Items /\ h.node[v].kind # "free"
      /\ \E T : /\ Q = (S \cup {v}) \cup T /\ Apart3(S, v, T) /\ Ahead(h, f, h.node[v].next, T)
  <2> HIDE DEF S
  <2>1. \A T : Q = (S \cup {v}) \cup T /\ Apart3(S, v, T) => Q \in SUBSET Items
    BY DEF Apart3
  <2> QED BY <1>2, <1>5, <1>6, <2>1 DEF Ahead
<1> HIDE DEF S
<1> QED BY <1>4, <1>7

\* cJSON_Delete() frees what is ahead of it, and nothing else.
LEMMA DeleteAhead ==
    ASSUME NEW h0, NEW f, LinkedAs(h0, f), Layered(f),
           \A p \in Items : ItemsOf(f[p]) \subseteq Alive(h0)
    PROVE  \A n \in Nat : \A h \in Heap, v \in Pointers, Q \in SUBSET Items :
               /\ Ahead(h0, f, v, Q) /\ Cardinality(Q) <= n
               /\ h.status = "ok" /\ \A j \in Q : h.node[j] = h0.node[j]
               => Frees(h, DeleteIn[n][h][v], Q)
<1> DEFINE Good(n) == \A h \in Heap, v \in Pointers, Q \in SUBSET Items :
               /\ Ahead(h0, f, v, Q) /\ Cardinality(Q) <= n
               /\ h.status = "ok" /\ \A j \in Q : h.node[j] = h0.node[j]
               => Frees(h, DeleteIn[n][h][v], Q)
           T == {n \in Nat : Good(n)}
<1>1. \A Q \in SUBSET Items : IsFiniteSet(Q) /\ Cardinality(Q) \in Nat
  BY ItemsFinite, FS_Subset, FS_CardinalityType
<1>2. ASSUME NEW n \in Nat, NEW h \in Heap, NEW Q, Ahead(h0, f, NULL, Q)
      PROVE  Frees(h, DeleteIn[n][h][NULL], Q)
  <2>1. NULL \in Pointers /\ NULL \notin Items
    BY PointersAre
  <2>2. Q = {}
    <3>1. \A p \in Items : \A k \in 1 .. Len(f[p]) : f[p][k] \in Items
      BY LinkedLists
    <3> QED BY <1>2, <2>1, <3>1 DEF Ahead
  <2>3. DeleteIn[n][h][NULL] = h
    BY <2>1, DeleteInIs DEF NoStep, DeleteStep
  <2> QED BY <2>2, <2>3, FreesNone
<1>3. ASSUME NEW n \in Nat, NEW h \in Heap, NEW v \in Items, NEW Q \in SUBSET Items,
             Ahead(h0, f, v, Q), Cardinality(Q) <= n,
             h.status = "ok", \A j \in Q : h.node[j] = h0.node[j],
             n # 0 => Good(n - 1)
      PROVE  Frees(h, DeleteIn[n][h][v], Q)
  <2> HIDE DEF Good
  <2>1. PICK S, U : /\ Q = (S \cup {v}) \cup U /\ Apart3(S, v, U)
                    /\ Ahead(h0, f, h0.node[v].next, U)
                    /\ IF h0.node[v].ref = 0 THEN Ahead(h0, f, h0.node[v].child, S) ELSE S = {}
    BY <1>3, AheadParts
  <2>2. h0.node[v].kind # "free"
    BY <1>3, AheadParts
  <2> DEFINE d == DeleteIn[n - 1]
             x == h.node[v]
             h1 == IF x.ref = 0 THEN d[h][x.child] ELSE h
             h2 == [h1 EXCEPT !.strings = @ - Count(OwnsText(x)) - Count(OwnsKey(x)),
                              !.node[v] = Freed]
             h3 == d[h2][x.next]
  <2>3. v \in Q /\ S \in SUBSET Items /\ U \in SUBSET Items /\ {v} \in SUBSET Items
    BY <2>1 DEF Apart3
  <2>4. n # 0
    <3>1. Cardinality(Q) # 0
      BY <1>1, <2>3, FS_EmptySet
    <3> QED BY <1>1, <1>3, <3>1
  <2>5. Cardinality(S) <= n - 1 /\ Cardinality(U) <= n - 1
    <3>1. ASSUME NEW X \in SUBSET Q, v \notin X PROVE Cardinality(X) <= n - 1
      <4>1. Cardinality(X) <= Cardinality(Q) /\ Cardinality(X) # Cardinality(Q)
        BY <1>1, <2>3, <3>1, FS_Subset
      <4>2. Cardinality(X) \in Nat /\ Cardinality(Q) \in Nat
        BY <1>1
      <4> QED BY <1>3, <4>1, <4>2
    <3> QED BY <2>1, <3>1 DEF Apart3
  <2>6. x = h0.node[v] /\ x \in Node /\ x.child \in Pointers /\ x.next \in Pointers
    BY <1>3, <2>3 DEF Heap, Node
  <2>7. n - 1 \in Nat
    BY <2>4
  <2>8. Frees(h, h1, S)
    <3>1. CASE x.ref = 0
      <4>1. Ahead(h0, f, x.child, S)
        BY <2>1, <2>6, <3>1
      <4>2. Frees(h, d[h][x.child], S)
        BY <1>3, <2>1, <2>3, <2>4, <2>5, <2>6, <4>1 DEF Good
      <4> QED BY <3>1, <4>2
    <3>2. CASE x.ref # 0
      BY <2>1, <2>6, <3>2, FreesNone
    <3> QED BY <3>1, <3>2
  <2> HIDE DEF h1, d
  <2>9. h1 \in Heap /\ h1.node[v] = x
    BY <2>1, <2>8 DEF Frees, Apart3
  <2>10. Frees(h1, h2, {v})
    BY <2>9, FreesOne
  <2> HIDE DEF h2
  <2>11. Frees(h, h2, S \cup {v})
    BY <2>1, <2>3, <2>8, <2>10, FreesMore DEF Apart3
  <2>12. h2 \in Heap /\ h2.status = "ok" /\ \A j \in U : h2.node[j] = h0.node[j]
    BY <1>3, <2>1, <2>11 DEF Frees, Apart3
  <2>13. Frees(h2, h3, U)
    BY <1>3, <2>1, <2>3, <2>4, <2>5, <2>6, <2>12 DEF Good, d
  <2> HIDE DEF h3
  <2>14. Frees(h, h3, Q)
    <3>1. (S \cup {v}) \cap U = {} /\ S \cup {v} \in SUBSET Items
      BY <2>1, <2>3 DEF Apart3
    <3> QED BY <2>1, <2>3, <2>11, <2>13, <3>1, FreesMore
  <2>15. DeleteIn[n][h][v] = h3
    <3>1. v \in Pointers /\ v # NULL
      BY PointersAre
    <3>2. DeleteIn[n][h][v] = DeleteStep(d, h, v)
      BY <2>4, <3>1, DeleteInIs DEF d
    <3>3. DeleteStep(d, h, v) = h3
      BY <1>3, <2>2, <2>6, <3>1 DEF DeleteStep, h1, h2, h3
    <3> QED BY <3>2, <3>3
  <2> QED BY <2>14, <2>15
<1>4. ASSUME NEW n \in Nat, n # 0 => Good(n - 1) PROVE Good(n)
  <2>1. \A v \in Pointers : v = NULL \/ v \in Items
    BY PointersAre
  <2> QED BY <1>2, <1>3, <1>4, <2>1
<1>5. \A n \in Nat : Good(n)
  <2> HIDE DEF Good
  <2>1. 0 \in T
    BY <1>4
  <2>2. \A n \in Nat : n \in T => n + 1 \in T
    <3> SUFFICES ASSUME NEW n \in Nat, Good(n) PROVE Good(n + 1)
      OBVIOUS
    <3>1. n + 1 \in Nat /\ (n + 1) - 1 = n
      OBVIOUS
    <3> QED BY <1>4, <3>1
  <2>3. \A n \in Nat : n \in T
    <3> HIDE DEF T
    <3> QED BY <2>1, <2>2, AllNat
  <2> QED BY <2>3
<1> QED BY <1>5

-----------------------------------------------------------------------------
\* A heap in which f says what every item contains, the items of R are in no
\* list, and every other item that is in use is in one.
Sound(h, f, R) ==
    /\ h \in Heap /\ h.status = "ok" /\ LinkedAs(h, f) /\ Layered(f)
    /\ R \subseteq Alive(h) /\ \A i \in R : Loose(h, f, i)
    /\ \A p \in Items : ItemsOf(f[p]) \subseteq Alive(h)
    /\ \A i \in Alive(h) \ R : \E p \in Items : i \in ItemsOf(f[p])
    /\ \A i \in Items \ Alive(h) : h.node[i] = Freed
    /\ \A i \in Items : h.node[i].kind # "invalid"

\* There are k keys and texts that no item owns.
Counted(h, k) == h.strings = OwnedBy(h, Items) + k

\* The members of objects have names.
Named(h, f) ==
    \A p \in Items : Owner(h, p) /\ h.node[p].kind = "object" =>
        \A i \in ItemsOf(f[p]) : h.node[i].key # NoKey

\* The items of S contain nothing.
Emptied(f, S) == [i \in Items |-> IF i \in S THEN <<>> ELSE f[i]]

\* A loose item has no neighbours and is in no list.
LEMMA LooseIs ==
    ASSUME NEW h, NEW f, NEW i
    PROVE  Loose(h, f, i) <=> /\ h.node[i].next = NULL /\ h.node[i].prev = NULL
                              /\ \A p \in Items : i \notin ItemsOf(f[p])
  BY DEF Loose, ItemsOf

\* What is free contains nothing.
LEMMA FreedLists ==
    ASSUME NEW h, NEW f, LinkedAs(h, f), NEW i \in Items \ Alive(h)
    PROVE  f[i] = <<>>
<1>1. ~Owner(h, i)
  BY DEF Alive, Owner
<1> QED BY <1>1 DEF LinkedAs

\* Nothing free is in an item.
LEMMA WithinAlive ==
    ASSUME NEW h, NEW f, NEW R, Sound(h, f, R), NEW r \in Alive(h)
    PROVE  Within(f, r) \subseteq Alive(h)
<1>1. f \in [Items -> Seq(Items)] /\ Alive(h) \in SUBSET Items /\ r \in Items
  BY LinkedLists DEF Sound, Alive
<1>2. \A j \in Alive(h) : ItemsOf(f[j]) \subseteq Alive(h)
  BY <1>1 DEF Sound
<1> QED BY <1>1, <1>2, WithinSmallest

\* An item that is loose is in nothing but itself.
LEMMA LooseWithin ==
    ASSUME NEW f \in [Items -> Seq(Items)], NEW i \in Items, \A p \in Items : i \notin ItemsOf(f[p]),
           NEW r \in Items, i \in Within(f, r)
    PROVE  i = r
<1>1. i = r \/ \E p \in Within(f, r) : i \in ItemsOf(f[p])
  BY WithinParts
<1>2. Within(f, r) \subseteq Items
  BY WithinIs
<1> QED BY <1>1, <1>2

\* cJSON_Delete() of an item that is in no list frees it and what is in it.
LEMMA DeleteFrees ==
    ASSUME NEW h, NEW f, NEW R, Sound(h, f, R), NEW r \in R
    PROVE  Frees(h, Delete(h, r), Within(f, r))
<1>1. /\ h \in Heap /\ h.status = "ok" /\ LinkedAs(h, f) /\ Layered(f) /\ r \in Items
      /\ h.node[r].kind # "free" /\ h.node[r].next = NULL
      /\ \A p \in Items : ItemsOf(f[p]) \subseteq Alive(h)
  BY DEF Sound, Alive, Loose
<1> DEFINE Q == Within(f, r)
<1>2. Q \in SUBSET Items
  BY <1>1, LinkedLists, WithinIs
<1>3. Ahead(h, f, r, Q)
  BY <1>1 DEF Ahead
<1>4. Cardinality(Q) <= N
  BY <1>2, ItemsFinite, FS_Subset
<1>5. r \in Pointers /\ N \in Nat
  BY <1>1, PointersAre, ItemsFinite
<1> HIDE DEF Q
<1>6. Frees(h, DeleteIn[N][h][r], Q)
  BY <1>1, <1>2, <1>3, <1>4, <1>5, DeleteAhead
<1> QED BY <1>6 DEF Delete, Q

\* Freeing items frees just the keys and texts they own.
LEMMA FreedCounted ==
    ASSUME NEW h \in Heap, NEW g, NEW W \in SUBSET Items, Frees(h, g, W), NEW k \in Int, Counted(h, k)
    PROVE  Counted(g, k)
<1> DEFINE V == Items \ W
<1>1. /\ OwnedBy(h, W) \in Nat /\ OwnedBy(h, V) \in Nat
      /\ OwnedBy(h, W \cup V) = OwnedBy(h, W) + OwnedBy(h, V)
  BY OwnedParts
<1>2. /\ OwnedBy(g, W) \in Nat /\ OwnedBy(g, V) \in Nat
      /\ OwnedBy(g, W \cup V) = OwnedBy(g, W) + OwnedBy(g, V)
  BY OwnedParts
<1>3. W \cup V = Items
  OBVIOUS
<1>4. \A j \in V : g.node[j] = h.node[j]
  BY DEF Frees
<1>5. OwnedBy(g, V) = OwnedBy(h, V)
  BY <1>4, OwnedSame
<1>6. \A j \in W : g.node[j] = Freed
  BY DEF Frees
<1>7. TextsOf(g, W) = {} /\ KeysOf(g, W) = {}
  BY <1>6, BlankIs DEF TextsOf, KeysOf
<1>8. OwnedBy(g, W) = 0
  BY <1>7, FS_EmptySet DEF OwnedBy
<1>9. h.strings \in Int /\ g.strings = h.strings - OwnedBy(h, W) /\ h.strings = OwnedBy(h, Items) + k
  BY DEF Heap, Frees, Counted
<1> HIDE DEF V
<1>10. /\ OwnedBy(h, Items) = OwnedBy(h, W) + OwnedBy(h, V)
       /\ OwnedBy(g, Items) = OwnedBy(g, W) + OwnedBy(g, V)
  BY <1>1, <1>2, <1>3
<1>11. g.strings = OwnedBy(g, Items) + k
  BY <1>1, <1>2, <1>5, <1>8, <1>9, <1>10
<1> QED BY <1>11 DEF Counted

\* After a delete of r everything else is as sound as before, without r and
\* what was in it.
LEMMA FreedSound ==
    ASSUME NEW h, NEW f, NEW R, Sound(h, f, R), NEW r \in R, NEW g,
           Frees(h, g, Within(f, r))
    PROVE  /\ Sound(g, Emptied(f, Within(f, r)), R \ {r})
           /\ Alive(g) = Alive(h) \ Within(f, r)
           /\ Named(h, f) => Named(g, Emptied(f, Within(f, r)))
<1> DEFINE W == Within(f, r)
           e == Emptied(f, W)
<1>1. /\ h \in Heap /\ h.status = "ok" /\ LinkedAs(h, f) /\ Layered(f)
      /\ R \subseteq Alive(h) /\ \A i \in R : Loose(h, f, i)
      /\ \A p \in Items : ItemsOf(f[p]) \subseteq Alive(h)
      /\ \A i \in Alive(h) \ R : \E p \in Items : i \in ItemsOf(f[p])
      /\ \A i \in Items \ Alive(h) : h.node[i] = Freed
      /\ \A i \in Items : h.node[i].kind # "invalid"
  BY DEF Sound
<1>2. f \in [Items -> Seq(Items)] /\ PlacedOnce(f) /\ \A p \in Items : Len(f[p]) \in Nat /\ ItemsOf(f[p]) \subseteq Items
  BY <1>1, LinkedLists
<1>3. r \in Alive(h) /\ r \in Items
  BY <1>1 DEF Alive
<1>4. W \subseteq Alive(h) /\ W \subseteq Items /\ r \in W /\ \A j \in W : ItemsOf(f[j]) \subseteq W
  BY <1>2, <1>3, WithinAlive, WithinIs
<1>5. \A p \in Items : r \notin ItemsOf(f[p])
  BY <1>1, LooseIs
<1>6. \A p \in Items : \A i \in ItemsOf(f[p]) : i \in W => p \in W
  <2> SUFFICES ASSUME NEW p \in Items, NEW i \in ItemsOf(f[p]), i \in W PROVE p \in W
    OBVIOUS
  <2>0. i = r \/ \E q \in W : i \in ItemsOf(f[q])
    BY <1>2, <1>3, WithinParts
  <2>1. PICK q \in W : i \in ItemsOf(f[q])
    BY <1>5, <2>0
  <2>2. PICK n \in 1 .. Len(f[p]) : i = f[p][n]
    BY <1>2, ItemsOfAre
  <2>3. PICK m \in 1 .. Len(f[q]) : i = f[q][m]
    BY <1>2, <1>4, <2>1, ItemsOfAre
  <2>4. f[p][n] = f[q][m] /\ q \in Items
    BY <1>4, <2>2, <2>3
  <2>5. p = q
    BY <1>2, <2>4, Zenon DEF PlacedOnce
  <2> QED BY <2>5
<1>7. /\ g \in Heap /\ g.status = "ok" /\ \A j \in Items : g.node[j] = IF j \in W THEN Freed ELSE h.node[j]
  BY <1>1 DEF Frees
<1> HIDE DEF W
<1>8. Alive(g) = Alive(h) \ W
  BY <1>7, BlankIs DEF Alive
<1>9. e \in [Items -> Seq(Items)] /\ \A p \in Items : e[p] = IF p \in W THEN <<>> ELSE f[p]
  BY <1>2 DEF Emptied
<1>10. ItemsOf(<<>>) = {} /\ Len(<<>>) = 0
  BY DEF ItemsOf
<1> HIDE DEF e
<1>11. \A p \in Items : ItemsOf(e[p]) \subseteq ItemsOf(f[p]) /\ ItemsOf(e[p]) \subseteq Alive(g)
  BY <1>1, <1>6, <1>8, <1>9, <1>10
<1>12. Layered(e)
  BY <1>1, <1>2, <1>11, LayeredFewer
<1>13. LinkedAs(g, e)
  <2>1. \A p \in Items : Owner(g, p) <=> Owner(h, p) /\ p \notin W
    BY <1>7, BlankIs DEF Owner
  <2>2. ASSUME NEW p \in Items
        PROVE  /\ ~Owner(g, p) => e[p] = <<>>
               /\ Owner(g, p) => g.node[p].child = IF e[p] = <<>> THEN NULL ELSE e[p][1]
    <3>1. CASE p \in W
      BY <1>9, <2>1, <3>1
    <3>2. CASE p \notin W
      <4>1. g.node[p] = h.node[p] /\ e[p] = f[p] /\ (Owner(g, p) <=> Owner(h, p))
        BY <1>7, <1>9, <2>1, <3>2
      <4>2. /\ ~Owner(h, p) => f[p] = <<>>
            /\ Owner(h, p) => h.node[p].child = IF f[p] = <<>> THEN NULL ELSE f[p][1]
        BY <1>1 DEF LinkedAs
      <4> QED BY <4>1, <4>2
    <3> QED BY <3>1, <3>2
  <2>3. ASSUME NEW p \in Items, NEW n \in 1 .. Len(e[p])
        PROVE  /\ g.node[e[p][n]].next = IF n = Len(e[p]) THEN NULL ELSE e[p][n + 1]
               /\ g.node[e[p][n]].prev = IF n = 1 THEN NULL ELSE e[p][n - 1]
    <3>1. p \notin W /\ e[p] = f[p]
      BY <1>9, <1>10, <2>3
    <3>2. f[p][n] \in ItemsOf(f[p]) /\ f[p][n] \in Items
      BY <1>2, <2>3, <3>1, ItemsOfAre
    <3>3. f[p][n] \notin W
      BY <1>6, <3>1, <3>2
    <3>4. g.node[f[p][n]] = h.node[f[p][n]]
      BY <1>7, <3>2, <3>3
    <3>5. n \in 1 .. Len(f[p])
      BY <2>3, <3>1
    <3>6. /\ h.node[f[p][n]].next = IF n = Len(f[p]) THEN NULL ELSE f[p][n + 1]
          /\ h.node[f[p][n]].prev = IF n = 1 THEN NULL ELSE f[p][n - 1]
      BY <1>1, <3>5 DEF LinkedAs
    <3> QED BY <3>1, <3>4, <3>6
  <2>4. ASSUME NEW p \in Items, NEW q \in Items, NEW n \in 1 .. Len(e[p]), NEW m \in 1 .. Len(e[q]),
               e[p][n] = e[q][m]
        PROVE  p = q /\ n = m
    <3>1. e[p] = f[p] /\ e[q] = f[q]
      BY <1>9, <1>10, <2>4
    <3> QED BY <1>2, <2>4, <3>1 DEF PlacedOnce
  <2> QED BY <1>9, <2>2, <2>3, <2>4 DEF LinkedAs
<1>14. ASSUME NEW i \in R \ {r} PROVE i \in Alive(g) /\ Loose(g, e, i)
  <2>1. i \in Alive(h) /\ i \in Items /\ Loose(h, f, i)
    BY <1>1 DEF Alive
  <2>2. \A p \in Items : i \notin ItemsOf(f[p])
    BY <2>1, LooseIs
  <2>3. i \notin W
    BY <1>2, <1>3, <1>14, <2>1, <2>2, LooseWithin DEF W
  <2>4. g.node[i] = h.node[i] /\ i \in Alive(g)
    BY <1>7, <1>8, <2>1, <2>3
  <2>5. h.node[i].next = NULL /\ h.node[i].prev = NULL
    BY <2>1, LooseIs
  <2>6. \A p \in Items : i \notin ItemsOf(e[p])
    BY <1>11, <2>2
  <2> QED BY <2>4, <2>5, <2>6, LooseIs
<1>15. ASSUME NEW i \in Alive(g) \ (R \ {r}) PROVE \E p \in Items : i \in ItemsOf(e[p])
  <2>1. i \in Alive(h) \ R
    BY <1>4, <1>8, <1>15
  <2>2. PICK p \in Items : i \in ItemsOf(f[p])
    BY <1>1, <2>1
  <2>3. p \notin W
    BY <1>4, <1>8, <1>15, <2>2
  <2> QED BY <1>9, <2>2, <2>3
<1>16. \A i \in Items \ Alive(g) : g.node[i] = Freed
  BY <1>1, <1>7, <1>8
<1>17. \A i \in Items : g.node[i].kind # "invalid"
  BY <1>1, <1>7, BlankIs
<1>18. Sound(g, e, R \ {r})
  BY <1>7, <1>11, <1>12, <1>13, <1>14, <1>15, <1>16, <1>17 DEF Sound
<1>19. ASSUME Named(h, f) PROVE Named(g, e)
  <2> SUFFICES ASSUME NEW p \in Items, Owner(g, p), g.node[p].kind = "object", NEW i \in ItemsOf(e[p])
               PROVE  g.node[i].key # NoKey
    BY DEF Named
  <2>1. p \notin W
    BY <1>7, BlankIs DEF Owner
  <2>2. i \in ItemsOf(f[p]) /\ i \in Alive(g) /\ g.node[p] = h.node[p]
    BY <1>7, <1>9, <1>11, <2>1
  <2>3. g.node[i] = h.node[i]
    BY <1>7, <1>8, <2>2 DEF Alive
  <2> QED BY <1>19, <2>2, <2>3 DEF Named, Owner
<1> QED BY <1>8, <1>18, <1>19 DEF W, e

-----------------------------------------------------------------------------
\* What changes, and what does not, when one list does

\* What is in a sequence that an item was added to, taken from, or put into in
\* the place of another.
LEMMA ItemsAdded ==
    ASSUME NEW s \in Seq(Items), NEW i \in Items
    PROVE  /\ ItemsOf(Append(s, i)) = ItemsOf(s) \cup {i}
           /\ \A k \in 1 .. Len(s) : ItemsOf(SE!InsertAt(s, k, i)) = ItemsOf(s) \cup {i}
<1>1. ItemsOf(Append(s, i)) = ItemsOf(s) \cup {i}
  <2> DEFINE t == Append(s, i)
  <2>1. Len(t) = Len(s) + 1 /\ \A m \in 1 .. Len(s) + 1 : t[m] = IF m <= Len(s) THEN s[m] ELSE i
    OBVIOUS
  <2> HIDE DEF t
  <2>2. \A m \in 1 .. Len(t) : t[m] \in ItemsOf(s) \cup {i}
    BY <2>1 DEF ItemsOf
  <2>3. \A m \in 1 .. Len(s) : m \in 1 .. Len(t) /\ s[m] = t[m]
    BY <2>1
  <2>4. Len(s) + 1 \in 1 .. Len(t) /\ t[Len(s) + 1] = i
    BY <2>1
  <2> QED BY <2>2, <2>3, <2>4 DEF ItemsOf, t
<1>2. ASSUME NEW k \in 1 .. Len(s) PROVE ItemsOf(SE!InsertAt(s, k, i)) = ItemsOf(s) \cup {i}
  <2> DEFINE t == SE!InsertAt(s, k, i)
  <2>1. /\ Len(t) = Len(s) + 1
        /\ \A m \in 1 .. Len(s) + 1 : t[m] = IF m < k THEN s[m] ELSE IF m = k THEN i ELSE s[m - 1]
    BY InsertAtIs, Zenon
  <2> HIDE DEF t
  <2>2. \A m \in 1 .. Len(t) : t[m] \in ItemsOf(s) \cup {i}
    BY <2>1 DEF ItemsOf
  <2>3. \A m \in 1 .. Len(s) : s[m] \in ItemsOf(t)
    <3> SUFFICES ASSUME NEW m \in 1 .. Len(s) PROVE s[m] \in ItemsOf(t)
      OBVIOUS
    <3>1. CASE m < k
      <4>1. m \in 1 .. Len(t) /\ t[m] = s[m]
        BY <2>1, <3>1
      <4> QED BY <4>1 DEF ItemsOf
    <3>2. CASE m >= k
      <4>1. m + 1 \in 1 .. Len(t) /\ t[m + 1] = s[m]
        BY <2>1, <3>2
      <4> QED BY <4>1 DEF ItemsOf
    <3> QED BY <3>1, <3>2
  <2>4. k \in 1 .. Len(t) /\ t[k] = i
    BY <2>1
  <2>5. ItemsOf(t) \subseteq ItemsOf(s) \cup {i}
    BY <2>2 DEF ItemsOf
  <2>6. ItemsOf(s) \subseteq ItemsOf(t) /\ i \in ItemsOf(t)
    BY <2>3, <2>4 DEF ItemsOf
  <2> QED BY <2>5, <2>6 DEF t
<1> QED BY <1>1, <1>2

\* Removing an item from a list, or replacing it, takes just that item away.
LEMMA ItemsLess ==
    ASSUME NEW s \in Seq(Items), \A l, m \in 1 .. Len(s) : s[l] = s[m] => l = m,
           NEW k \in 1 .. Len(s), NEW i \in Items
    PROVE  /\ ItemsOf(SE!RemoveAt(s, k)) = ItemsOf(s) \ {s[k]}
           /\ ItemsOf(SE!ReplaceAt(s, k, i)) = (ItemsOf(s) \ {s[k]}) \cup {i}
<1> DEFINE t == SE!RemoveAt(s, k)
           u == SE!ReplaceAt(s, k, i)
<1>1. /\ Len(t) = Len(s) - 1
      /\ \A m \in 1 .. Len(s) - 1 : t[m] = IF m < k THEN s[m] ELSE s[m + 1]
  BY RemoveAtIs, Zenon
<1>2. Len(u) = Len(s) /\ \A m \in 1 .. Len(s) : u[m] = IF m = k THEN i ELSE s[m]
  BY ReplaceAtIs
<1> HIDE DEF t, u
<1>3. ItemsOf(t) \subseteq ItemsOf(s) \ {s[k]}
  <2> SUFFICES ASSUME NEW m \in 1 .. Len(t) PROVE t[m] \in ItemsOf(s) \ {s[k]}
    BY DEF ItemsOf
  <2>1. CASE m < k
    <3>1. t[m] = s[m] /\ m \in 1 .. Len(s) /\ m # k
      BY <1>1, <2>1
    <3> QED BY <3>1 DEF ItemsOf
  <2>2. CASE m >= k
    <3>1. t[m] = s[m + 1] /\ m + 1 \in 1 .. Len(s) /\ m + 1 # k
      BY <1>1, <2>2
    <3> QED BY <3>1 DEF ItemsOf
  <2>3. m < k \/ m >= k
    BY <1>1
  <2> QED BY <2>1, <2>2, <2>3
<1>4. ItemsOf(s) \ {s[k]} \subseteq ItemsOf(t)
  <2> SUFFICES ASSUME NEW m \in 1 .. Len(s), m # k PROVE s[m] \in ItemsOf(t)
    BY DEF ItemsOf
  <2>1. CASE m < k
    <3>1. t[m] = s[m] /\ m \in 1 .. Len(t)
      BY <1>1, <2>1
    <3> QED BY <3>1 DEF ItemsOf
  <2>2. CASE m > k
    <3>1. t[m - 1] = s[m] /\ m - 1 \in 1 .. Len(t)
      BY <1>1, <2>2
    <3> QED BY <3>1 DEF ItemsOf
  <2> QED BY <2>1, <2>2
<1>5. ItemsOf(u) \subseteq (ItemsOf(s) \ {s[k]}) \cup {i}
  <2> SUFFICES ASSUME NEW m \in 1 .. Len(u), m # k PROVE u[m] \in ItemsOf(s) \ {s[k]}
    BY <1>2 DEF ItemsOf
  <2>1. u[m] = s[m] /\ m \in 1 .. Len(s)
    BY <1>2
  <2> QED BY <2>1 DEF ItemsOf
<1>6. (ItemsOf(s) \ {s[k]}) \cup {i} \subseteq ItemsOf(u)
  <2>1. ASSUME NEW m \in 1 .. Len(s), m # k PROVE s[m] \in ItemsOf(u)
    <3>1. u[m] = s[m] /\ m \in 1 .. Len(u)
      BY <1>2, <2>1
    <3> QED BY <3>1 DEF ItemsOf
  <2>2. u[k] = i /\ k \in 1 .. Len(u)
    BY <1>2
  <2>3. i \in ItemsOf(u)
    BY <2>2 DEF ItemsOf
  <2> QED BY <2>1, <2>3 DEF ItemsOf
<1>7. ItemsOf(t) = ItemsOf(s) \ {s[k]}
  BY <1>3, <1>4
<1>8. ItemsOf(u) = (ItemsOf(s) \ {s[k]}) \cup {i}
  BY <1>5, <1>6
<1> QED BY <1>7, <1>8 DEF t, u

-----------------------------------------------------------------------------
\* What the functions on lists leave alone.
Elsewhere(h, g, S) == \A j \in Items \ S : g.node[j] = h.node[j]

\* A cell with the same pointers is the same, if a call keeps the rest.
LEMMA SameNode ==
    ASSUME NEW h \in Heap, NEW g, Keeps(h, g), NEW j \in Items,
           g.node[j].next = h.node[j].next, g.node[j].prev = h.node[j].prev,
           g.node[j].child = h.node[j].child
    PROVE  g.node[j] = h.node[j]
<1>1. h.node[j] \in Node /\ g.node[j] \in Node
  BY DEF Keeps, Heap
<1>2. /\ g.node[j].kind = h.node[j].kind /\ g.node[j].ref = h.node[j].ref
      /\ g.node[j].key = h.node[j].key /\ g.node[j].const = h.node[j].const
  BY DEF Keeps
<1> QED BY <1>1, <1>2 DEF Node

\* The neighbours of an item are in its list.
LEMMA Neighbours ==
    ASSUME NEW h, NEW f, LinkedAs(h, f), NEW p \in Items, NEW k \in 1 .. Len(f[p])
    PROVE  /\ f[p][k] \in ItemsOf(f[p])
           /\ h.node[f[p][k]].next \in ItemsOf(f[p]) \cup {NULL}
           /\ h.node[f[p][k]].prev \in ItemsOf(f[p]) \cup {NULL}
<1>1. f[p] \in Seq(Items) /\ Len(f[p]) \in Nat
  BY DEF LinkedAs
<1>2. /\ h.node[f[p][k]].next = IF k = Len(f[p]) THEN NULL ELSE f[p][k + 1]
      /\ h.node[f[p][k]].prev = IF k = 1 THEN NULL ELSE f[p][k - 1]
  BY DEF LinkedAs
<1>3. k # Len(f[p]) => k + 1 \in 1 .. Len(f[p])
  BY <1>1
<1>4. k # 1 => k - 1 \in 1 .. Len(f[p])
  BY <1>1
<1> QED BY <1>2, <1>3, <1>4 DEF ItemsOf

\* Detaching and relinking touch the list, its owner and the replacement alone.
LEMMA DetachElsewhere ==
    ASSUME NEW h \in Heap, NEW f, LinkedAs(h, f), NEW p \in Items, NEW k \in 1 .. Len(f[p]),
           NEW r \in Items
    PROVE  /\ Elsewhere(h, Detach(h, p, f[p][k]), ItemsOf(f[p]) \cup {p})
           /\ Elsewhere(h, Relink(h, p, f[p][k], r), ItemsOf(f[p]) \cup {p, r})
<1> DEFINE i == f[p][k]
           S == ItemsOf(f[p])
<1>1. i \in S /\ S \subseteq Items /\ i \in Items
  BY Neighbours, LinkedLists
<1>2. \A j \in Items \ S : j # i /\ j # h.node[i].next /\ j # h.node[i].prev
  <2>1. NULL \notin Items
    BY PointersAre
  <2> QED BY <2>1, Neighbours
<1> HIDE DEF i, S
<1>3. ASSUME NEW j \in Items, j \notin S, j # p
      PROVE  Detach(h, p, i).node[j] = h.node[j]
  <2> DEFINE g == Detach(h, p, i)
  <2>1. /\ Keeps(h, g)
        /\ \A x \in Items :
                 /\ g.node[x].next = IF x = i THEN NULL
                                     ELSE IF x = h.node[i].prev THEN h.node[i].next
                                     ELSE h.node[x].next
                 /\ g.node[x].prev = IF x = i THEN NULL
                                     ELSE IF x = h.node[i].next THEN h.node[i].prev
                                     ELSE h.node[x].prev
                 /\ g.node[x].child = IF x = p /\ h.node[p].child = i THEN h.node[i].next
                                      ELSE h.node[x].child
    BY <1>1, DetachSets
  <2> HIDE DEF g
  <2>2. j # i /\ j # h.node[i].next /\ j # h.node[i].prev
    BY <1>2, <1>3
  <2>3. g.node[j].next = h.node[j].next /\ g.node[j].prev = h.node[j].prev /\ g.node[j].child = h.node[j].child
    BY <1>3, <2>1, <2>2
  <2>4. g.node[j] = h.node[j]
    BY <2>1, <2>3, SameNode
  <2> QED BY <2>4 DEF g
<1>4. ASSUME NEW j \in Items, j \notin S, j # p, j # r
      PROVE  Relink(h, p, i, r).node[j] = h.node[j]
  <2> DEFINE g == Relink(h, p, i, r)
  <2>1. TakesPlace(h, g, p, i, r)
    BY <1>1, RelinkSets, Zenon
  <2> HIDE DEF g
  <2>2. j # i /\ j # h.node[i].next /\ j # h.node[i].prev
    BY <1>2, <1>4
  <2>3. /\ Keeps(h, g)
        /\ g.node[j].next = h.node[j].next /\ g.node[j].prev = h.node[j].prev
        /\ g.node[j].child = h.node[j].child
    BY <1>4, <2>1, <2>2 DEF TakesPlace
  <2>4. g.node[j] = h.node[j]
    BY <2>3, SameNode
  <2> QED BY <2>4 DEF g
<1> QED BY <1>3, <1>4 DEF Elsewhere, i, S

\* Adding touches the list, its owner and the item alone.
LEMMA AddElsewhere ==
    ASSUME NEW h \in Heap, NEW f, LinkedAs(h, f), NEW p \in Items, Owner(h, p), NEW i \in Items
    PROVE  /\ Keeps(h, AddToArray(h, p, i)) /\ AddToArray(h, p, i).ret = 1
           /\ Elsewhere(h, AddToArray(h, p, i), ItemsOf(f[p]) \cup {p, i})
<1> DEFINE S == ItemsOf(f[p])
           g == AddToArray(h, p, i)
<1>1. f[p] \in Seq(Items) /\ i # NULL /\ Len(f[p]) \in Nat
  BY LinkedLists, PointersAre
<1>2. h.node[p].child = IF f[p] = <<>> THEN NULL ELSE f[p][1]
  BY DEF LinkedAs
<1>3. CASE f[p] = <<>>
  <2>1. g = [h EXCEPT !.node[p].child = i, !.ret = 1]
    BY <1>1, <1>2, <1>3 DEF AddToArray
  <2>2. AddedFirst(h, g, p, i)
    BY <2>1, AddSets
  <2> HIDE DEF g
  <2>3. ASSUME NEW j \in Items, j # p PROVE g.node[j] = h.node[j]
    <3>1. Keeps(h, g) /\ g.node[j].next = h.node[j].next /\ g.node[j].prev = h.node[j].prev /\ g.node[j].child = h.node[j].child
      BY <2>2, <2>3 DEF AddedFirst
    <3> QED BY <3>1, SameNode
  <2>4. Keeps(h, g) /\ g.ret = 1
    BY <2>2 DEF AddedFirst
  <2> QED BY <2>3, <2>4 DEF Elsewhere, g
<1>4. CASE f[p] # <<>>
  <2> DEFINE l == f[p][Len(f[p])]
  <2>1. l \in S /\ l \in Items /\ f[p][1] \in Items
    <3>1. Len(f[p]) \in 1 .. Len(f[p]) /\ 1 \in 1 .. Len(f[p])
      BY <1>1, <1>4
    <3> QED BY <1>1, <3>1 DEF ItemsOf
  <2>2. h.node[p].child # NULL
    BY <1>2, <1>4, <2>1, PointersAre
  <2>3. Last(h, h.node[p].child) = l
    BY <1>4, LastIs
  <2>4. g = [Suffix(h, l, i) EXCEPT !.ret = 1]
    BY <1>1, <2>2, <2>3 DEF AddToArray
  <2>5. AddedLast(h, g, l, i)
    BY <2>1, <2>4, AddSets
  <2> HIDE DEF g, l
  <2>6. ASSUME NEW j \in Items, j # l, j # i PROVE g.node[j] = h.node[j]
    <3>1. Keeps(h, g) /\ g.node[j].next = h.node[j].next /\ g.node[j].prev = h.node[j].prev /\ g.node[j].child = h.node[j].child
      BY <2>5, <2>6 DEF AddedLast
    <3> QED BY <3>1, SameNode
  <2>7. Keeps(h, g) /\ g.ret = 1
    BY <2>5 DEF AddedLast
  <2> QED BY <2>1, <2>6, <2>7 DEF Elsewhere, g
<1> QED BY <1>3, <1>4

\* Inserting touches the list, its owner and the item alone.
LEMMA InsertElsewhere ==
    ASSUME NEW h \in Heap, NEW f, LinkedAs(h, f), NEW p \in Items, Owner(h, p), NEW i \in Items,
           Loose(h, f, i), NEW n \in Nat
    PROVE  Elsewhere(h, Insert(h, p, n, i), ItemsOf(f[p]) \cup {p, i})
<1> DEFINE S == ItemsOf(f[p])
           a == ItemAt(h, p, n)
<1>1. f[p] \in Seq(Items) /\ Len(f[p]) \in Nat
  BY LinkedLists
<1>2. a = IF n < Len(f[p]) THEN f[p][n + 1] ELSE NULL
  BY ItemAtIs
<1>3. CASE n >= Len(f[p])
  <2>1. a = NULL
    BY <1>1, <1>2, <1>3
  <2>2. Insert(h, p, n, i) = AddToArray(h, p, i)
    BY <2>1, Zenon DEF Insert
  <2> QED BY <2>2, AddElsewhere
<1>4. CASE n < Len(f[p])
  <2>1. a = f[p][n + 1] /\ n + 1 \in 1 .. Len(f[p])
    BY <1>1, <1>2, <1>4
  <2>2. a \in S /\ a \in Items /\ h.node[a].prev \in S \cup {NULL} /\ S \subseteq Items
    BY <1>1, <2>1, Neighbours, LinkedLists
  <2>3. i \notin S
    BY LooseIs
  <2>4. h.node[p].child = a \/ h.node[a].prev \in S
    <3>1. CASE n = 0
      <4>1. h.node[p].child = f[p][1] /\ n + 1 = 1
        BY <1>1, <1>4, <3>1 DEF LinkedAs
      <4> QED BY <2>1, <4>1
    <3>2. CASE n # 0
      <4>1. n + 1 # 1 /\ n \in 1 .. Len(f[p]) /\ (n + 1) - 1 = n
        BY <1>1, <1>4, <3>2
      <4>2. h.node[f[p][n + 1]].prev = f[p][n]
        BY <2>1, <4>1 DEF LinkedAs
      <4> QED BY <2>1, <4>1, <4>2 DEF ItemsOf
    <3> QED BY <3>1, <3>2
  <2> DEFINE g == Insert(h, p, n, i)
  <2>5. Inserted(h, g, p, a, i)
    <3>1. a \in Items \ {i}
      BY <2>2, <2>3
    <3>2. h.node[p].child = a \/ h.node[a].prev \in Items \ {i}
      BY <2>2, <2>3, <2>4
    <3> QED BY <3>1, <3>2, InsertSets
  <2> HIDE DEF g, a, S
  <2>6. ASSUME NEW j \in Items, j \notin S, j # p, j # i PROVE g.node[j] = h.node[j]
    <3>1. j # a /\ j # h.node[a].prev
      BY <2>2, <2>6, PointersAre
    <3>2. Keeps(h, g) /\ g.node[j].next = h.node[j].next /\ g.node[j].prev = h.node[j].prev /\ g.node[j].child = h.node[j].child
      BY <2>5, <2>6, <3>1 DEF Inserted
    <3> QED BY <3>2, SameNode
  <2> QED BY <2>6 DEF Elsewhere, g, S
<1> QED BY <1>1, <1>3, <1>4

-----------------------------------------------------------------------------
\* The list of p has lost the items of less and gained those of add, of which
\* there is one at most; the others are the same.
Changed(f, e, p, add, less) ==
    /\ e \in [Items -> Seq(Items)] /\ \A q \in Items \ {p} : e[q] = f[q]
    /\ ItemsOf(e[p]) = (ItemsOf(f[p]) \ less) \cup add
    /\ less \subseteq ItemsOf(f[p])
    /\ add = {} \/ \E i \in Items : add = {i}

\* A call that sets pointers alone changes nothing about life and ownership.
LEMMA KeepsFacts ==
    ASSUME NEW h, NEW g, Keeps(h, g)
    PROVE  /\ Alive(g) = Alive(h) /\ \A p \in Items : Owner(g, p) <=> Owner(h, p)
           /\ \A k : Counted(h, k) => Counted(g, k)
<1>1. Alive(g) = Alive(h) /\ \A p \in Items : Owner(g, p) <=> Owner(h, p)
  BY DEF Keeps, Alive, Owner
<1>2. TextsOf(g, Items) = TextsOf(h, Items) /\ KeysOf(g, Items) = KeysOf(h, Items)
  BY DEF Keeps, TextsOf, KeysOf, OwnsText, OwnsKey
<1>3. OwnedBy(g, Items) = OwnedBy(h, Items) /\ g.strings = h.strings
  BY <1>2 DEF OwnedBy, Keeps
<1> QED BY <1>1, <1>3 DEF Counted

\* What the functions on lists do to items that are in order.
MovedTo(h, f, R, g, e, p, add, less) ==
    /\ Sound(h, f, R) /\ Keeps(h, g) /\ LinkedAs(g, e)
    /\ p \in Items /\ Owner(h, p) /\ add \subseteq R /\ Changed(f, e, p, add, less)
    /\ \A i \in add : p \notin Within(f, i)
    /\ \E S : S \subseteq Alive(h) /\ Elsewhere(h, g, S)
    /\ \A j \in less \cup (R \ add) : Loose(g, e, j)

\* If p is an object the items of S have names.
NamedBy(h, f, p, S) ==
    Named(h, f) /\ (h.node[p].kind = "object" => \A i \in S : h.node[i].key # NoKey)

\* If one list gains or loses an item, and the lists are linked as they should
\* be then, everything is sound again with the roots that leaves.
LEMMA Moved ==
    ASSUME NEW h, NEW f, NEW R, NEW g, NEW e, NEW p, NEW add, NEW less,
           MovedTo(h, f, R, g, e, p, add, less)
    PROVE  /\ \A T : T = (R \ add) \cup less => Sound(g, e, T)
           /\ NamedBy(h, f, p, add) => Named(g, e)
<1>0. /\ Sound(h, f, R) /\ Keeps(h, g) /\ LinkedAs(g, e)
      /\ p \in Items /\ Owner(h, p) /\ add \subseteq R /\ Changed(f, e, p, add, less)
      /\ \A i \in add : p \notin Within(f, i)
      /\ \A j \in less \cup (R \ add) : Loose(g, e, j)
  BY DEF MovedTo
<1>00. PICK S : S \subseteq Alive(h) /\ Elsewhere(h, g, S)
  BY DEF MovedTo
<1> USE <1>0, <1>00
<1>1. /\ h \in Heap /\ h.status = "ok" /\ LinkedAs(h, f) /\ Layered(f)
      /\ R \subseteq Alive(h) /\ \A i \in R : Loose(h, f, i)
      /\ \A q \in Items : ItemsOf(f[q]) \subseteq Alive(h)
      /\ \A i \in Alive(h) \ R : \E q \in Items : i \in ItemsOf(f[q])
      /\ \A i \in Items \ Alive(h) : h.node[i] = Freed
      /\ \A i \in Items : h.node[i].kind # "invalid"
  BY DEF Sound
<1>2. f \in [Items -> Seq(Items)]
  BY <1>1, LinkedLists
<1>3. /\ e \in [Items -> Seq(Items)] /\ \A q \in Items \ {p} : e[q] = f[q]
      /\ ItemsOf(e[p]) = (ItemsOf(f[p]) \ less) \cup add
      /\ less \subseteq ItemsOf(f[p])
      /\ add = {} \/ \E i \in Items : add = {i}
  BY DEF Changed
<1>4. /\ g \in Heap /\ g.status = h.status
      /\ \A j \in Items : /\ g.node[j].kind = h.node[j].kind /\ g.node[j].ref = h.node[j].ref
                          /\ g.node[j].key = h.node[j].key
  BY DEF Keeps
<1>5. Alive(g) = Alive(h)
  BY KeepsFacts
<1>6. \A q \in Items : ItemsOf(e[q]) \subseteq ItemsOf(f[q]) \cup (IF q = p THEN add ELSE {})
  BY <1>3
<1>7. Layered(e)
  <2>1. CASE add = {}
    <3>1. \A q \in Items : ItemsOf(e[q]) \subseteq ItemsOf(f[q])
      BY <1>6, <2>1
    <3> QED BY <1>1, <1>2, <3>1, LayeredFewer
  <2>2. ASSUME NEW i \in Items, add = {i} PROVE Layered(e)
    <3>1. p \notin Within(f, i)
      BY <2>2
    <3>2. \A q \in Items : ItemsOf(e[q]) \subseteq ItemsOf(f[q]) \cup (IF q = p THEN {i} ELSE {})
      BY <1>6, <2>2
    <3> QED BY <1>1, <1>2, <1>3, <3>1, <3>2, LayeredKept
  <2> QED BY <1>3, <2>1, <2>2
<1>8. (R \ add) \cup less \subseteq Alive(g)
  BY <1>1, <1>3, <1>5
<1>9. \A q \in Items : ItemsOf(e[q]) \subseteq Alive(g)
  BY <1>1, <1>5, <1>6
<1>10. ASSUME NEW i \in Alive(g) \ ((R \ add) \cup less) PROVE \E q \in Items : i \in ItemsOf(e[q])
  <2>1. CASE i \in add
    BY <1>3, <2>1
  <2>2. CASE i \notin add
    <3>1. PICK q \in Items : i \in ItemsOf(f[q])
      BY <1>1, <1>5, <1>10, <2>2
    <3> QED BY <1>3, <1>10, <3>1
  <2> QED BY <2>1, <2>2
<1>11. \A i \in Items \ Alive(g) : g.node[i] = Freed
  BY <1>1, <1>5 DEF Elsewhere
<1>12. Sound(g, e, (R \ add) \cup less)
  BY <1>1, <1>4, <1>7, <1>8, <1>9, <1>10, <1>11 DEF Sound
<1>13. ASSUME NamedBy(h, f, p, add)
       PROVE  Named(g, e)
  <2> SUFFICES ASSUME NEW q \in Items, Owner(g, q), g.node[q].kind = "object", NEW i \in ItemsOf(e[q])
               PROVE  g.node[i].key # NoKey
    BY DEF Named
  <2>1. Owner(h, q) /\ h.node[q].kind = "object" /\ i \in Items
    BY <1>4, <1>5, <1>9, KeepsFacts DEF Alive
  <2>2. i \in ItemsOf(f[q]) \/ (q = p /\ i \in add)
    BY <1>6
  <2> QED BY <1>4, <1>13, <2>1, <2>2 DEF Named, NamedBy
<1> QED BY <1>12, <1>13

\* An owner is alive, and so are its items.
LEMMA OwnerAlive ==
    ASSUME NEW h, NEW f, NEW R, Sound(h, f, R), NEW p \in Items, Owner(h, p)
    PROVE  p \in Alive(h) /\ ItemsOf(f[p]) \subseteq Alive(h)
  BY DEF Sound, Alive, Owner

\* add_item_to_array()
LEMMA SoundAdd ==
    ASSUME NEW h, NEW f, NEW R, Sound(h, f, R), NEW p \in Items, Owner(h, p), NEW i \in R,
           p \notin Within(f, i)
    PROVE  LET g == AddToArray(h, p, i) IN
           /\ Keeps(h, g) /\ g.ret = 1
           /\ Sound(g, AtEnd(f, p, i), R \ {i})
           /\ Named(h, f) /\ (h.node[p].kind = "object" => h.node[i].key # NoKey)
              => Named(g, AtEnd(f, p, i))
<1> DEFINE g == AddToArray(h, p, i)
           e == AtEnd(f, p, i)
<1>1. h \in Heap /\ LinkedAs(h, f) /\ i \in Items /\ Loose(h, f, i) /\ i \in Alive(h)
      /\ \A j \in R : j \in Items /\ Loose(h, f, j)
  BY DEF Sound, Alive
<1>2. /\ Keeps(h, g) /\ g.ret = 1 /\ LinkedAs(g, e)
      /\ \A j \in Items \ {i} : Loose(h, f, j) => Loose(g, e, j)
  BY <1>1, AddAppends
<1>3. f \in [Items -> Seq(Items)]
  BY <1>1, LinkedLists
<1>4. Changed(f, e, p, {i}, {})
  <2>1. ItemsOf(Append(f[p], i)) = ItemsOf(f[p]) \cup {i}
    BY <1>1, <1>3, ItemsAdded
  <2> QED BY <1>1, <1>3, <2>1 DEF AtEnd, Changed
<1>5. Elsewhere(h, g, ItemsOf(f[p]) \cup {p, i})
  BY <1>1, AddElsewhere
<1>6. ItemsOf(f[p]) \cup {p, i} \subseteq Alive(h)
  BY <1>1, OwnerAlive
<1> HIDE DEF g, e, NamedBy
<1>7. Sound(g, e, R \ {i}) /\ (NamedBy(h, f, p, {i}) => Named(g, e))
  <2>1. \A j \in {} \cup (R \ {i}) : Loose(g, e, j)
    BY <1>1, <1>2
  <2>2. {i} \in SUBSET R /\ \A j \in {i} : p \notin Within(f, j)
    OBVIOUS
  <2>3. MovedTo(h, f, R, g, e, p, {i}, {})
    BY <1>2, <1>4, <1>5, <1>6, <2>1, <2>2 DEF MovedTo
  <2>4. R \ {i} = (R \ {i}) \cup {}
    OBVIOUS
  <2>5. (\A T : T = (R \ {i}) \cup {} => Sound(g, e, T)) /\ (NamedBy(h, f, p, {i}) => Named(g, e))
    BY <2>3, Moved
  <2> QED BY <2>4, <2>5
<1> QED BY <1>2, <1>7 DEF g, e, NamedBy

\* cJSON_InsertItemInArray()
LEMMA SoundInsert ==
    ASSUME NEW h, NEW f, NEW R, Sound(h, f, R), NEW p \in Items, Owner(h, p), NEW i \in R,
           p \notin Within(f, i), NEW n \in Nat
    PROVE  LET g == Insert(h, p, n, i) IN
           /\ Keeps(h, g)
           /\ Sound(g, AtPlace(f, p, n, i), R \ {i})
           /\ Named(h, f) /\ (h.node[p].kind = "object" => h.node[i].key # NoKey)
              => Named(g, AtPlace(f, p, n, i))
<1> DEFINE g == Insert(h, p, n, i)
           e == AtPlace(f, p, n, i)
<1>1. h \in Heap /\ LinkedAs(h, f) /\ i \in Items /\ Loose(h, f, i) /\ i \in Alive(h)
      /\ \A j \in R : j \in Items /\ Loose(h, f, j)
  BY DEF Sound, Alive
<1>2. /\ Keeps(h, g) /\ LinkedAs(g, e)
      /\ \A j \in Items \ {i} : Loose(h, f, j) => Loose(g, e, j)
  BY <1>1, InsertPlaces
<1>3. f \in [Items -> Seq(Items)] /\ Len(f[p]) \in Nat
  BY <1>1, LinkedLists
<1>4. Changed(f, e, p, {i}, {})
  <2>1. ItemsOf(Append(f[p], i)) = ItemsOf(f[p]) \cup {i}
    BY <1>1, <1>3, ItemsAdded
  <2>2. n < Len(f[p]) => ItemsOf(SE!InsertAt(f[p], n + 1, i)) = ItemsOf(f[p]) \cup {i}
    <3>1. n < Len(f[p]) => n + 1 \in 1 .. Len(f[p])
      BY <1>3
    <3> QED BY <1>1, <1>3, <3>1, ItemsAdded
  <2>3. e \in [Items -> Seq(Items)]
    BY <1>2 DEF LinkedAs
  <2>4. /\ \A q \in Items \ {p} : e[q] = f[q]
        /\ e[p] = IF n < Len(f[p]) THEN SE!InsertAt(f[p], n + 1, i) ELSE Append(f[p], i)
    BY <1>3 DEF AtPlace
  <2> HIDE DEF e
  <2> QED BY <1>1, <2>1, <2>2, <2>3, <2>4 DEF Changed
<1>5. Elsewhere(h, g, ItemsOf(f[p]) \cup {p, i})
  BY <1>1, InsertElsewhere
<1>6. ItemsOf(f[p]) \cup {p, i} \subseteq Alive(h)
  BY <1>1, OwnerAlive
<1> HIDE DEF g, e, NamedBy
<1>7. Sound(g, e, R \ {i}) /\ (NamedBy(h, f, p, {i}) => Named(g, e))
  <2>1. \A j \in {} \cup (R \ {i}) : Loose(g, e, j)
    BY <1>1, <1>2
  <2>2. {i} \in SUBSET R /\ \A j \in {i} : p \notin Within(f, j)
    OBVIOUS
  <2>3. MovedTo(h, f, R, g, e, p, {i}, {})
    BY <1>2, <1>4, <1>5, <1>6, <2>1, <2>2 DEF MovedTo
  <2>4. R \ {i} = (R \ {i}) \cup {}
    OBVIOUS
  <2>5. (\A T : T = (R \ {i}) \cup {} => Sound(g, e, T)) /\ (NamedBy(h, f, p, {i}) => Named(g, e))
    BY <2>3, Moved
  <2> QED BY <2>4, <2>5
<1> QED BY <1>2, <1>7 DEF g, e, NamedBy

\* cJSON_DetachItemViaPointer()
LEMMA SoundDetach ==
    ASSUME NEW h, NEW f, NEW R, Sound(h, f, R), NEW p \in Items, Owner(h, p),
           NEW n \in 0 .. Len(f[p]) - 1
    PROVE  LET i == f[p][n + 1]
               g == Detach(h, p, i) IN
           /\ Keeps(h, g) /\ g.ret = i /\ i \in Alive(h) /\ i \notin R
           /\ Sound(g, Taken(f, p, n), R \cup {i})
           /\ Named(h, f) => Named(g, Taken(f, p, n))
<1> DEFINE i == f[p][n + 1]
           g == Detach(h, p, i)
           e == Taken(f, p, n)
<1>1. h \in Heap /\ LinkedAs(h, f) /\ \A j \in R : j \in Items /\ Loose(h, f, j)
  BY DEF Sound, Alive
<1>2. /\ Keeps(h, g) /\ g.ret = i /\ LinkedAs(g, e)
      /\ \A j \in Items : j = i \/ Loose(h, f, j) => Loose(g, e, j)
  BY <1>1, DetachTakesOut
<1>3. f \in [Items -> Seq(Items)] /\ Len(f[p]) \in Nat /\ f[p] \in Seq(Items)
  BY <1>1, LinkedLists
<1>4. n + 1 \in 1 .. Len(f[p])
  BY <1>3
<1>5. i \in ItemsOf(f[p]) /\ i \in Items
  BY <1>3, <1>4 DEF ItemsOf
<1>6. Changed(f, e, p, {}, {i})
  <2>1. \A l, m \in 1 .. Len(f[p]) : f[p][l] = f[p][m] => l = m
    BY <1>1, ListOf
  <2>2. ItemsOf(SE!RemoveAt(f[p], n + 1)) = ItemsOf(f[p]) \ {i}
    BY <1>3, <1>4, <1>5, <2>1, ItemsLess
  <2>3. e \in [Items -> Seq(Items)]
    BY <1>2 DEF LinkedAs
  <2>4. /\ \A q \in Items \ {p} : e[q] = f[q]
        /\ e[p] = SE!RemoveAt(f[p], n + 1)
    BY <1>3 DEF Taken
  <2> HIDE DEF e, i
  <2> QED BY <1>5, <2>2, <2>3, <2>4 DEF Changed
<1>7. Elsewhere(h, g, ItemsOf(f[p]) \cup {p})
  BY <1>1, <1>4, DetachElsewhere
<1>8. ItemsOf(f[p]) \cup {p} \subseteq Alive(h)
  BY OwnerAlive
<1>9. i \notin R
  BY <1>1, <1>5, LooseIs
<1> HIDE DEF g, e, i, NamedBy
<1>10. Sound(g, e, R \cup {i}) /\ (NamedBy(h, f, p, {}) => Named(g, e))
  <2>1. \A j \in {i} \cup (R \ {}) : Loose(g, e, j)
    BY <1>1, <1>2, <1>5
  <2>2. {} \in SUBSET R /\ \A j \in {} : p \notin Within(f, j)
    OBVIOUS
  <2>3. MovedTo(h, f, R, g, e, p, {}, {i})
    BY <1>2, <1>6, <1>7, <1>8, <2>1, <2>2 DEF MovedTo
  <2>4. R \cup {i} = (R \ {}) \cup {i}
    OBVIOUS
  <2>5. (\A T : T = (R \ {}) \cup {i} => Sound(g, e, T)) /\ (NamedBy(h, f, p, {}) => Named(g, e))
    BY <2>3, Moved
  <2> QED BY <2>4, <2>5
<1> QED BY <1>2, <1>5, <1>8, <1>9, <1>10 DEF g, e, i, NamedBy

\* The linking of cJSON_ReplaceItemViaPointer()
LEMMA SoundRelink ==
    ASSUME NEW h, NEW f, NEW R, Sound(h, f, R), NEW p \in Items, Owner(h, p),
           NEW n \in 0 .. Len(f[p]) - 1, NEW r \in R, p \notin Within(f, r)
    PROVE  LET i == f[p][n + 1]
               g == Relink(h, p, i, r) IN
           /\ Keeps(h, g) /\ i \in Alive(h) /\ i \notin R
           /\ Sound(g, GivenWay(f, p, n, r), (R \ {r}) \cup {i})
           /\ Named(h, f) /\ (h.node[p].kind = "object" => h.node[r].key # NoKey)
              => Named(g, GivenWay(f, p, n, r))
<1> DEFINE i == f[p][n + 1]
           g == Relink(h, p, i, r)
           e == GivenWay(f, p, n, r)
<1>1. h \in Heap /\ LinkedAs(h, f) /\ \A j \in R : j \in Items /\ Loose(h, f, j)
  BY DEF Sound, Alive
<1>2. /\ Keeps(h, g) /\ LinkedAs(g, e)
      /\ \A j \in Items \ {r} : j = i \/ Loose(h, f, j) => Loose(g, e, j)
  BY <1>1, RelinkReplaces
<1>3. f \in [Items -> Seq(Items)] /\ Len(f[p]) \in Nat /\ f[p] \in Seq(Items)
  BY <1>1, LinkedLists
<1>4. n + 1 \in 1 .. Len(f[p])
  BY <1>3
<1>5. i \in ItemsOf(f[p]) /\ i \in Items
  BY <1>3, <1>4 DEF ItemsOf
<1>9. i \notin R /\ r \in Items /\ i # r
  BY <1>1, <1>5, LooseIs
<1>6. Changed(f, e, p, {r}, {i})
  <2>1. \A l, m \in 1 .. Len(f[p]) : f[p][l] = f[p][m] => l = m
    BY <1>1, ListOf
  <2>2. ItemsOf(SE!ReplaceAt(f[p], n + 1, r)) = (ItemsOf(f[p]) \ {i}) \cup {r}
    BY <1>3, <1>4, <1>9, <2>1, ItemsLess
  <2>3. e \in [Items -> Seq(Items)]
    BY <1>2 DEF LinkedAs
  <2>4. /\ \A q \in Items \ {p} : e[q] = f[q]
        /\ e[p] = SE!ReplaceAt(f[p], n + 1, r)
    BY <1>3 DEF GivenWay
  <2> HIDE DEF e, i
  <2> QED BY <1>5, <1>9, <2>2, <2>3, <2>4 DEF Changed
<1>7. Elsewhere(h, g, ItemsOf(f[p]) \cup {p, r})
  BY <1>1, <1>4, <1>9, DetachElsewhere
<1>8. ItemsOf(f[p]) \cup {p, r} \subseteq Alive(h)
  BY OwnerAlive DEF Sound
<1> HIDE DEF g, e, i, NamedBy
<1>10. Sound(g, e, (R \ {r}) \cup {i}) /\ (NamedBy(h, f, p, {r}) => Named(g, e))
  <2>1. \A j \in {i} \cup (R \ {r}) : Loose(g, e, j)
    BY <1>1, <1>2, <1>5, <1>9
  <2>2. {r} \in SUBSET R /\ \A j \in {r} : p \notin Within(f, j)
    OBVIOUS
  <2>3. MovedTo(h, f, R, g, e, p, {r}, {i})
    BY <1>2, <1>6, <1>7, <1>8, <2>1, <2>2 DEF MovedTo
  <2>4. (R \ {r}) \cup {i} = (R \ {r}) \cup {i}
    OBVIOUS
  <2>5. (\A T : T = (R \ {r}) \cup {i} => Sound(g, e, T)) /\ (NamedBy(h, f, p, {r}) => Named(g, e))
    BY <2>3, Moved
  <2> QED BY <2>4, <2>5
<1> QED BY <1>2, <1>5, <1>8, <1>9, <1>10 DEF g, e, i, NamedBy

-----------------------------------------------------------------------------
\* Heaps that differ in nothing but what was returned and may be allocated.
Like(h, g) ==
    /\ g \in Heap /\ g.status = h.status /\ g.strings = h.strings
    /\ \A j \in Items : g.node[j] = h.node[j]

\* One item is set to n, and there are s more keys and texts.
SetTo(h, g, i, n, s) ==
    /\ g \in Heap /\ g.status = h.status /\ g.strings = h.strings + s
    /\ \A j \in Items : g.node[j] = IF j = i THEN n ELSE h.node[j]

\* What is free has been cleared.
Clean(h) == h \in Heap /\ h.status = "ok" /\ \A i \in Items \ Alive(h) : h.node[i] = Freed

\* Nothing set is a cell set to what it was.
LEMMA LikeSet ==
    ASSUME NEW h \in Heap, NEW g, Like(h, g), NEW i \in Items
    PROVE  SetTo(h, g, i, h.node[i], 0)
<1>1. h.strings \in Int
  BY DEF Heap
<1> QED BY <1>1 DEF Like, SetTo

\* Setting a cell.
LEMMA SetOnce ==
    ASSUME NEW h \in Heap, NEW i \in Items, NEW n \in Node
    PROVE  /\ [h EXCEPT !.node[i] = n] \in Heap
           /\ SetTo(h, [h EXCEPT !.node[i] = n], i, n, 0)
<1>1. h.strings \in Int
  BY DEF Heap
<1> QED BY <1>1 DEF Heap, SetTo

\* The value returned is no part of the items.
LEMMA ReturnLike ==
    ASSUME NEW h \in Heap, NEW r \in Pointers
    PROVE  Like(h, [h EXCEPT !.ret = r]) /\ [h EXCEPT !.ret = r].ret = r
  BY DEF Heap, Like

\* Setting the same cell twice, as the second time says.
LEMMA SetTwice ==
    ASSUME NEW h \in Heap, NEW g, NEW k, NEW i \in Items, NEW n, NEW m, NEW s \in Int, NEW t \in Int,
           SetTo(h, g, i, n, s), SetTo(g, k, i, m, t)
    PROVE  SetTo(h, k, i, m, s + t)
<1>1. h.strings \in Int
  BY DEF Heap
<1> QED BY <1>1 DEF SetTo

\* Setting a cell, and then nothing.
LEMMA SetLike ==
    ASSUME NEW h, NEW g, NEW k, NEW i, NEW n, NEW s, SetTo(h, g, i, n, s), Like(g, k)
    PROVE  SetTo(h, k, i, n, s)
  BY DEF SetTo, Like

-----------------------------------------------------------------------------
\* Allocation

\* cJSON_New_Item() takes a free cell or fails and changes nothing.
LEMMA NewItemIs ==
    ASSUME NEW h \in Heap
    PROVE  LET g == NewItem(h) IN
           \/ g.ret = NULL /\ Like(h, g)
           \/ /\ g.ret \in Items \ Alive(h)
              /\ SetTo(h, g, g.ret, Blank, 0)
<1> DEFINE U == Unused(h)
           i == CHOOSE i \in U : \A j \in U : i <= j
           g == [h EXCEPT !.node[i] = Blank, !.left = @ - 1, !.ret = i]
<1>1. CASE h.left = 0 \/ U = {}
  BY <1>1, PointersAre DEF NewItem, Heap, Like
<1>2. CASE h.left # 0 /\ U # {}
  <2>1. U \subseteq Items /\ U \subseteq Nat
    BY ItemNotNull DEF Unused
  <2>2. \E k \in U : \A j \in U : k <= j
    <3> HIDE DEF U
    <3> QED BY <1>2, <2>1, LeastNat, Zenon
  <2>3. i \in U
    <3> HIDE DEF U
    <3> QED BY <2>2, Zenon
  <2>4. i \in Items \ Alive(h) /\ i \in Pointers
    BY <2>1, <2>3, PointersAre DEF Unused, Alive
  <2>5. NewItem(h) = g
    BY <1>2 DEF NewItem
  <2> HIDE DEF U, i
  <2>6. h.left - 1 \in Nat
    BY <1>2 DEF Heap
  <2>7. g \in Heap /\ g.ret = i /\ g.status = h.status /\ g.strings = h.strings /\ h.strings \in Int
        /\ \A j \in Items : g.node[j] = IF j = i THEN Blank ELSE h.node[j]
    BY <2>4, <2>6, BlankIs DEF Heap
  <2> QED BY <2>4, <2>5, <2>7 DEF SetTo
<1> QED BY <1>1, <1>2

\* cJSON_strdup() counts one string more or fails and changes nothing.
LEMMA StrdupIs ==
    ASSUME NEW h \in Heap
    PROVE  LET g == Strdup(h) IN
           \/ g.ret = NULL /\ Like(h, g)
           \/ /\ g.ret = 1 /\ \A i \in Items : SetTo(h, g, i, h.node[i], 1)
<1>1. CASE h.left = 0
  BY <1>1, PointersAre DEF Strdup, Heap, Like
<1>2. CASE h.left # 0
  <2>1. h.left - 1 \in Nat /\ h.strings + 1 \in Int
    BY <1>2 DEF Heap
  <2> QED BY <1>2, <2>1, PointersAre DEF Strdup, Heap, SetTo
<1> QED BY <1>1, <1>2

\* An item that contains nothing and is in no list is all that cJSON_Delete() frees.
LEMMA DeleteSingle ==
    ASSUME NEW h \in Heap, h.status = "ok", NEW i \in Items, h.node[i].kind # "free",
           h.node[i].next = NULL, h.node[i].ref # 0 \/ h.node[i].child = NULL
    PROVE  Frees(h, Delete(h, i), {i})
<1> DEFINE d == DeleteIn[N - 1]
           x == h.node[i]
           g == [h EXCEPT !.strings = @ - Count(OwnsText(x)) - Count(OwnsKey(x)), !.node[i] = Freed]
<1>1. N \in Nat /\ N - 1 \in Nat /\ N # 0 /\ i # NULL /\ NULL \in Pointers /\ i \in Pointers
  BY JsonAssumption, HeapAssumption, PointersAre
<1>2. ASSUME NEW k \in Heap PROVE d[k][NULL] = k
  <2>1. d[k][NULL] = IF N - 1 = 0 THEN NoStep(k, NULL) ELSE DeleteStep(DeleteIn[N - 1 - 1], k, NULL)
    BY <1>1, DeleteInIs
  <2> QED BY <2>1 DEF NoStep, DeleteStep
<1>3. DeleteIn[N][h][i] = DeleteStep(d, h, i)
  BY <1>1, DeleteInIs
<1> HIDE DEF d
<1>4. Frees(h, g, {i})
  BY FreesOne
<1>5. g \in Heap
  BY <1>4 DEF Frees
<1>6. DeleteStep(d, h, i) = d[g][x.next]
  <2>1. (IF x.ref = 0 THEN d[h][x.child] ELSE h) = h
    BY <1>2
  <2> HIDE DEF x
  <2> QED BY <1>1, <2>1 DEF DeleteStep, x
<1>7. DeleteStep(d, h, i) = g
  BY <1>2, <1>5, <1>6
<1> QED BY <1>3, <1>4, <1>7 DEF Delete

-----------------------------------------------------------------------------
\* New items

\* A new item has no items of its own, and is in no list.
Scalar(n) ==
    /\ n \in Node /\ n.kind \in Kinds /\ n.next = NULL /\ n.prev = NULL
    /\ n.ref # 0 \/ n.child = NULL

\* Item g.ret is new, set to n.
NewAs(h, g, n) ==
    /\ Scalar(n) /\ g.ret \in Items \ Alive(h) /\ SetTo(h, g, g.ret, n, Owns(n))

\* The call made an item, or changed nothing.
Made(h, g) == IF g.ret = NULL THEN Like(h, g) ELSE \E n : NewAs(h, g, n)

\* The way back: what was allocated is freed again.
LEMMA Undone ==
    ASSUME NEW h, Clean(h), NEW g, NEW i \in Items \ Alive(h), NEW n \in Node,
           SetTo(h, g, i, n, Owns(n)), n.kind # "free", n.next = NULL, n.ref # 0 \/ n.child = NULL
    PROVE  Like(h, Abandon(g, i)) /\ Abandon(g, i).ret = NULL
<1> DEFINE k == Delete(g, i)
<1>1. h \in Heap /\ h.status = "ok" /\ h.node[i] = Freed /\ h.strings \in Int
  BY DEF Clean, Heap
<1>2. g \in Heap /\ g.status = "ok" /\ g.node[i] = n /\ g.strings = h.strings + Owns(n)
      /\ \A j \in Items : g.node[j] = IF j = i THEN n ELSE h.node[j]
  BY <1>1 DEF SetTo
<1>3. Frees(g, k, {i})
  BY <1>2, DeleteSingle
<1> HIDE DEF k
<1>4. OwnedBy(g, {i}) = Owns(n) /\ Owns(n) \in Int
  BY <1>2, OwnedOne DEF Owns, Count
<1>5. k \in Heap /\ k.status = h.status /\ k.strings = h.strings
      /\ \A j \in Items : k.node[j] = h.node[j]
  BY <1>1, <1>2, <1>3, <1>4 DEF Frees
<1>6. Like(h, [k EXCEPT !.ret = NULL]) /\ [k EXCEPT !.ret = NULL].ret = NULL
  BY <1>5, PointersAre DEF Heap, Like
<1> QED BY <1>6 DEF Abandon, k

\* The keys and texts of a cell are two at most.
LEMMA OwnsIs ==
    ASSUME NEW n
    PROVE  /\ Owns(n) = (IF n.kind = "string" /\ n.ref = 0 THEN 1 ELSE 0)
                      + (IF n.key # NoKey /\ n.const = 0 THEN 1 ELSE 0)
           /\ Owns(n) \in Nat
  BY DEF Owns, OwnsText, OwnsKey, Count

\* cJSON_CreateArray() and its like make an item or leave the heap as it was.
LEMMA PlainMade ==
    ASSUME NEW h, Clean(h), NEW kind \in Kinds \ {"string"}
    PROVE  LET g == CreatePlain(h, kind) IN
           /\ Made(h, g)
           /\ g.ret # NULL => NewAs(h, g, [Blank EXCEPT !.kind = kind])
<1> DEFINE h1 == NewItem(h)
           c == h1.ret
           n == [Blank EXCEPT !.kind = kind]
           g == [h1 EXCEPT !.node[c].kind = kind]
<1>1. h \in Heap
  BY DEF Clean
<1>2. CASE c = NULL
  <2>1. Like(h, h1)
    BY <1>1, <1>2, NewItemIs, PointersAre
  <2> QED BY <1>2, <2>1 DEF CreatePlain, Made
<1>3. CASE c # NULL
  <2>1. c \in Items \ Alive(h) /\ SetTo(h, h1, c, Blank, 0)
    BY <1>1, <1>3, NewItemIs
  <2>2. h1 \in Heap /\ h1.node[c] = Blank
    BY <2>1 DEF SetTo
  <2>3. n \in Node /\ Owns(n) = 0 /\ Scalar(n)
    BY BlankIs, OwnsIs DEF Node, Blank, Scalar, Kinds
  <2>4. g = [h1 EXCEPT !.node[c] = n]
    BY <2>2
  <2> HIDE DEF h1, n
  <2>5. SetTo(h1, [h1 EXCEPT !.node[c] = n], c, n, 0)
    BY <2>1, <2>2, <2>3, SetOnce
  <2>6. SetTo(h, g, c, n, 0)
    <3>1. SetTo(h, g, c, n, 0 + 0)
      BY <1>1, <2>1, <2>4, <2>5, SetTwice
    <3> QED BY <3>1
  <2>7. g.ret = c
    OBVIOUS
  <2> HIDE DEF g
  <2>8. NewAs(h, g, n)
    BY <2>1, <2>3, <2>6, <2>7 DEF NewAs
  <2>9. CreatePlain(h, kind) = g
    BY <1>3 DEF CreatePlain, g, h1
  <2> QED BY <1>3, <2>7, <2>8, <2>9 DEF Made, n
<1> QED BY <1>2, <1>3

\* cJSON_CreateString() makes an item or leaves the heap as it was: if the text
\* cannot be copied the item is freed again.
LEMMA TextMade ==
    ASSUME NEW h, Clean(h)
    PROVE  Made(h, CreateText(h))
<1> DEFINE h1 == NewItem(h)
           h2 == Strdup(h1)
           c == h1.ret
           n == [Blank EXCEPT !.kind = "string"]
           g == [h2 EXCEPT !.node[c].kind = "string", !.ret = c]
<1>1. h \in Heap
  BY DEF Clean
<1>2. CASE c = NULL
  <2>1. Like(h, h1)
    BY <1>1, <1>2, NewItemIs, PointersAre
  <2> QED BY <1>2, <2>1 DEF CreateText, Made
<1>3. CASE c # NULL
  <2>1. c \in Items \ Alive(h) /\ SetTo(h, h1, c, Blank, 0)
    BY <1>1, <1>3, NewItemIs
  <2>2. h1 \in Heap /\ h1.node[c] = Blank
    BY <2>1 DEF SetTo
  <2>3. \/ h2.ret = NULL /\ Like(h1, h2)
        \/ h2.ret = 1 /\ \A i \in Items : SetTo(h1, h2, i, h1.node[i], 1)
    BY <2>2, StrdupIs
  <2>4. CreateText(h) = IF h2.ret = NULL THEN Abandon(h2, c) ELSE g
    BY <1>3 DEF CreateText
  <2> HIDE DEF h1, h2
  <2>5. CASE h2.ret = NULL
    <3>1. SetTo(h, h2, c, Blank, 0)
      BY <2>1, <2>3, <2>5, PointersAre, SetLike
    <3>2. Owns(Blank) = 0
      BY BlankIs, OwnsIs DEF Blank
    <3>3. Like(h, Abandon(h2, c)) /\ Abandon(h2, c).ret = NULL
      BY <2>1, <3>1, <3>2, BlankIs, Undone
    <3> QED BY <2>4, <2>5, <3>3 DEF Made
  <2>6. CASE h2.ret # NULL
    <3>1. SetTo(h1, h2, c, Blank, 1)
      BY <2>1, <2>2, <2>3, <2>6
    <3>2. h2 \in Heap /\ h2.node[c] = Blank
      BY <2>1, <3>1 DEF SetTo
    <3>3. n \in Node /\ Owns(n) = 1 /\ Scalar(n)
      BY BlankIs, OwnsIs DEF Node, Blank, Scalar, Kinds
    <3> DEFINE h3 == [h2 EXCEPT !.node[c] = n]
    <3>4. g = [h3 EXCEPT !.ret = c]
      BY <3>2
    <3>5. h3 \in Heap /\ SetTo(h2, h3, c, n, 0)
      <4> HIDE DEF n
      <4> QED BY <2>1, <3>2, <3>3, SetOnce
    <3> HIDE DEF n, h3
    <3>6. Like(h3, g) /\ g.ret = c
      BY <2>1, <3>4, <3>5, PointersAre, ReturnLike
    <3>7. SetTo(h, h2, c, Blank, 0 + 1)
      BY <1>1, <2>1, <3>1, SetTwice
    <3>8. SetTo(h, h3, c, n, (0 + 1) + 0)
      BY <1>1, <2>1, <3>5, <3>7, SetTwice
    <3>9. SetTo(h, g, c, n, (0 + 1) + 0)
      BY <3>6, <3>8, SetLike
    <3> HIDE DEF g
    <3>10. NewAs(h, g, n)
      BY <2>1, <3>3, <3>6, <3>9 DEF NewAs
    <3> QED BY <1>3, <2>4, <2>6, <3>6, <3>10 DEF Made
  <2> QED BY <2>5, <2>6
<1> QED BY <1>2, <1>3

-----------------------------------------------------------------------------
\* So does every cJSON_Create...() of a single item.
LEMMA ItemMade ==
    ASSUME NEW h, Clean(h), NEW kind \in Kinds
    PROVE  Made(h, CreateItem(h, kind))
<1>1. CASE kind = "string"
  BY <1>1, TextMade DEF CreateItem
<1>2. CASE kind # "string"
  BY <1>2, PlainMade DEF CreateItem
<1> QED BY <1>1, <1>2

\* A new item, set to n by one assignment.
LEMMA NewSet ==
    ASSUME NEW h, Clean(h), NEW n, Scalar(n), Owns(n) = 0, NewItem(h).ret # NULL
    PROVE  NewAs(h, [NewItem(h) EXCEPT !.node[NewItem(h).ret] = n], n)
<1> DEFINE h1 == NewItem(h)
           c == h1.ret
           g == [h1 EXCEPT !.node[c] = n]
<1>1. h \in Heap /\ n \in Node
  BY DEF Clean, Scalar
<1>2. c \in Items \ Alive(h) /\ SetTo(h, h1, c, Blank, 0)
  BY <1>1, NewItemIs
<1>3. h1 \in Heap
  BY <1>2 DEF SetTo
<1>4. g.ret = c
  OBVIOUS
<1> HIDE DEF h1
<1>5. SetTo(h1, g, c, n, 0)
  BY <1>1, <1>2, <1>3, SetOnce
<1> HIDE DEF g
<1>6. SetTo(h, g, c, n, 0 + 0)
  BY <1>1, <1>2, <1>5, SetTwice
<1>7. 0 + 0 = Owns(n)
  OBVIOUS
<1> QED BY <1>2, <1>4, <1>6, <1>7 DEF NewAs, g, h1

\* So does cJSON_Create...Reference().
LEMMA ReferenceToMade ==
    ASSUME NEW h, Clean(h), NEW kind \in Kinds, NEW c \in Pointers
    PROVE  Made(h, CreateReferenceTo(h, kind, c))
<1> DEFINE h1 == NewItem(h)
           i == h1.ret
           n == [Blank EXCEPT !.kind = kind, !.ref = 1, !.child = c]
           g == [h1 EXCEPT !.node[i].kind = kind, !.node[i].ref = 1, !.node[i].child = c]
<1>1. h \in Heap
  BY DEF Clean
<1>2. CASE i = NULL
  <2>1. Like(h, h1)
    BY <1>1, <1>2, NewItemIs, PointersAre
  <2> QED BY <1>2, <2>1 DEF CreateReferenceTo, Made
<1>3. CASE i # NULL
  <2>1. i \in Items \ Alive(h) /\ SetTo(h, h1, i, Blank, 0)
    BY <1>1, <1>3, NewItemIs
  <2>2. h1 \in Heap /\ h1.node[i] = Blank
    BY <2>1 DEF SetTo
  <2>3. n \in Node /\ Owns(n) = 0 /\ Scalar(n)
    <3>1. /\ n.kind = kind /\ n.ref = 1 /\ n.child = c /\ n.key = NoKey
          /\ n.next = NULL /\ n.prev = NULL
      BY DEF Blank
    <3>2. n \in Node
      BY BlankIs DEF Node
    <3> HIDE DEF n
    <3>3. Owns(n) = 0
      BY <3>1, OwnsIs
    <3> QED BY <3>1, <3>2, <3>3 DEF Scalar
  <2>4. g = [h1 EXCEPT !.node[i] = n]
    BY <2>2
  <2>5. CreateReferenceTo(h, kind, c) = g
    BY <1>3 DEF CreateReferenceTo
  <2>6. NewAs(h, [h1 EXCEPT !.node[i] = n], n) /\ [h1 EXCEPT !.node[i] = n].ret = i
    <3> HIDE DEF n
    <3>1. [h1 EXCEPT !.node[i] = n].ret = i
      OBVIOUS
    <3>2. NewAs(h, [h1 EXCEPT !.node[i] = n], n)
      BY <1>3, <2>3, NewSet
    <3> QED BY <3>1, <3>2
  <2> HIDE DEF g, n
  <2> QED BY <1>3, <2>4, <2>5, <2>6 DEF Made
<1> QED BY <1>2, <1>3

\* So does create_reference().
LEMMA ReferenceMade ==
    ASSUME NEW h, Clean(h), NEW i \in Alive(h), h.node[i].kind # "invalid"
    PROVE  Made(h, Reference(h, i))
<1> DEFINE h1 == NewItem(h)
           c == h1.ret
           n == [h.node[i] EXCEPT !.key = NoKey, !.ref = 1, !.next = NULL, !.prev = NULL]
           g == [h1 EXCEPT !.node[c] = n]
<1>1. h \in Heap /\ h.node[i] \in Node /\ h.node[i].kind # "free"
  BY DEF Clean, Heap, Alive
<1>2. CASE c = NULL
  <2>1. Like(h, h1)
    BY <1>1, <1>2, NewItemIs, PointersAre
  <2> QED BY <1>2, <2>1 DEF Reference, Made
<1>3. CASE c # NULL
  <2>1. n \in Node /\ Owns(n) = 0 /\ Scalar(n)
    <3>1. /\ n.kind = h.node[i].kind /\ n.ref = 1 /\ n.key = NoKey /\ n.next = NULL /\ n.prev = NULL
      BY <1>1 DEF Node
    <3>2. n \in Node
      BY <1>1, PointersAre DEF Node
    <3>3. h.node[i].kind \in Kinds
      BY <1>1 DEF Node
    <3> HIDE DEF n
    <3>4. Owns(n) = 0
      BY <3>1, OwnsIs
    <3> QED BY <3>1, <3>2, <3>3, <3>4 DEF Scalar
  <2>2. Reference(h, i) = g
    BY <1>3 DEF Reference
  <2>3. g.ret = c
    OBVIOUS
  <2> HIDE DEF n
  <2>4. NewAs(h, g, n)
    BY <1>3, <2>1, NewSet
  <2> HIDE DEF g
  <2> QED BY <1>3, <2>2, <2>3, <2>4 DEF Made
<1> QED BY <1>2, <1>3

\* cJSON_Duplicate() of the item alone, or of what it begins with.
LEMMA CopyOneMade ==
    ASSUME NEW h, Clean(h), NEW i \in Alive(h), h.node[i].kind # "invalid"
    PROVE  LET g == CopyOne(h, i)
               x == h.node[i] IN
           /\ Made(h, g)
           /\ g.ret # NULL =>
                 NewAs(h, g, [Blank EXCEPT !.kind = x.kind, !.key = x.key, !.const = x.const])
<1> DEFINE h1 == NewItem(h)
           c == h1.ret
           x == h.node[i]
           s == IF x.kind = "string" THEN 1 ELSE 0
           t == IF OwnsKey(x) THEN 1 ELSE 0
           h2 == IF x.kind = "string" THEN Strdup(h1) ELSE h1
           h3 == IF OwnsKey(x) THEN Strdup(h2) ELSE h2
           n == [Blank EXCEPT !.kind = x.kind, !.key = x.key, !.const = x.const]
           m == [Blank EXCEPT !.kind = x.kind]
           named == [h3 EXCEPT !.node[c] = n, !.ret = c]
           text == [h2 EXCEPT !.node[c] = m]
<1>1. h \in Heap /\ x \in Node /\ x.kind # "free" /\ x.kind \in Kinds
  BY DEF Clean, Heap, Alive, Node
<1>2. CASE c = NULL
  <2>1. Like(h, h1)
    BY <1>1, <1>2, NewItemIs, PointersAre
  <2>2. CopyOne(h, i) = h1
    BY <1>2 DEF CopyOne
  <2> QED BY <1>2, <2>1, <2>2 DEF Made
<1>3. CASE c # NULL
  <2>1. c \in Items \ Alive(h) /\ SetTo(h, h1, c, Blank, 0)
    BY <1>1, <1>3, NewItemIs
  <2>2. h1 \in Heap /\ h1.node[c] = Blank
    BY <2>1 DEF SetTo
  <2>3. CopyOne(h, i) = IF h2.ret = NULL THEN Abandon(h2, c)
                        ELSE IF h3.ret = NULL THEN Abandon(text, c) ELSE named
    BY <1>3, Zenon DEF CopyOne, h1, h2, h3, c, named, text, n, m, x
  <2>4. /\ n \in Node /\ Scalar(n) /\ Owns(n) = s + t /\ n.kind # "free"
        /\ m \in Node /\ Owns(m) = s /\ m.kind # "free" /\ m.next = NULL /\ m.child = NULL
    <3>1. /\ n.kind = x.kind /\ n.ref = 0 /\ n.child = NULL /\ n.key = x.key /\ n.const = x.const
          /\ n.next = NULL /\ n.prev = NULL
      BY DEF Blank
    <3>2. /\ m.kind = x.kind /\ m.ref = 0 /\ m.child = NULL /\ m.key = NoKey /\ m.next = NULL
      BY DEF Blank
    <3>3. n \in Node /\ m \in Node
      BY <1>1, BlankIs DEF Node
    <3> HIDE DEF n, m, x
    <3>4. Owns(m) = s
      BY <3>2, OwnsIs
    <3>5. Owns(n) = s + t
      BY <3>1, OwnsIs DEF OwnsKey
    <3> QED BY <1>1, <3>1, <3>2, <3>3, <3>4, <3>5 DEF Scalar
  <2>5. SetTo(h1, h1, c, Blank, 0)
    BY <2>1, <2>2 DEF SetTo, Heap
  <2>6. \/ h2.ret = NULL /\ SetTo(h1, h2, c, Blank, 0)
        \/ h2.ret # NULL /\ SetTo(h1, h2, c, Blank, s)
    <3>1. CASE x.kind = "string"
      <4>1. \/ Strdup(h1).ret = NULL /\ Like(h1, Strdup(h1))
            \/ Strdup(h1).ret = 1 /\ SetTo(h1, Strdup(h1), c, h1.node[c], 1)
        BY <2>1, <2>2, StrdupIs
      <4> HIDE DEF h1
      <4> QED BY <2>1, <2>2, <2>5, <3>1, <4>1, PointersAre, SetLike
    <3>2. CASE x.kind # "string"
      BY <1>3, <2>5, <3>2
    <3> QED BY <3>1, <3>2
  <2> HIDE DEF h1, n, m, x
  <2>7. h2 \in Heap /\ h2.node[c] = Blank
    BY <2>1, <2>6 DEF SetTo
  <2> HIDE DEF h2
  <2>8. ASSUME h2.ret # NULL
        PROVE  \/ h3.ret = NULL
               \/ h3.ret # NULL /\ SetTo(h2, h3, c, Blank, t)
    <3>1. CASE OwnsKey(x)
      <4>1. \/ Strdup(h2).ret = NULL
            \/ Strdup(h2).ret = 1 /\ SetTo(h2, Strdup(h2), c, h2.node[c], 1)
        BY <2>1, <2>7, StrdupIs
      <4> QED BY <2>7, <3>1, <4>1, PointersAre
    <3>2. CASE ~OwnsKey(x)
      <4>1. SetTo(h2, h2, c, Blank, 0)
        BY <2>1, <2>7 DEF SetTo, Heap
      <4> QED BY <2>8, <3>2, <4>1
    <3> QED BY <3>1, <3>2
  <2> HIDE DEF h3
  <2>9. CASE h2.ret = NULL
    <3>1. SetTo(h, h2, c, Blank, 0 + 0)
      BY <1>1, <2>1, <2>6, <2>9, SetTwice
    <3>2. Owns(Blank) = 0 + 0
      BY BlankIs, OwnsIs DEF Blank
    <3>3. Like(h, Abandon(h2, c)) /\ Abandon(h2, c).ret = NULL
      BY <2>1, <3>1, <3>2, BlankIs, Undone
    <3> QED BY <2>3, <2>9, <3>3 DEF Made
  <2>10. CASE h2.ret # NULL /\ h3.ret = NULL
    <3>1. SetTo(h, h2, c, Blank, 0 + s)
      BY <1>1, <2>1, <2>6, <2>10, SetTwice
    <3>2. SetTo(h2, text, c, m, 0)
      BY <2>1, <2>4, <2>7, SetOnce
    <3> HIDE DEF text
    <3>3. SetTo(h, text, c, m, (0 + s) + 0)
      BY <1>1, <2>1, <3>1, <3>2, SetTwice
    <3>4. (0 + s) + 0 = Owns(m)
      BY <2>4
    <3>5. SetTo(h, text, c, m, Owns(m))
      BY <3>3, <3>4
    <3>6. Like(h, Abandon(text, c)) /\ Abandon(text, c).ret = NULL
      BY <2>1, <2>4, <3>5, Undone
    <3> QED BY <2>3, <2>10, <3>6 DEF Made
  <2>11. CASE h2.ret # NULL /\ h3.ret # NULL
    <3>1. SetTo(h, h2, c, Blank, 0 + s)
      BY <1>1, <2>1, <2>6, <2>11, SetTwice
    <3>2. SetTo(h2, h3, c, Blank, t)
      BY <2>8, <2>11
    <3>3. SetTo(h, h3, c, Blank, (0 + s) + t)
      BY <1>1, <2>1, <3>1, <3>2, SetTwice
    <3>4. h3 \in Heap
      BY <3>2 DEF SetTo
    <3> DEFINE h4 == [h3 EXCEPT !.node[c] = n]
    <3>5. h4 \in Heap /\ SetTo(h3, h4, c, n, 0)
      BY <2>1, <2>4, <3>4, SetOnce
    <3>6. named = [h4 EXCEPT !.ret = c]
      OBVIOUS
    <3> HIDE DEF h4, named
    <3>7. Like(h4, named) /\ named.ret = c
      BY <2>1, <3>5, <3>6, PointersAre, ReturnLike
    <3>8. SetTo(h, h4, c, n, ((0 + s) + t) + 0)
      BY <1>1, <2>1, <3>3, <3>5, SetTwice
    <3>9. ((0 + s) + t) + 0 = Owns(n)
      BY <2>4
    <3>10. SetTo(h, named, c, n, Owns(n))
      BY <3>7, <3>8, <3>9, SetLike
    <3>11. NewAs(h, named, n)
      BY <2>1, <2>4, <3>7, <3>10 DEF NewAs
    <3> QED BY <1>3, <2>3, <2>11, <3>7, <3>11 DEF Made, n, x
  <2> QED BY <2>9, <2>10, <2>11
<1> QED BY <1>2, <1>3

-----------------------------------------------------------------------------
\* The heap in order

\* Everything is in order: the items of R are where everything is in, keys and
\* texts are as many as items own, and members of objects have names unless one
\* could not be copied.
Order(h, f, R, u) ==
    Sound(h, f, R) /\ Counted(h, 0) /\ (u = 0 => Named(h, f))

\* What is known of a heap in which everything is in order.
LEMMA OrderFacts ==
    ASSUME NEW h, NEW f, NEW R, NEW u, Order(h, f, R, u)
    PROVE  /\ Sound(h, f, R) /\ Clean(h) /\ h \in Heap /\ h.status = "ok" /\ LinkedAs(h, f)
           /\ f \in [Items -> Seq(Items)] /\ R \subseteq Alive(h) /\ Alive(h) \subseteq Items
           /\ \A i \in Items : h.node[i].kind # "invalid"
           /\ \A p \in Items : ItemsOf(f[p]) \subseteq Alive(h)
           /\ \A i \in Items \ Alive(h) : f[i] = <<>>
<1>1. Sound(h, f, R)
  BY DEF Order
<1>2. /\ h \in Heap /\ h.status = "ok" /\ LinkedAs(h, f) /\ R \subseteq Alive(h)
      /\ \A p \in Items : ItemsOf(f[p]) \subseteq Alive(h)
      /\ \A i \in Items \ Alive(h) : h.node[i] = Freed
      /\ \A i \in Items : h.node[i].kind # "invalid"
  BY <1>1 DEF Sound
<1>3. Alive(h) \subseteq Items
  BY DEF Alive
<1>4. f \in [Items -> Seq(Items)] /\ \A i \in Items \ Alive(h) : f[i] = <<>>
  BY <1>2, LinkedLists, FreedLists
<1> QED BY <1>1, <1>2, <1>3, <1>4 DEF Clean

\* Lists are linked if the links are the same.
LEMMA LinkedSame ==
    ASSUME NEW h, NEW f, LinkedAs(h, f), NEW g,
           \A p \in Items : /\ ~Owner(g, p) => f[p] = <<>>
                            /\ Owner(g, p) => g.node[p].child = IF f[p] = <<>> THEN NULL ELSE f[p][1],
           \A p \in Items : \A j \in ItemsOf(f[p]) :
               g.node[j].next = h.node[j].next /\ g.node[j].prev = h.node[j].prev
    PROVE  LinkedAs(g, f)
<1>1. ASSUME NEW p \in Items, NEW m \in 1 .. Len(f[p])
      PROVE  /\ g.node[f[p][m]].next = IF m = Len(f[p]) THEN NULL ELSE f[p][m + 1]
             /\ g.node[f[p][m]].prev = IF m = 1 THEN NULL ELSE f[p][m - 1]
  <2>1. f[p][m] \in ItemsOf(f[p])
    BY DEF ItemsOf
  <2>2. g.node[f[p][m]].next = h.node[f[p][m]].next /\ g.node[f[p][m]].prev = h.node[f[p][m]].prev
    BY <2>1
  <2>3. /\ h.node[f[p][m]].next = IF m = Len(f[p]) THEN NULL ELSE f[p][m + 1]
        /\ h.node[f[p][m]].prev = IF m = 1 THEN NULL ELSE f[p][m - 1]
    BY DEF LinkedAs
  <2> QED BY <2>2, <2>3
<1>2. /\ f \in [Items -> Seq(Items)]
      /\ \A p, q \in Items : \A n \in 1 .. Len(f[p]), m \in 1 .. Len(f[q]) :
            f[p][n] = f[q][m] => p = q /\ n = m
  BY Zenon DEF LinkedAs
<1> QED BY <1>1, <1>2, Zenon DEF LinkedAs

\* What an owner points to.
LEMMA LinkedChild ==
    ASSUME NEW h, NEW f, LinkedAs(h, f), NEW p \in Items
    PROVE  /\ ~Owner(h, p) => f[p] = <<>>
           /\ Owner(h, p) => h.node[p].child = IF f[p] = <<>> THEN NULL ELSE f[p][1]
  BY DEF LinkedAs

\* Order is kept if no item changes.
LEMMA LikeOrder ==
    ASSUME NEW h, NEW f, NEW R, NEW u, Order(h, f, R, u), NEW g, Like(h, g)
    PROVE  Order(g, f, R, u) /\ Alive(g) = Alive(h)
<1>1. /\ Sound(h, f, R) /\ Counted(h, 0) /\ (u = 0 => Named(h, f))
      /\ h.status = "ok"
  BY DEF Order, Sound
<1>2. g \in Heap /\ g.status = "ok" /\ g.strings = h.strings /\ \A j \in Items : g.node[j] = h.node[j]
  BY <1>1 DEF Like
<1>3. Alive(g) = Alive(h)
  BY <1>2 DEF Alive
<1>4. LinkedAs(g, f)
  <2>1. LinkedAs(h, f) /\ \A p \in Items : ItemsOf(f[p]) \subseteq Items
    BY <1>1, LinkedLists DEF Sound
  <2>2. ASSUME NEW p \in Items
        PROVE  /\ ~Owner(g, p) => f[p] = <<>>
               /\ Owner(g, p) => g.node[p].child = IF f[p] = <<>> THEN NULL ELSE f[p][1]
    <3>1. (Owner(g, p) <=> Owner(h, p)) /\ g.node[p].child = h.node[p].child
      BY <1>2 DEF Owner
    <3> QED BY <2>1, <3>1, LinkedChild
  <2>3. \A p \in Items : \A j \in ItemsOf(f[p]) : g.node[j] = h.node[j]
    BY <1>2, <2>1
  <2> QED BY <2>1, <2>2, <2>3, LinkedSame
<1>5. \A i \in R : Loose(g, f, i)
  <2>1. \A i \in R : i \in Items /\ Loose(h, f, i)
    BY <1>1 DEF Sound, Alive
  <2> QED BY <1>2, <2>1, LooseIs
<1>6. Sound(g, f, R)
  BY <1>1, <1>2, <1>3, <1>4, <1>5 DEF Sound
<1>7. Counted(g, 0)
  <2>1. \A j \in Items : g.node[j] = h.node[j]
    BY <1>2
  <2>2. OwnedBy(g, Items) = OwnedBy(h, Items)
    BY <2>1, OwnedSame
  <2> QED BY <1>1, <1>2, <2>2 DEF Counted
<1>8. Named(h, f) => Named(g, f)
  <2> SUFFICES ASSUME Named(h, f) PROVE Named(g, f)
    OBVIOUS
  <2>1. \A p \in Items : ItemsOf(f[p]) \subseteq Items
    BY <1>1, LinkedLists DEF Sound
  <2>2. \A p \in Items : Owner(g, p) <=> Owner(h, p)
    BY <1>2 DEF Owner
  <2> QED BY <1>2, <2>1, <2>2 DEF Named
<1> QED BY <1>1, <1>3, <1>6, <1>7, <1>8 DEF Order

\* One item more or less that owns something.
LEMMA OwnedChange ==
    ASSUME NEW h, NEW g, NEW i \in Items, \A j \in Items \ {i} : g.node[j] = h.node[j]
    PROVE  /\ OwnedBy(g, Items) = OwnedBy(h, Items) - Owns(h.node[i]) + Owns(g.node[i])
           /\ OwnedBy(h, Items) \in Nat
<1> DEFINE V == Items \ {i}
<1>0. {i} \in SUBSET Items /\ V \in SUBSET Items /\ {i} \cap V = {}
  OBVIOUS
<1>1. /\ OwnedBy(h, {i}) \in Nat /\ OwnedBy(h, V) \in Nat
      /\ OwnedBy(h, {i} \cup V) = OwnedBy(h, {i}) + OwnedBy(h, V)
  BY <1>0, OwnedParts, Zenon
<1>2. /\ OwnedBy(g, {i}) \in Nat /\ OwnedBy(g, V) \in Nat
      /\ OwnedBy(g, {i} \cup V) = OwnedBy(g, {i}) + OwnedBy(g, V)
  BY <1>0, OwnedParts, Zenon
<1>3. {i} \cup V = Items
  OBVIOUS
<1>4. OwnedBy(g, V) = OwnedBy(h, V)
  BY OwnedSame
<1>5. OwnedBy(h, {i}) = Owns(h.node[i]) /\ OwnedBy(g, {i}) = Owns(g.node[i])
  BY OwnedOne
<1> HIDE DEF V
<1>6. /\ OwnedBy(h, Items) = Owns(h.node[i]) + OwnedBy(h, V)
      /\ OwnedBy(g, Items) = Owns(g.node[i]) + OwnedBy(g, V)
  BY <1>1, <1>2, <1>3, <1>5
<1>7. Owns(h.node[i]) \in Nat /\ Owns(g.node[i]) \in Nat
  BY OwnsIs
<1>8. OwnedBy(h, V) \in Nat
  BY <1>1
<1> QED BY <1>4, <1>6, <1>7, <1>8

\* Heap g is h with a new item, set to n, that is in nothing and has nothing in it.
NewIs(h, f, R, u, g, n) ==
    /\ Order(g, f, R \cup {g.ret}, u)
    /\ Alive(g) = Alive(h) \cup {g.ret} /\ g.node[g.ret] = n
    /\ \A j \in Alive(h) : g.node[j] = h.node[j]
    /\ f[g.ret] = <<>> /\ Within(f, g.ret) = {g.ret}

\* A new item is in order, and belongs to whoever made it.
LEMMA NewOrder ==
    ASSUME NEW h, NEW f, NEW R, NEW u, Order(h, f, R, u), NEW g, NEW n, NewAs(h, g, n)
    PROVE  NewIs(h, f, R, u, g, n)
<1> DEFINE c == g.ret
<1>1. /\ Sound(h, f, R) /\ Clean(h) /\ h \in Heap /\ h.status = "ok" /\ LinkedAs(h, f)
      /\ f \in [Items -> Seq(Items)] /\ R \subseteq Alive(h) /\ Alive(h) \subseteq Items
      /\ \A i \in Items : h.node[i].kind # "invalid"
      /\ \A p \in Items : ItemsOf(f[p]) \subseteq Alive(h)
      /\ \A i \in Items \ Alive(h) : f[i] = <<>>
  BY OrderFacts
<1>2. /\ Scalar(n) /\ c \in Items \ Alive(h) /\ SetTo(h, g, c, n, Owns(n))
  BY DEF NewAs
<1>3. /\ g \in Heap /\ g.status = "ok" /\ g.strings = h.strings + Owns(n)
      /\ \A j \in Items : g.node[j] = IF j = c THEN n ELSE h.node[j]
  BY <1>1, <1>2 DEF SetTo
<1>4. n.kind # "free" /\ n.kind # "invalid" /\ n.next = NULL /\ n.prev = NULL /\ (n.ref # 0 \/ n.child = NULL)
  BY <1>2 DEF Scalar, Kinds
<1> HIDE DEF c
<1>5. Alive(g) = Alive(h) \cup {c}
  BY <1>2, <1>3, <1>4 DEF Alive
<1>6. f[c] = <<>>
  BY <1>1, <1>2
<1>7. Within(f, c) = {c}
  <2>1. ItemsOf(f[c]) = {}
    BY <1>6 DEF ItemsOf
  <2>2. \A j \in {c} : ItemsOf(f[j]) \subseteq {c}
    BY <2>1
  <2>3. {c} \in SUBSET Items /\ c \in {c} /\ c \in Items
    BY <1>2
  <2>4. Within(f, c) \subseteq {c}
    BY <1>1, <2>2, <2>3, WithinSmallest
  <2> QED BY <1>1, <2>3, <2>4, WithinIs
<1>8. \A p \in Items : c \notin ItemsOf(f[p])
  BY <1>1, <1>2
<1>9. LinkedAs(g, f)
  <2>1. ASSUME NEW p \in Items
        PROVE  /\ ~Owner(g, p) => f[p] = <<>>
               /\ Owner(g, p) => g.node[p].child = IF f[p] = <<>> THEN NULL ELSE f[p][1]
    <3>1. CASE p = c
      BY <1>2, <1>3, <1>4, <1>6, <3>1 DEF Owner
    <3>2. CASE p # c
      <4>1. g.node[p] = h.node[p]
        BY <1>3, <3>2
      <4> QED BY <1>1, <4>1, LinkedChild DEF Owner
    <3> QED BY <3>1, <3>2
  <2>2. \A p \in Items : \A j \in ItemsOf(f[p]) : g.node[j] = h.node[j]
    BY <1>1, <1>3, <1>8
  <2> QED BY <1>1, <2>1, <2>2, LinkedSame
<1>10. ASSUME NEW i \in R \cup {c} PROVE Loose(g, f, i)
  <2>1. CASE i = c
    BY <1>2, <1>3, <1>4, <1>8, <2>1, LooseIs
  <2>2. CASE i # c
    <3>1. i \in Items /\ Loose(h, f, i)
      BY <1>1, <1>10, <2>2 DEF Sound
    <3>2. g.node[i] = h.node[i]
      BY <1>3, <2>2, <3>1
    <3> QED BY <3>1, <3>2, LooseIs
  <2> QED BY <2>1, <2>2
<1>11. Sound(g, f, R \cup {c})
  <2>1. Layered(f) /\ \A i \in Alive(h) \ R : \E p \in Items : i \in ItemsOf(f[p])
    BY <1>1 DEF Sound
  <2>2. \A i \in Alive(g) \ (R \cup {c}) : \E p \in Items : i \in ItemsOf(f[p])
    BY <1>5, <2>1
  <2>3. \A i \in Items \ Alive(g) : g.node[i] = Freed
    BY <1>1, <1>3, <1>5 DEF Clean
  <2>4. \A i \in Items : g.node[i].kind # "invalid"
    BY <1>1, <1>3, <1>4
  <2> QED BY <1>1, <1>3, <1>5, <1>9, <1>10, <2>1, <2>2, <2>3, <2>4 DEF Sound
<1>12. Counted(g, 0)
  <2>1. OwnedBy(g, Items) = OwnedBy(h, Items) - Owns(h.node[c]) + Owns(g.node[c]) /\ OwnedBy(h, Items) \in Nat
    BY <1>2, <1>3, OwnedChange
  <2>2. h.node[c] = Freed /\ g.node[c] = n
    BY <1>1, <1>2, <1>3 DEF Clean
  <2>3. Owns(Freed) = 0 /\ Owns(n) \in Nat
    BY BlankIs, OwnsIs DEF Freed, Blank
  <2>4. h.strings = OwnedBy(h, Items) + 0
    BY DEF Order, Counted
  <2> QED BY <1>3, <2>1, <2>2, <2>3, <2>4 DEF Counted
<1>13. Named(h, f) => Named(g, f)
  <2> SUFFICES ASSUME Named(h, f), NEW p \in Items, Owner(g, p), g.node[p].kind = "object", NEW i \in ItemsOf(f[p])
               PROVE  g.node[i].key # NoKey
    BY DEF Named
  <2>1. p # c
    BY <1>6 DEF ItemsOf
  <2>2. i \in Items /\ i # c
    BY <1>1, <1>8
  <2>3. g.node[p] = h.node[p] /\ g.node[i] = h.node[i]
    BY <1>3, <2>1, <2>2
  <2> QED BY <2>3 DEF Named, Owner
<1>14. Order(g, f, R \cup {c}, u)
  BY <1>11, <1>12, <1>13 DEF Order
<1>15. g.node[c] = n /\ \A j \in Alive(h) : g.node[j] = h.node[j]
  BY <1>1, <1>2, <1>3
<1> QED BY <1>5, <1>6, <1>7, <1>14, <1>15 DEF c, NewIs

\* Heap g is h with item i called k, and s keys more.
Rekeyed(h, f, R, g, i, k, const, s) ==
    /\ Sound(g, f, R) /\ (Named(h, f) => Named(g, f))
    /\ Alive(g) = Alive(h)
    /\ g.node[i].key = k /\ g.node[i].const = const
    /\ g.node[i].kind = h.node[i].kind /\ g.node[i].ref = h.node[i].ref
    /\ (s = Count(k # NoKey /\ const = 0) - Count(OwnsKey(h.node[i])) => Counted(g, 0))

\* What an item is called that is in no list matters to nobody.
LEMMA RekeyedOrder ==
    ASSUME NEW h, NEW f, NEW R, NEW u, Order(h, f, R, u), NEW i \in R, NEW g,
           NEW k \in Keys \cup {NoKey}, NEW const \in {0, 1}, NEW s \in Int,
           NEW n, n = [h.node[i] EXCEPT !.key = k, !.const = const], SetTo(h, g, i, n, s)
    PROVE  Rekeyed(h, f, R, g, i, k, const, s)
<1>1. /\ Sound(h, f, R) /\ Clean(h) /\ h \in Heap /\ h.status = "ok" /\ LinkedAs(h, f)
      /\ f \in [Items -> Seq(Items)] /\ R \subseteq Alive(h) /\ Alive(h) \subseteq Items
      /\ \A j \in Items : h.node[j].kind # "invalid"
      /\ \A p \in Items : ItemsOf(f[p]) \subseteq Alive(h)
      /\ \A j \in Items \ Alive(h) : f[j] = <<>>
  BY OrderFacts
<1>2. i \in Items /\ h.node[i] \in Node
  BY <1>1 DEF Heap
<1>3. /\ n.kind = h.node[i].kind /\ n.ref = h.node[i].ref /\ n.next = h.node[i].next
      /\ n.prev = h.node[i].prev /\ n.child = h.node[i].child /\ n.key = k /\ n.const = const
  BY <1>2 DEF Node
<1>4. /\ g \in Heap /\ g.status = h.status /\ g.strings = h.strings + s
      /\ \A j \in Items : g.node[j] = IF j = i THEN n ELSE h.node[j]
  BY DEF SetTo
<1>5. ASSUME NEW j \in Items
      PROVE  /\ g.node[j].kind = h.node[j].kind /\ g.node[j].ref = h.node[j].ref
             /\ g.node[j].next = h.node[j].next /\ g.node[j].prev = h.node[j].prev
             /\ g.node[j].child = h.node[j].child
  BY <1>3, <1>4
<1>6. Alive(g) = Alive(h) /\ \A p \in Items : Owner(g, p) <=> Owner(h, p)
  BY <1>5 DEF Alive, Owner
<1>7. LinkedAs(g, f)
  <2>1. \A p \in Items : ItemsOf(f[p]) \subseteq Items
    BY <1>1
  <2>2. ASSUME NEW p \in Items
        PROVE  /\ ~Owner(g, p) => f[p] = <<>>
               /\ Owner(g, p) => g.node[p].child = IF f[p] = <<>> THEN NULL ELSE f[p][1]
    BY <1>1, <1>5, <1>6, LinkedChild
  <2> QED BY <1>1, <1>5, <2>1, <2>2, LinkedSame
<1>8. \A j \in R : Loose(g, f, j)
  <2>1. \A j \in R : j \in Items /\ Loose(h, f, j)
    BY <1>1 DEF Sound
  <2> QED BY <1>5, <2>1, LooseIs
<1>9. Sound(g, f, R)
  <2>1. Layered(f) /\ \A j \in Alive(h) \ R : \E p \in Items : j \in ItemsOf(f[p])
    BY <1>1 DEF Sound
  <2>2. \A j \in Items \ Alive(g) : g.node[j] = Freed
    BY <1>1, <1>4, <1>6 DEF Clean
  <2>3. \A j \in Items : g.node[j].kind # "invalid"
    BY <1>1, <1>5
  <2> QED BY <1>1, <1>4, <1>6, <1>7, <1>8, <2>1, <2>2, <2>3 DEF Sound
<1>10. ASSUME Named(h, f) PROVE Named(g, f)
  <2> SUFFICES ASSUME NEW p \in Items, Owner(g, p), g.node[p].kind = "object", NEW j \in ItemsOf(f[p])
               PROVE  g.node[j].key # NoKey
    BY DEF Named
  <2>1. Owner(h, p) /\ h.node[p].kind = "object" /\ j \in Items
    BY <1>1, <1>5, <1>6
  <2>2. i \notin ItemsOf(f[p])
    BY <1>1, LooseIs DEF Sound
  <2>3. j # i
    BY <2>2
  <2>4. g.node[j] = h.node[j]
    BY <1>4, <2>1, <2>3
  <2> QED BY <1>10, <2>1, <2>4 DEF Named
<1>11. ASSUME s = Count(k # NoKey /\ const = 0) - Count(OwnsKey(h.node[i]))
       PROVE  Counted(g, 0)
  <2>1. OwnedBy(g, Items) = OwnedBy(h, Items) - Owns(h.node[i]) + Owns(g.node[i]) /\ OwnedBy(h, Items) \in Nat
    BY <1>2, <1>4, OwnedChange
  <2>2. Owns(g.node[i]) - Owns(h.node[i]) = s /\ Owns(g.node[i]) \in Nat /\ Owns(h.node[i]) \in Nat
    <3>1. g.node[i] = n
      BY <1>2, <1>4
    <3>2. /\ Owns(n) = (IF n.kind = "string" /\ n.ref = 0 THEN 1 ELSE 0)
                       + (IF n.key # NoKey /\ n.const = 0 THEN 1 ELSE 0)
          /\ Owns(h.node[i]) = (IF h.node[i].kind = "string" /\ h.node[i].ref = 0 THEN 1 ELSE 0)
                       + (IF h.node[i].key # NoKey /\ h.node[i].const = 0 THEN 1 ELSE 0)
      BY OwnsIs
    <3>3. Owns(n) - Owns(h.node[i]) = s
      BY <1>3, <1>11, <3>2 DEF OwnsKey, Count
    <3> QED BY <3>1, <3>3, OwnsIs
  <2>3. h.strings = OwnedBy(h, Items) + 0
    BY DEF Order, Counted
  <2> QED BY <1>4, <2>1, <2>2, <2>3 DEF Counted
<1>12. g.node[i] = n
  BY <1>2, <1>4
<1> QED BY <1>3, <1>6, <1>9, <1>10, <1>11, <1>12 DEF Rekeyed

-----------------------------------------------------------------------------
\* The same items and other pointers: as many keys and texts as before.
LEMMA MovedOrder ==
    ASSUME NEW h, NEW f, NEW R, NEW u, Order(h, f, R, u), NEW g, Keeps(h, g),
           NEW e, NEW T, Sound(g, e, T), u = 0 => Named(g, e)
    PROVE  Order(g, e, T, u) /\ Alive(g) = Alive(h)
  BY KeepsFacts DEF Order

\* add_item_to_array()
LEMMA AddedOrder ==
    ASSUME NEW h, NEW f, NEW R, NEW u, Order(h, f, R, u), NEW p \in Items, Owner(h, p), NEW i \in R,
           p \notin Within(f, i), u = 0 => (h.node[p].kind = "object" => h.node[i].key # NoKey)
    PROVE  LET g == AddToArray(h, p, i) IN
           g.ret = 1 /\ Order(g, AtEnd(f, p, i), R \ {i}, u) /\ Alive(g) = Alive(h)
<1> DEFINE g == AddToArray(h, p, i)
<1>1. Sound(h, f, R) /\ (u = 0 => Named(h, f))
  BY DEF Order
<1>2. /\ Keeps(h, g) /\ g.ret = 1
      /\ Sound(g, AtEnd(f, p, i), R \ {i})
      /\ Named(h, f) /\ (h.node[p].kind = "object" => h.node[i].key # NoKey)
         => Named(g, AtEnd(f, p, i))
  BY <1>1, SoundAdd
<1> HIDE DEF g
<1>3. u = 0 => Named(g, AtEnd(f, p, i))
  BY <1>1, <1>2
<1>4. Order(g, AtEnd(f, p, i), R \ {i}, u) /\ Alive(g) = Alive(h)
  BY <1>2, <1>3, MovedOrder
<1> QED BY <1>2, <1>4 DEF g

\* cJSON_InsertItemInArray()
LEMMA InsertedOrder ==
    ASSUME NEW h, NEW f, NEW R, NEW u, Order(h, f, R, u), NEW p \in Items, Owner(h, p), NEW i \in R,
           p \notin Within(f, i), u = 0 => (h.node[p].kind = "object" => h.node[i].key # NoKey),
           NEW n \in Nat
    PROVE  LET g == Insert(h, p, n, i) IN
           Order(g, AtPlace(f, p, n, i), R \ {i}, u) /\ Alive(g) = Alive(h)
<1> DEFINE g == Insert(h, p, n, i)
           e == AtPlace(f, p, n, i)
<1>1. Sound(h, f, R) /\ (u = 0 => Named(h, f))
  BY DEF Order
<1>2. /\ Keeps(h, g)
      /\ Sound(g, e, R \ {i})
      /\ Named(h, f) /\ (h.node[p].kind = "object" => h.node[i].key # NoKey)
         => Named(g, e)
  BY <1>1, SoundInsert
<1> HIDE DEF g, e
<1>3. u = 0 => Named(g, e)
  BY <1>1, <1>2
<1>4. Order(g, e, R \ {i}, u) /\ Alive(g) = Alive(h)
  BY <1>2, <1>3, MovedOrder
<1> QED BY <1>4 DEF g, e

\* g is what cJSON_DetachItemViaPointer() leaves of h.
DetachedAs(h, f, R, u, p, n, g) ==
    /\ g.ret = f[p][n + 1] /\ g.ret \in Alive(h) /\ g.ret \notin R
    /\ Order(g, Taken(f, p, n), R \cup {g.ret}, u) /\ Alive(g) = Alive(h)

\* cJSON_DetachItemViaPointer() of an item of p: it is the caller's then.
LEMMA DetachedWell ==
    ASSUME NEW h, NEW f, NEW R, NEW u, Order(h, f, R, u), NEW p \in Items, Owner(h, p),
           NEW n \in 0 .. Len(f[p]) - 1
    PROVE  DetachedAs(h, f, R, u, p, n, Detach(h, p, f[p][n + 1]))
<1> DEFINE g == Detach(h, p, f[p][n + 1])
           i == f[p][n + 1]
           e == Taken(f, p, n)
<1>1. Sound(h, f, R) /\ (u = 0 => Named(h, f))
  BY DEF Order
<1>2. /\ Keeps(h, g) /\ g.ret = i /\ i \in Alive(h) /\ i \notin R
      /\ Sound(g, e, R \cup {i})
      /\ Named(h, f) => Named(g, e)
  BY <1>1, SoundDetach
<1> HIDE DEF g, e, i
<1>3. u = 0 => Named(g, e)
  BY <1>1, <1>2
<1>4. Order(g, e, R \cup {i}, u) /\ Alive(g) = Alive(h)
  BY <1>2, <1>3, MovedOrder
<1>5. DetachedAs(h, f, R, u, p, n, g)
  BY <1>2, <1>4 DEF e, i, DetachedAs
<1> QED BY <1>5 DEF g

\* cJSON_Delete() of a root.
LEMMA DeletedOrder ==
    ASSUME NEW h, NEW f, NEW R, NEW u, Order(h, f, R, u), NEW r \in R
    PROVE  LET g == Delete(h, r) IN
           /\ Order(g, Emptied(f, Within(f, r)), R \ {r}, u)
           /\ Alive(g) = Alive(h) \ Within(f, r) /\ g.ret = h.ret
           /\ \A j \in Items \ Within(f, r) : g.node[j] = h.node[j]
<1> DEFINE g == Delete(h, r)
           W == Within(f, r)
<1>0. Sound(h, f, R) /\ Counted(h, 0) /\ (u = 0 => Named(h, f))
  BY DEF Order
<1>1. h \in Heap /\ f \in [Items -> Seq(Items)] /\ r \in Items
  BY OrderFacts
<1>2. Frees(h, g, W)
  BY <1>0, DeleteFrees
<1>3. W \in SUBSET Items
  BY <1>1, WithinIs
<1> HIDE DEF g
<1>4. /\ Sound(g, Emptied(f, W), R \ {r})
      /\ Alive(g) = Alive(h) \ W
      /\ Named(h, f) => Named(g, Emptied(f, W))
  BY <1>0, <1>2, FreedSound
<1> HIDE DEF W
<1>5. Counted(g, 0)
  BY <1>0, <1>1, <1>2, <1>3, FreedCounted, 0 \in Int
<1>6. g.ret = h.ret /\ \A j \in Items \ W : g.node[j] = h.node[j]
  BY <1>2 DEF Frees
<1>7. Order(g, Emptied(f, W), R \ {r}, u)
  BY <1>0, <1>4, <1>5 DEF Order
<1> QED BY <1>4, <1>6, <1>7 DEF g, W

\* g is what cJSON_ReplaceItemViaPointer() leaves of h; the items of W go.
ReplacedAs(h, f, R, v, p, n, r, W, g) ==
    g.ret = 1 /\ Order(g, Emptied(GivenWay(f, p, n, r), W), R \ {r}, v) /\ Alive(g) = Alive(h) \ W

\* cJSON_ReplaceItemViaPointer(): r takes a place in p, and what was there is
\* deleted with what is in it.
LEMMA ReplacedWell ==
    ASSUME NEW h, NEW f, NEW R, NEW u, Order(h, f, R, u), NEW p \in Items, Owner(h, p),
           NEW n \in 0 .. Len(f[p]) - 1, NEW r \in R, p \notin Within(f, r),
           NEW v, v = 0 => u = 0 /\ (h.node[p].kind = "object" => h.node[r].key # NoKey)
    PROVE  ReplacedAs(h, f, R, v, p, n, r, Within(GivenWay(f, p, n, r), f[p][n + 1]),
                      Replace(h, p, f[p][n + 1], r))
<1> DEFINE g == Replace(h, p, f[p][n + 1], r)
           i == f[p][n + 1]
           e == GivenWay(f, p, n, r)
           l == Relink(h, p, f[p][n + 1], r)
           W == Within(e, f[p][n + 1])
           d == Delete(l, i)
<1>1. Sound(h, f, R) /\ (u = 0 => Named(h, f)) /\ Counted(h, 0)
  BY DEF Order
<1>2. /\ Keeps(h, l) /\ i \in Alive(h) /\ i \notin R
      /\ Sound(l, e, (R \ {r}) \cup {i})
      /\ Named(h, f) /\ (h.node[p].kind = "object" => h.node[r].key # NoKey)
         => Named(l, e)
  BY <1>1, SoundRelink
<1>3. i # NULL
  BY <1>2, ItemNotNull DEF Alive
<1>4. g = [d EXCEPT !.ret = 1]
  BY <1>3 DEF Replace
<1>0. W = Within(e, i)
  OBVIOUS
<1> HIDE DEF g, e, l, i, W
<1>5. v = 0 => Named(l, e)
  BY <1>1, <1>2
<1>6. Alive(l) = Alive(h) /\ Counted(l, 0)
  BY <1>1, <1>2, KeepsFacts
<1>7. Order(l, e, (R \ {r}) \cup {i}, v)
  BY <1>2, <1>5, <1>6 DEF Order
<1>8. i \in (R \ {r}) \cup {i}
  OBVIOUS
<1>9. /\ Order(d, Emptied(e, W), ((R \ {r}) \cup {i}) \ {i}, v)
      /\ Alive(d) = Alive(l) \ W
  BY <1>0, <1>7, <1>8, DeletedOrder
<1> HIDE DEF d
<1>10. ((R \ {r}) \cup {i}) \ {i} = R \ {r}
  BY <1>2
<1>11. d \in Heap
  BY <1>9, OrderFacts
<1>12. Like(d, g) /\ g.ret = 1
  BY <1>4, <1>11, ReturnLike, PointersAre
<1>13. Order(d, Emptied(e, W), R \ {r}, v)
  BY <1>9, <1>10
<1>14. Order(g, Emptied(e, W), R \ {r}, v) /\ Alive(g) = Alive(d)
  BY <1>12, <1>13, LikeOrder
<1>15. g.ret = 1 /\ Order(g, Emptied(e, W), R \ {r}, v) /\ Alive(g) = Alive(h) \ W
  BY <1>6, <1>9, <1>12, <1>14
<1>16. ReplacedAs(h, f, R, v, p, n, r, W, g)
  BY <1>15 DEF ReplacedAs, e
<1> QED BY <1>16 DEF g, e, W

-----------------------------------------------------------------------------
\* Keys of items, and additions to objects

\* Setting key and const of an item, with s keys more.
LEMMA RekeySets ==
    ASSUME NEW h \in Heap, NEW i \in Items, NEW k \in Keys \cup {NoKey}, NEW const \in {0, 1}, NEW s \in Int
    PROVE  LET g == [h EXCEPT !.strings = @ + s, !.node[i].key = k, !.node[i].const = const] IN
           SetTo(h, g, i, [h.node[i] EXCEPT !.key = k, !.const = const], s) /\ g.ret = h.ret
<1> DEFINE g == [h EXCEPT !.strings = @ + s, !.node[i].key = k, !.node[i].const = const]
           n == [h.node[i] EXCEPT !.key = k, !.const = const]
<1>2. h.node \in [Items -> Node] /\ h.node[i] \in Node /\ h.strings \in Int
  BY DEF Heap
<1>1. n \in Node
  BY <1>2 DEF Node
<1> DEFINE m == [h.node EXCEPT ![i].key = k, ![i].const = const]
<1>6. m = [h.node EXCEPT ![i] = n]
  BY <1>2 DEF Node
<1>3. /\ g.node = m /\ g.strings = h.strings + s /\ g.status = h.status
      /\ g.ret = h.ret /\ g.left = h.left
      /\ g = [h EXCEPT !.strings = h.strings + s, !.node = m]
  BY DEF Heap
<1> HIDE DEF n, m
<1>7. m \in [Items -> Node]
  BY <1>1, <1>2, <1>6
<1>4. g \in Heap
  <2>1. h.strings + s \in Int
    BY <1>2
  <2> HIDE DEF g
  <2> QED BY <1>3, <1>7, <2>1 DEF Heap
<1> HIDE DEF g
<1>5. \A j \in Items : g.node[j] = IF j = i THEN n ELSE h.node[j]
  BY <1>2, <1>3, <1>6
<1> QED BY <1>3, <1>4, <1>5 DEF SetTo, g, n

\* Setting key and const of an item.
LEMMA RekeyOnly ==
    ASSUME NEW h \in Heap, NEW i \in Items, NEW k \in Keys \cup {NoKey}, NEW const \in {0, 1}
    PROVE  LET g == [h EXCEPT !.node[i].key = k, !.node[i].const = const] IN
           SetTo(h, g, i, [h.node[i] EXCEPT !.key = k, !.const = const], 0) /\ g.ret = h.ret
<1> DEFINE g == [h EXCEPT !.node[i].key = k, !.node[i].const = const]
           n == [h.node[i] EXCEPT !.key = k, !.const = const]
<1>1. h.node \in [Items -> Node] /\ h.node[i] \in Node
  BY DEF Heap
<1>2. n \in Node
  BY <1>1 DEF Node
<1> DEFINE m == [h.node EXCEPT ![i].key = k, ![i].const = const]
<1>3. m = [h.node EXCEPT ![i] = n]
  BY <1>1 DEF Node
<1>4. g = [h EXCEPT !.node = m] /\ g.ret = h.ret
  BY DEF Heap
<1>5. [h EXCEPT !.node[i] = n] = [h EXCEPT !.node = m]
  BY <1>1, <1>3 DEF Heap
<1> HIDE DEF n, m, g
<1>6. SetTo(h, g, i, n, 0)
  BY <1>2, <1>4, <1>5, SetOnce
<1> QED BY <1>4, <1>6 DEF g, n

\* add_item_to_object(): the item has a new key and goes to the end, or there
\* was no memory for the key.
LEMMA ObjectAdd ==
    ASSUME NEW h, NEW f, NEW R, NEW u, Order(h, f, R, u), NEW p \in Items, Owner(h, p), NEW i \in R,
           p \notin Within(f, i), NEW k \in Keys, NEW const \in {0, 1}
    PROVE  LET g == AddToObject(h, p, k, i, const) IN
           \/ g.ret = 0 /\ Like(h, g)
           \/ g.ret = 1 /\ Order(g, AtEnd(f, p, i), R \ {i}, u) /\ Alive(g) = Alive(h)
<1> DEFINE g == AddToObject(h, p, k, i, const)
           h1 == IF const = 1 THEN h ELSE Strdup(h)
           s == (IF const = 1 THEN 0 ELSE 1) - Count(OwnsKey(h.node[i]))
           h2 == [h1 EXCEPT !.strings = @ - Count(OwnsKey(h.node[i])),
                            !.node[i].key = k, !.node[i].const = const]
           t == 0 - Count(OwnsKey(h.node[i]))
           l == [h1 EXCEPT !.strings = @ + t, !.node[i].key = k, !.node[i].const = const]
           n == [h.node[i] EXCEPT !.key = k, !.const = const]
<1>1. h \in Heap /\ i \in Items /\ i # NULL /\ R \subseteq Alive(h) /\ i \in Alive(h)
  BY OrderFacts, ItemNotNull
<1>2. Count(OwnsKey(h.node[i])) \in Int /\ t \in Int /\ s \in Int
  BY DEF Count
<1>3. \/ const = 0 /\ h1.ret = NULL /\ Like(h, h1)
      \/ /\ const = 1 \/ h1.ret # NULL
         /\ SetTo(h, h1, i, h.node[i], IF const = 1 THEN 0 ELSE 1)
  <2>1. CASE const = 1
    <3>1. Like(h, h1)
      BY <1>1, <2>1 DEF Like
    <3> QED BY <1>1, <2>1, <3>1, LikeSet
  <2>2. CASE const # 1
    BY <1>1, <2>2, StrdupIs, PointersAre
  <2> QED BY <2>1, <2>2
<1>4. CASE const = 0 /\ h1.ret = NULL /\ Like(h, h1)
  <2>1. g = [h1 EXCEPT !.ret = 0]
    BY <1>1, <1>4 DEF AddToObject
  <2>2. h1 \in Heap
    BY <1>4 DEF Like
  <2> HIDE DEF h1, g
  <2>3. Like(h1, g) /\ g.ret = 0
    BY <2>1, <2>2, ReturnLike, PointersAre
  <2>4. Like(h, g)
    BY <1>4, <2>3 DEF Like
  <2> QED BY <2>3, <2>4 DEF g
<1>5. CASE (const = 1 \/ h1.ret # NULL) /\ SetTo(h, h1, i, h.node[i], IF const = 1 THEN 0 ELSE 1)
  <2>1. g = AddToArray(h2, p, i)
    BY <1>1, <1>5 DEF AddToObject
  <2>2. h1 \in Heap /\ h1.node[i] = h.node[i]
    BY <1>1, <1>5 DEF SetTo
  <2> HIDE DEF h1
  <2>3. h2 = l
    <3>1. h1.strings - Count(OwnsKey(h.node[i])) = h1.strings + t
      BY <1>2, <2>2 DEF Heap
    <3> HIDE DEF t
    <3> QED BY <3>1
  <2>4. SetTo(h1, l, i, n, t)
    <3> HIDE DEF t
    <3> QED BY <1>1, <1>2, <2>2, RekeySets
  <2> HIDE DEF l, h2, n, t, g
  <2>5. SetTo(h, h2, i, n, s)
    <3>1. SetTo(h, h2, i, n, (IF const = 1 THEN 0 ELSE 1) + t)
      BY <1>1, <1>2, <1>5, <2>3, <2>4, SetTwice
    <3>2. (IF const = 1 THEN 0 ELSE 1) + t = s
      BY <1>2 DEF t
    <3> QED BY <3>1, <3>2
  <2>6. s = Count(k # NoKey /\ const = 0) - Count(OwnsKey(h.node[i]))
    BY DEF Count, Keys, NoKey
  <2> HIDE DEF s
  <2>7. /\ Sound(h2, f, R) /\ (Named(h, f) => Named(h2, f))
        /\ Alive(h2) = Alive(h) /\ Counted(h2, 0)
        /\ h2.node[i].key = k
    <3>1. k \in Keys \cup {NoKey} /\ const \in {0, 1} /\ i \in R
      OBVIOUS
    <3>2. SetTo(h, h2, i, n, s) /\ n = [h.node[i] EXCEPT !.key = k, !.const = const]
      BY <2>5 DEF n
    <3>3. Rekeyed(h, f, R, h2, i, k, const, s)
      BY <1>2, <3>1, <3>2, RekeyedOrder
    <3> QED BY <2>6, <3>3 DEF Rekeyed
  <2>8. Order(h2, f, R, u)
    BY <2>7 DEF Order
  <2>9. Owner(h2, p)
    <3>1. i # p
      <4>1. f \in [Items -> Seq(Items)]
        BY OrderFacts
      <4> QED BY <1>1, <4>1, WithinIs
    <3> QED BY <2>5, <3>1 DEF SetTo, Owner
  <2>10. k # NoKey
    BY DEF Keys, NoKey
  <2>11. LET a == AddToArray(h2, p, i) IN
         a.ret = 1 /\ Order(a, AtEnd(f, p, i), R \ {i}, u) /\ Alive(a) = Alive(h2)
    BY <2>7, <2>8, <2>9, <2>10, AddedOrder
  <2> QED BY <2>1, <2>7, <2>11 DEF g
<1> QED BY <1>3, <1>4, <1>5

\* What is made and given up is as if it had not been made.
LEMMA MadeAbandoned ==
    ASSUME NEW h, NEW f, NEW R, NEW u, Order(h, f, R, u), NEW g, NEW n, NewAs(h, g, n),
           NEW k, Like(g, k)
    PROVE  Like(h, Abandon(k, g.ret)) /\ Abandon(k, g.ret).ret = NULL
<1>1. Clean(h) /\ Scalar(n) /\ g.ret \in Items \ Alive(h) /\ SetTo(h, g, g.ret, n, Owns(n))
  BY OrderFacts DEF NewAs
<1>2. SetTo(h, k, g.ret, n, Owns(n))
  BY <1>1, SetLike
<1>3. n \in Node /\ n.kind # "free" /\ n.next = NULL /\ (n.ref # 0 \/ n.child = NULL)
  BY <1>1 DEF Scalar, Kinds
<1> QED BY <1>1, <1>2, <1>3, Undone

\* cJSON_Add...ToObject(): there is a new member, or nothing has changed.
LEMMA NewAdded ==
    ASSUME NEW h, NEW f, NEW R, NEW u, Order(h, f, R, u), NEW p \in Items, Owner(h, p),
           NEW k \in Keys, NEW kind \in Kinds
    PROVE  LET g == AddNewToObject(h, p, k, kind) IN
           \/ g.ret = NULL /\ Like(h, g)
           \/ /\ g.ret \in Items \ Alive(h) /\ Order(g, AtEnd(f, p, g.ret), R, u)
              /\ Alive(g) = Alive(h) \cup {g.ret}
<1> DEFINE g == AddNewToObject(h, p, k, kind)
           h1 == CreateItem(h, kind)
           c == h1.ret
           h2 == AddToObject(h1, p, k, c, 0)
<1>1. /\ Clean(h) /\ p \in Alive(h) /\ R \subseteq Alive(h) /\ h \in Heap
      /\ Alive(h) \subseteq Items
  BY OrderFacts DEF Alive, Owner
<1>2. Made(h, h1)
  BY <1>1, ItemMade
<1>3. g = IF c = NULL THEN h1 ELSE IF h2.ret = 1 THEN [h2 EXCEPT !.ret = c] ELSE Abandon(h2, c)
  BY DEF AddNewToObject
<1> HIDE DEF g, h1
<1>4. CASE c = NULL
  BY <1>2, <1>3, <1>4 DEF Made, g
<1>5. CASE c # NULL
  <2>1. PICK n : NewAs(h, h1, n)
    BY <1>2, <1>5 DEF Made
  <2>2. /\ Order(h1, f, R \cup {c}, u)
        /\ Alive(h1) = Alive(h) \cup {c} /\ h1.node[c] = n
        /\ \A j \in Alive(h) : h1.node[j] = h.node[j]
        /\ f[c] = <<>> /\ Within(f, c) = {c}
    <3>1. NewIs(h, f, R, u, h1, n)
      BY <2>1, NewOrder
    <3> QED BY <3>1 DEF NewIs
  <2>3. c \in Items \ Alive(h)
    BY <2>1 DEF NewAs
  <2>4. Owner(h1, p) /\ p \notin Within(f, c) /\ c \in R \cup {c}
    BY <1>1, <2>2, <2>3 DEF Owner
  <2>0. h2 = AddToObject(h1, p, k, c, 0)
    OBVIOUS
  <2> HIDE DEF h2, c
  <2>5. \/ h2.ret = 0 /\ Like(h1, h2)
        \/ h2.ret = 1 /\ Order(h2, AtEnd(f, p, c), (R \cup {c}) \ {c}, u) /\ Alive(h2) = Alive(h1)
    <3>1. ASSUME NEW const \in {0, 1}
          PROVE  LET a == AddToObject(h1, p, k, c, const) IN
                 \/ a.ret = 0 /\ Like(h1, a)
                 \/ a.ret = 1 /\ Order(a, AtEnd(f, p, c), (R \cup {c}) \ {c}, u) /\ Alive(a) = Alive(h1)
      BY <2>2, <2>4, ObjectAdd
    <3>2. 0 \in {0, 1}
      OBVIOUS
    <3> QED BY <2>0, <3>1, <3>2
  <2>6. CASE h2.ret = 0 /\ Like(h1, h2)
    <3>1. g = Abandon(h2, h1.ret)
      BY <1>3, <1>5, <2>6 DEF c
    <3>2. Like(h, Abandon(h2, h1.ret)) /\ Abandon(h2, h1.ret).ret = NULL
      BY <2>1, <2>6, MadeAbandoned
    <3> QED BY <3>1, <3>2 DEF g
  <2>7. CASE h2.ret = 1 /\ Order(h2, AtEnd(f, p, c), (R \cup {c}) \ {c}, u) /\ Alive(h2) = Alive(h1)
    <3>1. g = [h2 EXCEPT !.ret = c]
      BY <1>3, <1>5, <2>7
    <3>2. (R \cup {c}) \ {c} = R
      BY <1>1, <2>3
    <3>3. h2 \in Heap /\ Order(h2, AtEnd(f, p, c), R, u)
      BY <2>7, <3>2, OrderFacts
    <3>4. c \in Pointers
      BY <2>3, PointersAre
    <3>5. Like(h2, g) /\ g.ret = c
      BY <3>1, <3>3, <3>4, ReturnLike
    <3>6. Order(g, AtEnd(f, p, c), R, u) /\ Alive(g) = Alive(h2)
      BY <3>3, <3>5, LikeOrder
    <3> QED BY <2>2, <2>3, <2>7, <3>5, <3>6 DEF g
  <2> QED BY <2>5, <2>6, <2>7
<1> QED BY <1>4, <1>5

-----------------------------------------------------------------------------
\* Names: replace_item_in_object() and get_object_item()

\* replace_item_in_object() gives the replacement its new key, or none.
LEMMA RenamedOrder ==
    ASSUME NEW h, NEW f, NEW R, NEW u, Order(h, f, R, u), NEW r \in R, NEW k \in Keys
    PROVE  LET g == Rename(h, r, k) IN
           /\ Order(g, f, R, u) /\ Alive(g) = Alive(h)
           /\ g.node[r].key = IF g.ret = NULL THEN NoKey ELSE k
           /\ \A p \in Items : (Owner(g, p) <=> Owner(h, p)) /\ g.node[p].kind = h.node[p].kind
<1> DEFINE g == Rename(h, r, k)
           o == Count(OwnsKey(h.node[r]))
           h1 == [h EXCEPT !.strings = @ - o]
           h2 == Strdup(h1)
           l == IF h2.ret = NULL THEN NoKey ELSE k
           n == [h.node[r] EXCEPT !.key = l, !.const = 0]
           s == (IF h2.ret = NULL THEN 0 ELSE 1) - o
<1>1. h \in Heap /\ r \in Items
  BY OrderFacts
<1>2. o \in Int /\ l \in Keys \cup {NoKey}
  BY DEF Count
<1>3. g = [h2 EXCEPT !.node[r].key = l, !.node[r].const = 0]
  BY DEF Rename
<1> HIDE DEF g, o
<1>4. h1 \in Heap /\ SetTo(h, h1, r, h.node[r], 0 - o)
  <2>1. h.strings \in Int /\ h.strings - o \in Int /\ h.strings - o = h.strings + (0 - o)
    BY <1>1, <1>2 DEF Heap
  <2>2. h1 \in Heap /\ h1.status = h.status /\ h1.strings = h.strings - o /\ h1.node = h.node
    BY <1>1, <2>1 DEF Heap
  <2> HIDE DEF h1
  <2> QED BY <2>1, <2>2 DEF SetTo
<1> HIDE DEF h1
<1>5. SetTo(h1, h2, r, h1.node[r], IF h2.ret = NULL THEN 0 ELSE 1)
  <2>1. \/ h2.ret = NULL /\ Like(h1, h2)
        \/ h2.ret = 1 /\ \A i \in Items : SetTo(h1, h2, i, h1.node[i], 1)
    BY <1>4, StrdupIs
  <2> HIDE DEF h2
  <2> QED BY <1>1, <1>4, <2>1, LikeSet, PointersAre
<1>6. h1.node[r] = h.node[r]
  BY <1>1, <1>4 DEF SetTo
<1> HIDE DEF h2
<1>7. h2 \in Heap /\ h2.strings \in Int /\ h2.node[r] = h.node[r]
  BY <1>1, <1>5, <1>6 DEF SetTo, Heap
<1>8. SetTo(h2, g, r, n, 0) /\ g.ret = h2.ret
  <2>1. 0 \in {0, 1}
    OBVIOUS
  <2> HIDE DEF l
  <2>2. LET a == [h2 EXCEPT !.node[r].key = l, !.node[r].const = 0] IN
        SetTo(h2, a, r, [h2.node[r] EXCEPT !.key = l, !.const = 0], 0) /\ a.ret = h2.ret
    BY <1>1, <1>2, <1>7, <2>1, RekeyOnly
  <2>3. [h2.node[r] EXCEPT !.key = l, !.const = 0] = n
    BY <1>7
  <2> QED BY <1>3, <2>2, <2>3
<1>10. SetTo(h, h2, r, h.node[r], s)
  <2>1. (0 - o) \in Int /\ (IF h2.ret = NULL THEN 0 ELSE 1) \in Int
    BY <1>2
  <2>2. SetTo(h, h2, r, h.node[r], (0 - o) + (IF h2.ret = NULL THEN 0 ELSE 1))
    BY <1>1, <1>4, <1>5, <1>6, <2>1, SetTwice
  <2>3. (0 - o) + (IF h2.ret = NULL THEN 0 ELSE 1) = s
    BY <1>2
  <2> QED BY <2>2, <2>3
<1>11. s \in Int
  BY <1>2
<1>12. s = Count(l # NoKey /\ 0 = 0) - Count(OwnsKey(h.node[r]))
  BY DEF o, Count, Keys, NoKey
<1>13. n = [h.node[r] EXCEPT !.key = l, !.const = 0]
  OBVIOUS
<1> HIDE DEF n, s
<1>14. SetTo(h, g, r, n, s)
  <2>1. SetTo(h, g, r, n, s + 0)
    BY <1>1, <1>8, <1>10, <1>11, SetTwice, 0 \in Int
  <2> QED BY <1>11, <2>1
<1>15. g.ret = h2.ret
  BY <1>8
<1>20. l = IF g.ret = NULL THEN NoKey ELSE k
  BY <1>15
<1> HIDE DEF l
<1>16. Rekeyed(h, f, R, g, r, l, 0, s)
  BY <1>2, <1>11, <1>13, <1>14, RekeyedOrder, 0 \in {0, 1}
<1>17. /\ Sound(g, f, R) /\ (Named(h, f) => Named(g, f))
       /\ Alive(g) = Alive(h) /\ Counted(g, 0) /\ g.node[r].key = l
       /\ g.node[r].kind = h.node[r].kind /\ g.node[r].ref = h.node[r].ref
  BY <1>12, <1>16 DEF Rekeyed
<1>18. Order(g, f, R, u)
  BY <1>17 DEF Order
<1>19. \A p \in Items : (Owner(g, p) <=> Owner(h, p)) /\ g.node[p].kind = h.node[p].kind
  BY <1>14, <1>17 DEF SetTo, Owner
<1> QED BY <1>17, <1>18, <1>19, <1>20 DEF g

\* get_object_item() finds an item of the object or nothing, unless strcmp()
\* meets a name that is NULL.
LEMMA FindIs ==
    ASSUME NEW h, NEW f, NEW R, NEW u, Order(h, f, R, u), NEW p \in Items, Owner(h, p),
           h.node[p].kind = "object", NEW k \in Keys, NEW sensitive \in {0, 1}
    PROVE  LET i == Find(h, p, k, sensitive) IN
           \/ i = NULL
           \/ \E n \in 0 .. Len(f[p]) - 1 : i = f[p][n + 1] /\ i <= N
           \/ i = N + 1 /\ u # 0
<1> DEFINE q == ListFrom(h, h.node[p].child)
           hit(n) == SameKey(k, h.node[q[n]].key, sensitive)
           stop(n) == hit(n) \/ (sensitive = 1 /\ h.node[q[n]].key = NoKey)
           first(n) == stop(n) /\ \A m \in 1 .. n - 1 : ~stop(m)
           i == Find(h, p, k, sensitive)
<1>1. LinkedAs(h, f) /\ f[p] \in Seq(Items) /\ Len(f[p]) \in Nat
  BY OrderFacts, LinkedLists
<1>2. q = f[p]
  BY <1>1, ListFromIs
<1>3. i = IF k = NoKey \/ \A n \in 1 .. Len(q) : ~stop(n) THEN NULL
          ELSE LET n == CHOOSE n \in 1 .. Len(q) : first(n) IN IF hit(n) THEN q[n] ELSE N + 1
  BY DEF Find
<1> HIDE DEF q, i
<1>4. CASE k = NoKey \/ \A n \in 1 .. Len(q) : ~stop(n)
  <2> HIDE DEF stop
  <2>1. i = NULL
    BY <1>3, <1>4
  <2> QED BY <2>1 DEF i
<1>5. CASE ~(k = NoKey \/ \A n \in 1 .. Len(q) : ~stop(n))
  <2> DEFINE c == CHOOSE n \in 1 .. Len(q) : first(n)
             T == {n \in 1 .. Len(q) : stop(n)}
  <2>1. c \in 1 .. Len(q) /\ first(c)
    <3> HIDE DEF stop
    <3>1. T # {} /\ T \subseteq Nat
      BY <1>5
    <3>2. PICK a \in T : \A b \in T : a <= b
      BY <3>1, LeastNat
    <3>3. a \in 1 .. Len(q) /\ first(a)
      BY <1>1, <1>2, <3>2
    <3> HIDE DEF first
    <3> QED BY <3>3
  <2>2. i = IF hit(c) THEN q[c] ELSE N + 1
    <3> HIDE DEF stop, hit, first
    <3> QED BY <1>3, <1>5
  <2> HIDE DEF c
  <2>3. CASE hit(c)
    <3>1. c - 1 \in 0 .. Len(f[p]) - 1 /\ (c - 1) + 1 = c
      BY <1>1, <1>2, <2>1
    <3>2. i = f[p][(c - 1) + 1] /\ f[p][c] \in Items
      BY <1>1, <1>2, <2>1, <2>2, <2>3
    <3>3. i <= N
      BY <1>1, <1>2, <2>1, <2>2, <2>3, <3>2 DEF Items
    <3> QED BY <3>1, <3>2, <3>3 DEF i
  <2>4. CASE ~hit(c)
    <3>1. i = N + 1 /\ h.node[q[c]].key = NoKey
      BY <2>1, <2>2, <2>4
    <3>2. q[c] \in ItemsOf(f[p])
      BY <1>2, <2>1 DEF ItemsOf
    <3>3. u # 0
      BY <3>1, <3>2 DEF Order, Named
    <3> QED BY <3>1, <3>3 DEF i
  <2> QED BY <2>3, <2>4
<1> QED BY <1>4, <1>5

-----------------------------------------------------------------------------
\* What is in an item depends on the lists of what is in it.
LEMMA WithinSame ==
    ASSUME NEW f \in [Items -> Seq(Items)], NEW e \in [Items -> Seq(Items)], NEW a \in Items,
           \A j \in Within(f, a) : e[j] = f[j]
    PROVE  Within(e, a) = Within(f, a)
<1> DEFINE A == Within(f, a)
           B == Within(e, a)
           T == A \cap B
<1>1. /\ a \in A /\ A \subseteq Items /\ \A j \in A : ItemsOf(f[j]) \subseteq A
      /\ a \in B /\ B \subseteq Items /\ \A j \in B : ItemsOf(e[j]) \subseteq B
  BY WithinIs
<1>2. B \subseteq A
  <2>1. \A j \in A : ItemsOf(e[j]) \subseteq A
    BY <1>1
  <2>2. A \in SUBSET Items
    BY <1>1
  <2> HIDE DEF A
  <2> QED BY <1>1, <2>1, <2>2, WithinSmallest
<1>3. A \subseteq T
  <2>1. \A j \in T : ItemsOf(f[j]) \subseteq T
    <3> SUFFICES ASSUME NEW j \in T PROVE ItemsOf(f[j]) \subseteq T
      OBVIOUS
    <3>1. j \in A /\ j \in B /\ e[j] = f[j]
      OBVIOUS
    <3> QED BY <1>1, <3>1
  <2>2. T \in SUBSET Items /\ a \in T
    BY <1>1
  <2> HIDE DEF T
  <2> QED BY <2>1, <2>2, WithinSmallest
<1> QED BY <1>2, <1>3

\* An item added at the end is in what it is added to, with all that is in it.
LEMMA WithinAdded ==
    ASSUME NEW f \in [Items -> Seq(Items)], NEW a \in Items, NEW c \in Items
    PROVE  Within(AtEnd(f, a, c), a) = Within(f, a) \cup Within(f, c)
<1> DEFINE e == AtEnd(f, a, c)
           A == Within(f, a)
           C == Within(f, c)
           B == Within(e, a)
           T == A \cup C
<1>1. /\ e \in [Items -> Seq(Items)] /\ \A q \in Items \ {a} : e[q] = f[q]
      /\ e[a] = Append(f[a], c)
  BY DEF AtEnd
<1>2. ItemsOf(e[a]) = ItemsOf(f[a]) \cup {c}
  <2>1. f[a] \in Seq(Items)
    OBVIOUS
  <2> QED BY <1>1, <2>1, ItemsAdded
<1> HIDE DEF e
<1>3. /\ a \in A /\ A \subseteq Items /\ \A j \in A : ItemsOf(f[j]) \subseteq A
      /\ c \in C /\ C \subseteq Items /\ \A j \in C : ItemsOf(f[j]) \subseteq C
  BY WithinIs
<1>4. a \in B /\ B \subseteq Items /\ \A j \in B : ItemsOf(e[j]) \subseteq B
  BY <1>1, WithinIs
<1>5. B \subseteq T
  <2>1. \A j \in T : ItemsOf(e[j]) \subseteq T
    <3> SUFFICES ASSUME NEW j \in T PROVE ItemsOf(e[j]) \subseteq T
      OBVIOUS
    <3>1. j \in Items /\ ItemsOf(f[j]) \subseteq T
      BY <1>3
    <3>2. CASE j = a
      BY <1>2, <1>3, <3>1, <3>2
    <3>3. CASE j # a
      BY <1>1, <3>1, <3>3
    <3> QED BY <3>2, <3>3
  <2>2. T \in SUBSET Items /\ a \in T
    BY <1>3
  <2> HIDE DEF T
  <2> QED BY <1>1, <2>1, <2>2, WithinSmallest
<1>6. \A j \in B : ItemsOf(f[j]) \subseteq B
  <2> SUFFICES ASSUME NEW j \in B PROVE ItemsOf(f[j]) \subseteq B
    OBVIOUS
  <2>1. j \in Items /\ ItemsOf(e[j]) \subseteq B
    BY <1>4
  <2> QED BY <1>1, <1>2, <2>1
<1>7. c \in B /\ B \in SUBSET Items
  <2>1. ItemsOf(e[a]) \subseteq B
    BY <1>4
  <2> QED BY <1>2, <1>4, <2>1
<1>8. A \subseteq B /\ C \subseteq B
  <2> HIDE DEF B
  <2> QED BY <1>4, <1>6, <1>7, WithinSmallest
<1>9. B = T
  BY <1>5, <1>8
<1> QED BY <1>9 DEF e

-----------------------------------------------------------------------------
\* Arrays and objects that are built item by item

\* What was alive in h is in g as it was.
Untouched(h, f, g, e) ==
    Alive(h) \subseteq Alive(g) /\ \A j \in Alive(h) : g.node[j] = h.node[j] /\ e[j] = f[j]

\* The call returned a new item and made what is in it, or changed nothing.
Grown(h, f, R, u, g, e) ==
    /\ Untouched(h, f, g, e)
    /\ IF g.ret = NULL
       THEN Order(g, e, R, u) /\ Alive(g) = Alive(h)
       ELSE /\ Order(g, e, R \cup {g.ret}, u)
            /\ g.ret \in Items \ Alive(h) /\ Within(e, g.ret) = Alive(g) \ Alive(h)

\* Under way: item a is new, of the kind and name of n, and g.ret is its last
\* item or itself.
Building(h, f, R, u, g, e, a, n) ==
    /\ Untouched(h, f, g, e)
    /\ IF g.ret = NULL
       THEN Order(g, e, R, u) /\ Alive(g) = Alive(h)
       ELSE /\ Order(g, e, R \cup {a}, u)
            /\ a \in Items \ Alive(h) /\ Within(e, a) = Alive(g) \ Alive(h)
            /\ Owner(g, a) /\ g.node[a].kind = n.kind /\ g.node[a].key = n.key
            /\ g.ret = IF e[a] = <<>> THEN a ELSE e[a][Len(e[a])]

\* Nothing has changed in the lists if nothing was made.
LEMMA GrownNone ==
    ASSUME NEW h, NEW f, NEW R, NEW u, Order(h, f, R, u), NEW g, NEW e, NEW T, Order(g, e, T, u),
           Untouched(h, f, g, e), Alive(g) = Alive(h)
    PROVE  e = f
<1>1. /\ f \in [Items -> Seq(Items)] /\ \A i \in Items \ Alive(h) : f[i] = <<>>
  BY OrderFacts
<1>2. /\ e \in [Items -> Seq(Items)] /\ \A i \in Items \ Alive(g) : e[i] = <<>>
  BY OrderFacts
<1>3. \A i \in Items : e[i] = f[i]
  BY <1>1, <1>2 DEF Untouched
<1> QED BY <1>1, <1>2, <1>3

\* One more allocation failed: what was built so far is deleted.
LEMMA BuildingUndone ==
    ASSUME NEW h, NEW f, NEW R, NEW u, Order(h, f, R, u), NEW g, NEW e, NEW a, NEW n,
           Building(h, f, R, u, g, e, a, n), g.ret # NULL,
           NEW g1, NEW e1, Grown(g, e, R \cup {a}, u, g1, e1), g1.ret = NULL
    PROVE  LET x == Abandon(g1, a) IN x.ret = NULL /\ Building(h, f, R, u, x, f, a, n)
<1> DEFINE d == Delete(g1, a)
           W == Within(e, a)
           x == Abandon(g1, a)
<1>1. /\ Untouched(h, f, g, e) /\ Order(g, e, R \cup {a}, u)
      /\ a \in Items \ Alive(h) /\ Within(e, a) = Alive(g) \ Alive(h)
  BY DEF Building
<1>2. /\ Untouched(g, e, g1, e1) /\ Order(g1, e1, R \cup {a}, u) /\ Alive(g1) = Alive(g)
  BY DEF Grown
<1>3. e1 = e
  BY <1>1, <1>2, GrownNone
<1>4. a \in R \cup {a}
  OBVIOUS
<1>5. /\ Order(d, Emptied(e, W), (R \cup {a}) \ {a}, u)
      /\ Alive(d) = Alive(g1) \ W
      /\ \A j \in Items \ W : d.node[j] = g1.node[j]
  BY <1>2, <1>3, <1>4, DeletedOrder
<1>6. x = [d EXCEPT !.ret = NULL]
  BY DEF Abandon
<1> HIDE DEF d, W, x
<1>7. /\ R \subseteq Alive(h) /\ Alive(h) \subseteq Items
      /\ f \in [Items -> Seq(Items)] /\ \A i \in Items \ Alive(h) : f[i] = <<>>
  BY OrderFacts
<1>8. (R \cup {a}) \ {a} = R
  BY <1>1, <1>7
<1>9. Alive(d) = Alive(h)
  BY <1>1, <1>2, <1>5, <1>7 DEF Untouched, W
<1>10. Emptied(e, W) = f
  <2>1. \A i \in Items \ Alive(g) : e[i] = <<>>
    BY <1>1, OrderFacts
  <2>2. \A i \in Items : (IF i \in W THEN <<>> ELSE e[i]) = f[i]
    <3> SUFFICES ASSUME NEW i \in Items PROVE (IF i \in W THEN <<>> ELSE e[i]) = f[i]
      OBVIOUS
    <3>1. CASE i \in Alive(h)
      BY <1>1, <3>1 DEF Untouched, W
    <3>2. CASE i \notin Alive(h)
      BY <1>1, <1>7, <2>1, <3>2 DEF W
    <3> QED BY <3>1, <3>2
  <2> QED BY <1>7, <2>2 DEF Emptied
<1>11. Order(d, f, R, u)
  BY <1>5, <1>8, <1>10
<1>12. d \in Heap
  BY <1>11, OrderFacts
<1>13. Like(d, x) /\ x.ret = NULL
  BY <1>6, <1>12, ReturnLike, PointersAre
<1>14. Order(x, f, R, u) /\ Alive(x) = Alive(d)
  BY <1>11, <1>13, LikeOrder
<1>15. \A j \in Alive(h) : x.node[j] = h.node[j]
  <2> SUFFICES ASSUME NEW j \in Alive(h) PROVE x.node[j] = h.node[j]
    OBVIOUS
  <2>1. j \in Items \ W /\ j \in Alive(g)
    BY <1>1, <1>7 DEF W, Untouched
  <2>2. x.node[j] = d.node[j] /\ d.node[j] = g1.node[j] /\ g1.node[j] = g.node[j]
        /\ g.node[j] = h.node[j]
    BY <1>1, <1>2, <1>5, <1>13, <2>1 DEF Like, Untouched
  <2> QED BY <2>2
<1>16. Building(h, f, R, u, x, f, a, n)
  BY <1>9, <1>13, <1>14, <1>15 DEF Building, Untouched
<1> QED BY <1>13, <1>16 DEF x

-----------------------------------------------------------------------------
\* suffix_object() after the last item, or the first item of a: the same links
\* as add_item_to_array() sets.
LEMMA LinkedIsAdded ==
    ASSUME NEW g, NEW e, LinkedAs(g, e), g \in Heap, NEW a \in Items, Owner(g, a), NEW t,
           t.ret = (IF e[a] = <<>> THEN a ELSE e[a][Len(e[a])]), NEW c \in Items, g.ret = c,
           a \notin ItemsOf(e[a])
    PROVE  Like(AddToArray(g, a, c), Linked(t, g, a)) /\ Linked(t, g, a).ret = c
<1>1. c # NULL /\ a # NULL /\ NULL \in Pointers /\ 1 \in Pointers
  BY ItemNotNull, PointersAre
<1>2. e[a] \in Seq(Items) /\ g.node[a].child = IF e[a] = <<>> THEN NULL ELSE e[a][1]
  BY LinkedLists, LinkedChild
<1>3. CASE e[a] = <<>>
  <2> DEFINE x == [g EXCEPT !.node[a].child = c]
  <2>1. Linked(t, g, a) = x
    BY <1>1, <1>3 DEF Linked
  <2>2. AddToArray(g, a, c) = [x EXCEPT !.ret = 1]
    BY <1>1, <1>2, <1>3 DEF AddToArray
  <2>3. x \in Heap /\ x.ret = c
    <3>1. ChildSet(g, x, a, c)
      BY SetPointer, PointersAre
    <3>2. x.ret = g.ret
      BY DEF Heap
    <3> QED BY <3>1, <3>2 DEF ChildSet, Keeps
  <2> HIDE DEF x
  <2>4. Like(x, AddToArray(g, a, c))
    BY <1>1, <2>2, <2>3, ReturnLike
  <2>5. Like(AddToArray(g, a, c), x)
    BY <2>3, <2>4 DEF Like
  <2> QED BY <2>1, <2>3, <2>5
<1>4. CASE e[a] # <<>>
  <2> DEFINE l == e[a][Len(e[a])]
             y == [g EXCEPT !.node[l].next = c]
             x == Suffix(g, l, c)
  <2>1. l \in Items /\ l # a /\ l # NULL
    <3>1. Len(e[a]) \in 1 .. Len(e[a])
      BY <1>2, <1>4
    <3>2. l \in ItemsOf(e[a]) /\ l \in Items
      BY <1>2, <3>1 DEF ItemsOf
    <3> QED BY <3>2, ItemNotNull
  <2>2. Last(g, g.node[a].child) = l
    BY <1>4, LastIs
  <2>3. g.node[a].child # NULL
    BY <1>2, <1>4, ItemNotNull
  <2>4. t.ret = l
    BY <1>4
  <2>5. x = [y EXCEPT !.node[c].prev = l]
    BY DEF Suffix
  <2> HIDE DEF l, y, x
  <2>6. Linked(t, g, a) = x
    BY <1>1, <2>1, <2>4 DEF Linked, x
  <2>7. AddToArray(g, a, c) = [x EXCEPT !.ret = 1]
    BY <1>1, <2>2, <2>3 DEF AddToArray, x
  <2>8. x \in Heap /\ x.ret = c
    <3>1. NextSet(g, y, l, c) /\ y.ret = g.ret
      <4>1. NextSet(g, y, l, c)
        BY <2>1, SetPointer, PointersAre DEF y
      <4>2. y.ret = g.ret
        BY DEF y, Heap
      <4> QED BY <4>1, <4>2
    <3>2. y \in Heap
      BY <3>1 DEF NextSet, Keeps
    <3>3. PrevSet(y, x, c, l)
      BY <2>1, <2>5, <3>2, SetPointer, PointersAre
    <3>4. x.ret = y.ret
      BY <2>5, <3>2 DEF Heap
    <3> QED BY <3>1, <3>3, <3>4 DEF PrevSet, Keeps
  <2>9. Like(x, AddToArray(g, a, c))
    BY <1>1, <2>7, <2>8, ReturnLike
  <2>10. Like(AddToArray(g, a, c), x)
    BY <2>8, <2>9 DEF Like
  <2> QED BY <2>6, <2>8, <2>10
<1> QED BY <1>3, <1>4

\* One more item is linked.
LEMMA BuildingMore ==
    ASSUME NEW h, NEW f, NEW R, NEW u, Order(h, f, R, u), NEW g, NEW e, NEW a, NEW n,
           Building(h, f, R, u, g, e, a, n), g.ret # NULL,
           NEW g1, NEW e1, Grown(g, e, R \cup {a}, u, g1, e1), g1.ret # NULL,
           u = 0 => (n.kind = "object" => g1.node[g1.ret].key # NoKey)
    PROVE  LET x == Linked(g, g1, a) IN
           x.ret # NULL /\ Building(h, f, R, u, x, AtEnd(e1, a, g1.ret), a, n)
<1> DEFINE c == g1.ret
           b == AddToArray(g1, a, c)
           x == Linked(g, g1, a)
           o == AtEnd(e1, a, c)
<1>1. /\ Untouched(h, f, g, e) /\ Order(g, e, R \cup {a}, u)
      /\ a \in Items \ Alive(h) /\ Within(e, a) = Alive(g) \ Alive(h)
      /\ Owner(g, a) /\ g.node[a].kind = n.kind /\ g.node[a].key = n.key
      /\ g.ret = IF e[a] = <<>> THEN a ELSE e[a][Len(e[a])]
  BY DEF Building
<1>2. /\ Untouched(g, e, g1, e1) /\ Order(g1, e1, (R \cup {a}) \cup {c}, u)
      /\ c \in Items \ Alive(g) /\ Within(e1, c) = Alive(g1) \ Alive(g)
  BY DEF Grown
<1> HIDE DEF c
<1>3. /\ R \subseteq Alive(h) /\ Alive(h) \subseteq Items /\ f \in [Items -> Seq(Items)]
  BY OrderFacts
<1>4. /\ e \in [Items -> Seq(Items)] /\ a \in Alive(g) /\ Alive(g) \subseteq Items
      /\ \A p \in Items : ItemsOf(e[p]) \subseteq Alive(g)
  BY <1>1, OrderFacts
<1>5. /\ e1 \in [Items -> Seq(Items)] /\ g1 \in Heap /\ LinkedAs(g1, e1) /\ Alive(g1) \subseteq Items
      /\ Sound(g1, e1, (R \cup {a}) \cup {c})
  BY <1>2, OrderFacts
<1>6. a \in Items /\ g1.node[a] = g.node[a] /\ e1[a] = e[a] /\ Owner(g1, a)
  BY <1>1, <1>2, <1>4 DEF Untouched, Owner
<1>7. a \notin Within(e1, c)
  BY <1>2, <1>4
<1>8. a \notin ItemsOf(e1[a])
  <2>1. Loose(g1, e1, a)
    BY <1>5 DEF Sound
  <2> QED BY <1>6, <2>1, LooseIs
<1>9. b.ret = 1 /\ Order(b, o, ((R \cup {a}) \cup {c}) \ {c}, u) /\ Alive(b) = Alive(g1)
  <2>1. u = 0 => (g1.node[a].kind = "object" => g1.node[c].key # NoKey)
    BY <1>1, <1>6 DEF c
  <2>2. c \in (R \cup {a}) \cup {c}
    OBVIOUS
  <2> QED BY <1>2, <1>6, <1>7, <2>1, <2>2, AddedOrder
<1>10. Like(b, x) /\ x.ret = c
  <2>1. LinkedAs(g1, e1) /\ g1 \in Heap /\ a \in Items /\ Owner(g1, a) /\ c \in Items /\ g1.ret = c
        /\ a \notin ItemsOf(e1[a])
    BY <1>2, <1>5, <1>6, <1>8 DEF c
  <2>2. g.ret = (IF e1[a] = <<>> THEN a ELSE e1[a][Len(e1[a])])
    BY <1>1, <1>6
  <2> QED BY <2>1, <2>2, LinkedIsAdded
<1>11. Elsewhere(g1, b, ItemsOf(e1[a]) \cup {a, c}) /\ Keeps(g1, b)
  BY <1>2, <1>5, <1>6, AddElsewhere
<1> HIDE DEF b, x
<1>12. ((R \cup {a}) \cup {c}) \ {c} = R \cup {a}
  BY <1>2, <1>3, <1>4, <1>1 DEF Untouched
<1>13. Order(x, o, R \cup {a}, u) /\ Alive(x) = Alive(g1)
  <2>1. Order(b, o, R \cup {a}, u)
    BY <1>9, <1>12
  <2> QED BY <1>9, <1>10, <2>1, LikeOrder
<1>14. /\ o[a] = Append(e1[a], c) /\ \A q \in Items \ {a} : o[q] = e1[q]
  BY <1>5, <1>6 DEF AtEnd
<1>15. Within(o, a) = Within(e1, a) \cup Within(e1, c)
  BY <1>2, <1>5, <1>6, WithinAdded
<1> HIDE DEF o
<1>16. Within(e1, a) = Within(e, a)
  <2>1. \A j \in Within(e, a) : e1[j] = e[j]
    BY <1>1, <1>2 DEF Untouched
  <2> QED BY <1>4, <1>5, <1>6, <2>1, WithinSame
<1>17. Within(o, a) = Alive(x) \ Alive(h)
  BY <1>1, <1>2, <1>13, <1>15, <1>16 DEF Untouched
<1>18. Untouched(h, f, x, o)
  <2>1. Alive(h) \subseteq Alive(x)
    BY <1>1, <1>2, <1>13 DEF Untouched
  <2>2. ASSUME NEW j \in Alive(h) PROVE x.node[j] = h.node[j] /\ o[j] = f[j]
    <3>1. j \in Alive(g) /\ j \in Items /\ j # a /\ j # c
      BY <1>1, <1>2, <1>3 DEF Untouched
    <3>2. j \notin ItemsOf(e1[a])
      <4>1. ItemsOf(e[a]) \subseteq Within(e, a)
        BY <1>4, <1>6, WithinIs
      <4> QED BY <1>1, <1>6, <4>1
    <3>3. b.node[j] = g1.node[j]
      BY <1>11, <3>1, <3>2 DEF Elsewhere
    <3>4. x.node[j] = b.node[j]
      BY <1>10, <3>1 DEF Like
    <3>5. o[j] = e1[j]
      BY <1>14, <3>1
    <3> QED BY <1>1, <1>2, <3>1, <3>3, <3>4, <3>5 DEF Untouched
  <2> QED BY <2>1, <2>2 DEF Untouched
<1>19. Owner(x, a) /\ x.node[a].kind = n.kind /\ x.node[a].key = n.key
  <2>1. x.node[a] = b.node[a] /\ b.node[a].kind = g1.node[a].kind /\ b.node[a].ref = g1.node[a].ref
        /\ b.node[a].key = g1.node[a].key
    BY <1>6, <1>10, <1>11 DEF Like, Keeps
  <2> QED BY <1>1, <1>6, <2>1 DEF Owner
<1>20. x.ret = IF o[a] = <<>> THEN a ELSE o[a][Len(o[a])]
  <2>1. e1[a] \in Seq(Items)
    BY <1>5, <1>6
  <2>2. o[a] # <<>> /\ o[a][Len(o[a])] = c
    BY <1>14, <2>1
  <2> QED BY <1>10, <2>2
<1>21. c # NULL
  BY DEF c
<1>22. Building(h, f, R, u, x, o, a, n)
  BY <1>1, <1>10, <1>13, <1>17, <1>18, <1>19, <1>20, <1>21 DEF Building
<1> QED BY <1>10, <1>21, <1>22 DEF x, o, c

\* One step of the loops that build arrays and objects.
LEMMA BuildingStep ==
    ASSUME NEW h, NEW f, NEW R, NEW u, Order(h, f, R, u), NEW g, NEW e, NEW a, NEW n,
           Building(h, f, R, u, g, e, a, n), g.ret # NULL,
           NEW g1, NEW e1, Grown(g, e, R \cup {a}, u, g1, e1),
           g1.ret # NULL => (u = 0 => (n.kind = "object" => g1.node[g1.ret].key # NoKey))
    PROVE  \E o : Building(h, f, R, u, Linked(g, g1, a), o, a, n)
<1>1. CASE g1.ret = NULL
  <2>1. Linked(g, g1, a) = Abandon(g1, a)
    BY <1>1 DEF Linked
  <2>2. Building(h, f, R, u, Abandon(g1, a), f, a, n)
    BY <1>1, BuildingUndone
  <2> QED BY <2>1, <2>2
<1>2. CASE g1.ret # NULL
  BY <1>2, BuildingMore
<1> QED BY <1>1, <1>2

\* The loop begins with a new array or object that has no items.
LEMMA BuildingFirst ==
    ASSUME NEW h, NEW f, NEW R, NEW u, Order(h, f, R, u), NEW g, NEW n, NewAs(h, g, n), n.ref = 0
    PROVE  Building(h, f, R, u, g, f, g.ret, n)
<1>1. /\ Order(g, f, R \cup {g.ret}, u)
      /\ Alive(g) = Alive(h) \cup {g.ret} /\ g.node[g.ret] = n
      /\ \A j \in Alive(h) : g.node[j] = h.node[j]
      /\ f[g.ret] = <<>> /\ Within(f, g.ret) = {g.ret}
  <2>1. NewIs(h, f, R, u, g, n)
    BY NewOrder
  <2> QED BY <2>1 DEF NewIs
<1>2. g.ret \in Items \ Alive(h) /\ Scalar(n)
  BY DEF NewAs
<1>3. g.ret # NULL
  BY <1>2, ItemNotNull
<1>4. Owner(g, g.ret)
  BY <1>1, <1>2 DEF Owner, Scalar, Kinds
<1>5. Within(f, g.ret) = Alive(g) \ Alive(h)
  BY <1>1, <1>2
<1> QED BY <1>1, <1>2, <1>3, <1>4, <1>5 DEF Building, Untouched

\* The array or object is returned, or NULL.
LEMMA BuildingDone ==
    ASSUME NEW h, NEW f, NEW R, NEW u, Order(h, f, R, u), NEW g, NEW e, NEW a, NEW n,
           Building(h, f, R, u, g, e, a, n)
    PROVE  /\ Grown(h, f, R, u, Handed(g, a), e)
           /\ Handed(g, a).ret # NULL =>
                 Handed(g, a).ret = a /\ Handed(g, a).node[a].key = n.key
<1>1. CASE g.ret = NULL
  <2>1. Handed(g, a) = g
    BY <1>1 DEF Handed
  <2> QED BY <1>1, <2>1 DEF Building, Grown
<1>2. CASE g.ret # NULL
  <2> DEFINE x == Handed(g, a)
  <2>1. x = [g EXCEPT !.ret = a]
    BY <1>2 DEF Handed
  <2>2. /\ Untouched(h, f, g, e) /\ Order(g, e, R \cup {a}, u)
        /\ a \in Items \ Alive(h) /\ Within(e, a) = Alive(g) \ Alive(h)
        /\ g.node[a].key = n.key
    BY <1>2 DEF Building
  <2>3. g \in Heap /\ a \in Pointers /\ a # NULL
    BY <2>2, OrderFacts, PointersAre
  <2> HIDE DEF x
  <2>4. Like(g, x) /\ x.ret = a
    BY <2>1, <2>3, ReturnLike
  <2>5. Order(x, e, R \cup {a}, u) /\ Alive(x) = Alive(g)
    BY <2>2, <2>4, LikeOrder
  <2>6. Untouched(h, f, x, e)
    BY <2>2, <2>4, <2>5 DEF Untouched, Like, Alive
  <2>7. Grown(h, f, R, u, x, e)
    BY <2>2, <2>3, <2>4, <2>5, <2>6 DEF Grown
  <2>8. x.node[a].key = n.key
    BY <2>2, <2>4 DEF Like
  <2> QED BY <2>4, <2>7, <2>8 DEF x
<1> QED BY <1>1, <1>2

\* What is made by a call that makes one item.
LEMMA MadeGrown ==
    ASSUME NEW h, NEW f, NEW R, NEW u, Order(h, f, R, u), NEW g, Made(h, g)
    PROVE  Grown(h, f, R, u, g, f)
<1>1. CASE g.ret = NULL
  <2>1. Like(h, g)
    BY <1>1 DEF Made
  <2>2. Order(g, f, R, u) /\ Alive(g) = Alive(h)
    BY <2>1, LikeOrder
  <2>3. Untouched(h, f, g, f)
    BY <2>1, <2>2 DEF Untouched, Like, Alive
  <2> QED BY <1>1, <2>2, <2>3 DEF Grown
<1>2. CASE g.ret # NULL
  <2>1. PICK n : NewAs(h, g, n)
    BY <1>2 DEF Made
  <2>2. /\ Order(g, f, R \cup {g.ret}, u)
        /\ Alive(g) = Alive(h) \cup {g.ret}
        /\ \A j \in Alive(h) : g.node[j] = h.node[j]
        /\ f[g.ret] = <<>> /\ Within(f, g.ret) = {g.ret}
    <3>1. NewIs(h, f, R, u, g, n)
      BY <2>1, NewOrder
    <3> QED BY <3>1 DEF NewIs
  <2>3. g.ret \in Items \ Alive(h)
    BY <2>1 DEF NewAs
  <2> QED BY <1>2, <2>2, <2>3 DEF Grown, Untouched
<1> QED BY <1>1, <1>2

-----------------------------------------------------------------------------
\* cJSON_CreateIntArray() and its like

\* The values of a loop that begins with a and goes on by G, L times.
LEMMA LoopIs ==
    ASSUME NEW S, NEW a \in S, NEW L \in Nat, NEW G \in [1 .. L -> [S -> S]]
    PROVE  \E d : Steps(d, L, S, a, G)
<1> DEFINE H == [n \in Nat |-> IF n \in 1 .. L THEN G[n] ELSE [x \in S |-> x]]
<1>1. H \in [Nat -> [S -> S]]
  OBVIOUS
<1>2. \A m \in 1 .. L : H[m] = G[m]
  OBVIOUS
<1> HIDE DEF H
<1>3. PICK d : Recursion(d, S, a, H)
  BY <1>1, RecursionIs
<1>4. d \in [Nat -> S] /\ \A n \in Nat : d[n] = IF n = 0 THEN a ELSE H[n][d[n - 1]]
  BY <1>3 DEF Recursion
<1> DEFINE c == [m \in 0 .. L |-> d[m]]
<1>5. c \in [0 .. L -> S] /\ c[0] = a
  BY <1>4
<1>6. ASSUME NEW m \in 1 .. L PROVE c[m] = G[m][c[m - 1]]
  <2>1. m \in Nat /\ m # 0 /\ m - 1 \in 0 .. L /\ m \in 0 .. L
    OBVIOUS
  <2> QED BY <1>2, <1>4, <2>1
<1> QED BY <1>5, <1>6 DEF Steps

\* What holds at the beginning of a loop and after each step holds at the end.
LEMMA LoopStays ==
    ASSUME NEW S, NEW L \in Nat, NEW g, g[0] \in S, \A m \in 1 .. L : g[m - 1] \in S => g[m] \in S
    PROVE  g[L] \in S
<1> DEFINE T == {n \in Nat : n <= L => g[n] \in S}
<1>1. 0 \in T
  OBVIOUS
<1>2. ASSUME NEW n \in Nat, n \in T PROVE n + 1 \in T
  <2> SUFFICES ASSUME n + 1 <= L PROVE g[n + 1] \in S
    OBVIOUS
  <2>1. n + 1 \in 1 .. L /\ g[n] \in S /\ (n + 1) - 1 = n
    BY <1>2
  <2> QED BY <2>1
<1> HIDE DEF T
<1>3. \A n \in Nat : n \in T
  BY <1>1, <1>2, AllNat
<1> QED BY <1>3 DEF T

-----------------------------------------------------------------------------
\* cJSON_CreateIntArray() and its like: an array of new items, or nothing.
LEMMA ArrayMade ==
    ASSUME NEW h, NEW f, NEW R, NEW u, Order(h, f, R, u), NEW kind \in Kinds, NEW count \in Nat
    PROVE  \E e : Grown(h, f, R, u, CreateArrayOf(h, kind, count), e)
<1> DEFINE h1 == CreatePlain(h, "array")
           a == h1.ret
           blank == [Blank EXCEPT !.kind = "array"]
           S == {x \in Heap : \E e : Building(h, f, R, u, x, e, a, blank)}
           next(x) == Linked(x, CreateItem(x, kind), a)
           G == [n \in 1 .. count |-> [x \in S |-> next(x)]]
           v(e, n) == IF n = 0 THEN h1 ELSE Linked(e[n - 1], CreateItem(e[n - 1], kind), h1.ret)
           body(e) == [n \in 0 .. count |-> v(e, n)]
           g == CHOOSE e : e = body(e)
<1>1. CreateArrayOf(h, kind, count) = IF h1.ret = NULL THEN h1 ELSE Handed(g[count], h1.ret)
  BY Zenon DEF CreateArrayOf
<1>2. Clean(h)
  BY OrderFacts
<1>3. Made(h, h1) /\ (h1.ret # NULL => NewAs(h, h1, [Blank EXCEPT !.kind = "array"]))
  <2>1. "array" \in Kinds \ {"string"}
    BY DEF Kinds
  <2> QED BY <1>2, <2>1, PlainMade
<1>4. CASE h1.ret = NULL
  <2>1. Grown(h, f, R, u, h1, f)
    BY <1>3, MadeGrown
  <2> QED BY <1>1, <1>4, <2>1
<1>5. CASE h1.ret # NULL
  <2>1. h1 \in S
    <3>1. NewAs(h, h1, blank) /\ blank.ref = 0
      BY <1>3, <1>5 DEF Blank
    <3> HIDE DEF h1, blank
    <3>2. Building(h, f, R, u, h1, f, h1.ret, blank)
      BY <3>1, BuildingFirst
    <3>3. h1 \in Heap
      BY <3>1 DEF NewAs, SetTo
    <3> QED BY <3>2, <3>3
  <2>2. ASSUME NEW x \in S PROVE next(x) \in S
    <3>1. PICK e : Building(h, f, R, u, x, e, a, blank)
      OBVIOUS
    <3> HIDE DEF a, blank
    <3>0. blank.kind # "object"
      BY DEF blank, Blank
    <3>2. CASE x.ret = NULL
      <4>1. next(x) = x
        BY <3>2 DEF Linked
      <4> QED BY <4>1
    <3>3. CASE x.ret # NULL
      <4>1. Order(x, e, R \cup {a}, u)
        BY <3>1, <3>3 DEF Building
      <4>2. Made(x, CreateItem(x, kind))
        BY <4>1, OrderFacts, ItemMade
      <4>3. Grown(x, e, R \cup {a}, u, CreateItem(x, kind), e)
        BY <4>1, <4>2, MadeGrown
      <4>4. PICK o : Building(h, f, R, u, next(x), o, a, blank)
        BY <3>0, <3>1, <3>3, <4>3, BuildingStep
      <4> HIDE DEF next
      <4>5. next(x) \in Heap
        BY <4>4, OrderFacts DEF Building
      <4> QED BY <4>4, <4>5
    <3> QED BY <3>2, <3>3
  <2>3. g = body(g)
    <3>1. G \in [1 .. count -> [S -> S]]
      BY <2>2
    <3> HIDE DEF S, next, h1, a
    <3>2. PICK d : Steps(d, count, S, h1, G)
      <4> HIDE DEF G
      <4> QED BY <2>1, <3>1, LoopIs
    <3>3. d \in [0 .. count -> S] /\ d[0] = h1 /\ \A m \in 1 .. count : d[m] = next(d[m - 1])
      <4>1. d \in [0 .. count -> S] /\ d[0] = h1 /\ \A m \in 1 .. count : d[m] = G[m][d[m - 1]]
        BY <3>2 DEF Steps
      <4>2. \A m \in 1 .. count : d[m - 1] \in S
        BY <4>1
      <4> QED BY <4>1, <4>2
    <3>4. d = body(d)
      <4>1. ASSUME NEW m \in 0 .. count PROVE d[m] = v(d, m)
        BY <3>3, <4>1 DEF next, a
      <4> HIDE DEF v
      <4> QED BY <3>3, <4>1
    <3> HIDE DEF body
    <3> QED BY <3>4, Zenon
  <2>4. /\ g[0] = h1 /\ \A m \in 1 .. count : g[m] = next(g[m - 1])
    <3> HIDE DEF g, h1
    <3>1. \A m \in 0 .. count : g[m] = v(g, m)
      BY <2>3, Zenon
    <3>2. 0 \in 0 .. count /\ \A m \in 1 .. count : m \in 0 .. count /\ m # 0
      OBVIOUS
    <3> QED BY <3>1, <3>2
  <2> HIDE DEF g, h1, a, next, S, blank
  <2>5. g[count] \in S
    BY <2>1, <2>2, <2>4, LoopStays
  <2>6. PICK e : Building(h, f, R, u, g[count], e, a, blank)
    BY <2>5 DEF S
  <2>7. Grown(h, f, R, u, Handed(g[count], a), e)
    BY <2>6, BuildingDone
  <2> QED BY <1>1, <1>5, <2>7 DEF a
<1> QED BY <1>4, <1>5

-----------------------------------------------------------------------------
\* Heaps of which nothing is known but their type

\* Following pointers from c, in any heap.
LEMMA PathTyped ==
    ASSUME NEW h \in Heap, NEW c \in Pointers
    PROVE  /\ Path(h, c) \in [Nat -> Pointers] /\ Path(h, c)[0] = c
           /\ \A n \in Nat : Path(h, c)[n] = NULL => Path(h, c)[n + 1] = NULL
<1> DEFINE follower == [i \in Nat |-> IF i = NULL THEN NULL ELSE h.node[i].next]
           body(a) == [n \in Nat |-> IF n = 0 THEN c ELSE follower[a[n - 1]]]
           G == [n \in Nat |-> [x \in Pointers |-> follower[x]]]
           at == CHOOSE a : a = body(a)
<1>0. Pointers \subseteq Nat /\ NULL \in Nat
  BY HeapAssumption DEF Pointers, Items, NULL
<1>1. \A x \in Pointers : follower[x] \in Pointers
  BY <1>0, Pointed, PointersAre
<1>2. G \in [Nat -> [Pointers -> Pointers]]
  BY <1>1
<1>3. follower[NULL] = NULL
  BY <1>0
<1> HIDE DEF follower
<1>4. PICK d : Recursion(d, Pointers, c, G)
  <2> HIDE DEF G
  <2> QED BY <1>2, RecursionIs
<1>5. d \in [Nat -> Pointers] /\ \A n \in Nat : d[n] = IF n = 0 THEN c ELSE follower[d[n - 1]]
  <2>1. d \in [Nat -> Pointers] /\ \A n \in Nat : d[n] = IF n = 0 THEN c ELSE G[n][d[n - 1]]
    BY <1>4 DEF Recursion
  <2>2. \A n \in Nat : n # 0 => d[n - 1] \in Pointers
    BY <2>1
  <2> QED BY <2>1, <2>2
<1>6. d = body(d)
  BY <1>5
<1>7. at = body(at)
  <2> HIDE DEF body
  <2> QED BY <1>6, Zenon
<1>8. at = Path(h, c)
  BY DEF Path, follower
<1> HIDE DEF at
<1>9. at[0] = c /\ \A n \in Nat : at[n + 1] = follower[at[n]]
  BY <1>7
<1>10. \A n \in Nat : at[n] \in Pointers
  <2> DEFINE T == {n \in Nat : at[n] \in Pointers}
  <2>1. 0 \in T
    BY <1>9
  <2>2. \A n \in Nat : n \in T => n + 1 \in T
    BY <1>1, <1>9
  <2>3. \A n \in Nat : n \in T
    <3> HIDE DEF T
    <3> QED BY <2>1, <2>2, AllNat
  <2> QED BY <2>3
<1>11. at \in [Nat -> Pointers]
  BY <1>7, <1>10
<1> QED BY <1>3, <1>8, <1>9, <1>11

\* What is found along a list, in any heap, are items.
LEMMA ListFromTyped ==
    ASSUME NEW h \in Heap, NEW c \in Pointers
    PROVE  ListFrom(h, c) \in Seq(Items)
<1> DEFINE at == Path(h, c)
           last(n) == at[n] = NULL \/ n = N + 1
           good(n) == last(n) /\ (n = 0 \/ at[n - 1] # NULL)
           length == CHOOSE n \in 0 .. N + 1 : good(n)
<1>1. at \in [Nat -> Pointers] /\ \A n \in Nat : at[n] = NULL => at[n + 1] = NULL
  BY PathTyped
<1> HIDE DEF at
<1>2. \E n \in 0 .. N + 1 : good(n)
  <2> DEFINE T == {n \in Nat : last(n)}
  <2>1. T \subseteq Nat /\ T # {} /\ N + 1 \in T
    BY HeapAssumption
  <2>2. PICK k \in T : \A j \in T : k <= j
    <3> HIDE DEF T
    <3> QED BY <2>1, LeastNat
  <2>3. k \in 0 .. N + 1 /\ last(k)
    BY <2>1, <2>2, HeapAssumption
  <2>4. k = 0 \/ at[k - 1] # NULL
    <3> SUFFICES ASSUME k # 0, at[k - 1] = NULL PROVE FALSE
      OBVIOUS
    <3>1. k - 1 \in T
      BY <2>3
    <3> QED BY <2>2, <2>3, <3>1
  <2> QED BY <2>3, <2>4
<1>3. length \in 0 .. N + 1 /\ good(length)
  <2> HIDE DEF good
  <2> QED BY <1>2
<1>4. ListFrom(h, c) = [n \in 1 .. length |-> at[n - 1]]
  BY DEF ListFrom, at
<1> HIDE DEF length
<1>5. ASSUME NEW m \in Nat, m < length PROVE at[m] # NULL
  <2> SUFFICES ASSUME at[m] = NULL PROVE FALSE
    OBVIOUS
  <2> DEFINE T == {k \in Nat : at[m + k] = NULL}
  <2>1. 0 \in T
    OBVIOUS
  <2>2. \A k \in Nat : k \in T => k + 1 \in T
    <3> SUFFICES ASSUME NEW k \in Nat, k \in T PROVE k + 1 \in T
      OBVIOUS
    <3>1. m + k \in Nat /\ (m + k) + 1 = m + (k + 1)
      OBVIOUS
    <3> QED BY <1>1, <3>1
  <2>3. \A k \in Nat : k \in T
    <3> HIDE DEF T
    <3> QED BY <2>1, <2>2, AllNat
  <2>4. (length - 1) - m \in Nat /\ m + ((length - 1) - m) = length - 1 /\ length # 0
    BY <1>3, <1>5
  <2>5. at[length - 1] = NULL
    BY <2>3, <2>4
  <2> QED BY <1>3, <2>4, <2>5
<1>6. ASSUME NEW n \in 1 .. length PROVE at[n - 1] \in Items
  <2>1. n - 1 \in Nat /\ n - 1 < length
    BY <1>3
  <2> QED BY <1>1, <1>5, <2>1, PointersAre
<1>7. length \in Nat
  BY <1>3, HeapAssumption
<1> QED BY <1>4, <1>6, <1>7

\* A list that is linked as s is what is found.
LEMMA ListFromPath ==
    ASSUME NEW h, NEW c, NEW s \in Seq(Items), Len(s) <= N,
           c = IF s = <<>> THEN NULL ELSE s[1],
           \A n \in 1 .. Len(s) : h.node[s[n]].next = IF n = Len(s) THEN NULL ELSE s[n + 1]
    PROVE  ListFrom(h, c) = s
<1> DEFINE at == Path(h, c)
           last(n) == at[n] = NULL \/ n = N + 1
           good(n) == last(n) /\ (n = 0 \/ at[n - 1] # NULL)
           length == CHOOSE n \in 0 .. N + 1 : good(n)
<1>1. \A n \in Nat : at[n] = IF n < Len(s) THEN s[n + 1] ELSE NULL
  BY PathOf
<1>2. ListFrom(h, c) = [n \in 1 .. length |-> at[n - 1]]
  BY DEF ListFrom
<1> HIDE DEF at
<1>3. \A n \in Nat : at[n] # NULL <=> n < Len(s)
  BY <1>1, ItemNotNull
<1>4. \A n \in 0 .. N + 1 : good(n) <=> n = Len(s)
  <2> SUFFICES ASSUME NEW n \in 0 .. N + 1
               PROVE  good(n) <=> n = Len(s)
    OBVIOUS
  <2>1. n # 0 => (at[n - 1] # NULL <=> n - 1 < Len(s))
    BY <1>3, HeapAssumption
  <2>2. at[n] # NULL <=> n < Len(s)
    BY <1>3, HeapAssumption
  <2> QED BY <2>1, <2>2, HeapAssumption
<1>5. length = Len(s)
  <2> HIDE DEF good
  <2> QED BY <1>4, HeapAssumption
<1> HIDE DEF length
<1>6. \A n \in 1 .. Len(s) : at[n - 1] = s[n]
  BY <1>1
<1>7. s = [n \in 1 .. Len(s) |-> s[n]]
  OBVIOUS
<1> QED BY <1>2, <1>5, <1>6, <1>7

-----------------------------------------------------------------------------
\* In any heap whatever

\* cJSON_Delete() makes a heap of any heap.
LEMMA DeleteAny ==
    ASSUME NEW h \in Heap, NEW i \in Pointers, NEW r \in Pointers
    PROVE  /\ Delete(h, i) \in Heap /\ Abandon(h, i) \in Heap
           /\ [h EXCEPT !.ret = r] \in Heap
<1>1. \A x \in Heap : [x EXCEPT !.ret = NULL] \in Heap /\ [x EXCEPT !.ret = r] \in Heap
  BY PointersAre DEF Heap
<1>2. Delete(h, i) \in Heap
  <2>1. DeleteIn[N] \in Deletes
    BY DeleteInIs, HeapAssumption
  <2> QED BY <2>1 DEF Deletes, Delete
<1> QED BY <1>1, <1>2 DEF Abandon

\* cJSON_New_Item() and cJSON_strdup() make heaps of any heap.
LEMMA NewAny ==
    ASSUME NEW h \in Heap
    PROVE  NewItem(h) \in Heap /\ Strdup(h) \in Heap
<1>1. NewItem(h) \in Heap
  BY NewItemIs DEF Like, SetTo
<1>2. Strdup(h) \in Heap
  <2>1. 1 \in Items
    BY PointersAre
  <2> QED BY <2>1, StrdupIs DEF Like, SetTo
<1> QED BY <1>1, <1>2

\* Linking the next item of a new array makes heaps of any heaps.
LEMMA LinkedAny ==
    ASSUME NEW h \in Heap, NEW g \in Heap, NEW a \in Items
    PROVE  Linked(h, g, a) \in Heap
<1>1. a \in Pointers /\ NULL \in Pointers /\ h.ret \in Pointers /\ g.ret \in Pointers
      /\ \A i \in Pointers : i # NULL => i \in Items
  BY PointersAre DEF Heap
<1>2. Abandon(g, a) \in Heap
  BY <1>1, DeleteAny
<1>3. ASSUME NEW x \in Heap, NEW t \in Items, NEW i \in Pointers
      PROVE  /\ [x EXCEPT !.node[t].next = i] \in Heap /\ [x EXCEPT !.node[t].prev = i] \in Heap
             /\ [x EXCEPT !.node[t].child = i] \in Heap
  BY SetPointer DEF NextSet, PrevSet, ChildSet, Keeps
<1>4. ASSUME h.ret # NULL, g.ret # NULL PROVE Suffix(g, h.ret, g.ret) \in Heap
  <2>1. h.ret \in Items /\ g.ret \in Items
    BY <1>1, <1>4
  <2> DEFINE y == [g EXCEPT !.node[h.ret].next = g.ret]
  <2>2. y \in Heap
    BY <1>1, <1>3, <2>1
  <2>3. Suffix(g, h.ret, g.ret) = [y EXCEPT !.node[g.ret].prev = h.ret]
    BY DEF Suffix
  <2> HIDE DEF y
  <2>4. [y EXCEPT !.node[g.ret].prev = h.ret] \in Heap
    BY <1>1, <1>3, <2>1, <2>2
  <2> QED BY <2>3, <2>4
<1>5. [g EXCEPT !.node[a].child = g.ret] \in Heap
  BY <1>1, <1>3
<1> QED BY <1>2, <1>4, <1>5 DEF Linked

\* Copying one item makes a heap of any heap.
LEMMA CopyOneAny ==
    ASSUME NEW h \in Heap, NEW i \in Items
    PROVE  CopyOne(h, i) \in Heap
<1> DEFINE h1 == NewItem(h)
           n  == h.node[i]
           h2 == IF n.kind = "string" THEN Strdup(h1) ELSE h1
           h3 == IF OwnsKey(n) THEN Strdup(h2) ELSE h2
           c  == h1.ret
           m  == [Blank EXCEPT !.kind = n.kind, !.key = n.key, !.const = n.const]
           o  == [Blank EXCEPT !.kind = n.kind]
           named == [h3 EXCEPT !.node[c] = [Blank EXCEPT !.kind = n.kind, !.key = n.key,
                                                         !.const = n.const], !.ret = c]
           text == [h2 EXCEPT !.node[c] = [Blank EXCEPT !.kind = n.kind]]
<1>1. CopyOne(h, i) = IF c = NULL THEN h1 ELSE IF h2.ret = NULL THEN Abandon(h2, c)
                      ELSE IF h3.ret = NULL THEN Abandon(text, c) ELSE named
  BY DEF CopyOne
<1>2. h1 \in Heap /\ h2 \in Heap /\ h3 \in Heap
  BY NewAny
<1>3. n \in Node
  BY DEF Heap
<1>4. m \in Node /\ o \in Node
  BY <1>3, BlankIs DEF Node
<1>5. c \in Pointers /\ (c # NULL => c \in Items)
  BY <1>2, PointersAre DEF Heap
<1> HIDE DEF h1, h2, h3, c, n, m, o
<1>6. c # NULL => [h2 EXCEPT !.node[c] = o] \in Heap
  BY <1>2, <1>4, <1>5, SetOnce
<1>7. c # NULL => [h3 EXCEPT !.node[c] = m, !.ret = c] \in Heap
  <2>1. c # NULL => [h3 EXCEPT !.node[c] = m] \in Heap
    BY <1>2, <1>4, <1>5, SetOnce
  <2> QED BY <1>5, <2>1, DeleteAny
<1>8. c # NULL => Abandon(h2, c) \in Heap /\ Abandon([h2 EXCEPT !.node[c] = o], c) \in Heap
  BY <1>2, <1>5, <1>6, DeleteAny
<1> QED BY <1>1, <1>2, <1>6, <1>7, <1>8 DEF m, o

-----------------------------------------------------------------------------
\* One level of cJSON_Duplicate(), whose copies of children are made by d.
CopyStep(d, h, i) ==
    LET h1 == CopyOne(h, i)
        q  == ListFrom(h, h.node[i].child)
        g[m \in 0 .. Len(q)] ==
            IF m = 0 THEN h1 ELSE Linked(g[m - 1], d[g[m - 1]][q[m]], h1.ret)
    IN  IF h1.ret = NULL THEN h1 ELSE Handed(g[Len(q)], h1.ret)

Copies == [Heap -> [Items -> Heap]]

\* The copies of children that are made one after the other.
CopyLoop(d, h, i, g) ==
    LET h1 == CopyOne(h, i)
        q  == ListFrom(h, h.node[i].child)
    IN  /\ h1.ret \in Items /\ q \in Seq(Items)
        /\ g[0] = h1 /\ \A m \in 1 .. Len(q) : g[m] = Linked(g[m - 1], d[g[m - 1]][q[m]], h1.ret)
        /\ g[Len(q)] \in Heap
        /\ CopyStep(d, h, i) = Handed(g[Len(q)], h1.ret)

\* The loop of cJSON_Duplicate() over the children exists, and one level of
\* the copy is what it ends with.
LEMMA CopyLoopIs ==
    ASSUME NEW d \in Copies, NEW h \in Heap, NEW i \in Items, CopyOne(h, i).ret # NULL
    PROVE  \E g : CopyLoop(d, h, i, g)
<1> DEFINE h1 == CopyOne(h, i)
           q  == ListFrom(h, h.node[i].child)
           v(e, m) == IF m = 0 THEN h1 ELSE Linked(e[m - 1], d[e[m - 1]][q[m]], h1.ret)
           body(e) == [m \in 0 .. Len(q) |-> v(e, m)]
           g == CHOOSE e : e = body(e)
           next(m, x) == Linked(x, d[x][q[m]], h1.ret)
           G == [m \in 1 .. Len(q) |-> [x \in Heap |-> next(m, x)]]
<1>1. CopyStep(d, h, i) = IF h1.ret = NULL THEN h1 ELSE Handed(g[Len(q)], h1.ret)
  BY Zenon DEF CopyStep
<1>2. h1 \in Heap /\ h1.ret \in Items /\ q \in Seq(Items) /\ Len(q) \in Nat
  <2>1. h1 \in Heap
    BY CopyOneAny
  <2>2. h1.ret \in Items
    BY <2>1, PointersAre DEF Heap
  <2>3. q \in Seq(Items)
    BY Pointed, ListFromTyped
  <2> HIDE DEF h1, q
  <2> QED BY <2>1, <2>2, <2>3
<1>3. ASSUME NEW m \in 1 .. Len(q), NEW x \in Heap PROVE next(m, x) \in Heap
  <2>1. q[m] \in Items
    BY <1>2
  <2> HIDE DEF h1, q
  <2>2. d[x][q[m]] \in Heap
    BY <2>1 DEF Copies
  <2> QED BY <1>2, <2>2, LinkedAny
<1> HIDE DEF h1, q
<1>4. G \in [1 .. Len(q) -> [Heap -> Heap]]
  <2> HIDE DEF next
  <2> QED BY <1>3
<1>5. PICK c : Steps(c, Len(q), Heap, h1, G)
  <2> HIDE DEF G
  <2> QED BY <1>2, <1>4, LoopIs
<1>6. c \in [0 .. Len(q) -> Heap] /\ c[0] = h1 /\ \A m \in 1 .. Len(q) : c[m] = next(m, c[m - 1])
  <2> HIDE DEF next
  <2>1. c \in [0 .. Len(q) -> Heap] /\ c[0] = h1 /\ \A m \in 1 .. Len(q) : c[m] = G[m][c[m - 1]]
    BY <1>5 DEF Steps
  <2>2. \A m \in 1 .. Len(q) : c[m - 1] \in Heap
    BY <1>2, <2>1
  <2> QED BY <2>1, <2>2
<1>7. c = body(c)
  <2>1. ASSUME NEW m \in 0 .. Len(q) PROVE c[m] = v(c, m)
    BY <1>2, <1>6, <2>1
  <2> HIDE DEF v
  <2> QED BY <1>6, <2>1
<1>8. g = body(g)
  <2> HIDE DEF body
  <2> QED BY <1>7, Zenon
<1>9. g[0] = h1 /\ \A m \in 1 .. Len(q) : g[m] = next(m, g[m - 1])
  <2> HIDE DEF g
  <2>1. \A m \in 0 .. Len(q) : g[m] = v(g, m)
    BY <1>8, Zenon
  <2>2. 0 \in 0 .. Len(q) /\ \A m \in 1 .. Len(q) : m \in 0 .. Len(q) /\ m # 0
    BY <1>2
  <2> QED BY <2>1, <2>2
<1> HIDE DEF g
<1>10. g[Len(q)] \in Heap
  <2>1. g[0] \in Heap /\ \A m \in 1 .. Len(q) : g[m - 1] \in Heap => g[m] \in Heap
    <3> HIDE DEF next
    <3> QED BY <1>2, <1>3, <1>9
  <2> QED BY <1>2, <2>1, LoopStays
<1>11. CopyStep(d, h, i) = Handed(g[Len(q)], h1.ret)
  BY <1>1, <1>2, ItemNotNull
<1>12. CopyLoop(d, h, i, g)
  BY <1>2, <1>9, <1>10, <1>11 DEF CopyLoop, h1, q
<1> QED BY <1>12

\* One level of cJSON_Duplicate() makes heaps of heaps.
LEMMA CopyStepTyped ==
    ASSUME NEW d \in Copies, NEW h \in Heap, NEW i \in Items
    PROVE  CopyStep(d, h, i) \in Heap /\ [h EXCEPT !.ret = NULL] \in Heap
<1>0. \A r \in Pointers : \A x \in Heap : [x EXCEPT !.ret = r] \in Heap
  BY PointersAre, DeleteAny
<1>1. CASE CopyOne(h, i).ret = NULL
  <2>1. CopyStep(d, h, i) = CopyOne(h, i)
    BY <1>1 DEF CopyStep
  <2> QED BY <1>0, <2>1, CopyOneAny, PointersAre
<1>2. CASE CopyOne(h, i).ret # NULL
  <2>1. PICK g : CopyLoop(d, h, i, g)
    BY <1>2, CopyLoopIs
  <2> DEFINE a == CopyOne(h, i).ret
             x == g[Len(ListFrom(h, h.node[i].child))]
  <2>2. a \in Items /\ x \in Heap /\ CopyStep(d, h, i) = Handed(x, a)
    BY <2>1 DEF CopyLoop
  <2> HIDE DEF a, x
  <2>3. Handed(x, a) \in Heap
    BY <1>0, <2>2, PointersAre DEF Handed
  <2> QED BY <1>0, <2>2, <2>3, PointersAre
<1> QED BY <1>1, <1>2

\* cJSON_Duplicate() is the recursion it is written as.
LEMMA CopyInIs ==
    /\ CopyIn \in [Nat -> Copies]
    /\ \A n \in Nat : \A h \in Heap, i \in Items :
          CopyIn[n][h][i] = IF n = 0 THEN [h EXCEPT !.ret = NULL] ELSE CopyStep(CopyIn[n - 1], h, i)
<1> DEFINE none(h) == [h EXCEPT !.ret = NULL]
           a == [h \in Heap |-> [i \in Items |-> none(h)]]
           F == [d \in Copies |-> [h \in Heap |-> [i \in Items |-> CopyStep(d, h, i)]]]
           G == [n \in Nat |-> F]
           v(e, n, h, i) ==
               LET h1 == CopyOne(h, i)
                   q  == ListFrom(h, h.node[i].child)
                   g[m \in 0 .. Len(q)] ==
                       IF m = 0 THEN h1 ELSE Linked(g[m - 1], e[n - 1][g[m - 1]][q[m]], h1.ret)
               IN  IF n = 0 THEN [h EXCEPT !.ret = NULL]
                   ELSE IF h1.ret = NULL THEN h1
                   ELSE Handed(g[Len(q)], h1.ret)
           body(e) == [n \in Nat |-> [h \in Heap |-> [i \in Items |-> v(e, n, h, i)]]]
<1>1. a \in Copies
  <2>1. \A h \in Heap : none(h) \in Heap
    BY PointersAre, DeleteAny
  <2> HIDE DEF none
  <2> QED BY <2>1 DEF Copies
<1>2. F \in [Copies -> Copies]
  <2>1. ASSUME NEW d \in Copies
        PROVE  [h \in Heap |-> [i \in Items |-> CopyStep(d, h, i)]] \in Copies
    <3>1. \A h \in Heap : \A i \in Items : CopyStep(d, h, i) \in Heap
      BY CopyStepTyped
    <3> QED BY <3>1 DEF Copies
  <2> QED BY <2>1
<1>3. G \in [Nat -> [Copies -> Copies]]
  BY <1>2
<1> HIDE DEF a, F, G
<1>4. PICK d : Recursion(d, Copies, a, G)
  BY <1>1, <1>3, RecursionIs
<1>5. d \in [Nat -> Copies] /\ \A n \in Nat : d[n] = IF n = 0 THEN a ELSE F[d[n - 1]]
  <2>1. d \in [Nat -> Copies] /\ \A n \in Nat : d[n] = IF n = 0 THEN a ELSE G[n][d[n - 1]]
    BY <1>4 DEF Recursion
  <2> QED BY <2>1 DEF G
<1>6. \A e, n, h, i : v(e, n, h, i) = IF n = 0 THEN none(h) ELSE CopyStep(e[n - 1], h, i)
  BY Zenon DEF CopyStep
<1>0. CopyIn = CHOOSE e : e = body(e)
  BY Zenon DEF CopyIn
<1> HIDE DEF v, none
<1>7. ASSUME NEW n \in Nat, NEW h \in Heap, NEW i \in Items
      PROVE  d[n][h][i] = IF n = 0 THEN none(h) ELSE CopyStep(d[n - 1], h, i)
  <2>1. CASE n = 0
    BY <1>5, <2>1 DEF a
  <2>2. CASE n # 0
    <3>0. n - 1 \in Nat
      BY <2>2
    <3>1. d[n - 1] \in Copies /\ d[n] = F[d[n - 1]]
      <4>1. d[n - 1] \in Copies
        BY <1>5, <3>0
      <4>2. d[n] = IF n = 0 THEN a ELSE F[d[n - 1]]
        BY <1>5, Zenon
      <4> QED BY <2>2, <4>1, <4>2
    <3>2. d[n][h][i] = CopyStep(d[n - 1], h, i)
      BY <3>1 DEF F
    <3> QED BY <2>2, <3>2
  <2> QED BY <2>1, <2>2
<1>8. d = body(d)
  <2>1. ASSUME NEW n \in Nat PROVE d[n] = body(d)[n]
    <3>1. \A h \in Heap, i \in Items : v(d, n, h, i) = d[n][h][i]
      BY <1>6, <1>7
    <3>2. d[n] = [h \in Heap |-> d[n][h]] /\ \A h \in Heap : d[n][h] = [i \in Items |-> d[n][h][i]]
      BY <1>5 DEF Copies
    <3>3. \A h \in Heap : d[n][h] = [i \in Items |-> v(d, n, h, i)]
      BY <3>1, <3>2
    <3>4. d[n] = [h \in Heap |-> [i \in Items |-> v(d, n, h, i)]]
      BY <3>2, <3>3
    <3> QED BY <3>4
  <2>2. d = [n \in Nat |-> d[n]]
    BY <1>5
  <2> QED BY <2>1, <2>2
<1>9. CopyIn = body(CopyIn)
  <2> HIDE DEF body
  <2> QED BY <1>0, <1>8, Zenon
<1>10. ASSUME NEW n \in Nat, NEW h \in Heap, NEW i \in Items
       PROVE  CopyIn[n][h][i] = IF n = 0 THEN none(h) ELSE CopyStep(CopyIn[n - 1], h, i)
  <2>1. CopyIn[n] = [x \in Heap |-> [j \in Items |-> v(CopyIn, n, x, j)]]
    BY <1>9, Zenon
  <2> QED BY <1>6, <2>1
<1>11. \A n \in Nat : CopyIn[n] \in Copies
  <2> DEFINE T == {n \in Nat : CopyIn[n] \in Copies}
  <2>0. \A n \in Nat : CopyIn[n] = [x \in Heap |-> [j \in Items |-> v(CopyIn, n, x, j)]]
    BY <1>9, Zenon
  <2>1. 0 \in T
    <3>1. \A x \in Heap, j \in Items : v(CopyIn, 0, x, j) \in Heap
      BY <1>6, DeleteAny, PointersAre DEF none
    <3>2. [x \in Heap |-> [j \in Items |-> v(CopyIn, 0, x, j)]] \in Copies
      BY <3>1 DEF Copies
    <3> QED BY <2>0, <3>2
  <2>2. ASSUME NEW n \in Nat, n \in T PROVE n + 1 \in T
    <3>1. n + 1 \in Nat /\ n + 1 # 0 /\ (n + 1) - 1 = n /\ CopyIn[n] \in Copies
      BY <2>2
    <3>2. \A x \in Heap, j \in Items : v(CopyIn, n + 1, x, j) \in Heap
      BY <1>6, <3>1, CopyStepTyped
    <3>3. [x \in Heap |-> [j \in Items |-> v(CopyIn, n + 1, x, j)]] \in Copies
      BY <3>2 DEF Copies
    <3> QED BY <2>0, <3>1, <3>3
  <2>3. \A n \in Nat : n \in T
    <3> HIDE DEF T
    <3> QED BY <2>1, <2>2, AllNat
  <2> QED BY <2>3
<1>12. CopyIn \in [Nat -> Copies]
  <2>1. CopyIn = [n \in Nat |-> CopyIn[n]]
    BY <1>9, Zenon
  <2> QED BY <1>11, <2>1
<1> QED BY <1>10, <1>12 DEF none

-----------------------------------------------------------------------------
\* cJSON_Duplicate() with all levels

\* What item j shows is in W: its items, or what its reference leads to.
Shows(h, f, W, j) ==
    \/ h.node[j].child = NULL
    \/ \E p \in Items : \E k \in 1 .. Len(f[p]) :
          /\ Owner(h, p) /\ h.node[p].kind = h.node[j].kind /\ h.node[j].child = f[p][k]
          /\ \A m \in k .. Len(f[p]) : f[p][m] \in W

\* All that is seen from items of W is in W, and is there.
Closed(h, f, W) == W \subseteq Alive(h) /\ \A j \in W : Shows(h, f, W, j)

\* The list that an item shows.
LEMMA ShownList ==
    ASSUME NEW h, NEW f, NEW R, NEW u, Order(h, f, R, u), NEW W, Closed(h, f, W), NEW j \in W
    PROVE  LET q == ListFrom(h, h.node[j].child) IN
           /\ q \in Seq(Items)
           /\ \A m \in 1 .. Len(q) :
                 /\ q[m] \in W
                 /\ u = 0 => (h.node[j].kind = "object" => h.node[q[m]].key # NoKey)
<1> DEFINE c == h.node[j].child
           q == ListFrom(h, h.node[j].child)
<1>1. LinkedAs(h, f) /\ f \in [Items -> Seq(Items)] /\ h \in Heap
  BY OrderFacts
<1>2. j \in Items /\ W \subseteq Items /\ Shows(h, f, W, j)
  BY DEF Closed, Alive
<1>3. CASE c = NULL
  <2>1. <<>> \in Seq(Items) /\ Len(<<>>) = 0 /\ 0 <= N
    BY HeapAssumption
  <2>3. <<>> \in Seq(Items) /\ Len(<<>>) <= N /\ c = IF <<>> = <<>> THEN NULL ELSE <<>>[1]
    BY <1>3, <2>1
  <2>4. \A n \in 1 .. Len(<<>>) : FALSE
    BY <2>1
  <2>5. \A n \in 1 .. Len(<<>>) :
           h.node[<<>>[n]].next = IF n = Len(<<>>) THEN NULL ELSE <<>>[n + 1]
    BY <2>4
  <2> HIDE DEF c
  <2>6. \A s \in Seq(Items) : Len(s) <= N /\ c = (IF s = <<>> THEN NULL ELSE s[1])
           /\ (\A n \in 1 .. Len(s) : h.node[s[n]].next = IF n = Len(s) THEN NULL ELSE s[n + 1])
           => ListFrom(h, c) = s
    BY ListFromPath
  <2>2. q = <<>>
    BY <2>3, <2>5, <2>6 DEF c
  <2> QED BY <2>1, <2>2
<1>4. CASE c # NULL
  <2>20. PICK p \in Items : \E k \in 1 .. Len(f[p]) :
           /\ Owner(h, p) /\ h.node[p].kind = h.node[j].kind /\ c = f[p][k]
           /\ \A m \in k .. Len(f[p]) : f[p][m] \in W
    BY <1>2, <1>4 DEF Shows
  <2>1. PICK k \in 1 .. Len(f[p]) :
           /\ Owner(h, p) /\ h.node[p].kind = h.node[j].kind /\ c = f[p][k]
           /\ \A m \in k .. Len(f[p]) : f[p][m] \in W
    BY <2>20
  <2> DEFINE L == Len(f[p])
             s == [m \in 1 .. (L - k) + 1 |-> f[p][m + (k - 1)]]
  <2>2. /\ f[p] \in Seq(Items) /\ L \in Nat /\ L <= N
        /\ \A m \in 1 .. L : f[p][m] \in Items /\ f[p][m] # NULL
        /\ \A m \in 1 .. L : h.node[f[p][m]].next = IF m = L THEN NULL ELSE f[p][m + 1]
    <3>1. L \in 0 .. N
      BY <1>1, ListLength
    <3> QED BY <1>1, <2>1, <3>1, ListOf, HeapAssumption
  <2> HIDE DEF L
  <2>3. k \in 1 .. L /\ (L - k) + 1 \in Nat
    BY <2>2 DEF L
  <2>4. \A m \in 1 .. (L - k) + 1 : m + (k - 1) \in k .. L /\ m + (k - 1) \in 1 .. L
    BY <2>2, <2>3
  <2>5. s \in Seq(Items) /\ Len(s) = (L - k) + 1
    <3>1. s \in [1 .. (L - k) + 1 -> Items]
      BY <2>2, <2>4
    <3> HIDE DEF s
    <3>2. s \in Seq(Items)
      BY <2>3, <3>1
    <3> QED BY <2>3, <3>1, <3>2
  <2>6. \A m \in 1 .. Len(s) : s[m] = f[p][m + (k - 1)] /\ m + (k - 1) \in 1 .. L
    BY <2>4, <2>5
  <2>10. 1 \in 1 .. Len(s) /\ 1 + (k - 1) = k
    BY <2>3, <2>5, <2>2
  <2> HIDE DEF s
  <2>7. c = IF s = <<>> THEN NULL ELSE s[1]
    <3>1. s # <<>>
      BY <2>10
    <3> QED BY <2>1, <2>6, <2>10, <3>1
  <2>8. ASSUME NEW n \in 1 .. Len(s)
        PROVE  h.node[s[n]].next = IF n = Len(s) THEN NULL ELSE s[n + 1]
    <3>1. s[n] = f[p][n + (k - 1)] /\ n + (k - 1) \in 1 .. L
      BY <2>6
    <3>2. h.node[s[n]].next = IF n + (k - 1) = L THEN NULL ELSE f[p][(n + (k - 1)) + 1]
      BY <2>2, <3>1
    <3>3. n + (k - 1) = L <=> n = Len(s)
      BY <2>2, <2>3, <2>5
    <3>4. n # Len(s) => n + 1 \in 1 .. Len(s) /\ (n + 1) + (k - 1) = (n + (k - 1)) + 1
      BY <2>2, <2>3, <2>5
    <3> QED BY <2>6, <3>2, <3>3, <3>4
  <2>9. Len(s) <= N
    BY <2>2, <2>3, <2>5, HeapAssumption
  <2>11. q = s
    BY <2>5, <2>7, <2>8, <2>9, ListFromPath
  <2>12. ASSUME NEW m \in 1 .. Len(s)
         PROVE  /\ s[m] \in W
                /\ u = 0 => (h.node[j].kind = "object" => h.node[s[m]].key # NoKey)
    <3>1. s[m] = f[p][m + (k - 1)] /\ m + (k - 1) \in k .. L /\ m + (k - 1) \in 1 .. L
      BY <2>4, <2>5, <2>6
    <3>2. s[m] \in W
      BY <2>1, <3>1 DEF L
    <3>3. s[m] \in ItemsOf(f[p])
      BY <3>1 DEF ItemsOf, L
    <3>4. u = 0 => (h.node[p].kind = "object" => h.node[s[m]].key # NoKey)
      BY <2>1, <3>3 DEF Order, Named
    <3> QED BY <2>1, <3>2, <3>4
  <2> QED BY <2>5, <2>11, <2>12
<1> QED BY <1>3, <1>4

\* New items change nothing about what can be seen.
LEMMA ClosedKept ==
    ASSUME NEW h, NEW f, NEW W, Closed(h, f, W), NEW g, NEW e, Untouched(h, f, g, e)
    PROVE  Closed(g, e, W)
<1>1. W \subseteq Alive(h) /\ Alive(h) \subseteq Alive(g)
  BY DEF Closed, Untouched
<1>2. ASSUME NEW j \in W PROVE Shows(g, e, W, j)
  <2>1. g.node[j] = h.node[j] /\ Shows(h, f, W, j)
    BY <1>1 DEF Closed, Untouched
  <2>2. ASSUME NEW p \in Items, Owner(h, p)
        PROVE  Owner(g, p) /\ g.node[p] = h.node[p] /\ e[p] = f[p]
    BY <2>2 DEF Owner, Alive, Untouched
  <2> QED BY <2>1, <2>2 DEF Shows
<1> QED BY <1>1, <1>2 DEF Closed

\* A copy of item i: new, with all that is in it, and of the same name.
CopyMade(h, f, R, u, g, i) ==
    \E e : /\ Grown(h, f, R, u, g, e)
           /\ g.ret # NULL => g.node[g.ret].key = h.node[i].key

\* If the copies of children are in order so is the copy.
LEMMA CopyStepMade ==
    ASSUME NEW d \in Copies, NEW u,
           \A h, f, R, W, i : Order(h, f, R, u) /\ Closed(h, f, W) /\ i \in W
                              => CopyMade(h, f, R, u, d[h][i], i),
           NEW h, NEW f, NEW R, NEW W, NEW i, Order(h, f, R, u), Closed(h, f, W), i \in W
    PROVE  CopyMade(h, f, R, u, CopyStep(d, h, i), i)
<1> DEFINE h1 == CopyOne(h, i)
           a == h1.ret
           x == h.node[i]
           n == [Blank EXCEPT !.kind = x.kind, !.key = x.key, !.const = x.const]
           q == ListFrom(h, h.node[i].child)
           S == {y \in Heap : \E e : Building(h, f, R, u, y, e, a, n)}
<1>1. i \in Alive(h) /\ i \in Items /\ h \in Heap /\ Clean(h) /\ x.kind # "invalid" /\ W \subseteq Alive(h)
  BY OrderFacts DEF Closed
<1>2. Made(h, h1) /\ (h1.ret # NULL => NewAs(h, h1, n))
  BY <1>1, CopyOneMade
<1>3. n.ref = 0 /\ n.kind = x.kind /\ n.key = x.key
  BY DEF Blank
<1>4. q \in Seq(Items)
      /\ \A m \in 1 .. Len(q) : q[m] \in W /\ (u = 0 => (n.kind = "object" => h.node[q[m]].key # NoKey))
  BY <1>3, ShownList
<1> HIDE DEF n
<1>5. CASE h1.ret = NULL
  <2>1. CopyStep(d, h, i) = h1
    BY <1>5 DEF CopyStep
  <2>2. Grown(h, f, R, u, h1, f)
    BY <1>2, MadeGrown
  <2> QED BY <1>5, <2>1, <2>2 DEF CopyMade
<1>6. CASE h1.ret # NULL
  <2>1. PICK g : CopyLoop(d, h, i, g)
    BY <1>1, <1>6, CopyLoopIs
  <2>2. /\ g[0] = h1 /\ \A m \in 1 .. Len(q) : g[m] = Linked(g[m - 1], d[g[m - 1]][q[m]], a)
        /\ CopyStep(d, h, i) = Handed(g[Len(q)], a)
    BY <2>1 DEF CopyLoop
  <2> HIDE DEF h1, q
  <2>3. h1 \in S
    <3>1. NewAs(h, h1, n)
      BY <1>2, <1>6
    <3>2. Building(h, f, R, u, h1, f, h1.ret, n)
      BY <1>3, <3>1, BuildingFirst
    <3>3. h1 \in Heap
      BY <3>1 DEF NewAs, SetTo
    <3> QED BY <3>2, <3>3
  <2>4. ASSUME NEW m \in 1 .. Len(q), g[m - 1] \in S PROVE g[m] \in S
    <3> DEFINE y == g[m - 1]
               z == d[y][q[m]]
    <3>1. PICK e : Building(h, f, R, u, y, e, a, n)
      BY <2>4
    <3>2. g[m] = Linked(y, z, a) /\ y \in S
      BY <2>2, <2>4
    <3> HIDE DEF a, y, z
    <3>3. CASE y.ret = NULL
      <4>1. g[m] = y
        BY <3>2, <3>3 DEF Linked
      <4> QED BY <3>2, <4>1
    <3>4. CASE y.ret # NULL
      <4>1. Order(y, e, R \cup {a}, u) /\ Untouched(h, f, y, e)
        BY <3>1, <3>4 DEF Building
      <4>2. Closed(y, e, W)
        BY <4>1, ClosedKept
      <4>3. q[m] \in W
        BY <1>4
      <4>4. CopyMade(y, e, R \cup {a}, u, z, q[m])
        BY <4>1, <4>2, <4>3 DEF z
      <4>5. PICK e1 : /\ Grown(y, e, R \cup {a}, u, z, e1)
                      /\ z.ret # NULL => z.node[z.ret].key = y.node[q[m]].key
        BY <4>4 DEF CopyMade
      <4>6. y.node[q[m]] = h.node[q[m]]
        BY <1>1, <4>1, <4>3 DEF Untouched
      <4>7. z.ret # NULL => (u = 0 => (n.kind = "object" => z.node[z.ret].key # NoKey))
        BY <1>4, <4>5, <4>6
      <4>8. PICK o : Building(h, f, R, u, Linked(y, z, a), o, a, n)
        BY <3>1, <3>4, <4>5, <4>7, BuildingStep
      <4>9. Building(h, f, R, u, g[m], o, a, n)
        BY <3>2, <4>8
      <4>10. g[m] \in Heap
        BY <4>9, OrderFacts DEF Building
      <4> QED BY <4>9, <4>10 DEF a
    <3> QED BY <3>3, <3>4
  <2>5. Len(q) \in Nat
    BY <1>4
  <2>6. g[Len(q)] \in S
    <3> HIDE DEF S
    <3> QED BY <2>2, <2>3, <2>4, <2>5, LoopStays
  <2>7. PICK e : Building(h, f, R, u, g[Len(q)], e, a, n)
    BY <2>6
  <2> HIDE DEF a, S
  <2>8. /\ Grown(h, f, R, u, Handed(g[Len(q)], a), e)
        /\ Handed(g[Len(q)], a).ret # NULL =>
              Handed(g[Len(q)], a).ret = a /\ Handed(g[Len(q)], a).node[a].key = n.key
    BY <2>7, BuildingDone
  <2> QED BY <1>3, <2>2, <2>8 DEF CopyMade
<1> QED BY <1>5, <1>6

\* cJSON_Duplicate() with recursion, however deep it may go.
LEMMA CopyInMade ==
    ASSUME NEW u
    PROVE  \A n \in Nat : \A h, f, R, W, i : Order(h, f, R, u) /\ Closed(h, f, W) /\ i \in W
                              => CopyMade(h, f, R, u, CopyIn[n][h][i], i)
<1> DEFINE P(n) == \A h, f, R, W, i : Order(h, f, R, u) /\ Closed(h, f, W) /\ i \in W
                              => CopyMade(h, f, R, u, CopyIn[n][h][i], i)
           T == {n \in Nat : P(n)}
<1>1. 0 \in T
  <2> SUFFICES ASSUME NEW h, NEW f, NEW R, NEW W, NEW i, Order(h, f, R, u), Closed(h, f, W), i \in W
               PROVE  CopyMade(h, f, R, u, CopyIn[0][h][i], i)
    OBVIOUS
  <2>1. h \in Heap /\ i \in Items
    BY OrderFacts DEF Closed
  <2>2. CopyIn[0][h][i] = [h EXCEPT !.ret = NULL]
    BY <2>1, CopyInIs, 0 \in Nat
  <2>3. Like(h, [h EXCEPT !.ret = NULL]) /\ [h EXCEPT !.ret = NULL].ret = NULL
    BY <2>1, ReturnLike, PointersAre
  <2>4. Grown(h, f, R, u, [h EXCEPT !.ret = NULL], f)
    BY <2>3, MadeGrown DEF Made
  <2> QED BY <2>2, <2>3, <2>4 DEF CopyMade
<1>2. ASSUME NEW n \in Nat, n \in T PROVE n + 1 \in T
  <2> SUFFICES ASSUME NEW h, NEW f, NEW R, NEW W, NEW i, Order(h, f, R, u), Closed(h, f, W), i \in W
               PROVE  CopyMade(h, f, R, u, CopyIn[n + 1][h][i], i)
    OBVIOUS
  <2>1. h \in Heap /\ i \in Items
    BY OrderFacts DEF Closed
  <2>2. n + 1 \in Nat /\ n + 1 # 0 /\ (n + 1) - 1 = n
    OBVIOUS
  <2>3. CopyIn[n + 1][h][i] = CopyStep(CopyIn[n], h, i) /\ CopyIn[n] \in Copies
    <3> DEFINE k == n + 1
    <3>1. k \in Nat /\ k # 0 /\ k - 1 = n
      BY <2>2
    <3> HIDE DEF k
    <3>2. \A hh \in Heap, ii \in Items : CopyIn[k][hh][ii] =
             IF k = 0 THEN [hh EXCEPT !.ret = NULL] ELSE CopyStep(CopyIn[k - 1], hh, ii)
      BY <3>1, CopyInIs
    <3>3. CopyIn[k][h][i] = CopyStep(CopyIn[n], h, i)
      BY <2>1, <3>1, <3>2
    <3>4. CopyIn[n] \in Copies
      BY CopyInIs
    <3> QED BY <3>3, <3>4 DEF k
  <2>4. P(n)
    BY <1>2
  <2> DEFINE d == CopyIn[n]
  <2>5. d \in Copies /\ CopyIn[n + 1][h][i] = CopyStep(d, h, i)
    BY <2>3
  <2>6. \A hh, ff, RR, WW, ii : Order(hh, ff, RR, u) /\ Closed(hh, ff, WW) /\ ii \in WW
                              => CopyMade(hh, ff, RR, u, d[hh][ii], ii)
    BY <2>4
  <2> HIDE DEF d, P
  <2>7. CopyMade(h, f, R, u, CopyStep(d, h, i), i)
    BY <2>5, <2>6, CopyStepMade
  <2> QED BY <2>5, <2>7
<1>3. \A n \in Nat : n \in T
  <2> HIDE DEF T
  <2> QED BY <1>1, <1>2, AllNat
<1> QED BY <1>3

-----------------------------------------------------------------------------
\* The invariant

\* What holds whenever no call is under way.  As long as the process has not
\* crashed the heap is in order, with the client's items and the lost ones in
\* no list.
JsonInv ==
    /\ calls \in 0 .. MaxCalls /\ unnamed \in {0, 1}
    /\ mem \in Heap /\ mem.strings \in 0 .. 2 * N /\ mem.left = 0 /\ mem.ret = NULL
    /\ \A i \in Items : mem.node[i].kind # "invalid"
    /\ held \cup lost \subseteq Live /\ held \cap lost = {}
    /\ mem.status # "corrupt" /\ (mem.status = "crash" => unnamed = 1)
    /\ mem.status = "ok" => Order(mem, Kids(mem), held \cup lost, unnamed)

\* The items in use are those that Live counts.
LEMMA LiveIs == Live = Alive(mem)
  BY DEF Live, Alive

\* The end of a call, and the allocations it begins with, leave the items.
LEMMA EndedLike ==
    ASSUME NEW h \in Heap
    PROVE  Like(h, Ended(h)) /\ Ended(h).left = 0 /\ Ended(h).ret = NULL
  BY PointersAre, 0 \in Nat DEF Heap, Like, Ended

\* A call begins with the items as they are.
LEMMA WithLike ==
    ASSUME mem \in Heap, NEW b \in Nat
    PROVE  Like(mem, With(b)) /\ With(b).ret = mem.ret
  BY DEF Heap, Like, With

\* No more keys and texts are owned than two by each item.
LEMMA OwnedAtMost ==
    ASSUME NEW h
    PROVE  OwnedBy(h, Items) \in 0 .. 2 * N
<1>1. TextsOf(h, Items) \in SUBSET Items /\ KeysOf(h, Items) \in SUBSET Items
  BY DEF TextsOf, KeysOf
<1>2. /\ Cardinality(TextsOf(h, Items)) \in Nat /\ Cardinality(TextsOf(h, Items)) <= N
      /\ Cardinality(KeysOf(h, Items)) \in Nat /\ Cardinality(KeysOf(h, Items)) <= N
  <2>1. \A S \in SUBSET Items : Cardinality(S) \in Nat /\ Cardinality(S) <= N
    BY ItemsFinite, FS_Subset, FS_CardinalityType
  <2> QED BY <1>1, <2>1
<1>3. OwnedBy(h, Items) = Cardinality(TextsOf(h, Items)) + Cardinality(KeysOf(h, Items))
  BY DEF OwnedBy
<1> QED BY <1>2, <1>3, ItemsFinite

\* The heap at the end of a call.
EndsAs(h, g, e, R, u) ==
    /\ g \in Heap /\ g.strings \in 0 .. 2 * N /\ g.left = 0 /\ g.ret = NULL /\ g.status = "ok"
    /\ \A i \in Items : g.node[i].kind # "invalid"
    /\ R \subseteq Alive(g) /\ Alive(g) = Alive(h) /\ Kids(g) = e /\ Order(g, e, R, u)

\* A call that leaves everything in order ends with it in order.
LEMMA EndedOrder ==
    ASSUME NEW h, NEW e, NEW R, NEW u, Order(h, e, R, u)
    PROVE  EndsAs(h, Ended(h), e, R, u)
<1> DEFINE g == Ended(h)
<1>1. h \in Heap /\ h.status = "ok"
  BY OrderFacts
<1>2. Like(h, g) /\ g.left = 0 /\ g.ret = NULL
  BY <1>1, EndedLike
<1> HIDE DEF g
<1>3. Order(g, e, R, u) /\ Alive(g) = Alive(h)
  BY <1>2, LikeOrder
<1>4. /\ g \in Heap /\ g.status = "ok" /\ LinkedAs(g, e) /\ R \subseteq Alive(g)
      /\ \A i \in Items : g.node[i].kind # "invalid"
  BY <1>3, OrderFacts
<1>5. Kids(g) = e
  BY <1>4, KidsAre
<1>6. g.strings \in 0 .. 2 * N
  <2>1. g.strings = OwnedBy(g, Items) + 0
    BY <1>3 DEF Order, Counted
  <2> QED BY <2>1, OwnedAtMost, ItemsFinite
<1> QED BY <1>2, <1>3, <1>4, <1>5, <1>6 DEF EndsAs, g

\* What is there after a call: the items of A, and in each those that e says.
Lands(e, A) == JsonInv' /\ Kids(mem)' = e /\ Live' = A

\* A call that ends with everything in order.
LEMMA CallEnds ==
    ASSUME NEW h, NEW e, Order(h, e, held' \cup lost', unnamed'), mem' = Ended(h),
           held' \cap lost' = {}, calls' \in 0 .. MaxCalls, unnamed' \in {0, 1}
    PROVE  Lands(e, Alive(h))
<1>1. EndsAs(h, mem', e, held' \cup lost', unnamed')
  BY EndedOrder
<1>2. Live' = Alive(mem') /\ Kids(mem)' = Kids(mem')
  BY DEF Live, Alive
<1>3. JsonInv'
  BY <1>1, <1>2 DEF JsonInv, EndsAs
<1> QED BY <1>1, <1>2, <1>3 DEF Lands, EndsAs

\* What a call begins with.
LEMMA CallBegins ==
    ASSUME JsonInv, mem.status = "ok", NEW b \in Nat
    PROVE  /\ Order(With(b), Kids(mem), held \cup lost, unnamed) /\ Alive(With(b)) = Live
           /\ With(b).ret = NULL /\ \A i \in Items : With(b).node[i] = mem.node[i]
<1>1. mem \in Heap /\ Order(mem, Kids(mem), held \cup lost, unnamed) /\ mem.ret = NULL
  BY DEF JsonInv
<1>2. Like(mem, With(b)) /\ With(b).ret = NULL
  BY <1>1, WithLike
<1>3. Order(With(b), Kids(mem), held \cup lost, unnamed) /\ Alive(With(b)) = Alive(mem)
  BY <1>1, <1>2, LikeOrder
<1> QED BY <1>2, <1>3, LiveIs DEF Like

\* From an item of a list every later one is reached.
LEMMA ListStays ==
    ASSUME NEW h, NEW f, LinkedAs(h, f), NEW p \in Items, NEW V,
           \A j \in V \cap Items : h.node[j].next # NULL => h.node[j].next \in V,
           NEW k \in 1 .. Len(f[p]), f[p][k] \in V
    PROVE  \A m \in k .. Len(f[p]) : f[p][m] \in V
<1>1. f \in [Items -> Seq(Items)] /\ Len(f[p]) \in Nat
  BY LinkedLists
<1>2. \A m \in 1 .. Len(f[p]) : /\ f[p][m] \in Items
                                /\ h.node[f[p][m]].next = IF m = Len(f[p]) THEN NULL ELSE f[p][m + 1]
  <2> SUFFICES ASSUME NEW m \in 1 .. Len(f[p])
               PROVE  /\ f[p][m] \in Items
                      /\ h.node[f[p][m]].next = IF m = Len(f[p]) THEN NULL ELSE f[p][m + 1]
    OBVIOUS
  <2>1. f[p][m] \in Items
    BY <1>1
  <2> QED BY <2>1 DEF LinkedAs
<1> DEFINE T == {d \in Nat : k + d <= Len(f[p]) => f[p][k + d] \in V}
<1>3. 0 \in T
  BY <1>1
<1>4. ASSUME NEW d \in Nat, d \in T PROVE d + 1 \in T
  <2> SUFFICES ASSUME k + (d + 1) <= Len(f[p]) PROVE f[p][k + (d + 1)] \in V
    OBVIOUS
  <2>1. k + d \in 1 .. Len(f[p]) /\ k + d # Len(f[p]) /\ (k + d) + 1 = k + (d + 1)
        /\ k + (d + 1) \in 1 .. Len(f[p]) /\ k + d <= Len(f[p])
    BY <1>1
  <2>2. f[p][k + d] \in V \cap Items /\ f[p][k + (d + 1)] \in Items
    BY <1>2, <1>4, <2>1
  <2>3. h.node[f[p][k + d]].next = f[p][k + (d + 1)]
    BY <1>2, <2>1
  <2>4. f[p][k + (d + 1)] # NULL
    BY <2>2, PointersAre
  <2> QED BY <2>2, <2>3, <2>4
<1>5. \A d \in Nat : d \in T
  <2> HIDE DEF T
  <2> QED BY <1>3, <1>4, AllNat
<1>6. ASSUME NEW m \in k .. Len(f[p]) PROVE f[p][m] \in V
  <2>1. PICK d \in Nat : k + d = m
    <3>1. m - k \in Nat /\ k + (m - k) = m
      BY <1>1
    <3> QED BY <3>1
  <2>2. k + d <= Len(f[p])
    BY <1>1, <2>1
  <2> QED BY <1>5, <2>1, <2>2
<1> QED BY <1>6

\* What the client duplicates is there, as far as references lead.
LEMMA WholeClosed ==
    ASSUME JsonInv, mem.status = "ok", NEW i \in Live, Whole(i)
    PROVE  Closed(mem, Kids(mem), View(i)) /\ i \in View(i)
<1> DEFINE f == Kids(mem)
           c == mem.node[i].child
           step == [j \in Items |-> {mem.node[j].child, mem.node[j].next} \ {NULL}]
           V == View(i)
<1>1. LinkedAs(mem, f) /\ mem \in Heap /\ i \in Items /\ f \in [Items -> Seq(Items)]
  BY OrderFacts DEF JsonInv, Live
<1>2. \A j \in Items : mem.node[j].child \in Pointers /\ mem.node[j].next \in Pointers
  BY <1>1 DEF Heap, Node
<1>3. step \in [Items -> SUBSET Items]
  BY <1>2, PointersAre
<1>4. \A j \in Items : step[j] = {mem.node[j].child, mem.node[j].next} \ {NULL}
  OBVIOUS
<1>5. V = {i} \cup IF c = NULL THEN {} ELSE Reached(step, c)
  BY DEF View
<1> HIDE DEF step, V, f
<1>6. \A j \in V : mem.node[j].kind # "free"
      /\ (mem.node[j].ref = 1 /\ mem.node[j].child # NULL =>
             \E p \in Open(mem.node[j].kind) : mem.node[j].child \in ItemsOf(f[p]))
  BY DEF Whole, V, f
<1>7. CASE c = NULL
  <2>1. V = {i}
    BY <1>5, <1>7
  <2> QED BY <1>1, <1>7, <2>1, LiveIs DEF Closed, Shows, V, f
<1>8. CASE c # NULL
  <2> DEFINE U == Reached(step, c)
  <2>1. c \in Items
    BY <1>1, <1>2, <1>8, PointersAre
  <2>2. c \in U /\ U \subseteq Items /\ \A j \in U : step[j] \subseteq U
    BY <1>3, <2>1, ItemsFinite, ReachedIs
  <2>3. V = {i} \cup U
    BY <1>5, <1>8
  <2> HIDE DEF U
  <2>4. \A j \in U : /\ mem.node[j].child # NULL => mem.node[j].child \in U
                     /\ mem.node[j].next # NULL => mem.node[j].next \in U
    BY <1>4, <2>2
  <2>5. V \subseteq Items /\ i \in V /\ V \subseteq Alive(mem)
    BY <1>1, <1>6, <2>2, <2>3 DEF Alive
  <2>6. ASSUME NEW j \in V, mem.node[j].child # NULL PROVE Shows(mem, f, V, j)
    <3> DEFINE b == mem.node[j].child
    <3>1. b \in U /\ j \in Items /\ b \in Items
      BY <2>2, <2>3, <2>4, <2>5, <2>6
    <3>2. PICK p \in Items : Owner(mem, p) /\ mem.node[p].kind = mem.node[j].kind /\ b \in ItemsOf(f[p])
      <4>1. CASE mem.node[j].ref = 1
        <5>1. PICK p \in Open(mem.node[j].kind) : b \in ItemsOf(f[p])
          BY <1>6, <2>6, <4>1
        <5>2. p \in Items /\ Owner(mem, p) /\ mem.node[p].kind = mem.node[j].kind
          BY <5>1 DEF Open, Live, Owner
        <5> QED BY <5>1, <5>2
      <4>2. CASE mem.node[j].ref # 1
        <5>1. mem.node[j].ref = 0
          BY <1>1, <3>1, <4>2 DEF Heap, Node
        <5>2. Owner(mem, j)
          BY <1>6, <5>1 DEF Owner
        <5>3. f[j] # <<>> /\ b = f[j][1]
          BY <1>1, <2>6, <3>1, <5>2, LinkedChild
        <5>4. f[j] \in Seq(Items) /\ Len(f[j]) \in Nat
          BY <1>1, <3>1
        <5>5. 1 \in 1 .. Len(f[j])
          BY <5>3, <5>4
        <5>6. b \in ItemsOf(f[j])
          BY <5>3, <5>5 DEF ItemsOf
        <5> QED BY <3>1, <5>2, <5>6
      <4> QED BY <4>1, <4>2
    <3>3. PICK k \in 1 .. Len(f[p]) : b = f[p][k]
      BY <3>2 DEF ItemsOf
    <3> HIDE DEF b
    <3>4. f[p][k] \in U /\ \A o \in U \cap Items : mem.node[o].next # NULL => mem.node[o].next \in U
      BY <2>4, <3>1, <3>3
    <3>5. \A m \in k .. Len(f[p]) : f[p][m] \in U
      BY <1>1, <3>4, ListStays
    <3>6. \A m \in k .. Len(f[p]) : f[p][m] \in V
      BY <2>3, <3>5
    <3> QED BY <3>2, <3>3, <3>6 DEF Shows, b
  <2>7. \A j \in V : Shows(mem, f, V, j)
    BY <2>6 DEF Shows
  <2> QED BY <2>5, <2>7 DEF Closed, V, f
<1> QED BY <1>7, <1>8

-----------------------------------------------------------------------------
\* The beginning

\* A heap without items.
Bare == [i \in Items |-> <<>>]

\* The empty heap is in order.
LEMMA EmptyOrder == Order(EmptyHeap, Bare, {}, 0) /\ EmptyHeap \in Heap /\ EmptyHeap.ret = NULL
<1> DEFINE h == EmptyHeap
<1>1. /\ h.node = [i \in Items |-> Freed] /\ h.strings = 0 /\ h.status = "ok" /\ h.left = 0 /\ h.ret = NULL
  BY DEF EmptyHeap
<1>2. h \in Heap
  BY PointersAre, BlankIs DEF EmptyHeap, Heap
<1>3. \A i \in Items : h.node[i] = Freed
  BY <1>1
<1>4. Alive(h) = {} /\ \A i \in Items : h.node[i].kind # "invalid" /\ ~Owner(h, i)
  BY <1>3, BlankIs DEF Alive, Owner
<1>5. Bare \in [Items -> Seq(Items)] /\ \A i \in Items : Bare[i] = <<>> /\ Len(Bare[i]) = 0 /\ ItemsOf(Bare[i]) = {}
  <2>1. <<>> \in Seq(Items) /\ Len(<<>>) = 0 /\ ItemsOf(<<>>) = {}
    BY DEF ItemsOf
  <2> QED BY <2>1 DEF Bare
<1>6. LinkedAs(h, Bare)
  <2>1. \A p \in Items : 1 .. Len(Bare[p]) = {}
    BY <1>5
  <2> QED BY <1>4, <1>5, <2>1, Zenon DEF LinkedAs
<1>7. Layered(Bare)
  BY <1>5, LayeredIs
<1>8. Counted(h, 0)
  <2>1. TextsOf(h, Items) = {} /\ KeysOf(h, Items) = {}
    BY <1>3, BlankIs DEF TextsOf, KeysOf
  <2>2. OwnedBy(h, Items) = 0
    BY <2>1, FS_EmptySet DEF OwnedBy
  <2> QED BY <1>1, <2>2 DEF Counted
<1>9. Sound(h, Bare, {})
  BY <1>1, <1>2, <1>3, <1>4, <1>5, <1>6, <1>7 DEF Sound
<1>10. Named(h, Bare)
  BY <1>4 DEF Named
<1> QED BY <1>1, <1>2, <1>8, <1>9, <1>10 DEF Order

\* So is the empty heap with memory to come.
LEMMA PlentyOrder == Order(Plenty, Bare, {}, 0) /\ Alive(Plenty) = Alive(EmptyHeap)
<1>1. EmptyHeap \in Heap /\ Order(EmptyHeap, Bare, {}, 0)
  BY EmptyOrder
<1>2. 2 * N \in Nat
  BY ItemsFinite
<1>3. Like(EmptyHeap, Plenty)
  BY <1>1, <1>2 DEF Heap, Like, Plenty
<1> QED BY <1>1, <1>3, LikeOrder

\* What has an item is an owner.
LEMMA AddedOwner ==
    ASSUME NEW h, NEW f \in [Items -> Seq(Items)], NEW p \in Items, NEW i \in Items, NEW R, NEW u,
           Order(h, AtEnd(f, p, i), R, u)
    PROVE  Owner(h, p)
<1>1. LinkedAs(h, AtEnd(f, p, i))
  BY OrderFacts
<1>2. AtEnd(f, p, i)[p] = Append(f[p], i) /\ Append(f[p], i) # <<>>
  <2>1. AtEnd(f, p, i)[p] = Append(f[p], i)
    BY DEF AtEnd
  <2>2. f[p] \in Seq(Items)
    OBVIOUS
  <2>3. Len(Append(f[p], i)) = Len(f[p]) + 1 /\ Len(f[p]) \in Nat
    BY <2>2
  <2>4. Len(<<>>) = 0
    OBVIOUS
  <2>5. Append(f[p], i) # <<>>
    <3> DEFINE q == Append(f[p], i)
    <3>1. Len(q) # 0
      BY <2>3
    <3> HIDE DEF q
    <3>2. q # <<>>
      BY <2>4, <3>1
    <3> QED BY <3>2 DEF q
  <2> QED BY <2>1, <2>5
<1> QED BY <1>1, <1>2, LinkedChild

\* Every heap that the client may begin with is in order.
LEMMA BeginsInOrder ==
    \A h \in {EmptyHeap, TwoTexts, TwoMembers} : \E e : Order(h, e, {h.ret} \ {NULL}, 0)
<1>1. \E e : Order(EmptyHeap, e, {EmptyHeap.ret} \ {NULL}, 0)
  <2>1. {EmptyHeap.ret} \ {NULL} = {}
    BY EmptyOrder
  <2> QED BY <2>1, EmptyOrder
<1>2. \E e : Order(TwoTexts, e, {TwoTexts.ret} \ {NULL}, 0)
  <2>1. "string" \in Kinds /\ 2 \in Nat
    BY DEF Kinds
  <2>2. PICK e : Grown(Plenty, Bare, {}, 0, TwoTexts, e)
    BY <2>1, PlentyOrder, ArrayMade DEF TwoTexts
  <2>3. CASE TwoTexts.ret = NULL
    <3>1. Order(TwoTexts, e, {}, 0) /\ {TwoTexts.ret} \ {NULL} = {}
      BY <2>2, <2>3 DEF Grown
    <3> QED BY <3>1
  <2>4. CASE TwoTexts.ret # NULL
    <3>1. Order(TwoTexts, e, {} \cup {TwoTexts.ret}, 0) /\ {TwoTexts.ret} \ {NULL} = {} \cup {TwoTexts.ret}
      BY <2>2, <2>4 DEF Grown
    <3> QED BY <3>1
  <2> QED BY <2>3, <2>4
<1>3. \E e : Order(TwoMembers, e, {TwoMembers.ret} \ {NULL}, 0)
  <2> DEFINE h == CreatePlain(Plenty, "object")
             p == h.ret
             g1 == AddNewToObject(h, p, "a", "string")
             g2 == AddNewToObject(g1, p, "A", "array")
             n == [Blank EXCEPT !.kind = "object"]
  <2>1. Order(Plenty, Bare, {}, 0) /\ Clean(Plenty)
    BY PlentyOrder, OrderFacts
  <2>2. "object" \in Kinds \ {"string"} /\ "string" \in Kinds /\ "array" \in Kinds /\ "a" \in Keys /\ "A" \in Keys
    BY DEF Kinds, Keys
  <2>3. h.ret # NULL => NewAs(Plenty, h, n)
    BY <2>1, <2>2, PlainMade
  <2>4. h.ret # NULL
    <3>1. Plenty.left = 2 * N /\ Plenty.left # 0 /\ \A i \in Items : Plenty.node[i] = Freed
      BY ItemsFinite, JsonAssumption DEF Plenty, EmptyHeap
    <3>2. Unused(Plenty) # {}
      BY <3>1, PointersAre, BlankIs DEF Unused
    <3> DEFINE x == NewItem(Plenty)
    <3>3. x \in Heap /\ x.ret # NULL
      <4>1. x.ret = CHOOSE i \in Unused(Plenty) : \A j \in Unused(Plenty) : i <= j
        BY <3>1, <3>2 DEF NewItem, Plenty, EmptyHeap
      <4>2. Unused(Plenty) \subseteq Items /\ Items \subseteq Nat
        BY ItemNotNull DEF Unused
      <4>3. x.ret \in Unused(Plenty)
        <5>1. \E i \in Unused(Plenty) : \A j \in Unused(Plenty) : i <= j
          BY <3>2, <4>2, LeastNat
        <5> QED BY <4>1, <5>1
      <4>4. x.ret # NULL
        BY <4>2, <4>3, PointersAre
      <4> QED BY <2>1, <4>4, NewItemIs DEF Clean, SetTo, Like
    <3> HIDE DEF x
    <3>4. h = [x EXCEPT !.node[x.ret].kind = "object"]
      BY <3>3 DEF CreatePlain, x
    <3> QED BY <3>3, <3>4 DEF Heap
  <2> HIDE DEF h
  <2>5. NewIs(Plenty, Bare, {}, 0, h, n) /\ p \in Items
    BY <2>1, <2>3, <2>4, NewOrder DEF NewAs
  <2>6. Order(h, Bare, {p}, 0) /\ h.node[p] = n
    <3>1. {} \cup {p} = {p}
      OBVIOUS
    <3> QED BY <2>5, <3>1 DEF NewIs
  <2>7. Owner(h, p)
    BY <2>6, BlankIs DEF Owner
  <2> HIDE DEF p, n
  <2>8. \E e : Order(g1, e, {p}, 0) /\ Owner(g1, p)
    <3>1. \/ g1.ret = NULL /\ Like(h, g1)
          \/ g1.ret \in Items \ Alive(h) /\ Order(g1, AtEnd(Bare, p, g1.ret), {p}, 0)
      BY <2>2, <2>5, <2>6, <2>7, NewAdded
    <3> HIDE DEF g1
    <3>2. CASE Like(h, g1)
      BY <2>5, <2>6, <2>7, <3>2, LikeOrder DEF Like, Owner
    <3>3. CASE g1.ret \in Items \ Alive(h) /\ Order(g1, AtEnd(Bare, p, g1.ret), {p}, 0)
      BY <2>5, <2>6, <3>3, AddedOwner, OrderFacts
    <3> QED BY <3>1, <3>2, <3>3
  <2> HIDE DEF g1
  <2>9. \E e : Order(g2, e, {p}, 0)
    <3>1. PICK e : Order(g1, e, {p}, 0) /\ Owner(g1, p)
      BY <2>8
    <3>2. \/ g2.ret = NULL /\ Like(g1, g2)
          \/ g2.ret \in Items \ Alive(g1) /\ Order(g2, AtEnd(e, p, g2.ret), {p}, 0)
      BY <2>2, <2>5, <3>1, NewAdded
    <3> HIDE DEF g2
    <3>3. CASE Like(g1, g2)
      BY <3>1, <3>3, LikeOrder
    <3> QED BY <3>2, <3>3
  <2> HIDE DEF g2
  <2>10. PICK e : Order(g2, e, {p}, 0)
    BY <2>9
  <2>11. TwoMembers = [g2 EXCEPT !.ret = p]
    BY DEF TwoMembers, g1, g2, h, p
  <2>12. g2 \in Heap /\ p \in Pointers
    BY <2>5, <2>10, OrderFacts, PointersAre
  <2>13. Like(g2, TwoMembers) /\ TwoMembers.ret = p
    BY <2>11, <2>12, ReturnLike
  <2>14. {TwoMembers.ret} \ {NULL} = {p}
    BY <2>5, <2>13, PointersAre
  <2> QED BY <2>10, <2>13, <2>14, LikeOrder
<1> QED BY <1>1, <1>2, <1>3

\* The invariant holds at the beginning.
LEMMA InitInv == Init => JsonInv
<1> SUFFICES ASSUME Init PROVE JsonInv
  OBVIOUS
<1>1. PICK h \in {EmptyHeap, TwoTexts, TwoMembers} :
         mem = Ended(h) /\ held = {h.ret} \ {NULL} /\ calls = Cardinality(held)
  BY DEF Init
<1>2. PICK e : Order(h, e, {h.ret} \ {NULL}, 0)
  BY BeginsInOrder
<1>3. lost = {} /\ unnamed = 0 /\ held \cup lost = held
  BY DEF Init
<1>4. EndsAs(h, mem, e, held \cup lost, unnamed)
  <2>1. Order(h, e, held \cup lost, unnamed)
    BY <1>1, <1>2, <1>3
  <2> QED BY <1>1, <2>1, EndedOrder
<1>5. calls \in 0 .. MaxCalls
  <2>1. held = {} \/ held = {h.ret}
    BY <1>1
  <2>2. Cardinality(held) \in {0, 1}
    BY <2>1, FS_EmptySet, FS_Singleton
  <2> QED BY <1>1, <2>2, JsonAssumption
<1> QED BY <1>3, <1>4, <1>5, LiveIs DEF JsonInv, EndsAs

-----------------------------------------------------------------------------
\* Steps of ItemTree

\* The operators on lists are the same in both modules.
LEMMA SameOperators ==
    /\ \A f, i : Tree!Within(f, i) = Within(f, i)
    /\ \A q : Tree!ItemsOf(q) = ItemsOf(q)
    /\ \A f, p, i : Tree!AtEnd(f, p, i) = AtEnd(f, p, i)
    /\ \A f, p, n, i : Tree!AtPlace(f, p, n, i) = AtPlace(f, p, n, i)
    /\ \A f, p, n : Tree!Taken(f, p, n) = Taken(f, p, n)
    /\ \A f, p, n, i : Tree!GivenWay(f, p, n, i) = GivenWay(f, p, n, i)
    /\ \A f, S : Tree!Without(f, S) = Emptied(f, S)
<1>1. \A f, i : Tree!Within(f, i) = Within(f, i)
  BY Zenon DEF Within, Tree!Within, Reached, Tree!Reached, ItemsOf, Tree!ItemsOf,
            Cardinality, Tree!Cardinality
<1>2. \A q : Tree!ItemsOf(q) = ItemsOf(q)
  BY Zenon DEF ItemsOf, Tree!ItemsOf
<1>3. \A f, p, i : Tree!AtEnd(f, p, i) = AtEnd(f, p, i)
  BY Zenon DEF AtEnd, Tree!AtEnd
<1>4. \A f, p, n, i : Tree!AtPlace(f, p, n, i) = AtPlace(f, p, n, i)
  BY Zenon DEF AtPlace, Tree!AtPlace, SE!InsertAt, Tree!SE!InsertAt
<1>5. \A f, p, n : Tree!Taken(f, p, n) = Taken(f, p, n)
  BY Zenon DEF Taken, Tree!Taken, SE!RemoveAt, Tree!SE!RemoveAt
<1>6. \A f, p, n, i : Tree!GivenWay(f, p, n, i) = GivenWay(f, p, n, i)
  BY Zenon DEF GivenWay, Tree!GivenWay, SE!ReplaceAt, Tree!SE!ReplaceAt
<1>7. \A f, S : Tree!Without(f, S) = Emptied(f, S)
  BY Zenon DEF Emptied, Tree!Without
<1> QED BY <1>1, <1>2, <1>3, <1>4, <1>5, <1>6, <1>7, Zenon

\* What every call is shown to be: it keeps the invariant, and is a step of
\* ItemTree or none.
Follows == JsonInv' /\ (Tree!Next \/ (Live' = Live /\ Kids(mem)' = Kids(mem)))

\* What holds before a call.
LEMMA InvFacts ==
    ASSUME JsonInv, mem.status = "ok"
    PROVE  /\ Order(mem, Kids(mem), held \cup lost, unnamed) /\ held \cap lost = {}
           /\ LinkedAs(mem, Kids(mem)) /\ Kids(mem) \in [Items -> Seq(Items)] /\ mem \in Heap
           /\ PlacedOnce(Kids(mem)) /\ Layered(Kids(mem))
           /\ held \cup lost \subseteq Live /\ Live \subseteq Items /\ Live = Alive(mem)
           /\ \A p \in Items : ItemsOf(Kids(mem)[p]) \subseteq Live /\ Len(Kids(mem)[p]) \in Nat
           /\ \A i \in Items : mem.node[i].kind # "invalid"
<1>1. Order(mem, Kids(mem), held \cup lost, unnamed) /\ held \cap lost = {} /\ held \cup lost \subseteq Live
  BY DEF JsonInv
<1>2. LinkedAs(mem, Kids(mem)) /\ Layered(Kids(mem)) /\ mem \in Heap
      /\ \A p \in Items : ItemsOf(Kids(mem)[p]) \subseteq Alive(mem)
      /\ \A i \in Items : mem.node[i].kind # "invalid"
  BY <1>1 DEF Order, Sound
<1>3. PlacedOnce(Kids(mem)) /\ Kids(mem) \in [Items -> Seq(Items)] /\ \A p \in Items : Len(Kids(mem)[p]) \in Nat
  BY <1>2, LinkedLists
<1> QED BY <1>1, <1>2, <1>3, LiveIs DEF Live

\* Nothing moves.
LEMMA StepStays ==
    ASSUME Lands(Kids(mem), Live)
    PROVE  Follows
  BY DEF Lands, Follows

\* New items.
LEMMA StepMakes ==
    ASSUME NEW e, NEW A, Lands(e, A), Live \subseteq A, \A i \in Live : e[i] = Kids(mem)[i],
           \A i \in A \ Live : ItemsOf(e[i]) \cap Live = {}
    PROVE  Follows
<1>1. Live' = A /\ Kids(mem)' = e /\ JsonInv'
  BY DEF Lands
<1>2. Tree!Make
  BY <1>1, SameOperators DEF Tree!Make
<1> QED BY <1>1, <1>2 DEF Follows, Tree!Next

\* Item i gets a place in p.
LEMMA StepAdds ==
    ASSUME JsonInv, mem.status = "ok", NEW p \in Live, NEW n \in Nat, NEW i \in Live \ {p},
           Lands(AtPlace(Kids(mem), p, n, i), Live)
    PROVE  Follows
<1> DEFINE f == Kids(mem)
           L == Len(f[p])
<1>1. Live' = Live /\ Kids(mem)' = AtPlace(f, p, n, i) /\ JsonInv'
  BY DEF Lands
<1>2. L \in Nat
  BY InvFacts
<1>3. PICK m \in 0 .. L : AtPlace(f, p, n, i) = AtPlace(f, p, m, i)
  <2>1. CASE n < L
    BY <1>2, <2>1
  <2>2. CASE ~(n < L)
    <3>1. AtPlace(f, p, n, i) = AtPlace(f, p, L, i) /\ L \in 0 .. L
      <4>1. f \in [Items -> Seq(Items)] /\ p \in Items /\ ~(L < L)
        BY <1>2, InvFacts
      <4> QED BY <1>2, <2>2, <4>1 DEF AtPlace
    <3> QED BY <3>1
  <2> QED BY <2>1, <2>2
<1>4. Tree!Add(p, m, i)
  BY <1>1, <1>3, SameOperators DEF Tree!Add
<1>5. Tree!Next
  BY <1>3, <1>4 DEF Tree!Next
<1> QED BY <1>1, <1>5 DEF Follows

\* An add at the end is one at the place after the last.
LEMMA StepAppends ==
    ASSUME JsonInv, mem.status = "ok", NEW p \in Live, NEW i \in Live \ {p},
           Lands(AtEnd(Kids(mem), p, i), Live)
    PROVE  Follows
<1> DEFINE f == Kids(mem)
           L == Len(f[p])
<1>1. L \in Nat /\ f \in [Items -> Seq(Items)] /\ p \in Items
  BY InvFacts
<1>2. AtPlace(f, p, L, i) = AtEnd(f, p, i)
  <2>1. ~(L < L)
    BY <1>1
  <2> QED BY <1>1, <2>1 DEF AtPlace, AtEnd
<1>3. Lands(AtPlace(f, p, L, i), Live)
  BY <1>2
<1> QED BY <1>1, <1>3, StepAdds

\* A new item goes to the end of those of p.
LEMMA StepAddsNew ==
    ASSUME NEW p \in Live, NEW i \in Items \ Live, Lands(AtEnd(Kids(mem), p, i), Live \cup {i})
    PROVE  Follows
<1>1. Live' = Live \cup {i} /\ Kids(mem)' = AtEnd(Kids(mem), p, i) /\ JsonInv'
  BY DEF Lands
<1>2. Tree!AddNew(p)
  BY <1>1, SameOperators DEF Tree!AddNew
<1>3. Tree!Next
  BY <1>2 DEF Tree!Next
<1> QED BY <1>1, <1>3 DEF Follows

\* An item is taken out.
LEMMA StepTakes ==
    ASSUME NEW p \in Live, NEW n \in 0 .. Len(Kids(mem)[p]) - 1, Kids(mem)[p][n + 1] \in Live,
           Lands(Taken(Kids(mem), p, n), Live)
    PROVE  Follows
<1>1. Live' = Live /\ Kids(mem)' = Taken(Kids(mem), p, n) /\ JsonInv'
  BY DEF Lands
<1>2. Tree!Take(p, n)
  BY <1>1, SameOperators DEF Tree!Take
<1>3. Tree!Next
  BY <1>1, <1>2 DEF Tree!Next
<1> QED BY <1>1, <1>3 DEF Follows

\* An item is taken out and freed, or gives way and is freed, with all in it.
LEMMA StepFreesAt ==
    ASSUME NEW p \in Live, NEW n \in 0 .. Len(Kids(mem)[p]) - 1,
           NEW W, W = Within(Kids(mem), Kids(mem)[p][n + 1]), Kids(mem)[p][n + 1] \in W,
           \/ Lands(Emptied(Taken(Kids(mem), p, n), W), Live \ W)
           \/ \E i \in Live \ {p} : Lands(Emptied(GivenWay(Kids(mem), p, n, i), W), Live \ W)
    PROVE  Follows
<1>1. Live' = Live \ W /\ JsonInv'
  BY DEF Lands
<1>2. Tree!Tree(Kids(mem)[p][n + 1]) = W
  BY SameOperators DEF Tree!Tree
<1>3. Tree!TakeAndFree(p, n) \/ Tree!Swap(p, n)
  <2>1. CASE Lands(Emptied(Taken(Kids(mem), p, n), W), Live \ W)
    BY <1>1, <1>2, <2>1, SameOperators DEF Tree!TakeAndFree, Lands
  <2>2. ASSUME NEW i \in Live \ {p}, Lands(Emptied(GivenWay(Kids(mem), p, n, i), W), Live \ W)
        PROVE  Tree!Swap(p, n)
    <3>1. Kids(mem)' = Tree!Without(Tree!GivenWay(Kids(mem), p, n, i), W)
      BY <2>2, SameOperators DEF Lands
    <3> QED BY <1>1, <1>2, <3>1 DEF Tree!Swap
  <2> QED BY <2>1, <2>2
<1>4. Kids(mem)[p][n + 1] \notin Live'
  BY <1>1
<1>5. Tree!Next
  BY <1>3, <1>4 DEF Tree!Next
<1> QED BY <1>1, <1>5 DEF Follows

\* An item is deleted with all in it.
LEMMA StepFrees ==
    ASSUME NEW i \in Live, NEW W, W = Within(Kids(mem), i), i \in W,
           Lands(Emptied(Kids(mem), W), Live \ W)
    PROVE  Follows
<1>1. Live' = Live \ W /\ Kids(mem)' = Emptied(Kids(mem), W) /\ JsonInv'
  BY DEF Lands
<1>2. Tree!Free(i)
  BY <1>1, SameOperators DEF Tree!Free, Tree!Tree
<1>3. Tree!Next
  BY <1>1, <1>2 DEF Tree!Next
<1> QED BY <1>1, <1>3 DEF Follows

-----------------------------------------------------------------------------
\* Each call keeps the invariant and is a step of ItemTree: calls that make,
\* copy, delete and add

\* A call that the client may make.
Called == JsonInv /\ mem.status = "ok" /\ calls' \in 0 .. MaxCalls

\* A call that gives the client something new, or nothing.
LEMMA GrownFollows ==
    ASSUME Called, NEW b \in Nat, NEW h, NEW e,
           Grown(With(b), Kids(mem), held \cup lost, unnamed, h, e),
           mem' = Ended(h), Gained(h), lost' = lost, unnamed' = unnamed
    PROVE  Follows
<1> DEFINE f == Kids(mem)
           R == held \cup lost
<1>1. /\ Alive(With(b)) = Live /\ R \subseteq Live /\ Live \subseteq Items /\ held \cap lost = {}
      /\ unnamed \in {0, 1}
  BY CallBegins, InvFacts DEF Called, JsonInv
<1>2. \A i \in Live : i \in Alive(h) /\ e[i] = f[i]
  BY <1>1 DEF Grown, Untouched
<1>3. CASE h.ret = NULL
  <2>1. Order(h, e, R, unnamed) /\ Alive(h) = Live /\ held' = held
    BY <1>1, <1>3 DEF Grown, Gained
  <2>2. Lands(e, Live)
    BY <1>1, <2>1, CallEnds DEF Called
  <2> QED BY <1>2, <2>2, StepMakes
<1>4. CASE h.ret # NULL
  <2>1. /\ Order(h, e, R \cup {h.ret}, unnamed) /\ h.ret \in Items \ Live
        /\ Within(e, h.ret) = Alive(h) \ Live /\ held' = held \cup {h.ret}
    BY <1>1, <1>4 DEF Grown, Gained
  <2>2. held' \cup lost' = R \cup {h.ret} /\ held' \cap lost' = {}
    BY <1>1, <2>1
  <2>3. Lands(e, Alive(h))
    BY <1>1, <2>1, <2>2, CallEnds DEF Called
  <2>4. e \in [Items -> Seq(Items)] /\ Alive(h) \subseteq Items
    BY <2>1, OrderFacts
  <2>5. \A i \in Alive(h) \ Live : ItemsOf(e[i]) \subseteq Alive(h) \ Live
    BY <2>1, <2>4, WithinIs
  <2>6. \A i \in Alive(h) \ Live : ItemsOf(e[i]) \cap Live = {}
    BY <2>5
  <2> QED BY <1>2, <2>3, <2>6, StepMakes
<1> QED BY <1>3, <1>4

\* A call that makes a single item of the client's, or nothing.
LEMMA MadeFollows ==
    ASSUME Called, NEW b \in Nat, NEW h, Made(With(b), h), mem' = Ended(h), Gained(h),
           lost' = lost, unnamed' = unnamed
    PROVE  Follows
<1>1. Order(With(b), Kids(mem), held \cup lost, unnamed)
  BY CallBegins DEF Called
<1>2. Grown(With(b), Kids(mem), held \cup lost, unnamed, h, Kids(mem))
  BY <1>1, MadeGrown
<1> QED BY <1>2, GrownFollows

\* cJSON_Create...(): an item.
LEMMA MakeFollows ==
    ASSUME Called, NEW kind \in Kinds, NEW b \in Nat, Make(kind, b)
    PROVE  Follows
<1> DEFINE h == CreateItem(With(b), kind)
<1>1. mem' = Ended(h) /\ Gained(h) /\ lost' = lost /\ unnamed' = unnamed
  BY DEF Make, Ends
<1>2. Clean(With(b))
  BY CallBegins, OrderFacts DEF Called
<1>3. Made(With(b), h)
  BY <1>2, ItemMade
<1> QED BY <1>1, <1>3, MadeFollows

\* cJSON_Create...Reference()
LEMMA MakeReferenceFollows ==
    ASSUME Called, NEW kind \in Kinds, NEW c \in Live \cup {NULL}, NEW b \in Nat, MakeReference(kind, c, b)
    PROVE  Follows
<1> DEFINE h == CreateReferenceTo(With(b), kind, c)
<1>1. mem' = Ended(h) /\ Gained(h) /\ lost' = lost /\ unnamed' = unnamed
  BY DEF MakeReference, Ends
<1>2. Clean(With(b))
  BY CallBegins, OrderFacts DEF Called
<1>3. c \in Pointers
  BY PointersAre DEF Live
<1>4. Made(With(b), h)
  BY <1>2, <1>3, ReferenceToMade
<1> QED BY <1>1, <1>4, MadeFollows

\* cJSON_CreateIntArray() and its like, whichever of their allocations fails.
LEMMA MakeArrayFollows ==
    ASSUME Called, NEW kind \in Kinds, NEW count \in Nat, NEW b \in Nat, MakeArray(kind, count, b)
    PROVE  Follows
<1> DEFINE h == CreateArrayOf(With(b), kind, count)
<1>1. mem' = Ended(h) /\ Gained(h) /\ lost' = lost /\ unnamed' = unnamed
  BY DEF MakeArray, Ends
<1>2. Order(With(b), Kids(mem), held \cup lost, unnamed)
  BY CallBegins DEF Called
<1>3. PICK e : Grown(With(b), Kids(mem), held \cup lost, unnamed, h, e)
  BY <1>2, ArrayMade
<1> QED BY <1>1, <1>3, GrownFollows

\* cJSON_Duplicate(), of an item that can be seen as a whole.
LEMMA DuplicateFollows ==
    ASSUME Called, NEW i \in Live, NEW recurse \in {0, 1}, NEW b \in Nat, Duplicate(i, recurse, b)
    PROVE  Follows
<1> DEFINE h == IF recurse = 1 THEN Copy(With(b), i) ELSE CopyOne(With(b), i)
           f == Kids(mem)
           R == held \cup lost
<1>1. mem' = Ended(h) /\ Gained(h) /\ lost' = lost /\ unnamed' = unnamed /\ Whole(i)
  BY DEF Duplicate, Ends
<1>2. /\ Order(With(b), f, R, unnamed) /\ Alive(With(b)) = Live
      /\ \A j \in Items : With(b).node[j] = mem.node[j]
  BY CallBegins DEF Called
<1>3. CASE recurse = 1
  <2>1. Closed(mem, f, View(i)) /\ i \in View(i)
    BY <1>1, WholeClosed DEF Called
  <2>2. Untouched(mem, f, With(b), f)
    BY <1>2, LiveIs DEF Untouched, Live
  <2>3. Closed(With(b), f, View(i))
    BY <2>1, <2>2, ClosedKept
  <2>4. N + 1 \in Nat
    BY ItemsFinite
  <2>5. CopyMade(With(b), f, R, unnamed, CopyIn[N + 1][With(b)][i], i)
    BY <1>2, <2>1, <2>3, <2>4, CopyInMade
  <2>6. h = CopyIn[N + 1][With(b)][i]
    BY <1>3 DEF Copy
  <2>7. PICK e : Grown(With(b), f, R, unnamed, h, e)
    BY <2>5, <2>6 DEF CopyMade
  <2> QED BY <1>1, <2>7, GrownFollows
<1>4. CASE recurse # 1
  <2>1. h = CopyOne(With(b), i)
    BY <1>4
  <2>2. Clean(With(b)) /\ With(b).node[i].kind # "invalid" /\ i \in Alive(With(b))
    BY <1>2, OrderFacts DEF Live
  <2>3. Made(With(b), h)
    BY <2>1, <2>2, CopyOneMade
  <2> QED BY <1>1, <2>3, MadeFollows
<1> QED BY <1>3, <1>4

\* cJSON_Delete() of an item of the client's.
LEMMA DeleteFollows ==
    ASSUME Called, NEW i \in held, CallDelete(i)
    PROVE  Follows
<1> DEFINE f == Kids(mem)
           R == held \cup lost
           W == Within(f, i)
           g == Delete(mem, i)
<1>1. mem' = Ended(g) /\ held' = held \ {i} /\ lost' = lost /\ unnamed' = unnamed
  BY DEF CallDelete, Ends
<1>2. /\ Order(mem, f, R, unnamed) /\ held \cap lost = {} /\ R \subseteq Live /\ unnamed \in {0, 1}
      /\ Live = Alive(mem) /\ f \in [Items -> Seq(Items)] /\ i \in Items
  BY InvFacts DEF Called, JsonInv
<1>7. i \in R /\ i \notin lost
  BY <1>2
<1> HIDE DEF f, R
<1>3. Order(g, Emptied(f, W), R \ {i}, unnamed) /\ Alive(g) = Live \ W
  BY <1>2, <1>7, DeletedOrder
<1> USE DEF R
<1> HIDE DEF g, W
<1>4. held' \cup lost' = R \ {i} /\ held' \cap lost' = {}
  BY <1>1, <1>2
<1>5. Lands(Emptied(f, W), Live \ W)
  <2>1. /\ Order(g, Emptied(f, W), held' \cup lost', unnamed') /\ unnamed' \in {0, 1}
        /\ calls' \in 0 .. MaxCalls
    BY <1>1, <1>2, <1>3, <1>4 DEF Called
  <2>2. Lands(Emptied(f, W), Alive(g))
    BY <1>1, <1>4, <2>1, CallEnds
  <2> QED BY <1>3, <2>2
<1>6. i \in W /\ i \in Live
  BY <1>2, <1>7, WithinIs DEF W
<1> QED BY <1>5, <1>6, StepFrees DEF W, f

\* The client owns p and has item i to add to it.
Addable(p, i) == p \in Live /\ mem.node[p].ref = 0 /\ i \in held /\ p \notin Within(Kids(mem), i)

\* What holds of an item to add and of what it is added to.
LEMMA AddableFacts ==
    ASSUME Called, NEW p, NEW i, Addable(p, i)
    PROVE  /\ Owner(mem, p) /\ p \in Items /\ i \in Live \ {p} /\ i \in held \cup lost
           /\ i \notin lost /\ i \in Items
           /\ (held \ {i}) \cup lost = (held \cup lost) \ {i}
           /\ (held \ {i}) \cap lost = {}
<1>1. /\ Kids(mem) \in [Items -> Seq(Items)] /\ Live \subseteq Items /\ held \cup lost \subseteq Live
      /\ held \cap lost = {} /\ p \in Live /\ i \in held /\ p \notin Within(Kids(mem), i) /\ mem.node[p].ref = 0
  BY InvFacts DEF Called, Addable
<1>2. i \in Within(Kids(mem), i)
  BY <1>1, WithinIs
<1>3. i \in Items /\ p \in Items /\ i # p /\ i \in Live /\ i \notin lost /\ i \in held \cup lost
  BY <1>1, <1>2
<1>4. (held \ {i}) \cup lost = (held \cup lost) \ {i} /\ (held \ {i}) \cap lost = {}
  BY <1>1, <1>3
<1>5. Owner(mem, p)
  BY <1>1 DEF Owner, Live
<1> QED BY <1>3, <1>4, <1>5

\* cJSON_AddItemToArray()
LEMMA AddItemToArrayFollows ==
    ASSUME Called, NEW p, NEW i, Addable(p, i), mem.node[p].kind = "array",
           AddItemToArray(p, i), unnamed' = unnamed
    PROVE  Follows
<1> DEFINE f == Kids(mem)
           R == held \cup lost
           g == AddToArray(mem, p, i)
<1>1. mem' = Ended(g) /\ held' = held \ {i} /\ lost' = lost
  BY DEF AddItemToArray
<1>2. Order(mem, f, R, unnamed) /\ unnamed \in {0, 1} /\ Live = Alive(mem)
  BY InvFacts DEF Called, JsonInv
<1>3. Order(g, AtEnd(f, p, i), R \ {i}, unnamed) /\ Alive(g) = Live
  BY <1>2, AddableFacts, AddedOrder DEF Addable
<1>4. held' \cup lost' = R \ {i} /\ held' \cap lost' = {}
  BY <1>1, AddableFacts
<1>5. Lands(AtEnd(f, p, i), Live)
  BY <1>1, <1>2, <1>3, <1>4, CallEnds DEF Called
<1> QED BY <1>5, AddableFacts, StepAppends DEF Called, Addable

\* cJSON_InsertItemInArray()
LEMMA InsertInArrayFollows ==
    ASSUME Called, NEW p, NEW i, Addable(p, i), mem.node[p].kind = "array", NEW n \in Nat,
           InsertInArray(p, n, i), unnamed' = unnamed
    PROVE  Follows
<1> DEFINE f == Kids(mem)
           R == held \cup lost
           g == Insert(mem, p, n, i)
<1>1. mem' = Ended(g) /\ held' = held \ {i} /\ lost' = lost
  BY DEF InsertInArray
<1>2. Order(mem, f, R, unnamed) /\ unnamed \in {0, 1} /\ Live = Alive(mem)
  BY InvFacts DEF Called, JsonInv
<1>3. Order(g, AtPlace(f, p, n, i), R \ {i}, unnamed) /\ Alive(g) = Live
  BY <1>2, AddableFacts, InsertedOrder DEF Addable
<1>4. held' \cup lost' = R \ {i} /\ held' \cap lost' = {}
  BY <1>1, AddableFacts
<1>5. Lands(AtPlace(f, p, n, i), Live)
  BY <1>1, <1>2, <1>3, <1>4, CallEnds DEF Called
<1> QED BY <1>5, AddableFacts, StepAdds DEF Called, Addable

\* cJSON_AddItemToObject(), cJSON_AddItemToObjectCS()
LEMMA AddItemToObjectFollows ==
    ASSUME Called, NEW p, NEW i, Addable(p, i), NEW k \in Keys, NEW const \in {0, 1}, NEW b \in Nat,
           AddItemToObject(p, k, i, const, b)
    PROVE  Follows
<1> DEFINE f == Kids(mem)
           R == held \cup lost
           g == AddToObject(With(b), p, k, i, const)
<1>1. /\ mem' = Ended(g) /\ held' = held \ {i} /\ unnamed' = unnamed
      /\ lost' = IF g.ret = 1 THEN lost ELSE lost \cup {i}
  BY DEF AddItemToObject, Ends
<1>2. /\ Order(With(b), f, R, unnamed) /\ unnamed \in {0, 1} /\ Alive(With(b)) = Live
      /\ \A j \in Items : With(b).node[j] = mem.node[j]
  BY CallBegins DEF Called, JsonInv
<1>3. Owner(With(b), p) /\ p \in Items /\ i \in R
  BY <1>2, AddableFacts DEF Owner
<1>4. \/ g.ret = 0 /\ Like(With(b), g)
      \/ g.ret = 1 /\ Order(g, AtEnd(f, p, i), R \ {i}, unnamed) /\ Alive(g) = Live
  BY <1>2, <1>3, ObjectAdd DEF Addable
<1> HIDE DEF g, f
<1>5. CASE g.ret = 0 /\ Like(With(b), g)
  <2>1. Order(g, f, R, unnamed) /\ Alive(g) = Live
    BY <1>2, <1>5, LikeOrder
  <2>2. held' \cup lost' = R /\ held' \cap lost' = {}
    BY <1>1, <1>3, <1>5, AddableFacts
  <2>3. Lands(f, Live)
    BY <1>1, <1>2, <2>1, <2>2, CallEnds DEF Called
  <2> QED BY <2>3, StepStays DEF f
<1>6. CASE g.ret = 1 /\ Order(g, AtEnd(f, p, i), R \ {i}, unnamed) /\ Alive(g) = Live
  <2>1. held' \cup lost' = R \ {i} /\ held' \cap lost' = {}
    BY <1>1, <1>6, AddableFacts
  <2>2. Lands(AtEnd(f, p, i), Live)
    BY <1>1, <1>2, <1>6, <2>1, CallEnds DEF Called
  <2> QED BY <2>2, AddableFacts, StepAppends DEF Called, Addable, f
<1> QED BY <1>4, <1>5, <1>6

-----------------------------------------------------------------------------
\* Calls that add what they make

\* A new item is in a list that it was not in, or in none.
LEMMA NewIn ==
    ASSUME Called, NEW b \in Nat, NEW h1, NEW n, NewAs(With(b), h1, n), NEW p \in Live, mem.node[p].ref = 0
    PROVE  /\ Order(h1, Kids(mem), held \cup lost \cup {h1.ret}, unnamed)
           /\ Alive(h1) = Live \cup {h1.ret} /\ h1.ret \in Items \ Live
           /\ Owner(h1, p) /\ h1.node[p] = mem.node[p] /\ p \notin Within(Kids(mem), h1.ret)
           /\ Kids(mem)[h1.ret] = <<>>
<1>1. /\ Order(With(b), Kids(mem), held \cup lost, unnamed) /\ Alive(With(b)) = Live
      /\ \A i \in Items : With(b).node[i] = mem.node[i]
  BY CallBegins DEF Called
<1>2. NewIs(With(b), Kids(mem), held \cup lost, unnamed, h1, n)
  BY <1>1, NewOrder
<1>3. /\ Order(h1, Kids(mem), held \cup lost \cup {h1.ret}, unnamed)
      /\ Alive(h1) = Live \cup {h1.ret} /\ \A j \in Live : h1.node[j] = With(b).node[j]
      /\ Kids(mem)[h1.ret] = <<>> /\ Within(Kids(mem), h1.ret) = {h1.ret}
  BY <1>1, <1>2 DEF NewIs
<1>4. h1.ret \in Items \ Live
  BY <1>1 DEF NewAs
<1>5. p \in Items /\ h1.node[p] = mem.node[p] /\ mem.node[p].kind # "free"
  BY <1>1, <1>3 DEF Live
<1> QED BY <1>3, <1>4, <1>5 DEF Owner

\* What a call that comes to nothing leaves.
LEMMA NothingFollows ==
    ASSUME Called, NEW b \in Nat, NEW h, Like(With(b), h), mem' = Ended(h),
           held' \cup lost' = held \cup lost, held' \cap lost' = {},
           unnamed' \in {0, 1}, unnamed' = 0 => unnamed = 0
    PROVE  Follows
<1>1. Order(With(b), Kids(mem), held \cup lost, unnamed) /\ Alive(With(b)) = Live
  BY CallBegins DEF Called
<1>2. Order(h, Kids(mem), held \cup lost, unnamed) /\ Alive(h) = Live
  BY <1>1, LikeOrder
<1>3. Order(h, Kids(mem), held' \cup lost', unnamed')
  BY <1>2 DEF Order
<1>4. Lands(Kids(mem), Live)
  BY <1>2, <1>3, CallEnds DEF Called
<1> QED BY <1>4, StepStays

\* create_reference() either makes an item or nothing.
LEMMA ReferenceIs ==
    ASSUME Called, NEW b \in Nat, NEW i \in Live
    PROVE  LET h1 == Reference(With(b), i) IN
           \/ h1.ret = NULL /\ Like(With(b), h1)
           \/ h1.ret # NULL /\ \E n : NewAs(With(b), h1, n)
<1>1. Clean(With(b)) /\ i \in Alive(With(b)) /\ With(b).node[i].kind # "invalid"
  BY CallBegins, OrderFacts DEF Called, Live
<1>2. Made(With(b), Reference(With(b), i))
  BY <1>1, ReferenceMade
<1> QED BY <1>2 DEF Made

\* cJSON_AddItemReferenceToArray()
LEMMA AddReferenceToArrayFollows ==
    ASSUME Called, NEW p \in Live, mem.node[p].kind = "array", mem.node[p].ref = 0, NEW i \in Live,
           NEW b \in Nat, AddReferenceToArray(p, i, b)
    PROVE  Follows
<1> DEFINE f == Kids(mem)
           R == held \cup lost
           h1 == Reference(With(b), i)
           c == h1.ret
           g == AddToArray(h1, p, c)
<1>1. mem' = Ended(g) /\ held' = held /\ lost' = lost /\ unnamed' = unnamed
  BY DEF AddReferenceToArray, Ends
<1>2. held \cap lost = {} /\ unnamed \in {0, 1} /\ R \subseteq Live
  BY InvFacts DEF Called, JsonInv
<1>3. \/ c = NULL /\ Like(With(b), h1)
      \/ c # NULL /\ \E n : NewAs(With(b), h1, n)
  BY ReferenceIs
<1> HIDE DEF h1
<1>4. CASE c = NULL /\ Like(With(b), h1)
  <2>1. g = [h1 EXCEPT !.ret = 0]
    BY <1>4 DEF AddToArray
  <2>2. Like(With(b), g)
    BY <1>4, <2>1, PointersAre DEF Like, Heap
  <2> HIDE DEF g
  <2> QED BY <1>1, <1>2, <2>2, NothingFollows
<1>5. CASE c # NULL /\ \E n : NewAs(With(b), h1, n)
  <2>1. PICK n : NewAs(With(b), h1, n)
    BY <1>5
  <2>2. /\ Order(h1, f, R \cup {c}, unnamed) /\ Alive(h1) = Live \cup {c} /\ c \in Items \ Live
        /\ Owner(h1, p) /\ h1.node[p] = mem.node[p] /\ p \notin Within(f, c) /\ p \in Items
    BY <2>1, NewIn DEF Live
  <2> HIDE DEF c
  <2>3. c \in R \cup {c} /\ h1.node[p].kind # "object" /\ (R \cup {c}) \ {c} = R
    BY <1>2, <2>2
  <2>4. Order(g, AtEnd(f, p, c), (R \cup {c}) \ {c}, unnamed) /\ Alive(g) = Live \cup {c}
    BY <2>2, <2>3, AddedOrder
  <2> HIDE DEF g
  <2>5. Order(g, AtEnd(f, p, c), held' \cup lost', unnamed')
    BY <1>1, <2>3, <2>4
  <2>6. Lands(AtEnd(f, p, c), Live \cup {c})
    BY <1>1, <1>2, <2>4, <2>5, CallEnds DEF Called
  <2> QED BY <2>2, <2>6, StepAddsNew
<1> QED BY <1>3, <1>4, <1>5

\* cJSON_AddItemReferenceToObject()
LEMMA AddReferenceToObjectFollows ==
    ASSUME Called, NEW p \in Live, mem.node[p].ref = 0, NEW k \in Keys, NEW i \in Live,
           NEW b \in Nat, AddReferenceToObject(p, k, i, b)
    PROVE  Follows
<1> DEFINE f == Kids(mem)
           R == held \cup lost
           h1 == Reference(With(b), i)
           c == h1.ret
           g == AddToObject(h1, p, k, c, 0)
<1>1. /\ mem' = Ended(g) /\ held' = held /\ unnamed' = unnamed
      /\ lost' = IF c # NULL /\ g.ret = 0 THEN lost \cup {c} ELSE lost
  BY DEF AddReferenceToObject, Ends
<1>2. held \cap lost = {} /\ unnamed \in {0, 1} /\ R \subseteq Live
  BY InvFacts DEF Called, JsonInv
<1>3. \/ c = NULL /\ Like(With(b), h1)
      \/ c # NULL /\ \E n : NewAs(With(b), h1, n)
  BY ReferenceIs
<1> HIDE DEF h1
<1>4. CASE c = NULL /\ Like(With(b), h1)
  <2>1. g = [h1 EXCEPT !.ret = 0]
    BY <1>4 DEF AddToObject
  <2>2. Like(With(b), g)
    BY <1>4, <2>1, PointersAre DEF Like, Heap
  <2>3. lost' = lost
    BY <1>1, <1>4
  <2> HIDE DEF g
  <2> QED BY <1>1, <1>2, <2>2, <2>3, NothingFollows
<1>5. CASE c # NULL /\ \E n : NewAs(With(b), h1, n)
  <2>1. PICK n : NewAs(With(b), h1, n)
    BY <1>5
  <2>2. /\ Order(h1, f, R \cup {c}, unnamed) /\ Alive(h1) = Live \cup {c} /\ c \in Items \ Live
        /\ Owner(h1, p) /\ p \notin Within(f, c) /\ p \in Items /\ f[c] = <<>>
    BY <2>1, NewIn DEF Live
  <2> HIDE DEF c
  <2>3. c \in R \cup {c} /\ (R \cup {c}) \ {c} = R /\ 0 \in {0, 1}
    BY <1>2, <2>2
  <2>4. \A const \in {0, 1} : LET x == AddToObject(h1, p, k, c, const) IN
           \/ x.ret = 0 /\ Like(h1, x)
           \/ x.ret = 1 /\ Order(x, AtEnd(f, p, c), (R \cup {c}) \ {c}, unnamed) /\ Alive(x) = Alive(h1)
    <3> DEFINE Q == R \cup {c}
    <3>1. Order(h1, f, Q, unnamed) /\ c \in Q /\ p \in Items /\ Owner(h1, p) /\ p \notin Within(f, c)
      BY <2>2, <2>3
    <3> HIDE DEF Q, f
    <3>2. ASSUME NEW const \in {0, 1}
          PROVE  LET x == AddToObject(h1, p, k, c, const) IN
                 \/ x.ret = 0 /\ Like(h1, x)
                 \/ x.ret = 1 /\ Order(x, AtEnd(f, p, c), Q \ {c}, unnamed) /\ Alive(x) = Alive(h1)
      BY <3>1, ObjectAdd
    <3> QED BY <3>2 DEF Q
  <2>5. \/ g.ret = 0 /\ Like(h1, g)
        \/ g.ret = 1 /\ Order(g, AtEnd(f, p, c), R, unnamed) /\ Alive(g) = Alive(h1)
    BY <2>3, <2>4
  <2> HIDE DEF g, f
  <2>6. CASE g.ret = 0 /\ Like(h1, g)
    <3>1. Order(g, f, R \cup {c}, unnamed) /\ Alive(g) = Live \cup {c}
      BY <2>2, <2>6, LikeOrder
    <3>2. held' \cup lost' = R \cup {c} /\ held' \cap lost' = {}
      BY <1>1, <1>2, <1>5, <2>2, <2>6
    <3>3. Order(g, f, held' \cup lost', unnamed')
      BY <1>1, <3>1, <3>2
    <3>4. Lands(f, Live \cup {c})
      BY <1>1, <1>2, <3>1, <3>2, <3>3, CallEnds DEF Called
    <3>5. ItemsOf(f[c]) = {}
      BY <2>2 DEF ItemsOf
    <3> QED BY <3>4, <3>5, StepMakes DEF f
  <2>7. CASE g.ret = 1 /\ Order(g, AtEnd(f, p, c), R, unnamed) /\ Alive(g) = Alive(h1)
    <3>1. held' \cup lost' = R /\ held' \cap lost' = {}
      BY <1>1, <1>2, <2>7
    <3>3. Order(g, AtEnd(f, p, c), held' \cup lost', unnamed') /\ Alive(g) = Live \cup {c}
      BY <1>1, <2>2, <2>7, <3>1
    <3>2. Lands(AtEnd(f, p, c), Live \cup {c})
      BY <1>1, <1>2, <3>1, <3>3, CallEnds DEF Called
    <3> QED BY <2>2, <3>2, StepAddsNew DEF f
  <2> QED BY <2>5, <2>6, <2>7
<1> QED BY <1>3, <1>4, <1>5

\* cJSON_Add...ToObject()
LEMMA AddNewFollows ==
    ASSUME Called, NEW p \in Live, mem.node[p].ref = 0, NEW k \in Keys, NEW kind \in Kinds,
           NEW b \in Nat, AddNew(p, k, kind, b)
    PROVE  Follows
<1> DEFINE f == Kids(mem)
           R == held \cup lost
           g == AddNewToObject(With(b), p, k, kind)
<1>1. mem' = Ended(g) /\ held' = held /\ lost' = lost /\ unnamed' = unnamed
  BY DEF AddNew, Ends
<1>2. held \cap lost = {} /\ unnamed \in {0, 1} /\ R \subseteq Live /\ p \in Items
  BY InvFacts DEF Called, JsonInv
<1>3. /\ Order(With(b), f, R, unnamed) /\ Alive(With(b)) = Live
      /\ \A j \in Items : With(b).node[j] = mem.node[j]
  BY CallBegins DEF Called
<1>4. Owner(With(b), p)
  BY <1>2, <1>3 DEF Owner, Live
<1>5. \/ g.ret = NULL /\ Like(With(b), g)
      \/ /\ g.ret \in Items \ Live /\ Order(g, AtEnd(f, p, g.ret), R, unnamed)
         /\ Alive(g) = Live \cup {g.ret}
  BY <1>2, <1>3, <1>4, NewAdded
<1> HIDE DEF g
<1>6. CASE Like(With(b), g)
  BY <1>1, <1>2, <1>6, NothingFollows
<1>7. CASE /\ g.ret \in Items \ Live /\ Order(g, AtEnd(f, p, g.ret), R, unnamed)
           /\ Alive(g) = Live \cup {g.ret}
  <2>1. Lands(AtEnd(f, p, g.ret), Live \cup {g.ret})
    BY <1>1, <1>2, <1>7, CallEnds DEF Called
  <2> QED BY <1>7, <2>1, StepAddsNew
<1> QED BY <1>5, <1>6, <1>7

-----------------------------------------------------------------------------
\* Calls that take something out of a list or replace it

\* g is what cJSON_Delete() of r leaves of h; the items of W go.
DeletedAs(h, f, R, u, r, W, g) ==
    Order(g, Emptied(f, W), R \ {r}, u) /\ Alive(g) = Alive(h) \ W

\* cJSON_Delete() in these terms.
LEMMA DeletedWell ==
    ASSUME NEW h, NEW f, NEW R, NEW u, Order(h, f, R, u), NEW r \in R
    PROVE  DeletedAs(h, f, R, u, r, Within(f, r), Delete(h, r))
  BY DeletedOrder DEF DeletedAs

\* What a lookup comes to: nothing, or an item of p.
Placed(p, i) ==
    \/ i = NULL
    \/ \E n \in 0 .. Len(Kids(mem)[p]) - 1 : i = Kids(mem)[p][n + 1]

\* The client may change what is in p.
Opened(p) == p \in Live /\ mem.node[p].ref = 0

\* What holds of an array or object that the client may change.
LEMMA OpenedFacts ==
    ASSUME Called, NEW p, Opened(p)
    PROVE  /\ p \in Items /\ p \in Live /\ Owner(mem, p)
           /\ Len(Kids(mem)[p]) \in Nat
           /\ \A n \in 0 .. Len(Kids(mem)[p]) - 1 :
                 Kids(mem)[p][n + 1] \in Items /\ Kids(mem)[p][n + 1] \in ItemsOf(Kids(mem)[p])
<1>1. p \in Items /\ p \in Live /\ Owner(mem, p)
  BY DEF Opened, Owner, Live
<1>2. Kids(mem) \in [Items -> Seq(Items)] /\ Len(Kids(mem)[p]) \in Nat
  BY <1>1, InvFacts DEF Called
<1>3. ASSUME NEW n \in 0 .. Len(Kids(mem)[p]) - 1
      PROVE  Kids(mem)[p][n + 1] \in Items /\ Kids(mem)[p][n + 1] \in ItemsOf(Kids(mem)[p])
  <2>1. n + 1 \in 1 .. Len(Kids(mem)[p])
    BY <1>2
  <2> QED BY <1>1, <1>2, <2>1 DEF ItemsOf
<1> QED BY <1>1, <1>2, <1>3

\* get_array_item()
LEMMA ItemAtPlaced ==
    ASSUME Called, NEW p, Opened(p), NEW n \in Nat
    PROVE  Placed(p, ItemAt(mem, p, n))
<1>1. ItemAt(mem, p, n) = IF n < Len(Kids(mem)[p]) THEN Kids(mem)[p][n + 1] ELSE NULL
  BY OpenedFacts, InvFacts, ItemAtIs DEF Called
<1>2. n < Len(Kids(mem)[p]) => n \in 0 .. Len(Kids(mem)[p]) - 1
  BY OpenedFacts
<1> QED BY <1>1, <1>2 DEF Placed

\* What an item of p contains is not touched when p is.
LEMMA PartsStay ==
    ASSUME Called, NEW p, Opened(p), NEW x \in ItemsOf(Kids(mem)[p]), NEW e \in [Items -> Seq(Items)],
           \A q \in Items \ {p} : e[q] = Kids(mem)[q]
    PROVE  Within(e, x) = Within(Kids(mem), x) /\ x \in Within(e, x)
<1>1. Kids(mem) \in [Items -> Seq(Items)] /\ Layered(Kids(mem)) /\ p \in Items /\ x \in Items
  BY OpenedFacts, InvFacts, ItemsOfAre DEF Called
<1>2. p \notin Within(Kids(mem), x) /\ Within(Kids(mem), x) \subseteq Items
  BY <1>1, LayeredIs, WithinIs
<1>3. \A j \in Within(Kids(mem), x) : e[j] = Kids(mem)[j]
  BY <1>2
<1> DEFINE f == Kids(mem)
<1>4. f \in [Items -> Seq(Items)] /\ x \in Items /\ \A j \in Within(f, x) : e[j] = f[j]
  BY <1>1, <1>3
<1> HIDE DEF f
<1>5. Within(e, x) = Within(f, x)
  BY <1>4, WithinSame
<1>6. x \in Within(f, x)
  BY <1>4, WithinIs
<1> QED BY <1>5, <1>6 DEF f

\* Nothing to detach, and nothing to delete.
LEMMA NothingThere ==
    ASSUME Called, NEW p
    PROVE  /\ Detach(mem, p, NULL) = mem /\ mem.ret = NULL /\ Delete(mem, NULL) = mem
<1>1. mem \in Heap /\ mem.ret = NULL
  BY DEF Called, JsonInv
<1>2. Detach(mem, p, NULL) = mem
  BY <1>1 DEF Detach, Heap
<1>3. N \in Nat /\ NULL \in Pointers
  BY ItemsFinite, PointersAre
<1>4. DeleteIn[N][mem][NULL] = IF N = 0 THEN NoStep(mem, NULL) ELSE DeleteStep(DeleteIn[N - 1], mem, NULL)
  BY <1>1, <1>3, DeleteInIs
<1>5. Delete(mem, NULL) = mem
  BY <1>4 DEF Delete, NoStep, DeleteStep
<1> QED BY <1>1, <1>2, <1>5

\* cJSON_DetachItemFromArray(), cJSON_DetachItemFromObject()
LEMMA DetachFollows ==
    ASSUME Called, NEW p, Opened(p), NEW i, Placed(p, i),
           NEW h, h = Detach(mem, p, i), mem' = Ended(h), Gained(h), lost' = lost, unnamed' = unnamed
    PROVE  Follows
<1> DEFINE f == Kids(mem)
           R == held \cup lost
<1>1. /\ held \cap lost = {} /\ unnamed \in {0, 1} /\ R \subseteq Live /\ Live = Alive(mem)
      /\ Order(mem, f, R, unnamed)
  BY InvFacts DEF Called, JsonInv
<1>2. CASE i = NULL
  <2>1. mem' = Ended(mem) /\ held' = held
    BY <1>2, NothingThere DEF Gained
  <2>2. Lands(f, Live)
    BY <1>1, <2>1, CallEnds DEF Called
  <2> QED BY <2>2, StepStays
<1>3. ASSUME NEW n \in 0 .. Len(f[p]) - 1, i = f[p][n + 1] PROVE Follows
  <2>1. /\ h.ret = f[p][n + 1] /\ h.ret \in Live /\ h.ret \notin R
        /\ Order(h, Taken(f, p, n), R \cup {h.ret}, unnamed) /\ Alive(h) = Live
    <3>1. DetachedAs(mem, f, R, unnamed, p, n, Detach(mem, p, f[p][n + 1]))
      BY <1>1, <1>3, OpenedFacts, DetachedWell
    <3> QED BY <1>1, <1>3, <3>1 DEF DetachedAs
  <2>2. h.ret # NULL
    BY <2>1, PointersAre DEF Live
  <2>3. held' \cup lost' = R \cup {h.ret} /\ held' \cap lost' = {}
    BY <1>1, <2>1, <2>2 DEF Gained
  <2> HIDE DEF f
  <2>4. Order(h, Taken(f, p, n), held' \cup lost', unnamed')
    BY <2>1, <2>3
  <2>7. Lands(Taken(f, p, n), Alive(h))
    BY <1>1, <2>3, <2>4, CallEnds DEF Called
  <2>5. Lands(Taken(f, p, n), Live)
    BY <2>1, <2>7
  <2>6. f[p][n + 1] \in Live
    BY <2>1
  <2> QED BY <1>3, <2>5, <2>6, OpenedFacts, StepTakes DEF f
<1> QED BY <1>2, <1>3 DEF Placed

\* cJSON_DeleteItemFromArray(), cJSON_DeleteItemFromObject()
LEMMA DeleteFromFollows ==
    ASSUME Called, NEW p, Opened(p), NEW i, Placed(p, i),
           NEW h, h = Detach(mem, p, i), mem' = Ended(Delete(h, h.ret)),
           held' = held, lost' = lost, unnamed' = unnamed
    PROVE  Follows
<1> DEFINE f == Kids(mem)
           R == held \cup lost
<1>1. /\ held \cap lost = {} /\ unnamed \in {0, 1} /\ R \subseteq Live /\ Live = Alive(mem)
      /\ Order(mem, f, R, unnamed) /\ f \in [Items -> Seq(Items)]
  BY InvFacts DEF Called, JsonInv
<1>2. CASE i = NULL
  <2>1. mem' = Ended(mem)
    BY <1>2, NothingThere
  <2>2. Lands(f, Live)
    BY <1>1, <2>1, CallEnds DEF Called
  <2> QED BY <2>2, StepStays
<1>3. ASSUME NEW n \in 0 .. Len(f[p]) - 1, i = f[p][n + 1] PROVE Follows
  <2> DEFINE r == h.ret
             e == Taken(f, p, n)
             W == Within(e, r)
             g == Delete(h, r)
  <2>1. /\ r = f[p][n + 1] /\ r \in Live /\ r \notin R
        /\ Order(h, e, R \cup {r}, unnamed) /\ Alive(h) = Live
    <3>1. DetachedAs(mem, f, R, unnamed, p, n, Detach(mem, p, f[p][n + 1]))
      BY <1>1, <1>3, OpenedFacts, DetachedWell
    <3> QED BY <1>1, <1>3, <3>1 DEF DetachedAs
  <2>2. r \in R \cup {r} /\ (R \cup {r}) \ {r} = R
    BY <2>1
  <2>3. e \in [Items -> Seq(Items)] /\ \A q \in Items \ {p} : e[q] = f[q]
    BY <1>1, <2>1, OrderFacts DEF Taken
  <2>10. r \in ItemsOf(f[p])
    BY <1>3, <2>1, OpenedFacts
  <2> HIDE DEF r, e
  <2>4. W = Within(f, r) /\ r \in W
    BY <2>3, <2>10, PartsStay
  <2> HIDE DEF f
  <2>5. Order(g, Emptied(e, W), (R \cup {r}) \ {r}, unnamed) /\ Alive(g) = Live \ W
    <3> DEFINE Q == R \cup {r}
    <3>1. Order(h, e, Q, unnamed) /\ r \in Q /\ Alive(h) = Live
      BY <2>1, <2>2
    <3> HIDE DEF Q
    <3>2. DeletedAs(h, e, Q, unnamed, r, Within(e, r), Delete(h, r))
      BY <3>1, DeletedWell
    <3> QED BY <3>1, <3>2 DEF DeletedAs, Q
  <2> HIDE DEF g, W
  <2>6. Order(g, Emptied(e, W), held' \cup lost', unnamed') /\ mem' = Ended(g)
    BY <2>2, <2>5 DEF g, r
  <2>7. Lands(Emptied(e, W), Alive(g))
    BY <1>1, <2>6, CallEnds DEF Called
  <2>8. Lands(Emptied(e, W), Live \ W)
    BY <2>5, <2>7
  <2>9. W = Within(f, f[p][n + 1]) /\ f[p][n + 1] \in W
    BY <2>1, <2>4
  <2> QED BY <1>3, <2>8, <2>9, OpenedFacts, StepFreesAt DEF e, f
<1> QED BY <1>2, <1>3 DEF Placed

\* cJSON_ReplaceItemInArray(), cJSON_ReplaceItemInObject(): h1 is the heap when
\* the item to replace has been looked for.
LEMMA ReplaceFollows ==
    ASSUME Called, NEW p, NEW r, Addable(p, r), NEW i, Placed(p, i),
           NEW h1, Order(h1, Kids(mem), held \cup lost, unnamed), Alive(h1) = Live, Owner(h1, p),
           unnamed' \in {0, 1},
           unnamed' = 0 => unnamed = 0 /\ (h1.node[p].kind = "object" => h1.node[r].key # NoKey),
           NEW h, h = Replace(h1, p, i, r), mem' = Ended(h), held' = held \ {r},
           lost' = IF h.ret = 1 THEN lost ELSE lost \cup {r}
    PROVE  Follows
<1> DEFINE f == Kids(mem)
           R == held \cup lost
<1>1. /\ Opened(p) /\ r \in R /\ p \in Items /\ r \in Live \ {p} /\ r \notin lost /\ r \in held
      /\ p \notin Within(f, r) /\ (held \ {r}) \cup lost = R \ {r} /\ (held \ {r}) \cap lost = {}
  BY AddableFacts DEF Addable, Opened
<1>2. /\ held \cap lost = {} /\ R \subseteq Live /\ f \in [Items -> Seq(Items)]
  BY InvFacts DEF Called
<1>3. CASE i = NULL
  <2>1. h = [h1 EXCEPT !.ret = 0]
    BY <1>3 DEF Replace
  <2>2. h1 \in Heap
    BY OrderFacts
  <2>3. Like(h1, h) /\ h.ret = 0
    BY <2>1, <2>2, PointersAre, ReturnLike
  <2>4. Order(h, f, R, unnamed) /\ Alive(h) = Live
    BY <2>3, LikeOrder
  <2>5. held' \cup lost' = R /\ held' \cap lost' = {}
    BY <1>1, <1>2, <2>3
  <2>6. Order(h, f, held' \cup lost', unnamed')
    BY <2>4, <2>5 DEF Order
  <2>7. Lands(f, Live)
    BY <2>4, <2>5, <2>6, CallEnds DEF Called
  <2> QED BY <2>7, StepStays
<1>4. ASSUME NEW n \in 0 .. Len(f[p]) - 1, i = f[p][n + 1] PROVE Follows
  <2> DEFINE e == GivenWay(f, p, n, r)
             W == Within(e, i)
  <2>1. h.ret = 1 /\ Order(h, Emptied(e, W), R \ {r}, unnamed') /\ Alive(h) = Live \ W
    <3> DEFINE v == unnamed'
               u == unnamed
    <3>1. v = 0 => u = 0 /\ (h1.node[p].kind = "object" => h1.node[r].key # NoKey)
      OBVIOUS
    <3>2. Order(h1, f, R, u) /\ n \in 0 .. Len(f[p]) - 1 /\ p \notin Within(f, r)
      BY <1>1
    <3> HIDE DEF v, u, f, R
    <3>3. ReplacedAs(h1, f, R, v, p, n, r, Within(GivenWay(f, p, n, r), f[p][n + 1]),
                     Replace(h1, p, f[p][n + 1], r))
      BY <1>1, <3>1, <3>2, ReplacedWell
    <3> QED BY <1>4, <3>3 DEF v, ReplacedAs
  <2>2. e \in [Items -> Seq(Items)] /\ \A q \in Items \ {p} : e[q] = f[q]
    <3>1. n + 1 \in 1 .. Len(f[p]) /\ f[p] \in Seq(Items) /\ r \in Items
      BY <1>1, <1>2, OpenedFacts, AddableFacts
    <3>2. SE!ReplaceAt(f[p], n + 1, r) \in Seq(Items)
      BY <3>1, ReplaceAtIs
    <3> QED BY <1>2, <3>2 DEF GivenWay
  <2>3. i \in ItemsOf(f[p])
    BY <1>1, <1>4, OpenedFacts
  <2>4. W = Within(f, i) /\ i \in W
    BY <1>1, <2>2, <2>3, PartsStay
  <2> HIDE DEF W
  <2>5. held' \cup lost' = R \ {r} /\ held' \cap lost' = {}
    BY <1>1, <2>1
  <2>6. Order(h, Emptied(e, W), held' \cup lost', unnamed')
    BY <2>1, <2>5
  <2>7. Lands(Emptied(e, W), Alive(h))
    BY <2>5, <2>6, CallEnds DEF Called
  <2>8. Lands(Emptied(GivenWay(f, p, n, r), W), Live \ W)
    BY <2>1, <2>7
  <2>9. W = Within(f, f[p][n + 1]) /\ f[p][n + 1] \in W /\ p \in Live
    BY <1>1, <1>4, <2>4, OpenedFacts
  <2> QED BY <1>1, <1>4, <2>8, <2>9, StepFreesAt
<1> QED BY <1>3, <1>4 DEF Placed

\* strcmp() with NULL ends the process; the heap stays as it was.
LEMMA CrashFollows ==
    ASSUME Called, Crash, unnamed # 0
    PROVE  Follows
<1>1. /\ mem' = [mem EXCEPT !.status = "crash"] /\ held' = held /\ lost' = lost /\ unnamed' = unnamed
  BY DEF Crash
<1>2. /\ mem \in Heap /\ mem.strings \in 0 .. 2 * N /\ mem.left = 0 /\ mem.ret = NULL
      /\ \A i \in Items : mem.node[i].kind # "invalid"
      /\ held \cup lost \subseteq Live /\ held \cap lost = {} /\ unnamed \in {0, 1} /\ calls' \in 0 .. MaxCalls
  BY DEF Called, JsonInv
<1>3. /\ mem' \in Heap /\ mem'.node = mem.node /\ mem'.strings = mem.strings /\ mem'.left = mem.left
      /\ mem'.ret = mem.ret /\ mem'.status = "crash"
  BY <1>1, <1>2 DEF Heap
<1>4. Live' = Live
  BY <1>3 DEF Live
<1>5. JsonInv'
  BY <1>1, <1>2, <1>3, <1>4 DEF JsonInv
<1>6. Kids(mem') = Kids(mem)
  <2>1. LinkedAs(mem, Kids(mem)) 
    BY InvFacts DEF Called
  <2>2. LinkedAs(mem', Kids(mem))
    BY <1>3, <2>1, EndedLinked
  <2> QED BY <2>2, KidsAre
<1>7. Kids(mem)' = Kids(mem)
  BY <1>6
<1> QED BY <1>4, <1>5, <1>7 DEF Follows

-----------------------------------------------------------------------------
\* The calls of cJSON.h, and the theorems

\* cJSON_DetachItemFromArray()
LEMMA DetachFromArrayFollows ==
    ASSUME Called, NEW p, Opened(p), NEW n \in Nat, DetachFromArray(p, n), unnamed' = unnamed
    PROVE  Follows
<1> DEFINE i == ItemAt(mem, p, n)
           h == Detach(mem, p, i)
<1>1. mem' = Ended(h) /\ Gained(h) /\ lost' = lost
  BY DEF DetachFromArray
<1>2. Placed(p, i)
  BY ItemAtPlaced
<1> HIDE DEF i
<1> QED BY <1>1, <1>2, DetachFollows

\* cJSON_DeleteItemFromArray()
LEMMA DeleteFromArrayFollows ==
    ASSUME Called, NEW p, Opened(p), NEW n \in Nat, DeleteFromArray(p, n)
    PROVE  Follows
<1> DEFINE i == ItemAt(mem, p, n)
           h == Detach(mem, p, i)
<1>1. mem' = Ended(Delete(h, h.ret)) /\ held' = held /\ lost' = lost /\ unnamed' = unnamed
  BY DEF DeleteFromArray, Ends
<1>2. Placed(p, i)
  BY ItemAtPlaced
<1> HIDE DEF i
<1> QED BY <1>1, <1>2, DeleteFromFollows

\* get_object_item(), with the crash it may end in.
LEMMA FindPlaced ==
    ASSUME Called, NEW p, Opened(p), mem.node[p].kind = "object", NEW k \in Keys, NEW sensitive \in {0, 1}
    PROVE  LET i == Find(mem, p, k, sensitive) IN
           \/ Placed(p, i) /\ ~(i > N)
           \/ i > N /\ unnamed # 0
<1> DEFINE i == Find(mem, p, k, sensitive)
<1>1. Order(mem, Kids(mem), held \cup lost, unnamed)
  BY InvFacts DEF Called
<1>2. \/ i = NULL
      \/ \E n \in 0 .. Len(Kids(mem)[p]) - 1 : i = Kids(mem)[p][n + 1] /\ i <= N
      \/ i = N + 1 /\ unnamed # 0
  BY <1>1, OpenedFacts, FindIs
<1>3. N \in Nat /\ NULL = 0
  BY ItemsFinite DEF NULL
<1> HIDE DEF i
<1>4. i = NULL => Placed(p, i) /\ ~(i > N)
  BY <1>3 DEF Placed
<1>5. ASSUME NEW n \in 0 .. Len(Kids(mem)[p]) - 1, i = Kids(mem)[p][n + 1], i <= N
      PROVE  Placed(p, i) /\ ~(i > N)
  <2>1. i \in Items
    BY <1>5, OpenedFacts
  <2> QED BY <1>3, <1>5, <2>1, ItemNotNull DEF Placed
<1>6. i = N + 1 => i > N
  BY <1>3
<1> QED BY <1>2, <1>4, <1>5, <1>6 DEF i

\* cJSON_DetachItemFromObject(), with or without case
LEMMA DetachFromObjectFollows ==
    ASSUME Called, NEW p, Opened(p), mem.node[p].kind = "object", NEW k \in Keys, NEW sensitive \in {0, 1},
           DetachFromObject(p, k, sensitive)
    PROVE  Follows
<1> DEFINE i == Find(mem, p, k, sensitive)
           h == Detach(mem, p, i)
<1>1. IF i > N THEN Crash ELSE mem' = Ended(h) /\ Gained(h) /\ lost' = lost /\ unnamed' = unnamed
  BY DEF DetachFromObject, Ends
<1>2. \/ Placed(p, i) /\ ~(i > N)
      \/ i > N /\ unnamed # 0
  BY FindPlaced
<1> HIDE DEF i
<1>3. CASE Placed(p, i) /\ ~(i > N)
  BY <1>1, <1>3, DetachFollows
<1>4. CASE i > N /\ unnamed # 0
  BY <1>1, <1>4, CrashFollows
<1> QED BY <1>2, <1>3, <1>4

\* cJSON_DeleteItemFromObject(), with or without case
LEMMA DeleteFromObjectFollows ==
    ASSUME Called, NEW p, Opened(p), mem.node[p].kind = "object", NEW k \in Keys, NEW sensitive \in {0, 1},
           DeleteFromObject(p, k, sensitive)
    PROVE  Follows
<1> DEFINE i == Find(mem, p, k, sensitive)
           h == Detach(mem, p, i)
<1>1. IF i > N THEN Crash
      ELSE mem' = Ended(Delete(h, h.ret)) /\ held' = held /\ lost' = lost /\ unnamed' = unnamed
  BY DEF DeleteFromObject, Ends
<1>2. \/ Placed(p, i) /\ ~(i > N)
      \/ i > N /\ unnamed # 0
  BY FindPlaced
<1> HIDE DEF i
<1>3. CASE Placed(p, i) /\ ~(i > N)
  BY <1>1, <1>3, DeleteFromFollows
<1>4. CASE i > N /\ unnamed # 0
  BY <1>1, <1>4, CrashFollows
<1> QED BY <1>2, <1>3, <1>4

\* cJSON_ReplaceItemInArray()
LEMMA ReplaceInArrayFollows ==
    ASSUME Called, NEW p, NEW r, Addable(p, r), mem.node[p].kind = "array", NEW n \in Nat,
           ReplaceInArray(p, n, r)
    PROVE  Follows
<1> DEFINE i == ItemAt(mem, p, n)
           h == Replace(mem, p, i, r)
<1>1. /\ mem' = Ended(h) /\ held' = held \ {r} /\ unnamed' = unnamed
      /\ lost' = IF h.ret = 1 THEN lost ELSE lost \cup {r}
  BY DEF ReplaceInArray, Ends
<1>2. Opened(p) /\ Placed(p, i)
  BY ItemAtPlaced DEF Addable, Opened
<1>3. /\ Order(mem, Kids(mem), held \cup lost, unnamed) /\ Alive(mem) = Live /\ Owner(mem, p)
      /\ unnamed \in {0, 1}
  BY <1>2, InvFacts, OpenedFacts DEF Called, JsonInv
<1>4. unnamed' \in {0, 1}
      /\ (unnamed' = 0 => unnamed = 0 /\ (mem.node[p].kind = "object" => mem.node[r].key # NoKey))
  BY <1>1, <1>3
<1> HIDE DEF i
<1> QED BY <1>1, <1>2, <1>3, <1>4, ReplaceFollows

\* replace_item_in_object(): the replacement has its new name, or none, when
\* the item to replace is looked for.
LEMMA ReplaceInObjectFollows ==
    ASSUME Called, NEW p, NEW r, Addable(p, r), mem.node[p].kind = "object", NEW k \in Keys,
           NEW sensitive \in {0, 1}, NEW b \in Nat, ReplaceInObject(p, k, r, sensitive, b)
    PROVE  Follows
<1> DEFINE f == Kids(mem)
           R == held \cup lost
           h1 == Rename(With(b), r, k)
           i == Find(h1, p, k, sensitive)
           h == Replace(h1, p, i, r)
<1>1. IF i > N THEN Crash
      ELSE /\ mem' = Ended(h) /\ held' = held \ {r}
           /\ lost' = IF h.ret = 1 THEN lost ELSE lost \cup {r}
           /\ unnamed' = IF h1.ret = NULL THEN 1 ELSE unnamed
  BY DEF ReplaceInObject, Ends
<1>2. /\ Order(With(b), f, R, unnamed) /\ Alive(With(b)) = Live
      /\ \A j \in Items : With(b).node[j] = mem.node[j]
  BY CallBegins DEF Called
<1>3. r \in R /\ Opened(p) /\ p \in Items /\ Owner(mem, p) /\ unnamed \in {0, 1}
  BY AddableFacts DEF Addable, Opened, Called, JsonInv
<1>4. /\ Order(h1, f, R, unnamed) /\ Alive(h1) = Live
      /\ h1.node[r].key = (IF h1.ret = NULL THEN NoKey ELSE k)
      /\ Owner(h1, p) /\ h1.node[p].kind = "object"
  <2>1. /\ Order(h1, f, R, unnamed) /\ Alive(h1) = Alive(With(b))
        /\ h1.node[r].key = IF h1.ret = NULL THEN NoKey ELSE k
        /\ \A q \in Items : (Owner(h1, q) <=> Owner(With(b), q)) /\ h1.node[q].kind = With(b).node[q].kind
    BY <1>2, <1>3, RenamedOrder
  <2> HIDE DEF h1
  <2> QED BY <1>2, <1>3, <2>1 DEF Owner
<1> HIDE DEF h1
<1>5. \/ i = NULL
      \/ \E n \in 0 .. Len(f[p]) - 1 : i = f[p][n + 1] /\ i <= N
      \/ i = N + 1 /\ unnamed # 0
  BY <1>3, <1>4, FindIs
<1>6. N \in Nat /\ NULL = 0
  BY ItemsFinite DEF NULL
<1> HIDE DEF i
<1>7. CASE i = N + 1 /\ unnamed # 0
  <2>1. i > N
    BY <1>6, <1>7
  <2> QED BY <1>1, <1>7, <2>1, CrashFollows
<1>8. CASE i = NULL \/ \E n \in 0 .. Len(f[p]) - 1 : i = f[p][n + 1] /\ i <= N
  <2>1. Placed(p, i)
    BY <1>8 DEF Placed
  <2>2. ~(i > N)
    <3>1. \A n \in 0 .. Len(f[p]) - 1 : f[p][n + 1] \in Items
      BY <1>3, OpenedFacts
    <3>2. i \in Nat /\ i <= N
      BY <1>6, <1>8, <3>1, ItemNotNull
    <3> QED BY <1>6, <3>2
  <2>3. /\ mem' = Ended(h) /\ held' = held \ {r}
        /\ lost' = IF h.ret = 1 THEN lost ELSE lost \cup {r}
        /\ unnamed' = IF h1.ret = NULL THEN 1 ELSE unnamed
    BY <1>1, <2>2
  <2>4. k # NoKey
    BY DEF Keys, NoKey
  <2>5. unnamed' \in {0, 1}
        /\ (unnamed' = 0 => unnamed = 0 /\ (h1.node[p].kind = "object" => h1.node[r].key # NoKey))
    BY <1>3, <1>4, <2>3, <2>4
  <2> QED BY <1>4, <2>1, <2>3, <2>5, ReplaceFollows
<1> QED BY <1>5, <1>7, <1>8

\* What the client may add to, and open, is what these lemmas are about.
LEMMA IntoAddable ==
    ASSUME NEW i \in held, NEW kind, NEW p \in Into(kind, i)
    PROVE  Addable(p, i) /\ Opened(p) /\ mem.node[p].kind = kind
  BY DEF Into, Open, Addable, Opened

\* What the client finds open it may change.
LEMMA OpenIs ==
    ASSUME NEW kind, NEW p \in Open(kind)
    PROVE  Opened(p) /\ mem.node[p].kind = kind /\ mem.node[p].ref = 0 /\ p \in Live
  BY DEF Open, Opened

\* Every call keeps the invariant, and is a step of ItemTree or none.
LEMMA NextFollows == JsonInv /\ Next => Follows
<1> SUFFICES ASSUME JsonInv, Next PROVE Follows
  OBVIOUS
<1>1. Called
  BY JsonAssumption DEF Next, Called, JsonInv
<1>2. N \in Nat /\ 2 * N \in Nat /\ \A b \in 0 .. 2 * N : b \in Nat
  BY ItemsFinite
<1>3. \A b \in 0 .. 1 : b \in Nat
  OBVIOUS
<1>4. \A b \in 0 .. 2 : b \in Nat
  OBVIOUS
<1>5. \A b \in 0 .. 3 : b \in Nat
  OBVIOUS
<1>6. \A n \in Places : n \in Nat
  BY <1>2 DEF Places
<1>7. "array" \in Kinds /\ "string" \in Kinds
  BY DEF Kinds
<1>8. ASSUME NEW kind \in Kinds, NEW b \in 0 .. 2, Make(kind, b) PROVE Follows
  BY <1>1, <1>4, <1>8, MakeFollows
<1>9. ASSUME NEW kind \in Kinds, NEW c \in Live \cup {NULL}, NEW b \in 0 .. 1, MakeReference(kind, c, b)
      PROVE  Follows
  BY <1>1, <1>3, <1>9, MakeReferenceFollows
<1>10. ASSUME NEW kind \in {"array", "string"}, NEW count \in 0 .. MaxCount, NEW b \in 0 .. 2 * N,
              MakeArray(kind, count, b)
       PROVE  Follows
  <2>1. count \in Nat /\ kind \in Kinds
    BY <1>7, JsonAssumption
  <2> QED BY <1>1, <1>2, <1>10, <2>1, MakeArrayFollows
<1>11. ASSUME NEW i \in Live, NEW recurse \in {0, 1}, NEW b \in 0 .. 2 * N, Duplicate(i, recurse, b)
       PROVE  Follows
  BY <1>1, <1>2, <1>11, DuplicateFollows
<1>12. ASSUME NEW i \in held, CallDelete(i) PROVE Follows
  BY <1>1, <1>12, DeleteFollows
<1>13. ASSUME NEW p \in Open("array"), NEW i \in Live, NEW b \in 0 .. 1, AddReferenceToArray(p, i, b)
       PROVE  Follows
  BY <1>1, <1>3, <1>13, OpenIs, AddReferenceToArrayFollows
<1>14. ASSUME NEW p \in Open("array"), NEW n \in Places,
              \/ DetachFromArray(p, n) /\ UNCHANGED unnamed
              \/ DeleteFromArray(p, n)
       PROVE  Follows
  BY <1>1, <1>6, <1>14, OpenIs, DetachFromArrayFollows, DeleteFromArrayFollows
<1>15. ASSUME NEW i \in held, NEW p \in Into("array", i),
              \/ AddItemToArray(p, i) /\ UNCHANGED unnamed
              \/ \E n \in Places : \/ InsertInArray(p, n, i) /\ UNCHANGED unnamed
                                 \/ ReplaceInArray(p, n, i)
       PROVE  Follows
  <2>1. Addable(p, i) /\ mem.node[p].kind = "array"
    BY IntoAddable
  <2> QED BY <1>1, <1>6, <1>15, <2>1, AddItemToArrayFollows, InsertInArrayFollows, ReplaceInArrayFollows
<1>16. ASSUME NEW p \in Open("object"), NEW k \in Keys, NEW kind \in Kinds, NEW b \in 0 .. 3,
              AddNew(p, k, kind, b)
       PROVE  Follows
  BY <1>1, <1>5, <1>16, OpenIs, AddNewFollows
<1>17. ASSUME NEW p \in Open("object"), NEW k \in Keys, NEW i \in Live, NEW b \in 0 .. 2,
              AddReferenceToObject(p, k, i, b)
       PROVE  Follows
  BY <1>1, <1>4, <1>17, OpenIs, AddReferenceToObjectFollows
<1>18. ASSUME NEW p \in Open("object"), NEW k \in Keys, NEW sensitive \in {0, 1},
              DetachFromObject(p, k, sensitive) \/ DeleteFromObject(p, k, sensitive)
       PROVE  Follows
  BY <1>1, <1>18, OpenIs, DetachFromObjectFollows, DeleteFromObjectFollows
<1>19. ASSUME NEW i \in held, NEW p \in Into("object", i), NEW k \in Keys, NEW f \in {0, 1}, NEW b \in 0 .. 1,
              AddItemToObject(p, k, i, f, b) \/ ReplaceInObject(p, k, i, f, b)
       PROVE  Follows
  <2>1. Addable(p, i) /\ mem.node[p].kind = "object" /\ b \in Nat
    BY <1>3, IntoAddable
  <2> QED BY <1>1, <1>19, <2>1, AddItemToObjectFollows, ReplaceInObjectFollows
<1> QED BY <1>8, <1>9, <1>10, <1>11, <1>12, <1>13, <1>14, <1>15, <1>16, <1>17, <1>18, <1>19 DEF Next

\* Without a step everything stays as it is.
LEMMA StutterFollows == JsonInv /\ UNCHANGED vars => Follows
<1> SUFFICES ASSUME JsonInv, UNCHANGED vars PROVE Follows
  OBVIOUS
<1>1. calls' = calls /\ mem' = mem /\ held' = held /\ lost' = lost /\ unnamed' = unnamed
  BY DEF vars
<1>2. Kids(mem)' = Kids(mem) /\ Live' = Live
  BY <1>1 DEF Live
<1>3. JsonInv'
  BY <1>1, <1>2 DEF JsonInv
<1> QED BY <1>2, <1>3 DEF Follows

\* JsonInv is an invariant: it holds at the beginning and every call keeps it.
LEMMA InvHolds == Spec => []JsonInv
<1>1. JsonInv /\ [Next]_vars => JsonInv'
  BY NextFollows, StutterFollows DEF Follows
<1> QED BY InitInv, <1>1, PTL DEF Spec

\* cJSON: after any calls, with any allocations failing, the heap is one of
\* items that were initialised (no type is left unset by a cJSON_Create...()),
\* what the client holds and what was lost are items in use and not the same,
\* and no more keys and texts are allocated than items can own.
THEOREM JsonItemsTyped == Spec => []TypeOK
<1>1. JsonInv => TypeOK
  BY DEF JsonInv, TypeOK
<1> QED BY InvHolds, <1>1, PTL

\* Between two calls next, prev and child link the items of every array and
\* object forth and back as all the loops of cJSON.c take it for granted, no
\* item is in two lists or twice in one, and an item that is with the client
\* again points nowhere: add, insert, detach, replace and delete leave it so,
\* and so do the functions that build or copy arrays and stop half-way.
THEOREM JsonListsLinked == Spec => []ListsLinked
<1>1. JsonInv => ListsLinked
  <2> SUFFICES ASSUME JsonInv, mem.status = "ok" 
               PROVE  /\ LinkedAs(mem, Kids(mem))
                      /\ \A p \in Live : ItemsOf(Kids(mem)[p]) \subseteq Live
                      /\ \A i \in held \cup lost : Loose(mem, Kids(mem), i)
    BY DEF ListsLinked
  <2>1. Sound(mem, Kids(mem), held \cup lost)
    BY DEF JsonInv, Order
  <2> QED BY <2>1, InvFacts DEF Sound
<1> QED BY InvHolds, <1>1, PTL

\* In every heap that the calls can lead to, cJSON_GetArrayItem() finds the item
\* at its place, cJSON_InsertItemInArray() and cJSON_AddItemToArray() put one at
\* the place they name, and cJSON_DetachItemViaPointer() and
\* cJSON_ReplaceItemViaPointer() take or replace that one and move no other.
THEOREM JsonRightPlace == Spec => []RightPlace
<1>1. JsonInv /\ ListsLinked => RightPlace
  <2> SUFFICES ASSUME JsonInv, ListsLinked PROVE RightPlace
    OBVIOUS
  <2>1. mem \in Heap /\ held \subseteq Items
    BY DEF JsonInv, Live
  <2> QED BY <2>1, PlacesFollow
<1> QED BY InvHolds, JsonListsLinked, <1>1, PTL

\* No sequence of calls, and no allocation that fails in one of them, leaks an
\* item, a key or a text other than those in lost, which a void function left to
\* nobody, frees one twice or reaches freed memory: every other item in use has
\* one owner, cJSON_Delete() of it frees what is in it and all it owns
\* once, and strcmp() gets a NULL key only after cJSON_ReplaceItemInObject()
\* could not copy one.
THEOREM JsonHeapAccounted == Spec => []HeapAccounted
<1>1. JsonInv => HeapAccounted
  <2> SUFFICES ASSUME JsonInv PROVE HeapAccounted
    OBVIOUS
  <2> DEFINE f == Kids(mem)
  <2>1. mem.status # "corrupt" /\ (mem.status = "crash" => unnamed = 1)
    BY DEF JsonInv
  <2>2. ASSUME mem.status = "ok"
        PROVE  /\ \A i \in Live : i \in held \cup lost \/ \E p \in Live : i \in ItemsOf(f[p])
               /\ \A i \in Items \ Live : mem.node[i] = Freed
               /\ \A p \in Live : \A i \in ItemsOf(f[p]) : p \notin Within(f, i)
               /\ mem.strings = Cardinality({i \in Items : OwnsText(mem.node[i])})
                              + Cardinality({i \in Items : OwnsKey(mem.node[i])})
               /\ unnamed = 0 => \A p \in Open("object") : \A i \in ItemsOf(f[p]) : mem.node[i].key # NoKey
    <3>1. Sound(mem, f, held \cup lost) /\ Counted(mem, 0) /\ (unnamed = 0 => Named(mem, f))
      BY <2>2 DEF JsonInv, Order
    <3>2. f \in [Items -> Seq(Items)] /\ Live = Alive(mem) /\ Live \subseteq Items /\ Layered(f) /\ LinkedAs(mem, f)
      BY <2>2, InvFacts
    <3>3. \A i \in Live : i \in held \cup lost \/ \E p \in Live : i \in ItemsOf(f[p])
      <4> SUFFICES ASSUME NEW i \in Live, i \notin held \cup lost PROVE \E p \in Live : i \in ItemsOf(f[p])
        OBVIOUS
      <4>1. PICK p \in Items : i \in ItemsOf(f[p])
        BY <3>1, <3>2 DEF Sound
      <4>2. f[p] # <<>>
        <5>1. ItemsOf(<<>>) = {}
          BY DEF ItemsOf
        <5> QED BY <4>1, <5>1
      <4>3. p \in Live
        BY <3>2, <4>2, FreedLists
      <4> QED BY <4>1, <4>3
    <3>4. \A p \in Live : \A i \in ItemsOf(f[p]) : p \notin Within(f, i)
      BY <3>2, LayeredIs
    <3>5. \A i \in Items \ Live : mem.node[i] = Freed
      BY <3>1, <3>2 DEF Sound
    <3>6. mem.strings = Cardinality({i \in Items : OwnsText(mem.node[i])})
                      + Cardinality({i \in Items : OwnsKey(mem.node[i])})
      <4>1. mem.strings = OwnedBy(mem, Items) + 0 /\ OwnedBy(mem, Items) \in Nat
        BY <3>1, OwnedAtMost, ItemsFinite DEF Counted
      <4> QED BY <4>1 DEF OwnedBy, TextsOf, KeysOf
    <3>7. ASSUME unnamed = 0, NEW p \in Open("object"), NEW i \in ItemsOf(f[p]) PROVE mem.node[i].key # NoKey
      <4>1. p \in Items /\ Owner(mem, p) /\ mem.node[p].kind = "object"
        BY <3>2, OpenIs DEF Owner, Live
      <4> QED BY <3>1, <3>7, <4>1 DEF Named
    <3> QED BY <3>3, <3>4, <3>5, <3>6, <3>7
  <2> QED BY <2>1, <2>2 DEF HeapAccounted
<1> QED BY InvHolds, <1>1, PTL

\* Whatever is in use can be reached: it is in an item that the client holds,
\* or in one that a void function lost, so that deleting those leaves nothing.
THEOREM JsonAllReachable ==
    Spec => [](mem.status = "ok" =>
                  \A i \in Live : \E r \in held \cup lost : i \in Within(Kids(mem), r))
<1> DEFINE f == Kids(mem)
<1>1. ASSUME JsonInv, HeapAccounted, mem.status = "ok"
      PROVE  \A i \in Live : \E r \in held \cup lost : i \in Within(f, r)
  <2>1. f \in [Items -> Seq(Items)] /\ Live \in SUBSET Items /\ Layered(f)
    BY <1>1, InvFacts
  <2>2. \A i \in Live : i \in held \cup lost \/ \E p \in Live : i \in ItemsOf(f[p])
    BY <1>1 DEF HeapAccounted
  <2> HIDE DEF f
  <2>3. \A i \in Live : \E r \in Live \cap (held \cup lost) : i \in Within(f, r)
    BY <2>1, <2>2, Rooted
  <2> QED BY <2>3
<1> QED BY InvHolds, JsonHeapAccounted, <1>1, PTL

\* The linked lists of cJSON implement the sequences of ItemTree: every call is
\* one change of one sequence, as ItemLists describes it, with all that is
\* freed gone from the documents, or changes no document that was there.
THEOREM JsonImplementsItemTree == Spec => ImplementsItemTree
<1>1. Init => Tree!Init
  <2> SUFFICES ASSUME Init PROVE Tree!Init
    OBVIOUS
  <2>1. JsonInv /\ mem.status = "ok"
    <3>1. mem.status = "ok"
      <4>1. PICK h \in {EmptyHeap, TwoTexts, TwoMembers} : mem = Ended(h)
        BY DEF Init
      <4>2. PICK e : Order(h, e, {h.ret} \ {NULL}, 0)
        BY BeginsInOrder
      <4> QED BY <4>1, <4>2, EndedOrder DEF EndsAs
    <3> QED BY <3>1, InitInv
  <2>2. /\ Live \subseteq Items /\ Kids(mem) \in [Items -> Seq(Items)] /\ LinkedAs(mem, Kids(mem))
        /\ \A i \in Items : ItemsOf(Kids(mem)[i]) \subseteq Live
        /\ Live = Alive(mem)
    BY <2>1, InvFacts
  <2>3. \A i \in Items \ Live : ItemsOf(Kids(mem)[i]) = {}
    <3>1. \A i \in Items \ Live : Kids(mem)[i] = <<>>
      BY <2>2, FreedLists
    <3> QED BY <3>1 DEF ItemsOf
  <2> QED BY <2>2, <2>3, SameOperators DEF Tree!Init
<1>2. JsonInv /\ [Next]_vars => [Tree!Next]_(Tree!vars)
  BY NextFollows, StutterFollows DEF Follows, Tree!vars
<1> QED BY <1>1, <1>2, InvHolds, PTL DEF Spec, ImplementsItemTree, Tree!Spec
=============================================================================
