------------------------------ MODULE JsonLists ------------------------------
(***************************************************************************)
(* The linked lists of cJSON (code/src/dependence/cjson/cJSON.c): how an   *)
(* array or object reaches its items, and the pointers that the functions  *)
(* on lists set.  JsonItems builds the calls of cJSON.h from these, with   *)
(* keys, texts and allocations.                                            *)
(*                                                                         *)
(* A C function is an operator from a heap to a heap: field ret is what it *)
(* returns, field left how many more allocations will succeed during the   *)
(* call, strings how many keys and texts are allocated.                    *)
(***************************************************************************)
EXTENDS ItemLists, Integers

CONSTANT N       \* cells of the heap

ASSUME HeapAssumption == N \in Nat

VARIABLES mem,     \* the heap: items, number of keys and texts allocated
          held,    \* items the client has to delete or add
          lost     \* history: items given to a call that failed silently

Items == 1 .. N
NULL == 0
Pointers == Items \cup {NULL}
NoKey == "none"
Keys == {"a", "A"}

\* "string" stands for cJSON_String and cJSON_Raw, which own a text; an item
\* of the other scalar types is an array without items as far as memory goes.
Kinds == {"array", "object", "string"}

\* struct cJSON
Node == [kind : Kinds \cup {"invalid", "free"}, ref : {0, 1}, const : {0, 1},
         key : Keys \cup {NoKey}, next : Pointers, prev : Pointers, child : Pointers]

Heap == [node : [Items -> Node], strings : Int, status : {"ok", "crash", "corrupt"},
         left : Nat, ret : Pointers]

-----------------------------------------------------------------------------
\* get_array_item(): the items along the list that begins with c, then NULL.
Path(h, c) ==
    LET follower == [i \in Nat |-> IF i = NULL THEN NULL ELSE h.node[i].next]
        at[n \in Nat] == IF n = 0 THEN c ELSE follower[at[n - 1]]
    IN  at
ItemAt(h, p, n) == Path(h, h.node[p].child)[n]

\* The loop of add_item_to_array(): the item that no other follows.
Last(h, c) ==
    LET at == Path(h, c)
    IN  at[CHOOSE n \in 0 .. N : at[n] # NULL /\ at[n + 1] = NULL]

\* suffix_object()
Suffix(h, t, i) == [h EXCEPT !.node[t].next = i, !.node[i].prev = t]

\* add_item_to_array()
AddToArray(h, p, i) ==
    IF i = NULL THEN [h EXCEPT !.ret = 0]
    ELSE IF h.node[p].child = NULL THEN [h EXCEPT !.node[p].child = i, !.ret = 1]
    ELSE [Suffix(h, Last(h, h.node[p].child), i) EXCEPT !.ret = 1]

\* What is to come after i, before i, and first in p if i was; NULL has nothing.
NextTo(h, i, j) == IF i = NULL THEN h ELSE [h EXCEPT !.node[i].next = j]
PrevTo(h, i, j) == IF i = NULL THEN h ELSE [h EXCEPT !.node[i].prev = j]
FirstTo(h, p, i, j) == IF h.node[p].child = i THEN [h EXCEPT !.node[p].child = j] ELSE h

\* A detach that leaves the pointer back in the follower.
MutDetach(h, p, i) ==
    IF i = NULL THEN [h EXCEPT !.ret = NULL]
    ELSE LET n  == h.node[i]
             g  == FirstTo(NextTo(h, n.prev, n.next), p, i, n.next)
         IN  [g EXCEPT !.node[i].prev = NULL, !.node[i].next = NULL, !.ret = i]

\* cJSON_DetachItemViaPointer()
Detach(h, p, i) ==
    IF i = NULL THEN [h EXCEPT !.ret = NULL]
    ELSE LET n  == h.node[i]
             h1 == NextTo(h, n.prev, n.next)
             h2 == PrevTo(h1, n.next, n.prev)
             h3 == FirstTo(h2, p, i, n.next)
         IN  [h3 EXCEPT !.node[i].prev = NULL, !.node[i].next = NULL, !.ret = i]

\* An insert that counts places from 1.
MutInsert(h, p, n, i) ==
    LET a  == ItemAt(h, p, n + 1)
        h1 == [h EXCEPT !.node[i].next = a, !.node[i].prev = h.node[a].prev,
                        !.node[a].prev = i]
    IN  IF a = NULL THEN AddToArray(h, p, i)
        ELSE IF h.node[p].child = a THEN [h1 EXCEPT !.node[p].child = i]
        ELSE [h1 EXCEPT !.node[h1.node[i].prev].next = i]

\* cJSON_InsertItemInArray()
Insert(h, p, n, i) ==
    LET a  == ItemAt(h, p, n)
        h1 == [h EXCEPT !.node[i].next = a, !.node[i].prev = h.node[a].prev,
                        !.node[a].prev = i]
    IN  IF a = NULL THEN AddToArray(h, p, i)
        ELSE IF h.node[p].child = a THEN [h1 EXCEPT !.node[p].child = i]
        ELSE [h1 EXCEPT !.node[h1.node[i].prev].next = i]

\* cJSON_ReplaceItemViaPointer(), up to the delete: r takes the place of i.
Relink(h, p, i, r) ==
    LET n  == h.node[i]
        h1 == [h EXCEPT !.node[r].next = n.next, !.node[r].prev = n.prev]
        h2 == PrevTo(h1, n.next, r)
        h3 == NextTo(h2, n.prev, r)
        h4 == FirstTo(h3, p, i, r)
    IN  [h4 EXCEPT !.node[i].next = NULL, !.node[i].prev = NULL]

\* The end of a call, and what it leaves to the client.
Ended(h) == [h EXCEPT !.left = 0, !.ret = NULL]
Gained(h) == held' = IF h.ret = NULL THEN held ELSE held \cup {h.ret}

AddItemToArray(p, i) ==
    /\ mem' = Ended(AddToArray(mem, p, i))
    /\ held' = held \ {i}
    /\ UNCHANGED lost

InsertInArray(p, n, i) ==
    /\ mem' = Ended(Insert(mem, p, n, i))
    /\ held' = held \ {i}
    /\ UNCHANGED lost

DetachFromArray(p, n) ==
    LET h == Detach(mem, p, ItemAt(mem, p, n)) IN
    mem' = Ended(h) /\ Gained(h) /\ UNCHANGED lost

-----------------------------------------------------------------------------
\* The list that begins with c, which a cycle makes N + 1 long.
ListFrom(h, c) ==
    LET at == Path(h, c)
        last(n) == at[n] = NULL \/ n = N + 1
        length == CHOOSE n \in 0 .. N + 1 : last(n) /\ (n = 0 \/ at[n - 1] # NULL)
    IN  [n \in 1 .. length |-> at[n - 1]]

\* The items of an item are its own, and not those of another it refers to.
Owner(h, p) == h.node[p].kind # "free" /\ h.node[p].ref = 0

\* What an item contains according to the pointers.
Kids(h) == [i \in Items |-> IF ~Owner(h, i) \/ h.node[i].child = NULL THEN <<>>
                           ELSE ListFrom(h, h.node[i].child)]

\* What every function takes the pointers for: f says which items every owner
\* has.  They are linked forth and back, with nothing before the first and
\* after the last, and no item is in two places.
LinkedAs(h, f) ==
    /\ f \in [Items -> Seq(Items)]
    /\ \A p \in Items :
          /\ ~Owner(h, p) => f[p] = <<>>
          /\ Owner(h, p) => h.node[p].child = IF f[p] = <<>> THEN NULL ELSE f[p][1]
    /\ \A p \in Items : \A n \in 1 .. Len(f[p]) :
          /\ h.node[f[p][n]].next = IF n = Len(f[p]) THEN NULL ELSE f[p][n + 1]
          /\ h.node[f[p][n]].prev = IF n = 1 THEN NULL ELSE f[p][n - 1]
    /\ \A p, q \in Items : \A n \in 1 .. Len(f[p]), m \in 1 .. Len(f[q]) :
          f[p][n] = f[q][m] => p = q /\ n = m

\* Item i is in no list and points nowhere: it is its holder's to add.
Loose(h, f, i) ==
    /\ h.node[i].next = NULL /\ h.node[i].prev = NULL
    /\ \A p \in Items : \A n \in 1 .. Len(f[p]) : f[p][n] # i

Live == {i \in Items : mem.node[i].kind # "free"}

\* The lists are what every function takes them for, and hold live items; an
\* item that was given back to the client is in none and points nowhere.
ListsLinked ==
    mem.status = "ok" =>
        /\ LinkedAs(mem, Kids(mem))
        /\ \A p \in Live : ItemsOf(Kids(mem)[p]) \subseteq Live
        /\ \A i \in held \cup lost : Loose(mem, Kids(mem), i)

\* Items go to the place, come from the place and are replaced at the place
\* that the call names, whatever the list, and every other list stays.
RightPlace ==
    mem.status = "ok" =>
    \A p \in Live : mem.node[p].ref = 0 /\ mem.node[p].kind # "string" =>
        LET f == Kids(mem) IN
        /\ \A n \in 0 .. Len(f[p]) - 1 :
               /\ ItemAt(mem, p, n) = f[p][n + 1]
               /\ Kids(Detach(mem, p, f[p][n + 1])) = Taken(f, p, n)
        /\ \A i \in held \ {p} :
               /\ Kids(AddToArray(mem, p, i)) = AtEnd(f, p, i)
               /\ \A n \in 0 .. Len(f[p]) + 1 :
                      Kids(Insert(mem, p, n, i)) = AtPlace(f, p, n, i)
               /\ \A n \in 0 .. Len(f[p]) - 1 :
                      Kids(Relink(mem, p, f[p][n + 1], i)) = GivenWay(f, p, n, i)
=============================================================================
