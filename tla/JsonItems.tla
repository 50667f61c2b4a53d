------------------------------ MODULE JsonItems ------------------------------
(***************************************************************************)
(* The items of cJSON (code/src/dependence/cjson/cJSON.c) in memory: lists *)
(* linked by next, prev and child, keys and texts that belong to an item   *)
(* or to somebody else, and allocations that may fail at any point.        *)
(*                                                                         *)
(* The functions on lists, and the calls that are no more than one of      *)
(* them, are those of JsonLists.  A C function is an operator from a heap  *)
(* to a heap; an action is one call of the client.                         *)
(*                                                                         *)
(* The client keeps to the rules of cJSON.h: it deletes or adds what is    *)
(* its own (held), never adds an item to itself, adds to an array by place *)
(* and to an object by name, names no place below 0 (with which every      *)
(* function on places returns at once, and the item stays the client's),   *)
(* and does not look through a reference whose target is gone.  lost and   *)
(* unnamed are history variables.                                          *)
(***************************************************************************)
EXTENDS JsonLists

CONSTANTS MaxCalls,   \* bound on the calls
          MaxCount,   \* bound on the items of an array created at once
          MaxRefs,    \* bound on the references at a time
          MaxLost     \* bound on the items lost

ASSUME JsonAssumption ==
    /\ N >= 3
    /\ MaxCalls \in Nat \ {0} /\ MaxCount \in Nat /\ MaxRefs \in Nat /\ MaxLost \in Nat

\* case_insensitive_strcmp() or strcmp(); only the former takes a NULL.
SameKey(k, l, sensitive) ==
    \/ k = l /\ k # NoKey
    \/ sensitive = 0 /\ k \in Keys /\ l \in Keys

Blank == [kind |-> "invalid", ref |-> 0, const |-> 0, key |-> NoKey,
          next |-> NULL, prev |-> NULL, child |-> NULL]
Freed == [Blank EXCEPT !.kind = "free"]

VARIABLES calls,   \* calls so far
          unnamed  \* history: a key could not be copied and was set to NULL

vars == <<calls, mem, held, lost, unnamed>>

EmptyHeap == [node |-> [i \in Items |-> Freed], strings |-> 0,
              status |-> "ok", left |-> 0, ret |-> NULL]

-----------------------------------------------------------------------------
\* Allocation

Unused(h) == {i \in Items : h.node[i].kind = "free"}

NewItem(h) ==
    IF h.left = 0 \/ Unused(h) = {} THEN [h EXCEPT !.ret = NULL]
    ELSE LET i == CHOOSE i \in Unused(h) : \A j \in Unused(h) : i <= j
         IN  [h EXCEPT !.node[i] = Blank, !.left = @ - 1, !.ret = i]

\* cJSON_strdup(); ret says whether it worked.
Strdup(h) ==
    IF h.left = 0 THEN [h EXCEPT !.ret = NULL]
    ELSE [h EXCEPT !.strings = @ + 1, !.left = @ - 1, !.ret = 1]

OwnsText(n) == n.kind = "string" /\ n.ref = 0
OwnsKey(n) == n.key # NoKey /\ n.const = 0
Count(b) == IF b THEN 1 ELSE 0

\* A delete that frees what a reference points to.
MutDeleteIn[n \in Nat] == [h \in Heap |-> [i \in Pointers |->
    IF i = NULL \/ h.status # "ok" THEN h
    ELSE IF n = 0 \/ h.node[i].kind = "free" THEN [h EXCEPT !.status = "corrupt"]
    ELSE LET x  == h.node[i]
             h1 == MutDeleteIn[n - 1][h][x.child]
             h2 == [h1 EXCEPT !.strings = @ - Count(OwnsText(x)) - Count(OwnsKey(x)),
                              !.node[i] = Freed]
         IN  MutDeleteIn[n - 1][h2][x.next]]]
MutDelete(h, i) == MutDeleteIn[N][h][i]

\* cJSON_Delete() in at most n steps: the item, what is in it, and all that
\* follow it.  No heap has more than N items to free.
DeleteIn[n \in Nat] == [h \in Heap |-> [i \in Pointers |->
    IF i = NULL \/ h.status # "ok" THEN h
    ELSE IF n = 0 \/ h.node[i].kind = "free" THEN [h EXCEPT !.status = "corrupt"]
    ELSE LET x  == h.node[i]
             h1 == IF x.ref = 0 THEN DeleteIn[n - 1][h][x.child] ELSE h
             h2 == [h1 EXCEPT !.strings = @ - Count(OwnsText(x)) - Count(OwnsKey(x)),
                              !.node[i] = Freed]
         IN  DeleteIn[n - 1][h2][x.next]]]
Delete(h, i) == DeleteIn[N][h][i]

\* The item is deleted and the caller gets NULL.
Abandon(h, i) == [Delete(h, i) EXCEPT !.ret = NULL]

\* A new array or object whose type is not set.
MutCreatePlain(h, kind) == NewItem(h)

\* cJSON_CreateNull() ... cJSON_CreateNumber(), cJSON_CreateArray(), cJSON_CreateObject()
CreatePlain(h, kind) ==
    LET h1 == NewItem(h) IN
    IF h1.ret = NULL THEN h1 ELSE [h1 EXCEPT !.node[h1.ret].kind = kind]

\* cJSON_CreateString(), cJSON_CreateRaw()
CreateText(h) ==
    LET h1 == NewItem(h)
        h2 == Strdup(h1)
    IN  IF h1.ret = NULL THEN h1
        ELSE IF h2.ret = NULL THEN Abandon(h2, h1.ret)
        ELSE [h2 EXCEPT !.node[h1.ret].kind = "string", !.ret = h1.ret]

CreateItem(h, kind) == IF kind = "string" THEN CreateText(h) ELSE CreatePlain(h, kind)

\* cJSON_CreateStringReference(), cJSON_CreateObjectReference(), cJSON_CreateArrayReference()
CreateReferenceTo(h, kind, c) ==
    LET h1 == NewItem(h) IN
    IF h1.ret = NULL THEN h1
    ELSE [h1 EXCEPT !.node[h1.ret].kind = kind, !.node[h1.ret].ref = 1,
                    !.node[h1.ret].child = c]

-----------------------------------------------------------------------------
\* Lists

\* get_object_item(): NULL is not found, N + 1 that strcmp() met a NULL.
Find(h, p, k, sensitive) ==
    LET q == ListFrom(h, h.node[p].child)
        hit(n) == SameKey(k, h.node[q[n]].key, sensitive)
        stop(n) == hit(n) \/ (sensitive = 1 /\ h.node[q[n]].key = NoKey)
        first(n) == stop(n) /\ \A m \in 1 .. n - 1 : ~stop(m)
    IN  IF k = NoKey \/ \A n \in 1 .. Len(q) : ~stop(n) THEN NULL
        ELSE LET n == CHOOSE n \in 1 .. Len(q) : first(n) IN IF hit(n) THEN q[n] ELSE N + 1

\* An add that forgets the key the item had before.
MutAddToObject(h, p, k, i, constant) ==
    LET h1 == IF constant = 1 THEN h ELSE Strdup(h)
        h2 == [h1 EXCEPT !.node[i].key = k, !.node[i].const = constant]
    IN  IF i = NULL \/ (constant = 0 /\ h1.ret = NULL) THEN [h1 EXCEPT !.ret = 0]
        ELSE AddToArray(h2, p, i)

\* add_item_to_object()
AddToObject(h, p, k, i, constant) ==
    LET h1 == IF constant = 1 THEN h ELSE Strdup(h)
        h2 == [h1 EXCEPT !.strings = @ - Count(OwnsKey(h.node[i])),
                         !.node[i].key = k, !.node[i].const = constant]
    IN  IF i = NULL THEN [h EXCEPT !.ret = 0]
        ELSE IF constant = 0 /\ h1.ret = NULL THEN [h1 EXCEPT !.ret = 0]
        ELSE AddToArray(h2, p, i)

\* create_reference()
Reference(h, i) ==
    LET h1 == NewItem(h) IN
    IF h1.ret = NULL THEN h1
    ELSE [h1 EXCEPT !.node[h1.ret] =
             [h.node[i] EXCEPT !.key = NoKey, !.ref = 1, !.next = NULL, !.prev = NULL]]

\* cJSON_Add...ToObject(): an item that cannot be added is deleted.
AddNewToObject(h, p, k, kind) ==
    LET h1 == CreateItem(h, kind)
        h2 == AddToObject(h1, p, k, h1.ret, 0)
    IN  IF h1.ret = NULL THEN h1
        ELSE IF h2.ret = 1 THEN [h2 EXCEPT !.ret = h1.ret]
        ELSE Abandon(h2, h1.ret)

\* cJSON_ReplaceItemViaPointer(); r is no item of p, so that the test of r = i at
\* its beginning never holds here.
Replace(h, p, i, r) ==
    IF i = NULL THEN [h EXCEPT !.ret = 0]
    ELSE [Delete(Relink(h, p, i, r), i) EXCEPT !.ret = 1]

\* replace_item_in_object(), up to the lookup: the replacement is renamed first,
\* to NULL if the copy of the key fails.
Rename(h, r, k) ==
    LET h1 == [h EXCEPT !.strings = @ - Count(OwnsKey(h.node[r]))]
        h2 == Strdup(h1)
    IN  [h2 EXCEPT !.node[r].key = IF h2.ret = NULL THEN NoKey ELSE k,
                   !.node[r].const = 0]

\* Item h1.ret, made from h, goes to the end of the new array or object a; h.ret
\* is a or the last item it has.  If there is no item a is given up.
Linked(h, h1, a) ==
    IF h.ret = NULL THEN h
    ELSE IF h1.ret = NULL THEN Abandon(h1, a)
    ELSE IF h.ret = a THEN [h1 EXCEPT !.node[a].child = h1.ret]
    ELSE Suffix(h1, h.ret, h1.ret)
Handed(h, a) == IF h.ret = NULL THEN h ELSE [h EXCEPT !.ret = a]

\* cJSON_CreateIntArray() and its like: count items, linked as they come.
CreateArrayOf(h, kind, count) ==
    LET h1 == CreatePlain(h, "array")
        g[n \in 0 .. count] ==
            IF n = 0 THEN h1 ELSE Linked(g[n - 1], CreateItem(g[n - 1], kind), h1.ret)
    IN  IF h1.ret = NULL THEN h1 ELSE Handed(g[count], h1.ret)

\* A duplicate that is a reference if the original was.
MutCopyOne(h, i) ==
    LET h1 == NewItem(h)
        n  == h.node[i]
        h2 == IF n.kind = "string" THEN Strdup(h1) ELSE h1
        h3 == IF OwnsKey(n) THEN Strdup(h2) ELSE h2
        c  == h1.ret
        named == [h3 EXCEPT !.node[c] = [Blank EXCEPT !.kind = n.kind, !.key = n.key,
                                                      !.const = n.const, !.ref = n.ref], !.ret = c]
        text == [h2 EXCEPT !.node[c] = [Blank EXCEPT !.kind = n.kind]]
    IN  IF c = NULL THEN h1
        ELSE IF h2.ret = NULL THEN Abandon(h2, c)
        ELSE IF h3.ret = NULL THEN Abandon(text, c)
        ELSE named

\* cJSON_Duplicate(): the item, then its children one by one.  A failure deep
\* inside deletes the copy that is under way at every level.
CopyOne(h, i) ==
    LET h1 == NewItem(h)
        n  == h.node[i]
        h2 == IF n.kind = "string" THEN Strdup(h1) ELSE h1
        h3 == IF OwnsKey(n) THEN Strdup(h2) ELSE h2
        c  == h1.ret
        named == [h3 EXCEPT !.node[c] = [Blank EXCEPT !.kind = n.kind, !.key = n.key,
                                                      !.const = n.const], !.ret = c]
        text == [h2 EXCEPT !.node[c] = [Blank EXCEPT !.kind = n.kind]]
    IN  IF c = NULL THEN h1
        ELSE IF h2.ret = NULL THEN Abandon(h2, c)
        ELSE IF h3.ret = NULL THEN Abandon(text, c)
        ELSE named

\* What is nested n deep at most; every level takes a cell.  (cJSON_Duplicate()
\* itself has no limit: a reference that leads back to what it is in, which the
\* client can make, is followed until memory, here the heap's cells, is used up,
\* or the stack.)
CopyIn[n \in Nat] == [h \in Heap |-> [i \in Items |->
    LET h1 == CopyOne(h, i)
        q  == ListFrom(h, h.node[i].child)
        g[m \in 0 .. Len(q)] ==
            IF m = 0 THEN h1 ELSE Linked(g[m - 1], CopyIn[n - 1][g[m - 1]][q[m]], h1.ret)
    IN  IF n = 0 THEN [h EXCEPT !.ret = NULL]
        ELSE IF h1.ret = NULL THEN h1
        ELSE Handed(g[Len(q)], h1.ret)]]
Copy(h, i) == CopyIn[N + 1][h][i]

-----------------------------------------------------------------------------
\* The client

Open(kind) == {p \in Live : mem.node[p].kind = kind /\ mem.node[p].ref = 0}

\* What the client may add i to.
Into(kind, i) == Open(kind) \ Within(Kids(mem), i)

\* What can be seen from i, references looked through.
View(i) ==
    LET c == mem.node[i].child
        step == [j \in Items |-> {mem.node[j].child, mem.node[j].next} \ {NULL}]
    IN  {i} \cup IF c = NULL THEN {} ELSE Reached(step, c)

\* Every reference in i leads into an array or object of its kind, as it did
\* when it was made; of a referenced text nobody knows whether it is there.
Whole(i) ==
    \A j \in View(i) :
        /\ mem.node[j].kind # "free"
        /\ mem.node[j].ref = 1 =>
               /\ mem.node[j].kind # "string"
               /\ mem.node[j].child # NULL =>
                      \E p \in Open(mem.node[j].kind) : mem.node[j].child \in ItemsOf(Kids(mem)[p])

\* What the client begins with: nothing, a list of two texts, or a named text
\* and a named list whose names differ by case.
Plenty == [EmptyHeap EXCEPT !.left = 2 * N]
TwoTexts == CreateArrayOf(Plenty, "string", 2)
TwoMembers ==
    LET h == CreatePlain(Plenty, "object") IN
    [AddNewToObject(AddNewToObject(h, h.ret, "a", "string"), h.ret, "A", "array")
        EXCEPT !.ret = h.ret]

Init ==
    /\ \E h \in {EmptyHeap, TwoTexts, TwoMembers} :
          /\ mem = Ended(h) /\ held = {h.ret} \ {NULL}
          /\ calls = Cardinality(held)
    /\ lost = {} /\ unnamed = 0

\* A call with b allocations to succeed, and its end.
With(b) == [mem EXCEPT !.left = b]
Refs(h) == Cardinality({i \in Items : h.node[i].ref = 1})
Ends(h) == Refs(h) <= MaxRefs /\ mem' = Ended(h)
Places == 0 .. N

Make(kind, b) ==
    LET h == CreateItem(With(b), kind) IN
    Ends(h) /\ Gained(h) /\ UNCHANGED <<lost, unnamed>>

MakeReference(kind, c, b) ==
    LET h == CreateReferenceTo(With(b), kind, c) IN
    /\ c = NULL \/ \E p \in Open(kind) : mem.node[p].child = c
    /\ Ends(h) /\ Gained(h) /\ UNCHANGED <<lost, unnamed>>

MakeArray(kind, count, b) ==
    LET h == CreateArrayOf(With(b), kind, count) IN
    Ends(h) /\ Gained(h) /\ UNCHANGED <<lost, unnamed>>

CallDelete(i) ==
    /\ Ends(Delete(mem, i))
    /\ held' = held \ {i}
    /\ UNCHANGED <<lost, unnamed>>

\* cJSON_AddItemToObject(), cJSON_AddItemToObjectCS(): void functions.
AddItemToObject(p, k, i, constant, b) ==
    LET h == AddToObject(With(b), p, k, i, constant) IN
    /\ Ends(h)
    /\ held' = held \ {i}
    /\ lost' = IF h.ret = 1 THEN lost ELSE lost \cup {i}
    /\ UNCHANGED unnamed

AddReferenceToArray(p, i, b) ==
    LET h1 == Reference(With(b), i) IN
    /\ Ends(AddToArray(h1, p, h1.ret))
    /\ UNCHANGED <<held, lost, unnamed>>

\* The new reference is nobody's if its key cannot be copied.
AddReferenceToObject(p, k, i, b) ==
    LET h1 == Reference(With(b), i)
        h2 == AddToObject(h1, p, k, h1.ret, 0)
    IN  /\ Ends(h2)
        /\ lost' = IF h1.ret # NULL /\ h2.ret = 0 THEN lost \cup {h1.ret} ELSE lost
        /\ UNCHANGED <<held, unnamed>>

AddNew(p, k, kind, b) ==
    /\ Ends(AddNewToObject(With(b), p, k, kind))
    /\ UNCHANGED <<held, lost, unnamed>>

DeleteFromArray(p, n) ==
    LET h == Detach(mem, p, ItemAt(mem, p, n)) IN
    Ends(Delete(h, h.ret)) /\ UNCHANGED <<held, lost, unnamed>>

\* strcmp() with NULL ends the process.
Crash == mem' = [mem EXCEPT !.status = "crash"] /\ UNCHANGED <<held, lost, unnamed>>

DetachFromObject(p, k, sensitive) ==
    LET i == Find(mem, p, k, sensitive)
        h == Detach(mem, p, i)
    IN  /\ IF i > N THEN Crash ELSE Ends(h) /\ Gained(h) /\ UNCHANGED <<lost, unnamed>>

DeleteFromObject(p, k, sensitive) ==
    LET i == Find(mem, p, k, sensitive)
        h == Detach(mem, p, i)
    IN  /\ IF i > N THEN Crash
           ELSE Ends(Delete(h, h.ret)) /\ UNCHANGED <<held, lost, unnamed>>

\* A place that does not exist: the replacement is left to nobody.
ReplaceInArray(p, n, i) ==
    LET h == Replace(mem, p, ItemAt(mem, p, n), i) IN
    /\ Ends(h)
    /\ held' = held \ {i}
    /\ lost' = IF h.ret = 1 THEN lost ELSE lost \cup {i}
    /\ UNCHANGED unnamed

ReplaceInObject(p, k, i, sensitive, b) ==
    LET h1 == Rename(With(b), i, k)
        j  == Find(h1, p, k, sensitive)
        h2 == Replace(h1, p, j, i)
    IN  /\ IF j > N THEN Crash
           ELSE /\ Ends(h2)
                /\ held' = held \ {i}
                /\ lost' = IF h2.ret = 1 THEN lost ELSE lost \cup {i}
                /\ unnamed' = IF h1.ret = NULL THEN 1 ELSE unnamed

Duplicate(i, recurse, b) ==
    LET h == IF recurse = 1 THEN Copy(With(b), i) ELSE CopyOne(With(b), i) IN
    /\ Whole(i)
    /\ Ends(h) /\ Gained(h) /\ UNCHANGED <<lost, unnamed>>

\* The second set is how many of a call's allocations succeed.
Next ==
    /\ mem.status = "ok" /\ calls < MaxCalls /\ Cardinality(lost) <= MaxLost
    /\ calls' = calls + 1
    /\ \/ \E kind \in Kinds, b \in 0 .. 2 : Make(kind, b)
       \/ \E kind \in Kinds, c \in Live \cup {NULL}, b \in 0 .. 1 : MakeReference(kind, c, b)
       \/ \E kind \in {"array", "string"}, count \in 0 .. MaxCount, b \in 0 .. 2 * N :
             MakeArray(kind, count, b)
       \/ \E i \in Live, recurse \in {0, 1}, b \in 0 .. 2 * N : Duplicate(i, recurse, b)
       \/ \E i \in held : CallDelete(i)
       \/ \E p \in Open("array"), i \in Live, b \in 0 .. 1 : AddReferenceToArray(p, i, b)
       \/ \E p \in Open("array"), n \in Places : 
             \/ DetachFromArray(p, n) /\ UNCHANGED unnamed
             \/ DeleteFromArray(p, n)
       \/ \E i \in held : \E p \in Into("array", i) :
             \/ AddItemToArray(p, i) /\ UNCHANGED unnamed
             \/ \E n \in Places : \/ InsertInArray(p, n, i) /\ UNCHANGED unnamed
                                \/ ReplaceInArray(p, n, i)
       \/ \E p \in Open("object"), k \in Keys :
             \/ \E kind \in Kinds, b \in 0 .. 3 : AddNew(p, k, kind, b)
             \/ \E i \in Live, b \in 0 .. 2 : AddReferenceToObject(p, k, i, b)
             \/ \E sensitive \in {0, 1} :
                   DetachFromObject(p, k, sensitive) \/ DeleteFromObject(p, k, sensitive)
       \/ \E i \in held : \E p \in Into("object", i), k \in Keys, f \in {0, 1}, b \in 0 .. 1 :
             AddItemToObject(p, k, i, f, b) \/ ReplaceInObject(p, k, i, f, b)

Spec == Init /\ [][Next]_vars

-----------------------------------------------------------------------------
TypeOK ==
    /\ calls \in 0 .. MaxCalls
    /\ mem \in Heap
    /\ \A i \in Items : mem.node[i].kind # "invalid"
    /\ mem.strings \in 0 .. 2 * N
    /\ mem.left = 0 /\ mem.ret = NULL
    /\ held \cup lost \subseteq Live /\ held \cap lost = {} /\ unnamed \in {0, 1}

Tree == INSTANCE ItemTree WITH used <- Live, kids <- Kids(mem)

\* Every item has one owner, an array or object or the client, or was lost in
\* a void function; none is in itself, and keys and texts are as many as items
\* own: if the client deletes all that is its own each is freed exactly once,
\* and an allocation that failed, in whichever call and at whatever depth,
\* leaks nothing but what is in lost: the item or reference that the void
\* functions cJSON_AddItemToObject() and cJSON_AddItemReferenceToObject() could
\* not name (cJSON.c:1915, 1960), or that was to replace an item which is not
\* there.  No call touches freed memory, and the only NULL that gets into
\* strcmp() is the key cJSON_ReplaceItemInObject() could not copy.
HeapAccounted ==
    /\ mem.status # "corrupt"
    /\ mem.status = "crash" => unnamed = 1
    /\ mem.status = "ok" =>
        LET f == Kids(mem) IN
        /\ \A i \in Live : i \in held \cup lost \/ \E p \in Live : i \in ItemsOf(f[p])
        /\ \A i \in Items \ Live : mem.node[i] = Freed
        /\ \A p \in Live : \A i \in ItemsOf(f[p]) : p \notin Within(f, i)
        /\ mem.strings = Cardinality({i \in Items : OwnsText(mem.node[i])})
                       + Cardinality({i \in Items : OwnsKey(mem.node[i])})
        /\ unnamed = 0 => \A p \in Open("object") : \A i \in ItemsOf(f[p]) : mem.node[i].key # NoKey

\* Linked lists implement sequences: every call is a step of ItemTree.
ImplementsItemTree == Tree!Spec
=============================================================================
