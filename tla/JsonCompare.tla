---------------------------- MODULE JsonCompare ----------------------------
(***************************************************************************)
(* cJSON_Compare() (code/src/dependence/cjson/cJSON.c), by which a         *)
(* duplicate is the same as its original.                                  *)
(***************************************************************************)
EXTENDS JsonItems

\* cJSON_Compare() of two items that are not NULL.  All texts are alike here.
RECURSIVE Same(_, _, _, _), SameList(_, _, _, _), Covers(_, _, _, _)
Same(h, a, b, sensitive) ==
    /\ h.node[a].kind = h.node[b].kind
    /\ \/ a = b
       \/ h.node[a].kind = "string"
       \/ h.node[a].kind = "array" /\ SameList(h, h.node[a].child, h.node[b].child, sensitive)
       \/ /\ h.node[a].kind = "object"
          /\ Covers(h, h.node[a].child, b, sensitive)
          /\ Covers(h, h.node[b].child, a, sensitive)
SameList(h, c, d, sensitive) ==
    IF c = NULL \/ d = NULL THEN c = d
    ELSE Same(h, c, d, sensitive) /\ SameList(h, h.node[c].next, h.node[d].next, sensitive)
\* Every member from c on is like the one of its name in the object b.
Covers(h, c, b, sensitive) ==
    c = NULL \/
        LET d == Find(h, b, h.node[c].key, sensitive) IN
        d \in Items /\ Same(h, c, d, sensitive) /\ Covers(h, h.node[c].next, b, sensitive)

\* No two members of an object in S go by the same name.
Unambiguous(S, sensitive) ==
    \A p \in S : mem.node[p].kind = "object" =>
        \A m \in ItemsOf(ListFrom(mem, mem.node[p].child)) :
            Find(mem, p, mem.node[m].key, sensitive) = m

\* cJSON.h: "Duplicate will create a new, identical cJSON item to the one you
\* pass", references turned into copies; identical by cJSON_Compare(), which
\* takes an object with two members of one name for different from itself.
\* The duplicate shares nothing with the original.
DuplicateEqual ==
    mem.status = "ok" =>
    \A i \in Live : Whole(i) =>
        LET h == Copy(With(3 * N), i) IN
        h.ret # NULL =>
            /\ \A sensitive \in {0, 1} :
                   Unambiguous(View(i), sensitive) => Same(h, i, h.ret, sensitive)
            /\ Ended(Delete(h, h.ret)) = mem
=============================================================================
