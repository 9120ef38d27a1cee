-------------------------- MODULE AuthenticatedMap --------------------------
(***************************************************************************)
(* The authenticated map of sqlite_frontier.rs: a binary search tree in    *)
(* which each key also has a priority, the digest of the key, and a parent *)
(* comes before its children.  Documents, accepted batches and causal      *)
(* clocks are kept in such trees.                                          *)
(*                                                                         *)
(* A link is the key and the digest of a node; the digest covers the       *)
(* node's value and its own links.  Here a link is the whole subtree: two  *)
(* links are equal exactly when their digests are.                         *)
(***************************************************************************)
EXTENDS Integers, SequencesExt

CONSTANT Priority  \* the key's digest, as a number: smaller comes first

Keys == DOMAIN Priority

\* Keys and priorities are strings of bytes, hence numbers; 0 stands for no key.
ASSUME PriorityAssumption ==
    /\ Keys \subseteq Nat \ {0} /\ IsFiniteSet(Keys)
    /\ Priority \in [Keys -> Nat]

\* ensure_depth: no walk goes deeper than a tree of all keys can be (the code's
\* limit, 256, is far above what trees with these priorities reach).
Depth == Cardinality(Keys)

Nil == [key |-> 0]
Node(k, v, l, r) == [key |-> k, val |-> v, left |-> l, right |-> r]

\* authenticated_map_priority_order(k, j).is_lt()
Above(k, j) == Priority[k] < Priority[j] \/ (Priority[k] = Priority[j] /\ k < j)

\* The trees with values in V that are at most h nodes deep, for each h.
Trees(V) ==
    LET upto[h \in 0..Depth] ==
            IF h = 0 THEN {Nil}
            ELSE LET below == upto[h - 1]
                 IN  {Nil} \cup [key : Keys, val : V, left : below, right : below]
    IN  upto

Nodes(t) ==
    LET upto[h \in 0..Depth] ==
            IF h = 0 THEN {}
            ELSE ({t} \cup UNION {{n.left, n.right} : n \in upto[h - 1]}) \ {Nil}
    IN  upto[Depth]

\* The nodes a lookup of k reads, root first, and what it answers.
Child(n, k) == IF k < n.key THEN n.left ELSE n.right

Onward(path, k) ==
    IF path = <<>> \/ Last(path).key = k \/ Child(Last(path), k) = Nil THEN path
    ELSE Append(path, Child(Last(path), k))

Path(t, k) ==
    LET upto[h \in 0..Depth] ==
            IF h = 0 THEN IF t = Nil THEN <<>> ELSE <<t>>
            ELSE Onward(upto[h - 1], k)
    IN  upto[Depth]

Lookup(t, k, absent) ==
    LET path == Path(t, k)
    IN  IF path # <<>> /\ Last(path).key = k THEN Last(path).val ELSE absent

RotateRight(n) ==
    Node(n.left.key, n.left.val, n.left.left,
         Node(n.key, n.val, n.left.right, n.right))
RotateLeft(n) ==
    Node(n.right.key, n.right.val,
         Node(n.key, n.val, n.left, n.right.left), n.right.right)

\* Mutant: a child that stays below its parent whatever its priority.
LeaveLeft(n) == n

\* A child that was updated may have to change places with its parent.
RaiseLeft(n) == IF Above(n.left.key, n.key) THEN RotateRight(n) ELSE n
RaiseRight(n) == IF Above(n.right.key, n.key) THEN RotateLeft(n) ELSE n

\* The node n on the way to k, when what is below it there became child.
Updated(n, k, v, child) ==
    IF k = n.key THEN Node(k, v, n.left, n.right)
    ELSE IF k < n.key THEN RaiseLeft(Node(n.key, n.val, child, n.right))
    ELSE RaiseRight(Node(n.key, n.val, n.left, child))

\* From the end of the way to k back to the root.
Upsert(t, k, v) ==
    LET path == Path(t, k)
        up[i \in 0..Len(path)] ==
            IF i = 0 THEN Node(k, v, Nil, Nil)
            ELSE Updated(path[Len(path) + 1 - i], k, v, up[i - 1])
    IN  up[Len(path)]

-----------------------------------------------------------------------------
(* Clocks: maps from peers to counters.                                    *)

Larger(a, b) == IF a > b THEN a ELSE b

\* The part of a clock below k, k's counter (0 when it has none), and the rest:
\* of the node n on the way to k, when s is what is below it there.
Parted(n, k, s) ==
    IF k = n.key THEN [less |-> n.left, counter |-> n.val, greater |-> n.right]
    ELSE IF k < n.key
         THEN [s EXCEPT !.greater = Node(n.key, n.val, s.greater, n.right)]
    ELSE [s EXCEPT !.less = Node(n.key, n.val, n.left, s.less)]

Split(t, k) ==
    LET path == Path(t, k)
        up[i \in 0..Len(path)] ==
            IF i = 0 THEN [less |-> Nil, counter |-> 0, greater |-> Nil]
            ELSE Parted(path[Len(path) + 1 - i], k, up[i - 1])
    IN  up[Len(path)]

Clocks == Trees(Nat)[Depth]

\* The union of two clocks that are not empty and differ, when joined is that of
\* the smaller ones.
Joined(a, b, joined, Keep(_, _)) ==
    LET top == IF a.key = b.key \/ Above(a.key, b.key) THEN a ELSE b
        s == Split(IF top = a THEN b ELSE a, top.key)
    IN  Node(top.key, Keep(top.val, s.counter),
             joined[<<top.left, s.less>>], joined[<<top.right, s.greater>>])

UnionKeeping(a, b, Keep(_, _)) ==
    LET upto[h \in 0..Depth] ==
            IF h = 0 THEN [p \in Clocks \X Clocks |-> Nil]
            ELSE [p \in Clocks \X Clocks |->
                     IF p[1] = Nil THEN p[2]
                     ELSE IF p[2] = Nil \/ p[1] = p[2] THEN p[1]
                     ELSE Joined(p[1], p[2], upto[h - 1], Keep)]
    IN  upto[Depth][<<a, b>>]

\* Mutant: a union that keeps the counter of the tree whose root comes first.
UnionOfFirst(a, b) == UnionKeeping(a, b, LAMBDA first, second : first)

Union(a, b) == UnionKeeping(a, b, Larger)

UpsertClock(t, peer, counter) ==
    Upsert(t, peer, Larger(counter, Lookup(t, peer, 0)))

-----------------------------------------------------------------------------
(* The terminal build: all keys in order, each node once.                  *)

\* In ascending order.
Sorted(S) ==
    CHOOSE s \in [1..Cardinality(S) -> S] :
        \A i, j \in 1..Cardinality(S) : i < j => s[i] < s[j]

\* The right spine as one tree: each node's right child is the next.
Chained(spine) ==
    LET up[i \in 0..Len(spine)] ==
            IF i = 0 THEN Nil
            ELSE LET n == spine[Len(spine) + 1 - i]
                 IN  Node(n.key, n.val, n.left, up[i - 1])
    IN  up[Len(spine)]

\* The new last key takes from the spine's end what comes after it in priority.
Pushed(spine, k, v) ==
    LET n == Cardinality({i \in DOMAIN spine : ~ Above(k, spine[i].key)})
    IN  Append(SubSeq(spine, 1, n),
               Node(k, v, Chained(SubSeq(spine, n + 1, Len(spine))), Nil))

Terminal(map) ==
    LET keys == Sorted(DOMAIN map)
        upto[i \in 0..Len(keys)] ==
            IF i = 0 THEN <<>> ELSE Pushed(upto[i - 1], keys[i], map[keys[i]])
    IN  Chained(upto[Len(keys)])
=============================================================================
