---------------------------- MODULE PatriciaTrie ----------------------------
(***************************************************************************)
(* The trie of authenticated_patricia.rs as values: a node is a record of  *)
(* its content, and its digest is the node itself, subtrees included.      *)
(*                                                                         *)
(* A key is a sequence of bits.  Keys need not have one length, and no key *)
(* may be a prefix of another: the code finds out when a bit past the end  *)
(* of the shorter one is asked for, and answers Malformed.                 *)
(***************************************************************************)
EXTENDS Integers, FiniteSets, SequencesExt

CONSTANTS
    EmptyTree,  \* PatriciaIndexRoot::empty
    Absent,     \* the answer of a lookup that finds nothing
    Malformed   \* PatriciaError::Malformed

Leaf(key, value) == [prefix |-> key, value |-> value, kids |-> <<>>]
Branch(prefix, left, right) == [prefix |-> prefix, value |-> Absent, kids |-> <<left, right>>]
IsBranch(node) == node.kids # <<>>

CommonBits(k, p) == Len(LongestCommonPrefix({k, p}))

\* The side of a branch at bit n (counted from 0) that a key takes.
Side(k, n) == k[n + 1] + 1

\* A branch with the key's own prefix, whichever side it takes.
Joined(k, n, leaf, other) ==
    IF Side(k, n) = 1 THEN Branch(SubSeq(k, 1, n), leaf, other)
    ELSE Branch(SubSeq(k, 1, n), other, leaf)

\* Byte order: the order of a BTreeMap's keys.
Before(k, j) ==
    LET n == CommonBits(k, j)
    IN n = Len(k) \/ (n < Len(j) /\ k[n + 1] < j[n + 1])
InOrder(keys) == SetToSortSeq(keys, Before)

-----------------------------------------------------------------------------
(* One key.                                                                *)

\* The nodes from the root to where the key leaves the tree.
Path(tree, k) ==
    LET descends(node) == IsBranch(node) /\ IsStrictPrefix(node.prefix, k)
        walk[n \in Nat] ==
            IF n = 0 THEN <<tree>>
            ELSE LET path == walk[n - 1]  node == Last(path)
                 IN IF descends(node)
                    THEN Append(path, node.kids[Side(k, Len(node.prefix))])
                    ELSE path
    IN walk[Len(k)]

End(tree, k) == Last(Path(tree, k))

\* The key ends where a branch asks for its next bit.
RunsOut(tree, k) == tree # EmptyTree /\ IsBranch(End(tree, k)) /\ End(tree, k).prefix = k

\* Mutant: the leaf found is taken to have the key.
LookupUnchecked(tree, k) ==
    IF tree = EmptyTree THEN Absent ELSE End(tree, k).value

Lookup(tree, k) ==
    IF tree = EmptyTree THEN Absent
    ELSE IF RunsOut(tree, k) THEN Malformed
    ELSE IF End(tree, k).prefix = k THEN End(tree, k).value
    ELSE Absent

\* The copies of a path's branches above its last node, which becomes new.
Rebuilt(path, k, new) ==
    FoldRight(LAMBDA branch, child :
                  [branch EXCEPT !.kids[Side(k, Len(branch.prefix))] = child],
              Front(path), new)

Insert(tree, k, value) ==
    IF tree = EmptyTree THEN Leaf(k, value)
    ELSE LET end == End(tree, k)
             shared == CommonBits(k, end.prefix)
             leaf == Leaf(k, value)
         IN IF ~IsBranch(end) /\ end.prefix = k THEN Rebuilt(Path(tree, k), k, leaf)
            ELSE IF shared \in {Len(k), Len(end.prefix)} THEN Malformed
            ELSE Rebuilt(Path(tree, k), k, Joined(k, shared, leaf, end))

\* Mutant: the branch above a removed leaf stays, with the sibling twice.
RemoveKeepingBranch(tree, k) ==
    IF tree = EmptyTree THEN EmptyTree
    ELSE IF RunsOut(tree, k) THEN Malformed
    ELSE IF End(tree, k).prefix # k THEN tree
    ELSE LET path == Path(tree, k)  parent == Last(Front(path))
         IN IF Len(path) = 1 THEN EmptyTree
            ELSE Rebuilt(path, k, parent.kids[3 - Side(k, Len(parent.prefix))])

\* The branch above a removed leaf gives way to the leaf's sibling.
RemoveKey(tree, k) ==
    IF tree = EmptyTree THEN EmptyTree
    ELSE IF RunsOut(tree, k) THEN Malformed
    ELSE IF End(tree, k).prefix # k THEN tree
    ELSE LET path == Path(tree, k)  parent == Last(Front(path))
         IN IF Len(path) = 1 THEN EmptyTree
            ELSE Rebuilt(Front(path), k, parent.kids[3 - Side(k, Len(parent.prefix))])

-----------------------------------------------------------------------------
(* Many keys.                                                              *)

\* The trees after each record, or the first Malformed.
InsertSteps(tree, records) ==
    FoldLeft(LAMBDA trees, k :
                 IF Last(trees) = Malformed THEN trees
                 ELSE Append(trees, Insert(Last(trees), k, records[k])),
             <<tree>>, InOrder(DOMAIN records))
InsertAll(tree, records) == Last(InsertSteps(tree, records))

RemoveSteps(tree, keys) ==
    FoldLeft(LAMBDA trees, k :
                 IF Last(trees) = Malformed THEN trees
                 ELSE Append(trees, RemoveKey(Last(trees), k)),
             <<tree>>, InOrder(keys))
RemoveAll(tree, keys) == Last(RemoveSteps(tree, keys))

Joint(prefix, left, right) ==
    IF Malformed \in {left, right} THEN Malformed ELSE Branch(prefix, left, right)

\* bulk_partition: the records on one side of a bit.
OnSide(records, n, side) ==
    Restrict(records, {k \in DOMAIN records : Len(k) > n /\ Side(k, n) = side})

\* The tree of a set of records, built whole.
RECURSIVE BulkRecords(_)
BulkRecords(records) ==
    LET keys == DOMAIN records
        prefix == LongestCommonPrefix(keys)
    IN IF Cardinality(keys) = 1 THEN Leaf(prefix, records[prefix])
       ELSE IF prefix \in keys THEN Malformed
       ELSE Joint(prefix, BulkRecords(OnSide(records, Len(prefix), 1)),
                          BulkRecords(OnSide(records, Len(prefix), 2)))

Canonical(records) == IF DOMAIN records = {} THEN EmptyTree ELSE BulkRecords(records)

\* Sorted records merged into a subtree.
RECURSIVE BulkInsert(_, _)
BulkInsert(node, records) ==
    LET keys == DOMAIN records
        shared == Len(LongestCommonPrefix(keys \cup {node.prefix}))
        side(child, s) ==
            LET some == OnSide(records, Len(node.prefix), s)
            IN IF DOMAIN some = {} THEN child ELSE BulkInsert(child, some)
        own == Side(node.prefix, shared)
        beside == BulkRecords(OnSide(records, shared, 3 - own))
        within == LET some == OnSide(records, shared, own)
                  IN IF DOMAIN some = {} THEN node ELSE BulkInsert(node, some)
    IN IF \E k \in keys : Len(k) = shared /\ k # node.prefix THEN Malformed
       ELSE IF shared < Len(node.prefix)
       THEN LET prefix == SubSeq(node.prefix, 1, shared)
            IN IF own = 2 THEN Joint(prefix, beside, within) ELSE Joint(prefix, within, beside)
       ELSE IF IsBranch(node)
       THEN IF node.prefix \in keys THEN Malformed
            ELSE Joint(node.prefix, side(node.kids[1], 1), side(node.kids[2], 2))
       ELSE IF keys # {node.prefix} THEN Malformed
       ELSE Leaf(node.prefix, records[node.prefix])

\* Mutant: a bulk insertion builds from its own records alone.
BulkReplaceMany(tree, records) ==
    IF DOMAIN records = {} THEN tree ELSE BulkRecords(records)

BulkInsertMany(tree, records) ==
    IF DOMAIN records = {} THEN tree
    ELSE IF tree = EmptyTree THEN BulkRecords(records)
    ELSE BulkInsert(tree, records)

\* The records below a node whose keys begin with some bits, in order.
RECURSIVE Collect(_, _)
Collect(node, requested) ==
    IF ~IsBranch(node)
    THEN IF IsPrefix(requested, node.prefix) THEN << <<node.prefix, node.value>> >> ELSE <<>>
    ELSE IF CommonBits(requested, node.prefix)
              < (IF Len(requested) < Len(node.prefix) THEN Len(requested) ELSE Len(node.prefix))
    THEN <<>>
    ELSE IF Len(requested) <= Len(node.prefix)
    THEN Collect(node.kids[1], requested) \o Collect(node.kids[2], requested)
    ELSE Collect(node.kids[Side(requested, Len(node.prefix))], requested)

LookupPrefix(tree, requested, limit) ==
    IF tree = EmptyTree \/ limit = 0 THEN <<>>
    ELSE LET found == Collect(tree, requested)
         IN SubSeq(found, 1, IF limit < Len(found) THEN limit ELSE Len(found))

-----------------------------------------------------------------------------
(* Nodes of a tree, children before parents.                               *)

\* The nodes a publication visits: it stops where a node is not to be written.
RECURSIVE ChildFirst(_, _)
ChildFirst(node, among) ==
    IF node = EmptyTree \/ node \notin among THEN <<>>
    ELSE (IF IsBranch(node)
          THEN ChildFirst(node.kids[1], among) \o ChildFirst(node.kids[2], among)
          ELSE <<>>) \o <<node>>

RECURSIVE Nodes(_)
Nodes(tree) ==
    IF tree = EmptyTree THEN {}
    ELSE {tree} \cup UNION {Nodes(tree.kids[i]) : i \in DOMAIN tree.kids}
=============================================================================
