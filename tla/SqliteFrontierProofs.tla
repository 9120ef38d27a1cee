------------------------ MODULE SqliteFrontierProofs ------------------------
(***************************************************************************)
(* For any connections, batches, keys and priorities: the frontier database*)
(* accepts batches in causal order, its authenticated maps answer lookups  *)
(* with the documents, batches and clocks of the accepted history, and its *)
(* stamp covers what was materialized.                                     *)
(***************************************************************************)
EXTENDS SqliteFrontier, FiniteSetTheorems, WellFoundedInduction, TLAPS

\* The search trees with keys in K and values in V.
KeysIn(t) == {n.key : n \in Nodes(t)}
Search(t) ==
    \A n \in Nodes(t) : /\ \A j \in KeysIn(n.left) : j < n.key
                        /\ \A j \in KeysIn(n.right) : n.key < j
Fits(t, K, V) == t \in Trees(V)[Depth] /\ KeysIn(t) \subseteq K /\ Search(t)

-----------------------------------------------------------------------------
(* Least elements; recursion over a range.                                 *)

LEMMA Constants ==
    /\ Keys \subseteq Nat \ {0} /\ IsFiniteSet(Keys) /\ Depth \in Nat
    /\ Priority \in [Keys -> Nat]
<1>1. Keys \subseteq Nat \ {0} /\ IsFiniteSet(Keys) /\ Priority \in [Keys -> Nat]
  BY PriorityAssumption
<1> QED BY <1>1, FS_CardinalityType DEF Depth

\* Every nonempty set of natural numbers has a least element.
LEMMA LeastExists ==
    ASSUME NEW T, T \subseteq Nat, T # {}
    PROVE  \E x \in T : \A y \in T : x <= y
<1> DEFINE Less == {p \in Nat \X Nat : p[1] < p[2]}
<1>1. IsWellFoundedOn(Less, Nat)
  <2>1. OpToRel(<, Nat) = Less
    BY DEF OpToRel
  <2> QED BY <2>1, NatLessThanWellFounded, Zenon
<1> HIDE DEF Less
<1>2. PICK x \in T : \A y \in T : ~ (<<y, x>> \in Less)
  BY <1>1, WFMin, Zenon
<1>3. \A y \in T : ~ (y < x)
  BY <1>2 DEF Less
<1> QED BY <1>3

-----------------------------------------------------------------------------
(* Trees of bounded height.                                                *)

Taller(X, V) == {Nil} \cup [key : Keys, val : V, left : X, right : X]

LEMMA TreesAre ==
    ASSUME NEW V
    PROVE  /\ Trees(V)[0] = {Nil}
           /\ \A h \in 1..Depth : Trees(V)[h] = Taller(Trees(V)[h - 1], V)
<1>0. Depth \in Nat
  BY Constants
<1> DEFINE base == {Nil}
           Step(h, x) == Taller(x, V)
<1> DEFINE Solves(f, m) == f = [h \in 0..m |-> IF h = 0 THEN base ELSE Step(h, f[h - 1])]
           Bad == {m \in 0..Depth : ~ \E f : Solves(f, m)}
<1>1. \E f : Solves(f, Depth)
  <2> HIDE DEF base, Step
  <2>1. ASSUME Bad # {} PROVE FALSE
    <3>1. PICK m \in Bad : \A j \in Bad : m <= j
      <4>1. Bad \subseteq Nat
        BY <1>0
      <4> HIDE DEF Bad
      <4> QED BY <2>1, <4>1, LeastExists, Zenon
    <3>2. m \in 0..Depth /\ ~ \E f : Solves(f, m)
      BY <3>1
    <3>3. m # 0
      <4>1. Solves([h \in 0..0 |-> base], 0)
        OBVIOUS
      <4> HIDE DEF Solves
      <4> QED BY <4>1, <3>2
    <3>4. PICK f : Solves(f, m - 1)
      <4>1. m - 1 \in 0..Depth /\ ~ (m <= m - 1)
        BY <1>0, <3>2, <3>3
      <4> HIDE DEF Solves
      <4> QED BY <4>1, <3>1
    <3> DEFINE g == [h \in 0..m |-> IF h = m THEN Step(m, f[m - 1]) ELSE f[h]]
    <3>5. ASSUME NEW h \in 0..m
          PROVE  g[h] = IF h = 0 THEN base ELSE Step(h, g[h - 1])
      <4>1. h # 0 => g[h - 1] = f[h - 1]
        BY <1>0, <3>2
      <4>2. h # m => h \in 0..(m - 1) /\ g[h] = f[h]
        BY <1>0, <3>2
      <4>3. h = m => g[h] = Step(m, f[m - 1])
        OBVIOUS
      <4> HIDE DEF g
      <4> QED BY <4>1, <4>2, <4>3, <3>3, <3>4
    <3>6. Solves(g, m)
      <4>1. g = [h \in 0..m |-> g[h]]
        OBVIOUS
      <4> HIDE DEF g
      <4> QED BY <4>1, <3>5
    <3> HIDE DEF g, Solves
    <3> QED BY <3>2, <3>6
  <2> HIDE DEF Solves
  <2> QED BY <1>0, <2>1
<1> DEFINE chosen == CHOOSE f : Solves(f, Depth)
<1>2. Solves(chosen, Depth)
  <2> HIDE DEF Solves
  <2> QED BY <1>1
<1> HIDE DEF chosen, base, Step
<1>3. chosen[0] = base
  BY <1>0, <1>2
<1>4. ASSUME NEW h \in 1..Depth PROVE chosen[h] = Step(h, chosen[h - 1])
  <2>1. h \in 0..Depth /\ h # 0
    BY <1>0
  <2> QED BY <1>2, <2>1
<1> USE DEF base, Step
<1>5. Trees(V) = chosen
  BY DEF Trees, Taller, chosen
<1> QED BY <1>3, <1>4, <1>5

LEMMA NodeIs ==
    ASSUME NEW k, NEW v, NEW l, NEW r
    PROVE  /\ Node(k, v, l, r) # Nil
           /\ Node(k, v, l, r).key = k /\ Node(k, v, l, r).val = v
           /\ Node(k, v, l, r).left = l /\ Node(k, v, l, r).right = r
<1>1. ASSUME Node(k, v, l, r) = Nil PROVE FALSE
  <2>1. DOMAIN Node(k, v, l, r) = {"key", "val", "left", "right"}
    BY DEF Node
  <2>2. DOMAIN Nil = {"key"}
    BY DEF Nil
  <2> QED BY <1>1, <2>1, <2>2
<1>2. /\ Node(k, v, l, r).key = k /\ Node(k, v, l, r).val = v
      /\ Node(k, v, l, r).left = l /\ Node(k, v, l, r).right = r
  BY DEF Node
<1> QED BY <1>1, <1>2

\* A tree is empty or a node over two trees of lower height.
LEMMA TreeCases ==
    ASSUME NEW V, NEW h \in 0..Depth, NEW t \in Trees(V)[h], t # Nil
    PROVE  /\ h \in 1..Depth /\ h - 1 \in 0..Depth
           /\ t = Node(t.key, t.val, t.left, t.right)
           /\ t.key \in Keys /\ t.val \in V
           /\ t.left \in Trees(V)[h - 1] /\ t.right \in Trees(V)[h - 1]
<1>1. Depth \in Nat
  BY Constants
<1>2. h \in 1..Depth /\ h - 1 \in 0..Depth
  BY <1>1, TreesAre
<1>3. t \in [key : Keys, val : V, left : Trees(V)[h - 1], right : Trees(V)[h - 1]]
  BY <1>2, TreesAre DEF Taller
<1> QED BY <1>2, <1>3 DEF Node

LEMMA TreeMade ==
    ASSUME NEW V, NEW h \in 1..Depth, NEW k \in Keys, NEW v \in V,
           NEW l \in Trees(V)[h - 1], NEW r \in Trees(V)[h - 1]
    PROVE  Node(k, v, l, r) \in Trees(V)[h]
BY TreesAre DEF Taller, Node

LEMMA NilIsTree ==
    ASSUME NEW V, NEW h \in 0..Depth
    PROVE  Nil \in Trees(V)[h]
<1>1. h = 0 \/ h \in 1..Depth
  BY Constants
<1> QED BY <1>1, TreesAre DEF Taller

LEMMA TreesGrow ==
    ASSUME NEW V, NEW h \in 1..Depth
    PROVE  Trees(V)[h - 1] \subseteq Trees(V)[h]
<1>0. Depth \in Nat
  BY Constants
<1> DEFINE Bad == {i \in 1..Depth : ~ (Trees(V)[i - 1] \subseteq Trees(V)[i])}
<1>1. ASSUME Bad # {} PROVE FALSE
  <2>1. PICK i \in Bad : \A j \in Bad : i <= j
    <3>1. Bad \subseteq Nat
      BY <1>0
    <3> HIDE DEF Bad
    <3> QED BY <1>1, <3>1, LeastExists, Zenon
  <2>2. i \in 1..Depth /\ i \in 0..Depth /\ i - 1 \in 0..Depth
    BY <1>0, <2>1
  <2>3. PICK t \in Trees(V)[i - 1] : t \notin Trees(V)[i]
    BY <2>1
  <2>4. t # Nil
    BY <2>2, <2>3, NilIsTree
  <2>5. /\ i - 1 \in 1..Depth /\ t = Node(t.key, t.val, t.left, t.right)
        /\ t.key \in Keys /\ t.val \in V
        /\ t.left \in Trees(V)[i - 1 - 1] /\ t.right \in Trees(V)[i - 1 - 1]
    BY <2>2, <2>3, <2>4, TreeCases
  <2>6. Trees(V)[i - 1 - 1] \subseteq Trees(V)[i - 1]
    <3>1. i - 1 \notin Bad
      <4>1. ~ (i <= i - 1)
        BY <2>2
      <4> QED BY <2>1, <4>1
    <3> QED BY <2>5, <3>1
  <2> QED BY <2>2, <2>3, <2>5, <2>6, TreeMade
<1> QED BY <1>1

LEMMA TreesNest ==
    ASSUME NEW V, NEW h \in 0..Depth, NEW i \in h..Depth
    PROVE  Trees(V)[h] \subseteq Trees(V)[i]
<1>0. Depth \in Nat
  BY Constants
<1> DEFINE Bad == {j \in h..Depth : ~ (Trees(V)[h] \subseteq Trees(V)[j])}
<1>1. ASSUME Bad # {} PROVE FALSE
  <2>1. PICK j \in Bad : \A m \in Bad : j <= m
    <3>1. Bad \subseteq Nat
      BY <1>0
    <3> HIDE DEF Bad
    <3> QED BY <1>1, <3>1, LeastExists, Zenon
  <2>2. j # h /\ j \in h..Depth
    BY <2>1
  <2>3. j \in 1..Depth /\ j - 1 \in h..Depth /\ ~ (j <= j - 1)
    BY <1>0, <2>2
  <2>4. Trees(V)[j - 1] \subseteq Trees(V)[j]
    BY <2>3, TreesGrow
  <2> QED BY <2>1, <2>3, <2>4
<1> QED BY <1>1

-----------------------------------------------------------------------------
(* The nodes of a tree.                                                    *)

Below(S) == UNION {{n.left, n.right} : n \in S}

\* The nodes less than h deep.
NodesUpto(t) ==
    LET upto[h \in 0..Depth] ==
            IF h = 0 THEN {}
            ELSE ({t} \cup UNION {{n.left, n.right} : n \in upto[h - 1]}) \ {Nil}
    IN  upto

LEMMA NodesUptoIs ==
    ASSUME NEW t
    PROVE  /\ NodesUpto(t)[0] = {}
           /\ \A h \in 1..Depth :
                 NodesUpto(t)[h] = ({t} \cup Below(NodesUpto(t)[h - 1])) \ {Nil}
           /\ Nodes(t) = NodesUpto(t)[Depth]
<1>0. Depth \in Nat
  BY Constants
<1> DEFINE base == {}
           Step(h, x) == ({t} \cup Below(x)) \ {Nil}
<1> DEFINE Solves(f, m) == f = [h \in 0..m |-> IF h = 0 THEN base ELSE Step(h, f[h - 1])]
           Bad == {m \in 0..Depth : ~ \E f : Solves(f, m)}
<1>1. \E f : Solves(f, Depth)
  <2> HIDE DEF base, Step
  <2>1. ASSUME Bad # {} PROVE FALSE
    <3>1. PICK m \in Bad : \A j \in Bad : m <= j
      <4>1. Bad \subseteq Nat
        BY <1>0
      <4> HIDE DEF Bad
      <4> QED BY <2>1, <4>1, LeastExists, Zenon
    <3>2. m \in 0..Depth /\ ~ \E f : Solves(f, m)
      BY <3>1
    <3>3. m # 0
      <4>1. Solves([h \in 0..0 |-> base], 0)
        OBVIOUS
      <4> HIDE DEF Solves
      <4> QED BY <4>1, <3>2
    <3>4. PICK f : Solves(f, m - 1)
      <4>1. m - 1 \in 0..Depth /\ ~ (m <= m - 1)
        BY <1>0, <3>2, <3>3
      <4> HIDE DEF Solves
      <4> QED BY <4>1, <3>1
    <3> DEFINE g == [h \in 0..m |-> IF h = m THEN Step(m, f[m - 1]) ELSE f[h]]
    <3>5. ASSUME NEW h \in 0..m
          PROVE  g[h] = IF h = 0 THEN base ELSE Step(h, g[h - 1])
      <4>1. h # 0 => g[h - 1] = f[h - 1]
        BY <1>0, <3>2
      <4>2. h # m => h \in 0..(m - 1) /\ g[h] = f[h]
        BY <1>0, <3>2
      <4>3. h = m => g[h] = Step(m, f[m - 1])
        OBVIOUS
      <4> HIDE DEF g
      <4> QED BY <4>1, <4>2, <4>3, <3>3, <3>4
    <3>6. Solves(g, m)
      <4>1. g = [h \in 0..m |-> g[h]]
        OBVIOUS
      <4> HIDE DEF g
      <4> QED BY <4>1, <3>5
    <3> HIDE DEF g, Solves
    <3> QED BY <3>2, <3>6
  <2>2. Depth \in 0..Depth
    BY <1>0
  <2>3. Depth \notin Bad
    <3> HIDE DEF Bad
    <3> QED BY <2>1
  <2> HIDE DEF Solves
  <2> QED BY <2>2, <2>3
<1> DEFINE chosen == CHOOSE f : Solves(f, Depth)
<1>2. Solves(chosen, Depth)
  <2> HIDE DEF Solves
  <2> QED BY <1>1
<1> HIDE DEF chosen, base, Step
<1>3. chosen[0] = base
  BY <1>0, <1>2
<1>4. ASSUME NEW h \in 1..Depth PROVE chosen[h] = Step(h, chosen[h - 1])
  <2>1. h \in 0..Depth /\ h # 0
    BY <1>0
  <2> QED BY <1>2, <2>1
<1> USE DEF base, Step
<1>5. NodesUpto(t) = chosen
  BY DEF NodesUpto, chosen, Below
<1>6. Nodes(t) = NodesUpto(t)[Depth]
  BY DEF Nodes, NodesUpto
<1> QED BY <1>3, <1>4, <1>5, <1>6

LEMMA NodesUptoSplit ==
    ASSUME NEW t, t # Nil, NEW h \in 1..Depth
    PROVE  NodesUpto(t)[h] = {t} \cup NodesUpto(t.left)[h - 1] \cup NodesUpto(t.right)[h - 1]
<1>0. Depth \in Nat
  BY Constants
<1> DEFINE Splits(i) == NodesUpto(t)[i] =
               {t} \cup NodesUpto(t.left)[i - 1] \cup NodesUpto(t.right)[i - 1]
           Bad == {i \in 1..Depth : ~ Splits(i)}
<1>1. ASSUME Bad # {} PROVE FALSE
  <2>1. PICK i \in Bad : \A j \in Bad : i <= j
    <3>1. Bad \subseteq Nat
      BY <1>0
    <3> HIDE DEF Bad
    <3> QED BY <1>1, <3>1, LeastExists, Zenon
  <2>2. i \in 1..Depth /\ ~ Splits(i)
    BY <2>1
  <2>3. i # 1
    <3>1. ASSUME i = 1 PROVE FALSE
      <4>1. NodesUpto(t)[1] = ({t} \cup Below(NodesUpto(t)[0])) \ {Nil}
        <5>1. 1 \in 1..Depth /\ 1 - 1 = 0
          BY <1>0, <2>2, <3>1
        <5> QED BY <5>1, NodesUptoIs
      <4>2. Below(NodesUpto(t)[0]) = {}
        BY NodesUptoIs DEF Below
      <4>3. NodesUpto(t.left)[0] = {} /\ NodesUpto(t.right)[0] = {}
        BY NodesUptoIs
      <4>4. NodesUpto(t)[1] = {t}
        BY <4>1, <4>2
      <4> QED BY <2>2, <3>1, <4>3, <4>4
    <3> QED BY <3>1
  <2>4. i - 1 \in 1..Depth /\ ~ (i <= i - 1)
    BY <1>0, <2>2, <2>3
  <2>5. Splits(i - 1)
    <3> HIDE DEF Splits
    <3> QED BY <2>1, <2>4
  <2>6. NodesUpto(t)[i] = ({t} \cup Below(NodesUpto(t)[i - 1])) \ {Nil}
    BY <2>2, NodesUptoIs
  <2>7. /\ NodesUpto(t.left)[i - 1] =
              ({t.left} \cup Below(NodesUpto(t.left)[i - 1 - 1])) \ {Nil}
        /\ NodesUpto(t.right)[i - 1] =
              ({t.right} \cup Below(NodesUpto(t.right)[i - 1 - 1])) \ {Nil}
    BY <2>4, NodesUptoIs
  <2>8. Below(NodesUpto(t)[i - 1]) = {t.left, t.right} \cup
            Below(NodesUpto(t.left)[i - 1 - 1]) \cup Below(NodesUpto(t.right)[i - 1 - 1])
    BY <2>5 DEF Below
  <2> QED BY <2>2, <2>6, <2>7, <2>8
<1> QED BY <1>1

LEMMA NodesUptoNil ==
    ASSUME NEW h \in 0..Depth
    PROVE  NodesUpto(Nil)[h] = {}
<1>0. Depth \in Nat
  BY Constants
<1> DEFINE Bad == {i \in 0..Depth : NodesUpto(Nil)[i] # {}}
<1>1. ASSUME Bad # {} PROVE FALSE
  <2>1. PICK i \in Bad : \A j \in Bad : i <= j
    <3>1. Bad \subseteq Nat
      BY <1>0
    <3> HIDE DEF Bad
    <3> QED BY <1>1, <3>1, LeastExists, Zenon
  <2>2. i # 0
    BY <2>1, NodesUptoIs
  <2>3. i \in 1..Depth /\ i - 1 \in 0..Depth /\ ~ (i <= i - 1)
    BY <1>0, <2>1, <2>2
  <2>4. NodesUpto(Nil)[i - 1] = {}
    BY <2>1, <2>3
  <2>5. Below(NodesUpto(Nil)[i - 1]) = {}
    BY <2>4 DEF Below
  <2>6. NodesUpto(Nil)[i] = ({Nil} \cup Below(NodesUpto(Nil)[i - 1])) \ {Nil}
    BY <2>3, NodesUptoIs
  <2> QED BY <2>1, <2>5, <2>6
<1> QED BY <1>1

\* A tree of height h has no nodes at depth h or deeper.
LEMMA NodesUptoStays ==
    ASSUME NEW V, NEW h \in 0..Depth, NEW t \in Trees(V)[h], NEW i \in h..Depth
    PROVE  NodesUpto(t)[i] = NodesUpto(t)[h]
<1>0. Depth \in Nat
  BY Constants
<1> DEFINE Stays(n) == \A s \in Trees(V)[n] : \A j \in n..Depth :
                           NodesUpto(s)[j] = NodesUpto(s)[n]
           Bad == {n \in 0..Depth : ~ Stays(n)}
<1>1. ASSUME Bad # {} PROVE FALSE
  <2>1. PICK n \in Bad : \A j \in Bad : n <= j
    <3>1. Bad \subseteq Nat
      BY <1>0
    <3> HIDE DEF Bad
    <3> QED BY <1>1, <3>1, LeastExists, Zenon
  <2>2. n \in 0..Depth /\ ~ Stays(n)
    BY <2>1
  <2>3. PICK s \in Trees(V)[n], j \in n..Depth : NodesUpto(s)[j] # NodesUpto(s)[n]
    BY <2>2
  <2>4. j \in 0..Depth /\ j \in Nat
    BY <1>0, <2>2, <2>3
  <2>5. s # Nil
    BY <2>2, <2>3, <2>4, NodesUptoNil
  <2>6. /\ n \in 1..Depth /\ n - 1 \in 0..Depth
        /\ s.left \in Trees(V)[n - 1] /\ s.right \in Trees(V)[n - 1]
    BY <2>2, <2>3, <2>5, TreeCases
  <2>7. j \in 1..Depth /\ j - 1 \in (n - 1)..Depth /\ ~ (n <= n - 1)
    BY <1>0, <2>3, <2>4, <2>6
  <2>8. Stays(n - 1)
    <3> HIDE DEF Stays
    <3> QED BY <2>1, <2>6, <2>7
  <2>9. /\ NodesUpto(s.left)[j - 1] = NodesUpto(s.left)[n - 1]
        /\ NodesUpto(s.right)[j - 1] = NodesUpto(s.right)[n - 1]
    BY <2>6, <2>7, <2>8
  <2>10. /\ NodesUpto(s)[j] = {s} \cup NodesUpto(s.left)[j - 1] \cup NodesUpto(s.right)[j - 1]
         /\ NodesUpto(s)[n] = {s} \cup NodesUpto(s.left)[n - 1] \cup NodesUpto(s.right)[n - 1]
    BY <2>5, <2>6, <2>7, NodesUptoSplit
  <2> QED BY <2>3, <2>9, <2>10
<1> QED BY <1>1

\* The nodes of a tree are its root and those of its two subtrees.
LEMMA NodesAre ==
    ASSUME NEW V, NEW t \in Trees(V)[Depth]
    PROVE  /\ Nodes(Nil) = {}
           /\ t # Nil => /\ Nodes(t) = {t} \cup Nodes(t.left) \cup Nodes(t.right)
                         /\ t = Node(t.key, t.val, t.left, t.right)
                         /\ t.key \in Keys /\ t.val \in V
                         /\ t.left \in Trees(V)[Depth] /\ t.right \in Trees(V)[Depth]
<1>0. Depth \in Nat /\ Depth \in 0..Depth
  BY Constants
<1>1. Nodes(Nil) = {}
  BY <1>0, NodesUptoIs, NodesUptoNil
<1>2. ASSUME t # Nil
      PROVE  /\ Nodes(t) = {t} \cup Nodes(t.left) \cup Nodes(t.right)
             /\ t = Node(t.key, t.val, t.left, t.right)
             /\ t.key \in Keys /\ t.val \in V
             /\ t.left \in Trees(V)[Depth] /\ t.right \in Trees(V)[Depth]
  <2>1. /\ Depth \in 1..Depth /\ Depth - 1 \in 0..Depth
        /\ t = Node(t.key, t.val, t.left, t.right)
        /\ t.key \in Keys /\ t.val \in V
        /\ t.left \in Trees(V)[Depth - 1] /\ t.right \in Trees(V)[Depth - 1]
    BY <1>0, <1>2, TreeCases
  <2>2. Depth \in (Depth - 1)..Depth
    BY <1>0
  <2>3. /\ NodesUpto(t.left)[Depth] = NodesUpto(t.left)[Depth - 1]
        /\ NodesUpto(t.right)[Depth] = NodesUpto(t.right)[Depth - 1]
    BY <2>1, <2>2, NodesUptoStays
  <2>4. NodesUpto(t)[Depth] =
            {t} \cup NodesUpto(t.left)[Depth - 1] \cup NodesUpto(t.right)[Depth - 1]
    BY <1>2, <2>1, NodesUptoSplit
  <2>5. Nodes(t) = {t} \cup Nodes(t.left) \cup Nodes(t.right)
    BY <2>3, <2>4, NodesUptoIs
  <2>6. t.left \in Trees(V)[Depth] /\ t.right \in Trees(V)[Depth]
    BY <2>1, <2>2, TreesNest
  <2> QED BY <2>1, <2>5, <2>6
<1> QED BY <1>1, <1>2

-----------------------------------------------------------------------------
(* Search trees.                                                           *)

Lower(K, k) == {j \in K : j < k}
Upper(K, k) == {j \in K : k < j}
Entries(t) == {<<n.key, n.val>> : n \in Nodes(t)}
\* k and v may stand over l and r.
Joins(k, v, l, r, K, V) ==
    /\ K \subseteq Keys /\ k \in K /\ v \in V
    /\ Fits(l, Lower(K, k), V) /\ Fits(r, Upper(K, k), V)
Joint(k, v, E, F) == {<<k, v>>} \cup E \cup F

LEMMA PartsSmaller ==
    ASSUME NEW K, K \subseteq Keys, NEW k \in K
    PROVE  /\ Lower(K, k) \subseteq Keys /\ Upper(K, k) \subseteq Keys
           /\ Cardinality(K) \in 1..Depth
           /\ Cardinality(Lower(K, k)) \in 0..(Cardinality(K) - 1)
           /\ Cardinality(Upper(K, k)) \in 0..(Cardinality(K) - 1)
<1>1. Keys \subseteq Nat \ {0} /\ IsFiniteSet(Keys) /\ Depth \in Nat
  BY Constants
<1>2. IsFiniteSet(K) /\ Cardinality(K) \in Nat /\ Cardinality(K) <= Depth
  BY <1>1, FS_Subset, FS_CardinalityType DEF Depth
<1>3. IsFiniteSet(K \ {k}) /\ Cardinality(K \ {k}) = Cardinality(K) - 1
  BY <1>2, FS_RemoveElement
<1>4. Cardinality(K \ {k}) \in Nat
  BY <1>3, FS_CardinalityType
<1>5. Lower(K, k) \subseteq K \ {k} /\ Upper(K, k) \subseteq K \ {k}
  BY <1>1 DEF Lower, Upper
<1>6. /\ Cardinality(Lower(K, k)) \in Nat /\ Cardinality(Lower(K, k)) <= Cardinality(K \ {k})
      /\ Cardinality(Upper(K, k)) \in Nat /\ Cardinality(Upper(K, k)) <= Cardinality(K \ {k})
  BY <1>3, <1>5, FS_Subset, FS_CardinalityType
<1> QED BY <1>2, <1>3, <1>4, <1>5, <1>6

LEMMA KeysAre ==
    ASSUME NEW V, NEW t \in Trees(V)[Depth]
    PROVE  /\ KeysIn(Nil) = {} /\ Entries(Nil) = {}
           /\ t # Nil => /\ KeysIn(t) = {t.key} \cup KeysIn(t.left) \cup KeysIn(t.right)
                         /\ Entries(t) = {<<t.key, t.val>>} \cup Entries(t.left)
                                             \cup Entries(t.right)
<1>1. Nodes(Nil) = {} /\ (t # Nil => Nodes(t) = {t} \cup Nodes(t.left) \cup Nodes(t.right))
  BY NodesAre
<1>2. KeysIn(Nil) = {} /\ Entries(Nil) = {}
  BY <1>1 DEF KeysIn, Entries
<1>3. t # Nil => KeysIn(t) = {t.key} \cup KeysIn(t.left) \cup KeysIn(t.right)
  BY <1>1 DEF KeysIn
<1>4. t # Nil => Entries(t) = {<<t.key, t.val>>} \cup Entries(t.left) \cup Entries(t.right)
  BY <1>1 DEF Entries
<1> QED BY <1>2, <1>3, <1>4

LEMMA KeysOfEntries ==
    ASSUME NEW t
    PROVE  /\ \A e \in Entries(t) : e[1] \in KeysIn(t)
           /\ \A k \in KeysIn(t) : \E v : <<k, v>> \in Entries(t)
BY DEF KeysIn, Entries

LEMMA SearchParts ==
    ASSUME NEW V, NEW t \in Trees(V)[Depth], t # Nil
    PROVE  Search(t) <=> /\ Search(t.left) /\ Search(t.right)
                         /\ \A j \in KeysIn(t.left) : j < t.key
                         /\ \A j \in KeysIn(t.right) : t.key < j
<1>1. Nodes(t) = {t} \cup Nodes(t.left) \cup Nodes(t.right)
  BY NodesAre
<1> QED BY <1>1 DEF Search

\* A search tree is no higher than it has keys to choose from.
LEMMA Shallow ==
    ASSUME NEW V, NEW n \in 0..Depth, NEW K, K \subseteq Keys, Cardinality(K) <= n,
           NEW t, Fits(t, K, V)
    PROVE  t \in Trees(V)[n]
<1>0. Depth \in Nat
  BY Constants
<1> DEFINE Fit(s, J) == J \subseteq Keys /\ Fits(s, J, V)
           Low(m) == \A J, s : Fit(s, J) /\ Cardinality(J) <= m => s \in Trees(V)[m]
           Bad == {m \in 0..Depth : ~ Low(m)}
<1>1. ASSUME Bad # {} PROVE FALSE
  <2>1. PICK m \in Bad : \A j \in Bad : m <= j
    <3>1. Bad \subseteq Nat
      BY <1>0
    <3> HIDE DEF Bad
    <3> QED BY <1>1, <3>1, LeastExists, Zenon
  <2>2. m \in 0..Depth /\ ~ Low(m)
    BY <2>1
  <2>3. PICK J, s : Fit(s, J) /\ Cardinality(J) <= m /\ s \notin Trees(V)[m]
    BY <2>2
  <2>4. s # Nil
    BY <2>2, <2>3, NilIsTree
  <2>5. s \in Trees(V)[Depth] /\ KeysIn(s) \subseteq J /\ Search(s) /\ J \subseteq Keys
    BY <2>3 DEF Fits
  <2>6. /\ s = Node(s.key, s.val, s.left, s.right) /\ s.key \in Keys /\ s.val \in V
        /\ s.left \in Trees(V)[Depth] /\ s.right \in Trees(V)[Depth]
    BY <2>4, <2>5, NodesAre
  <2>7. KeysIn(s) = {s.key} \cup KeysIn(s.left) \cup KeysIn(s.right)
    BY <2>4, <2>5, KeysAre
  <2>8. /\ Search(s.left) /\ Search(s.right)
        /\ \A j \in KeysIn(s.left) : j < s.key
        /\ \A j \in KeysIn(s.right) : s.key < j
    BY <2>4, <2>5, SearchParts
  <2>9. s.key \in J
    BY <2>5, <2>7
  <2>10. /\ Lower(J, s.key) \subseteq Keys /\ Upper(J, s.key) \subseteq Keys
         /\ Cardinality(J) \in 1..Depth
         /\ Cardinality(Lower(J, s.key)) \in 0..(Cardinality(J) - 1)
         /\ Cardinality(Upper(J, s.key)) \in 0..(Cardinality(J) - 1)
    BY <2>5, <2>9, PartsSmaller
  <2>11. m \in 1..Depth /\ m - 1 \in 0..Depth /\ ~ (m <= m - 1)
    BY <1>0, <2>2, <2>3, <2>10
  <2>12. Low(m - 1)
    <3> HIDE DEF Low
    <3> QED BY <2>1, <2>11
  <2>13. Fit(s.left, Lower(J, s.key)) /\ Fit(s.right, Upper(J, s.key))
    <3>1. KeysIn(s.left) \subseteq Lower(J, s.key) /\ KeysIn(s.right) \subseteq Upper(J, s.key)
      BY <2>5, <2>7, <2>8 DEF Lower, Upper
    <3> QED BY <3>1, <2>6, <2>8, <2>10 DEF Fits
  <2>14. Cardinality(Lower(J, s.key)) <= m - 1 /\ Cardinality(Upper(J, s.key)) <= m - 1
    BY <1>0, <2>2, <2>3, <2>10
  <2>15. s.left \in Trees(V)[m - 1] /\ s.right \in Trees(V)[m - 1]
    <3> HIDE DEF Fit
    <3> QED BY <2>12, <2>13, <2>14
  <2> QED BY <2>3, <2>6, <2>11, <2>15, TreeMade
<1>2. Low(n)
  BY <1>1
<1> QED BY <1>2

LEMMA FitsNil ==
    ASSUME NEW V, NEW K
    PROVE  Fits(Nil, K, V) /\ Nodes(Nil) = {} /\ KeysIn(Nil) = {} /\ Entries(Nil) = {}
<1>1. Depth \in 0..Depth
  BY Constants
<1>2. Nil \in Trees(V)[Depth]
  BY <1>1, NilIsTree
<1>3. Nodes(Nil) = {} /\ KeysIn(Nil) = {} /\ Entries(Nil) = {}
  BY <1>2, NodesAre, KeysAre
<1> QED BY <1>2, <1>3 DEF Fits, Search

LEMMA FitsWider ==
    ASSUME NEW V, NEW K, NEW J, K \subseteq J, NEW t, Fits(t, K, V)
    PROVE  Fits(t, J, V)
BY DEF Fits

\* The root's key splits the keys of a search tree.
LEMMA FitsParts ==
    ASSUME NEW V, NEW K, NEW t, Fits(t, K, V), t # Nil
    PROVE  /\ t = Node(t.key, t.val, t.left, t.right)
           /\ t.key \in K /\ t.key \in Keys /\ t.val \in V
           /\ Fits(t.left, Lower(K, t.key), V) /\ Fits(t.right, Upper(K, t.key), V)
           /\ Nodes(t) = {t} \cup Nodes(t.left) \cup Nodes(t.right)
           /\ Entries(t) = Joint(t.key, t.val, Entries(t.left), Entries(t.right))
           /\ KeysIn(t) = {t.key} \cup KeysIn(t.left) \cup KeysIn(t.right)
<1>1. t \in Trees(V)[Depth] /\ KeysIn(t) \subseteq K /\ Search(t)
  BY DEF Fits
<1>2. /\ t = Node(t.key, t.val, t.left, t.right) /\ t.key \in Keys /\ t.val \in V
      /\ t.left \in Trees(V)[Depth] /\ t.right \in Trees(V)[Depth]
      /\ Nodes(t) = {t} \cup Nodes(t.left) \cup Nodes(t.right)
  BY <1>1, NodesAre
<1>3. /\ KeysIn(t) = {t.key} \cup KeysIn(t.left) \cup KeysIn(t.right)
      /\ Entries(t) = Joint(t.key, t.val, Entries(t.left), Entries(t.right))
  BY <1>1, KeysAre DEF Joint
<1>4. /\ Search(t.left) /\ Search(t.right)
      /\ \A j \in KeysIn(t.left) : j < t.key
      /\ \A j \in KeysIn(t.right) : t.key < j
  BY <1>1, SearchParts
<1>5. KeysIn(t.left) \subseteq Lower(K, t.key) /\ KeysIn(t.right) \subseteq Upper(K, t.key)
  BY <1>1, <1>3, <1>4 DEF Lower, Upper
<1>6. Fits(t.left, Lower(K, t.key), V) /\ Fits(t.right, Upper(K, t.key), V)
  BY <1>2, <1>4, <1>5 DEF Fits
<1> QED BY <1>1, <1>2, <1>3, <1>6

LEMMA FitsMade ==
    ASSUME NEW V, NEW K, NEW k, NEW v, NEW l, NEW r, Joins(k, v, l, r, K, V)
    PROVE  /\ Fits(Node(k, v, l, r), K, V)
           /\ Nodes(Node(k, v, l, r)) = {Node(k, v, l, r)} \cup Nodes(l) \cup Nodes(r)
           /\ Entries(Node(k, v, l, r)) = Joint(k, v, Entries(l), Entries(r))
<1> DEFINE n == Cardinality(K) - 1
           t == Node(k, v, l, r)
<1>0. Depth \in Nat /\ K \subseteq Keys /\ k \in K /\ v \in V
  BY Constants DEF Joins
<1>1. /\ Lower(K, k) \subseteq Keys /\ Upper(K, k) \subseteq Keys
      /\ Cardinality(K) \in 1..Depth
      /\ Cardinality(Lower(K, k)) \in 0..n /\ Cardinality(Upper(K, k)) \in 0..n
  BY <1>0, PartsSmaller
<1>2. /\ n \in 0..Depth /\ n + 1 \in 1..Depth /\ n + 1 - 1 = n
      /\ Cardinality(Lower(K, k)) <= n /\ Cardinality(Upper(K, k)) <= n
      /\ n + 1 \in 0..Depth /\ Depth \in (n + 1)..Depth
  BY <1>0, <1>1
<1> HIDE DEF n
<1>3. l \in Trees(V)[n] /\ r \in Trees(V)[n]
  BY <1>1, <1>2, Shallow DEF Joins
<1>4. t \in Trees(V)[n + 1]
  <2>1. PICK h \in 1..Depth : h = n + 1 /\ h - 1 = n
    BY <1>2
  <2>2. l \in Trees(V)[h - 1] /\ r \in Trees(V)[h - 1] /\ k \in Keys
    BY <1>0, <1>3, <2>1
  <2>3. Node(k, v, l, r) \in Trees(V)[h]
    BY <1>0, <2>2, TreeMade
  <2> QED BY <2>1, <2>3
<1>5. t \in Trees(V)[Depth]
  BY <1>2, <1>4, TreesNest
<1>6. t # Nil /\ t.key = k /\ t.val = v /\ t.left = l /\ t.right = r
  BY NodeIs
<1> HIDE DEF t
<1>7. /\ Nodes(t) = {t} \cup Nodes(l) \cup Nodes(r)
      /\ KeysIn(t) = {k} \cup KeysIn(l) \cup KeysIn(r)
      /\ Entries(t) = Joint(k, v, Entries(l), Entries(r))
  BY <1>5, <1>6, NodesAre, KeysAre DEF Joint
<1>8. /\ KeysIn(l) \subseteq Lower(K, k) /\ KeysIn(r) \subseteq Upper(K, k)
      /\ Search(l) /\ Search(r)
  BY DEF Fits, Joins
<1>9. KeysIn(t) \subseteq K
  BY <1>0, <1>7, <1>8 DEF Lower, Upper
<1>10. (\A j \in KeysIn(l) : j < k) /\ (\A j \in KeysIn(r) : k < j)
  BY <1>8 DEF Lower, Upper
<1>11. Search(t)
  BY <1>5, <1>6, <1>8, <1>10, SearchParts
<1>12. Fits(t, K, V)
  BY <1>5, <1>9, <1>11 DEF Fits
<1> QED BY <1>7, <1>12 DEF t

\* No key stands twice in a search tree, and the nodes are search trees, too.
LEMMA NodesDiffer ==
    ASSUME NEW V, NEW K, K \subseteq Keys, NEW t, Fits(t, K, V)
    PROVE  /\ \A m, n \in Nodes(t) : m.key = n.key => m = n
           /\ \A n \in Nodes(t) : Fits(n, K, V) /\ n # Nil /\ n.key \in K /\ n.val \in V
<1>0. Depth \in Nat /\ Depth \in 0..Depth /\ Keys \subseteq Nat
  BY Constants
<1> DEFINE Differ(s) == \A m, n \in Nodes(s) : m.key = n.key => m = n
           Parts(s, J) == \A n \in Nodes(s) : Fits(n, J, V) /\ n # Nil /\ n.key \in J /\ n.val \in V
           Good(h) == \A J, s : J \subseteq Keys /\ Fits(s, J, V) /\ s \in Trees(V)[h]
                          => Differ(s) /\ Parts(s, J)
           Bad == {h \in 0..Depth : ~ Good(h)}
<1>1. ASSUME Bad # {} PROVE FALSE
  <2>1. PICK h \in Bad : \A j \in Bad : h <= j
    <3>1. Bad \subseteq Nat
      BY <1>0
    <3> HIDE DEF Bad
    <3> QED BY <1>1, <3>1, LeastExists, Zenon
  <2>2. h \in 0..Depth /\ ~ Good(h)
    BY <2>1
  <2>3. PICK J, s : J \subseteq Keys /\ Fits(s, J, V) /\ s \in Trees(V)[h] /\ ~ (Differ(s) /\ Parts(s, J))
    <3> HIDE DEF Differ, Parts
    <3> QED BY <2>2
  <2>4. s # Nil
    BY <2>3, FitsNil
  <2>5. h \in 1..Depth /\ h - 1 \in 0..Depth /\ s.left \in Trees(V)[h - 1] /\ s.right \in Trees(V)[h - 1]
    BY <2>2, <2>3, <2>4, TreeCases
  <2>6. /\ s.key \in J /\ s.val \in V
        /\ Fits(s.left, Lower(J, s.key), V) /\ Fits(s.right, Upper(J, s.key), V)
        /\ Nodes(s) = {s} \cup Nodes(s.left) \cup Nodes(s.right)
    BY <2>3, <2>4, FitsParts
  <2>7. Lower(J, s.key) \subseteq J /\ Upper(J, s.key) \subseteq J
    BY DEF Lower, Upper
  <2>8. Good(h - 1)
    <3>1. ~ (h <= h - 1)
      BY <2>2
    <3> HIDE DEF Good
    <3> QED BY <2>1, <2>5, <3>1
  <2>9. /\ Differ(s.left) /\ Parts(s.left, Lower(J, s.key))
        /\ Differ(s.right) /\ Parts(s.right, Upper(J, s.key))
    <3> HIDE DEF Differ, Parts
    <3> QED BY <2>3, <2>5, <2>6, <2>7, <2>8
  <2>10. Parts(s, J)
    BY <2>3, <2>4, <2>6, <2>7, <2>9, FitsWider
  <2>11. Differ(s)
    <3>1. \A n \in Nodes(s.left) : n.key \in J /\ n.key < s.key
      BY <2>9 DEF Lower
    <3>2. \A n \in Nodes(s.right) : n.key \in J /\ s.key < n.key
      BY <2>9 DEF Upper
    <3>3. J \subseteq Nat
      BY <1>0, <2>3
    <3>4. s.key \in Nat
      BY <2>6, <3>3
    <3>5. ASSUME NEW m \in Nodes(s.left), NEW n \in Nodes(s.right) PROVE m.key # n.key
      <4>1. m.key \in Nat /\ n.key \in Nat /\ m.key < s.key /\ s.key < n.key
        BY <3>1, <3>2, <3>3
      <4> QED BY <3>4, <4>1
    <3>6. (\A n \in Nodes(s.left) : n.key # s.key) /\ (\A n \in Nodes(s.right) : n.key # s.key)
      BY <3>1, <3>2, <3>3, <3>4
    <3> QED BY <2>6, <2>9, <3>5, <3>6, Zenon
  <2> QED BY <2>3, <2>10, <2>11
<1>2. Good(Depth)
  BY <1>0, <1>1
<1>3. t \in Trees(V)[Depth]
  BY DEF Fits
<1> QED BY <1>2, <1>3

LEMMA EntriesDiffer ==
    ASSUME NEW V, NEW K, K \subseteq Keys, NEW t, Fits(t, K, V)
    PROVE  \A k, v, w : <<k, v>> \in Entries(t) /\ <<k, w>> \in Entries(t) => v = w
BY NodesDiffer DEF Entries

-----------------------------------------------------------------------------
(* Looking up a key.                                                       *)

LEMMA NodesWithin ==
    ASSUME NEW V, NEW t \in Trees(V)[Depth]
    PROVE  /\ \A n \in Nodes(t) : Nodes(n) \subseteq Nodes(t)
           /\ t # Nil => t \in Nodes(t)
<1>0. Depth \in Nat /\ Depth \in 0..Depth
  BY Constants
<1> DEFINE Within(s) == \A n \in Nodes(s) : Nodes(n) \subseteq Nodes(s)
           Bad == {h \in 0..Depth : ~ \A s \in Trees(V)[h] : Within(s)}
<1>1. ASSUME Bad # {} PROVE FALSE
  <2>1. PICK h \in Bad : \A j \in Bad : h <= j
    <3>1. Bad \subseteq Nat
      BY <1>0
    <3> HIDE DEF Bad
    <3> QED BY <1>1, <3>1, LeastExists, Zenon
  <2>2. h \in 0..Depth /\ h \in Nat /\ Depth \in h..Depth
    BY <1>0, <2>1
  <2>3. PICK s \in Trees(V)[h] : ~ Within(s)
    BY <2>1
  <2>4. s # Nil
    BY FitsNil, <2>3
  <2>5. h - 1 \in 0..Depth /\ s.left \in Trees(V)[h - 1] /\ s.right \in Trees(V)[h - 1]
    BY <2>2, <2>3, <2>4, TreeCases
  <2>6. s \in Trees(V)[Depth]
    BY <2>2, <2>3, TreesNest
  <2>7. Nodes(s) = {s} \cup Nodes(s.left) \cup Nodes(s.right)
    BY <2>4, <2>6, NodesAre
  <2>8. h - 1 \notin Bad
    <3>1. ~ (h <= h - 1)
      BY <2>2
    <3> HIDE DEF Bad
    <3> QED BY <2>1, <3>1
  <2>9. Within(s.left) /\ Within(s.right)
    BY <2>5, <2>8
  <2> QED BY <2>3, <2>7, <2>9
<1>2. Within(t)
  BY <1>0, <1>1
<1> QED BY <1>2, NodesAre

PathUpto(t, k) ==
    LET upto[h \in 0..Depth] ==
            IF h = 0 THEN IF t = Nil THEN <<>> ELSE <<t>>
            ELSE Onward(upto[h - 1], k)
    IN  upto

LEMMA PathUptoIs ==
    ASSUME NEW t, NEW k
    PROVE  /\ PathUpto(t, k)[0] = IF t = Nil THEN <<>> ELSE <<t>>
           /\ \A h \in 1..Depth : PathUpto(t, k)[h] = Onward(PathUpto(t, k)[h - 1], k)
           /\ Path(t, k) = PathUpto(t, k)[Depth]
<1>0. Depth \in Nat
  BY Constants
<1> DEFINE base == IF t = Nil THEN <<>> ELSE <<t>>
           Step(h, x) == Onward(x, k)
<1> DEFINE Solves(f, m) == f = [h \in 0..m |-> IF h = 0 THEN base ELSE Step(h, f[h - 1])]
           Bad == {m \in 0..Depth : ~ \E f : Solves(f, m)}
<1>1. \E f : Solves(f, Depth)
  <2> HIDE DEF base, Step
  <2>1. ASSUME Bad # {} PROVE FALSE
    <3>1. PICK m \in Bad : \A j \in Bad : m <= j
      <4>1. Bad \subseteq Nat
        BY <1>0
      <4> HIDE DEF Bad
      <4> QED BY <2>1, <4>1, LeastExists, Zenon
    <3>2. m \in 0..Depth /\ ~ \E f : Solves(f, m)
      BY <3>1
    <3>3. m # 0
      <4>1. Solves([h \in 0..0 |-> base], 0)
        OBVIOUS
      <4> HIDE DEF Solves
      <4> QED BY <4>1, <3>2
    <3>4. PICK f : Solves(f, m - 1)
      <4>1. m - 1 \in 0..Depth /\ ~ (m <= m - 1)
        BY <1>0, <3>2, <3>3
      <4> HIDE DEF Solves
      <4> QED BY <4>1, <3>1
    <3> DEFINE g == [h \in 0..m |-> IF h = m THEN Step(m, f[m - 1]) ELSE f[h]]
    <3>5. ASSUME NEW h \in 0..m
          PROVE  g[h] = IF h = 0 THEN base ELSE Step(h, g[h - 1])
      <4>1. h # 0 => g[h - 1] = f[h - 1]
        BY <1>0, <3>2
      <4>2. h # m => h \in 0..(m - 1) /\ g[h] = f[h]
        BY <1>0, <3>2
      <4>3. h = m => g[h] = Step(m, f[m - 1])
        OBVIOUS
      <4> HIDE DEF g
      <4> QED BY <4>1, <4>2, <4>3, <3>3, <3>4
    <3>6. Solves(g, m)
      <4>1. g = [h \in 0..m |-> g[h]]
        OBVIOUS
      <4> HIDE DEF g
      <4> QED BY <4>1, <3>5
    <3> HIDE DEF g, Solves
    <3> QED BY <3>2, <3>6
  <2>2. Depth \in 0..Depth
    BY <1>0
  <2>3. Depth \notin Bad
    <3> HIDE DEF Bad
    <3> QED BY <2>1
  <2> HIDE DEF Solves
  <2> QED BY <2>2, <2>3
<1> DEFINE chosen == CHOOSE f : Solves(f, Depth)
<1>2. Solves(chosen, Depth)
  <2> HIDE DEF Solves
  <2> QED BY <1>1
<1> HIDE DEF chosen, base, Step
<1>3. chosen[0] = base
  BY <1>0, <1>2
<1>4. ASSUME NEW h \in 1..Depth PROVE chosen[h] = Step(h, chosen[h - 1])
  <2>1. h \in 0..Depth /\ h # 0
    BY <1>0
  <2> QED BY <1>2, <2>1
<1> USE DEF base, Step
<1>5. PathUpto(t, k) = chosen
  BY DEF PathUpto, chosen
<1>6. Path(t, k) = PathUpto(t, k)[Depth]
  BY DEF Path, PathUpto
<1> QED BY <1>3, <1>4, <1>5, <1>6

LEMMA ChildFacts ==
    ASSUME NEW V, NEW K, K \subseteq Keys, NEW n, Fits(n, K, V), n # Nil, NEW k \in K, k # n.key
    PROVE  /\ \E J : J \subseteq Keys /\ k \in J /\ Fits(Child(n, k), J, V)
           /\ Child(n, k) # Nil => Child(n, k) \in Nodes(n)
           /\ \A m \in Nodes(n) : m.key = k => m \in Nodes(Child(n, k))
           /\ \A h \in 0..Depth : n \in Trees(V)[h] => h \in 1..Depth /\ Child(n, k) \in Trees(V)[h - 1]
<1>0. Keys \subseteq Nat
  BY Constants
<1>1. /\ n.key \in K /\ Fits(n.left, Lower(K, n.key), V) /\ Fits(n.right, Upper(K, n.key), V)
      /\ Nodes(n) = {n} \cup Nodes(n.left) \cup Nodes(n.right)
  BY FitsParts
<1>2. k \in Nat /\ n.key \in Nat /\ K \subseteq Nat
  BY <1>0, <1>1
<1>3. Lower(K, n.key) \subseteq Keys /\ Upper(K, n.key) \subseteq Keys
  BY DEF Lower, Upper
<1>4. /\ \A m \in Nodes(n.left) : m.key \in Lower(K, n.key)
      /\ \A m \in Nodes(n.right) : m.key \in Upper(K, n.key)
  BY <1>1, <1>3, NodesDiffer
<1>5. /\ n.left # Nil => n.left \in Nodes(n.left)
      /\ n.right # Nil => n.right \in Nodes(n.right)
  BY <1>1, NodesWithin DEF Fits
<1>6. \A h \in 0..Depth : n \in Trees(V)[h] =>
         h \in 1..Depth /\ n.left \in Trees(V)[h - 1] /\ n.right \in Trees(V)[h - 1]
  BY TreeCases
<1>7. CASE k < n.key
  <2>1. Child(n, k) = n.left
    BY <1>7 DEF Child
  <2>2. k \in Lower(K, n.key)
    BY <1>7 DEF Lower
  <2>3. \A m \in Nodes(n) : m.key = k => m \in Nodes(n.left)
    <3>1. \A m \in Nodes(n.right) : n.key < m.key
      BY <1>4 DEF Upper
    <3>2. \A m \in Nodes(n.right) : m.key # k
      BY <1>2, <1>7, <3>1
    <3> QED BY <1>1, <3>2
  <2> QED BY <1>1, <1>3, <1>5, <1>6, <2>1, <2>2, <2>3
<1>8. CASE n.key < k
  <2>1. Child(n, k) = n.right
    BY <1>2, <1>8 DEF Child
  <2>2. k \in Upper(K, n.key)
    BY <1>8 DEF Upper
  <2>3. \A m \in Nodes(n) : m.key = k => m \in Nodes(n.right)
    <3>1. \A m \in Nodes(n.left) : m.key < n.key
      BY <1>4 DEF Lower
    <3>2. \A m \in Nodes(n.left) : m.key # k
      BY <1>2, <1>8, <3>1
    <3> QED BY <1>1, <3>2
  <2> QED BY <1>1, <1>3, <1>5, <1>6, <2>1, <2>2, <2>3
<1> QED BY <1>2, <1>7, <1>8

\* A walk of at most h + 1 nodes from the root of t towards k.
IsWalk(p, t, k) ==
    /\ p \in Seq(Nodes(t)) /\ p # <<>> /\ p[1] = t
    /\ \A i \in 1..(Len(p) - 1) : p[i].key # k /\ p[i + 1] = Child(p[i], k)
    /\ \A m \in Nodes(t) : m.key = k => m \in Nodes(p[Len(p)])

Ended(n, k) == n.key = k \/ Child(n, k) = Nil

LEMMA WalkOn ==
    ASSUME NEW V, NEW t, Fits(t, Keys, V), NEW k \in Keys, NEW p, IsWalk(p, t, k)
    PROVE  /\ IsWalk(Onward(p, k), t, k)
           /\ Ended(Last(p), k) => Onward(p, k) = p
           /\ ~ Ended(Last(p), k) => /\ Last(Onward(p, k)) = Child(Last(p), k)
                                     /\ \A h \in 0..Depth : Last(p) \in Trees(V)[h] =>
                                           /\ h \in 1..Depth
                                           /\ Last(Onward(p, k)) \in Trees(V)[h - 1]
<1> DEFINE n == p[Len(p)]
<1>1. /\ p \in Seq(Nodes(t)) /\ p # <<>> /\ p[1] = t /\ Len(p) \in Nat \ {0} /\ n \in Nodes(t)
      /\ Last(p) = n
  BY DEF IsWalk, Last
<1>2. Fits(n, Keys, V) /\ n # Nil
  BY <1>1, NodesDiffer
<1>3. CASE Ended(n, k)
  <2>1. Onward(p, k) = p
    BY <1>1, <1>3 DEF Onward, Ended
  <2> QED BY <1>1, <1>3, <2>1
<1>4. CASE ~ Ended(n, k)
  <2> DEFINE c == Child(n, k)
             q == Append(p, c)
  <2>1. n.key # k /\ c # Nil
    BY <1>4 DEF Ended
  <2>2. Onward(p, k) = q
    BY <1>1, <2>1 DEF Onward
  <2>3. /\ c \in Nodes(n)
        /\ \A m \in Nodes(n) : m.key = k => m \in Nodes(c)
        /\ \A h \in 0..Depth : n \in Trees(V)[h] => h \in 1..Depth /\ c \in Trees(V)[h - 1]
    BY <1>2, <2>1, ChildFacts
  <2>4. c \in Nodes(t)
    <3>1. t \in Trees(V)[Depth]
      BY DEF Fits
    <3>2. Nodes(n) \subseteq Nodes(t)
      BY <1>1, <3>1, NodesWithin
    <3> QED BY <2>3, <3>2
  <2> HIDE DEF c
  <2>5. /\ q \in Seq(Nodes(t)) /\ q # <<>> /\ Len(q) = Len(p) + 1 /\ q[Len(q)] = c
        /\ \A i \in 1..Len(p) : q[i] = p[i]
    BY <1>1, <2>4
  <2>6. IsWalk(q, t, k)
    <3>1. q[1] = t
      BY <1>1, <2>5
    <3>2. ASSUME NEW i \in 1..(Len(q) - 1) PROVE q[i].key # k /\ q[i + 1] = Child(q[i], k)
      <4>1. i \in 1..Len(p) /\ q[i] = p[i]
        BY <1>1, <2>5
      <4>2. CASE i = Len(p)
        BY <1>1, <2>1, <2>5, <4>1, <4>2 DEF c
      <4>3. CASE i # Len(p)
        <5>1. i \in 1..(Len(p) - 1) /\ i + 1 \in 1..Len(p)
          BY <1>1, <4>1, <4>3
        <5> QED BY <2>5, <4>1, <5>1 DEF IsWalk
      <4> QED BY <4>2, <4>3
    <3>3. \A m \in Nodes(t) : m.key = k => m \in Nodes(q[Len(q)])
      BY <2>3, <2>5 DEF IsWalk
    <3> QED BY <2>5, <3>1, <3>2, <3>3 DEF IsWalk
  <2>7. Last(q) = c
    BY <2>5 DEF Last
  <2> QED BY <1>1, <1>4, <2>2, <2>3, <2>6, <2>7 DEF c
<1> QED BY <1>3, <1>4

\* A lookup in a search tree reads a walk that ends where k is or would be.
LEMMA PathIs ==
    ASSUME NEW V, NEW t, Fits(t, Keys, V), NEW k \in Keys
    PROVE  /\ t = Nil => Path(t, k) = <<>>
           /\ t # Nil => IsWalk(Path(t, k), t, k) /\ Ended(Last(Path(t, k)), k)
<1>0. Depth \in Nat
  BY Constants
<1> DEFINE Way(h) ==
        /\ t = Nil => PathUpto(t, k)[h] = <<>>
        /\ t # Nil => /\ IsWalk(PathUpto(t, k)[h], t, k)
                      /\ \/ Ended(Last(PathUpto(t, k)[h]), k)
                         \/ Last(PathUpto(t, k)[h]) \in Trees(V)[Depth - h]
           Bad == {h \in 0..Depth : ~ Way(h)}
<1>1. ASSUME Bad # {} PROVE FALSE
  <2>1. PICK h \in Bad : \A j \in Bad : h <= j
    <3>1. Bad \subseteq Nat
      BY <1>0
    <3> HIDE DEF Bad
    <3> QED BY <1>1, <3>1, LeastExists, Zenon
  <2>2. h \in 0..Depth /\ ~ Way(h)
    BY <2>1
  <2>3. h # 0
    <3>1. Way(0)
      <4>1. t = Nil => PathUpto(t, k)[0] = <<>>
        BY PathUptoIs
      <4>2. ASSUME t # Nil
            PROVE  IsWalk(PathUpto(t, k)[0], t, k) /\ Last(PathUpto(t, k)[0]) \in Trees(V)[Depth - 0]
        <5>1. PathUpto(t, k)[0] = <<t>>
          BY <4>2, PathUptoIs
        <5>2. t \in Trees(V)[Depth] /\ Depth - 0 = Depth
          BY <1>0 DEF Fits
        <5>3. t \in Nodes(t)
          BY <4>2, <5>2, NodesWithin
        <5>4. IsWalk(<<t>>, t, k)
          BY <5>3 DEF IsWalk
        <5> QED BY <5>1, <5>2, <5>4 DEF Last
      <4> QED BY <4>1, <4>2
    <3> HIDE DEF Way
    <3> QED BY <2>2, <3>1
  <2>4. h \in 1..Depth /\ h - 1 \in 0..Depth /\ ~ (h <= h - 1) /\ Depth - (h - 1) \in 1..Depth
    BY <1>0, <2>2, <2>3
  <2> DEFINE p == PathUpto(t, k)[h - 1]
  <2>5. PathUpto(t, k)[h] = Onward(p, k)
    BY <2>4, PathUptoIs
  <2>6. Way(h - 1)
    <3> HIDE DEF Way
    <3> QED BY <2>1, <2>4
  <2>7. CASE t = Nil
    <3>1. p = <<>>
      BY <2>6, <2>7
    <3>2. Onward(p, k) = <<>>
      BY <3>1 DEF Onward
    <3> QED BY <2>2, <2>5, <2>7, <3>2
  <2>8. CASE t # Nil
    <3>1. IsWalk(p, t, k) /\ (Ended(Last(p), k) \/ Last(p) \in Trees(V)[Depth - (h - 1)])
      BY <2>6, <2>8
    <3> HIDE DEF p
    <3>2. /\ IsWalk(Onward(p, k), t, k)
          /\ Ended(Last(p), k) => Onward(p, k) = p
          /\ ~ Ended(Last(p), k) => \A i \in 0..Depth : Last(p) \in Trees(V)[i] =>
                                       Last(Onward(p, k)) \in Trees(V)[i - 1]
      BY <3>1, WalkOn
    <3>3. PICK i \in 0..Depth : i = Depth - (h - 1) /\ i - 1 = Depth - h
      BY <1>0, <2>4
    <3>4. Way(h)
      BY <2>5, <2>8, <3>1, <3>2, <3>3
    <3> QED BY <2>2, <3>4
  <2> QED BY <2>7, <2>8
<1>2. Way(Depth)
  BY <1>0, <1>1
<1>3. ASSUME t # Nil PROVE Ended(Last(Path(t, k)), k)
  <2> DEFINE p == PathUpto(t, k)[Depth]
  <2>1. p \in Seq(Nodes(t)) /\ p # <<>>
    BY <1>2, <1>3 DEF IsWalk
  <2>2. Last(p) \in Nodes(t)
    BY <2>1 DEF Last
  <2>3. Last(p) # Nil
    BY <2>2, NodesDiffer
  <2>4. Trees(V)[Depth - Depth] = {Nil}
    <3>1. Depth - Depth = 0
      BY <1>0
    <3> QED BY <3>1, TreesAre
  <2> QED BY <1>2, <1>3, <2>3, <2>4, PathUptoIs
<1> QED BY <1>2, <1>3, PathUptoIs

\* So it finds what is there and nothing else.
LEMMA LookupIs ==
    ASSUME NEW V, NEW t, Fits(t, Keys, V), NEW k \in Keys, NEW absent
    PROVE  /\ \A v : <<k, v>> \in Entries(t) => Lookup(t, k, absent) = v
           /\ k \notin KeysIn(t) => Lookup(t, k, absent) = absent
           /\ k \in KeysIn(t) => <<k, Lookup(t, k, absent)>> \in Entries(t)
           /\ (Path(t, k) # <<>> /\ Last(Path(t, k)).key = k) <=> k \in KeysIn(t)
<1> DEFINE p == Path(t, k)
<1>1. CASE t = Nil
  <2>1. p = <<>> /\ Entries(t) = {} /\ KeysIn(t) = {}
    BY <1>1, PathIs, FitsNil
  <2> QED BY <2>1 DEF Lookup
<1>2. CASE t # Nil
  <2>1. /\ p \in Seq(Nodes(t)) /\ p # <<>> /\ Ended(Last(p), k)
        /\ \A m \in Nodes(t) : m.key = k => m \in Nodes(Last(p))
        /\ Last(p) \in Nodes(t)
    BY <1>2, PathIs DEF IsWalk, Last
  <2> DEFINE n == Last(p)
  <2>2. Fits(n, Keys, V) /\ n # Nil
    BY <2>1, NodesDiffer
  <2> HIDE DEF p
  <2>3. CASE n.key = k
    <3>1. \A m \in Nodes(t) : m.key = k => m = n
      BY <2>1, <2>3, NodesDiffer
    <3>2. Lookup(t, k, absent) = n.val
      BY <2>1, <2>3 DEF Lookup, p
    <3> QED BY <2>1, <2>3, <3>1, <3>2 DEF Entries, KeysIn, p
  <2>4. CASE n.key # k
    <3>1. Child(n, k) = Nil
      BY <2>1, <2>4 DEF Ended
    <3>2. \A m \in Nodes(n) : m.key = k => m \in Nodes(Child(n, k))
      BY <2>2, <2>4, ChildFacts
    <3>3. \A m \in Nodes(t) : m.key # k
      BY <2>1, <3>1, <3>2, FitsNil
    <3>4. Lookup(t, k, absent) = absent
      BY <2>4 DEF Lookup, p
    <3> QED BY <2>4, <3>3, <3>4 DEF Entries, KeysIn, p
  <2> QED BY <2>3, <2>4
<1> QED BY <1>1, <1>2

-----------------------------------------------------------------------------
(* Updating a key.                                                         *)

Ordered(K, j, k) == K \subseteq Keys /\ j \in K /\ k \in K /\ j < k

LEMMA PartsOfParts ==
    ASSUME NEW K, NEW j, NEW k, Ordered(K, j, k)
    PROVE  /\ Lower(Upper(K, j), k) = Upper(Lower(K, k), j)
           /\ Upper(Upper(K, j), k) = Upper(K, k)
           /\ Lower(Lower(K, k), j) = Lower(K, j)
           /\ k \in Upper(K, j) /\ j \in Lower(K, k)
           /\ Upper(K, j) \subseteq Keys /\ Lower(K, k) \subseteq Keys
<1>1. K \subseteq Nat /\ K \subseteq Keys /\ j \in K /\ k \in K /\ j < k
  BY Constants DEF Ordered
<1>2. \A i \in K : i \in Nat /\ (k < i => j < i) /\ (i < j => i < k)
  BY <1>1
<1> QED BY <1>1, <1>2 DEF Lower, Upper

LEMMA RotateRightIs ==
    ASSUME NEW V, NEW K, K \subseteq Keys, NEW n, Fits(n, K, V), n # Nil, n.left # Nil
    PROVE  Fits(RotateRight(n), K, V) /\ Entries(RotateRight(n)) = Entries(n)
<1> DEFINE x == n.left
           inner == Node(n.key, n.val, x.right, n.right)
<1>0. Keys \subseteq Nat
  BY Constants
<1>1. /\ n.key \in K /\ n.val \in V
      /\ Fits(x, Lower(K, n.key), V) /\ Fits(n.right, Upper(K, n.key), V)
      /\ Entries(n) = Joint(n.key, n.val, Entries(x), Entries(n.right))
  BY FitsParts
<1>2. /\ x.key \in Lower(K, n.key) /\ x.val \in V
      /\ Fits(x.left, Lower(Lower(K, n.key), x.key), V)
      /\ Fits(x.right, Upper(Lower(K, n.key), x.key), V)
      /\ Entries(x) = Joint(x.key, x.val, Entries(x.left), Entries(x.right))
  BY <1>1, FitsParts
<1> HIDE DEF x
<1>3. x.key \in K /\ x.key < n.key /\ x.key \in Nat /\ n.key \in Nat /\ K \subseteq Nat
  BY <1>0, <1>1, <1>2 DEF Lower
<1>4. /\ Lower(Upper(K, x.key), n.key) = Upper(Lower(K, n.key), x.key)
      /\ Upper(Upper(K, x.key), n.key) = Upper(K, n.key)
      /\ Lower(Lower(K, n.key), x.key) = Lower(K, x.key)
      /\ n.key \in Upper(K, x.key) /\ Upper(K, x.key) \subseteq Keys
  <2>1. Ordered(K, x.key, n.key)
    BY <1>1, <1>3 DEF Ordered
  <2> QED BY <2>1, PartsOfParts
<1>5. /\ Fits(inner, Upper(K, x.key), V)
      /\ Entries(inner) = Joint(n.key, n.val, Entries(x.right), Entries(n.right))
  <2>1. Joins(n.key, n.val, x.right, n.right, Upper(K, x.key), V)
    BY <1>1, <1>2, <1>4 DEF Joins
  <2> QED BY <1>1, <1>4, <2>1, FitsMade
<1> HIDE DEF inner
<1>6. /\ Fits(Node(x.key, x.val, x.left, inner), K, V)
      /\ Entries(Node(x.key, x.val, x.left, inner)) =
             Joint(x.key, x.val, Entries(x.left), Entries(inner))
  <2>1. Joins(x.key, x.val, x.left, inner, K, V)
    BY <1>2, <1>3, <1>4, <1>5 DEF Joins
  <2> QED BY <1>2, <1>3, <1>5, <2>1, FitsMade
<1>7. RotateRight(n) = Node(x.key, x.val, x.left, inner)
  BY DEF RotateRight, x, inner
<1> QED BY <1>1, <1>2, <1>5, <1>6, <1>7 DEF Joint

LEMMA RotateLeftIs ==
    ASSUME NEW V, NEW K, K \subseteq Keys, NEW n, Fits(n, K, V), n # Nil, n.right # Nil
    PROVE  Fits(RotateLeft(n), K, V) /\ Entries(RotateLeft(n)) = Entries(n)
<1> DEFINE x == n.right
           inner == Node(n.key, n.val, n.left, x.left)
<1>0. Keys \subseteq Nat
  BY Constants
<1>1. /\ n.key \in K /\ n.val \in V
      /\ Fits(n.left, Lower(K, n.key), V) /\ Fits(x, Upper(K, n.key), V)
      /\ Entries(n) = Joint(n.key, n.val, Entries(n.left), Entries(x))
  BY FitsParts
<1>2. /\ x.key \in Upper(K, n.key) /\ x.val \in V
      /\ Fits(x.left, Lower(Upper(K, n.key), x.key), V)
      /\ Fits(x.right, Upper(Upper(K, n.key), x.key), V)
      /\ Entries(x) = Joint(x.key, x.val, Entries(x.left), Entries(x.right))
  BY <1>1, FitsParts
<1> HIDE DEF x
<1>3. x.key \in K /\ n.key < x.key /\ x.key \in Nat /\ n.key \in Nat /\ K \subseteq Nat
  BY <1>0, <1>1, <1>2 DEF Upper
<1>4. /\ Upper(Lower(K, x.key), n.key) = Lower(Upper(K, n.key), x.key)
      /\ Lower(Lower(K, x.key), n.key) = Lower(K, n.key)
      /\ Upper(Upper(K, n.key), x.key) = Upper(K, x.key)
      /\ n.key \in Lower(K, x.key) /\ Lower(K, x.key) \subseteq Keys
  <2>1. Ordered(K, n.key, x.key)
    BY <1>1, <1>3 DEF Ordered
  <2> QED BY <2>1, PartsOfParts
<1>5. /\ Fits(inner, Lower(K, x.key), V)
      /\ Entries(inner) = Joint(n.key, n.val, Entries(n.left), Entries(x.left))
  <2>1. Joins(n.key, n.val, n.left, x.left, Lower(K, x.key), V)
    BY <1>1, <1>2, <1>4 DEF Joins
  <2> QED BY <1>1, <1>4, <2>1, FitsMade
<1> HIDE DEF inner
<1>6. /\ Fits(Node(x.key, x.val, inner, x.right), K, V)
      /\ Entries(Node(x.key, x.val, inner, x.right)) =
             Joint(x.key, x.val, Entries(inner), Entries(x.right))
  <2>1. Joins(x.key, x.val, inner, x.right, K, V)
    BY <1>2, <1>3, <1>4, <1>5 DEF Joins
  <2> QED BY <1>2, <1>3, <1>5, <2>1, FitsMade
<1>7. RotateLeft(n) = Node(x.key, x.val, inner, x.right)
  BY DEF RotateLeft, x, inner
<1> QED BY <1>1, <1>2, <1>5, <1>6, <1>7 DEF Joint

Without(E, k) == {e \in E : e[1] # k}
With(E, k, v) == Without(E, k) \cup {<<k, v>>}

LEMMA UpdatedIs ==
    ASSUME NEW V, NEW K, K \subseteq Keys, NEW n, Fits(n, K, V), n # Nil,
           NEW k \in K, NEW v \in V, NEW c,
           \A J : J \subseteq Keys /\ k \in J /\ Fits(Child(n, k), J, V) /\ k # n.key =>
                      Fits(c, J, V) /\ Entries(c) = With(Entries(Child(n, k)), k, v)
    PROVE  /\ Fits(Updated(n, k, v, c), K, V)
           /\ Entries(Updated(n, k, v, c)) = With(Entries(n), k, v)
<1>0. Keys \subseteq Nat
  BY Constants
<1>1. /\ n.key \in K /\ n.val \in V
      /\ Fits(n.left, Lower(K, n.key), V) /\ Fits(n.right, Upper(K, n.key), V)
      /\ Entries(n) = Joint(n.key, n.val, Entries(n.left), Entries(n.right))
  BY FitsParts
<1>2. /\ k \in Nat /\ n.key \in Nat /\ K \subseteq Nat
      /\ Lower(K, n.key) \subseteq Keys /\ Upper(K, n.key) \subseteq Keys
  BY <1>0, <1>1 DEF Lower, Upper
<1>3. /\ \A e \in Entries(n.left) : e[1] \in K /\ e[1] < n.key
      /\ \A e \in Entries(n.right) : e[1] \in K /\ n.key < e[1]
  <2>1. /\ \A e \in Entries(n.left) : e[1] \in Lower(K, n.key)
        /\ \A e \in Entries(n.right) : e[1] \in Upper(K, n.key)
    BY <1>1, KeysOfEntries DEF Fits
  <2> QED BY <2>1 DEF Lower, Upper
<1>4. CASE k = n.key
  <2>1. Updated(n, k, v, c) = Node(n.key, v, n.left, n.right)
    BY <1>4 DEF Updated
  <2>2. /\ Fits(Node(n.key, v, n.left, n.right), K, V)
        /\ Entries(Node(n.key, v, n.left, n.right)) =
               Joint(n.key, v, Entries(n.left), Entries(n.right))
    <3>1. Joins(n.key, v, n.left, n.right, K, V)
      BY <1>1 DEF Joins
    <3> QED BY <1>1, <3>1, FitsMade
  <2>3. (\A e \in Entries(n.left) : e[1] # k) /\ (\A e \in Entries(n.right) : e[1] # k)
    BY <1>2, <1>3, <1>4
  <2>4. Without(Entries(n), k) = Entries(n.left) \cup Entries(n.right)
    BY <1>1, <1>4, <2>3 DEF Without, Joint
  <2> QED BY <1>4, <2>1, <2>2, <2>4 DEF With, Joint
<1>5. CASE k < n.key
  <2>1. k \in Lower(K, n.key) /\ k # n.key /\ Child(n, k) = n.left
    BY <1>2, <1>5 DEF Lower, Child
  <2>2. Fits(c, Lower(K, n.key), V) /\ Entries(c) = With(Entries(n.left), k, v)
    BY <1>1, <1>2, <2>1
  <2> DEFINE m == Node(n.key, n.val, c, n.right)
  <2>3. /\ Fits(m, K, V) /\ m # Nil /\ m.left = c
        /\ Entries(m) = Joint(n.key, n.val, Entries(c), Entries(n.right))
    <3>1. Joins(n.key, n.val, c, n.right, K, V)
      BY <1>1, <2>2 DEF Joins
    <3> QED BY <1>1, <3>1, FitsMade, NodeIs
  <2>4. c # Nil
    BY <2>2, FitsNil DEF With
  <2>5. Updated(n, k, v, c) = RaiseLeft(m)
    BY <1>2, <1>5, <2>1 DEF Updated
  <2> HIDE DEF m
  <2>6. Fits(RaiseLeft(m), K, V) /\ Entries(RaiseLeft(m)) = Entries(m)
    BY <2>3, <2>4, RotateRightIs DEF RaiseLeft
  <2>7. \A e \in Entries(n.right) : e[1] # k
    BY <1>2, <1>3, <1>5
  <2>8. Without(Entries(n), k) = {<<n.key, n.val>>} \cup Without(Entries(n.left), k) \cup Entries(n.right)
    BY <1>1, <2>1, <2>7 DEF Without, Joint
  <2> QED BY <2>2, <2>3, <2>5, <2>6, <2>8 DEF With, Joint
<1>6. CASE n.key < k
  <2>1. k \in Upper(K, n.key) /\ k # n.key /\ Child(n, k) = n.right
    BY <1>2, <1>6 DEF Upper, Child
  <2>2. Fits(c, Upper(K, n.key), V) /\ Entries(c) = With(Entries(n.right), k, v)
    BY <1>1, <1>2, <2>1
  <2> DEFINE m == Node(n.key, n.val, n.left, c)
  <2>3. /\ Fits(m, K, V) /\ m # Nil /\ m.right = c
        /\ Entries(m) = Joint(n.key, n.val, Entries(n.left), Entries(c))
    <3>1. Joins(n.key, n.val, n.left, c, K, V)
      BY <1>1, <2>2 DEF Joins
    <3> QED BY <1>1, <3>1, FitsMade, NodeIs
  <2>4. c # Nil
    BY <2>2, FitsNil DEF With
  <2>5. Updated(n, k, v, c) = RaiseRight(m)
    BY <1>2, <1>6, <2>1 DEF Updated
  <2> HIDE DEF m
  <2>6. Fits(RaiseRight(m), K, V) /\ Entries(RaiseRight(m)) = Entries(m)
    BY <2>3, <2>4, RotateLeftIs DEF RaiseRight
  <2>7. \A e \in Entries(n.left) : e[1] # k
    BY <1>2, <1>3, <1>6
  <2>8. Without(Entries(n), k) = {<<n.key, n.val>>} \cup Entries(n.left) \cup Without(Entries(n.right), k)
    BY <1>1, <2>1, <2>7 DEF Without, Joint
  <2> QED BY <2>2, <2>3, <2>5, <2>6, <2>8 DEF With, Joint
<1> QED BY <1>2, <1>4, <1>5, <1>6

\* k comes before every key of t.
Tops(k, t) == \A j \in KeysIn(t) : Above(k, j)
\* A parent comes before its children.
Heap(t) == \A n \in Nodes(t) : Tops(n.key, n.left) /\ Tops(n.key, n.right)

LEMMA AboveIs ==
    \A i, j, k \in Keys : /\ Above(i, j) /\ Above(j, k) => Above(i, k)
                          /\ i # j => Above(i, j) \/ Above(j, i)
                          /\ ~ (Above(i, j) /\ Above(j, i))
<1> SUFFICES ASSUME NEW i \in Keys, NEW j \in Keys, NEW k \in Keys
             PROVE  /\ Above(i, j) /\ Above(j, k) => Above(i, k)
                    /\ i # j => Above(i, j) \/ Above(j, i)
                    /\ ~ (Above(i, j) /\ Above(j, i))
  OBVIOUS
<1>1. /\ i \in Nat /\ j \in Nat /\ k \in Nat
      /\ Priority[i] \in Nat /\ Priority[j] \in Nat /\ Priority[k] \in Nat
  BY Constants
<1> QED BY <1>1 DEF Above

LEMMA HeapParts ==
    ASSUME NEW V, NEW t \in Trees(V)[Depth], t # Nil
    PROVE  Heap(t) <=> /\ Heap(t.left) /\ Heap(t.right)
                       /\ Tops(t.key, t.left) /\ Tops(t.key, t.right)
<1>1. Nodes(t) = {t} \cup Nodes(t.left) \cup Nodes(t.right)
  BY NodesAre
<1> QED BY <1>1 DEF Heap

LEMMA HeapNil == Heap(Nil) /\ \A k : Tops(k, Nil)
BY FitsNil DEF Heap, Tops

\* What tops the root of a heap tops the heap.
LEMMA TopsAll ==
    ASSUME NEW V, NEW K, K \subseteq Keys, NEW t, Fits(t, K, V), Heap(t), t # Nil,
           NEW k \in Keys, Above(k, t.key)
    PROVE  Tops(k, t)
<1>1. t \in Trees(V)[Depth] /\ KeysIn(t) \subseteq Keys /\ t.key \in Keys
  BY FitsParts DEF Fits
<1>2. KeysIn(t) = {t.key} \cup KeysIn(t.left) \cup KeysIn(t.right)
  BY FitsParts
<1>3. Tops(t.key, t.left) /\ Tops(t.key, t.right)
  BY <1>1, HeapParts
<1> QED BY <1>1, <1>2, <1>3, AboveIs DEF Tops

LEMMA RotateRightHeap ==
    ASSUME NEW V, NEW K, K \subseteq Keys, NEW n, Fits(n, K, V), n # Nil, n.left # Nil,
           Heap(n.left), Heap(n.right), Tops(n.key, n.left.right), Tops(n.key, n.right),
           Above(n.left.key, n.key)
    PROVE  Heap(RotateRight(n))
<1> DEFINE x == n.left
           inner == Node(n.key, n.val, x.right, n.right)
           y == RotateRight(n)
<1>1. Fits(y, K, V) /\ Fits(x, Lower(K, n.key), V) /\ Lower(K, n.key) \subseteq Keys
  BY RotateRightIs, FitsParts DEF Lower
<1>2. y # Nil /\ y.key = x.key /\ y.left = x.left /\ y.right = inner
  BY NodeIs DEF RotateRight
<1>3. inner # Nil /\ inner.key = n.key /\ inner.left = x.right /\ inner.right = n.right
  BY NodeIs
<1> HIDE DEF x, y, inner
<1>4. x # Nil /\ Heap(x) /\ Tops(n.key, x.right) /\ Above(x.key, n.key)
  BY DEF x
<1>5. Heap(x.left) /\ Heap(x.right) /\ Tops(x.key, x.left) /\ Tops(x.key, x.right)
  BY <1>1, <1>4, HeapParts DEF Fits
<1>6. x.key \in Keys /\ n.key \in Keys
  BY <1>1, <1>4, FitsParts
<1>7. Fits(inner, Upper(K, x.key), V) /\ Upper(K, x.key) \subseteq Keys
  BY <1>1, <1>2, FitsParts DEF Upper
<1>8. Heap(inner)
  BY <1>3, <1>4, <1>5, <1>7, HeapParts DEF Fits
<1>9. Tops(x.key, inner)
  BY <1>3, <1>4, <1>6, <1>7, <1>8, TopsAll
<1>10. Heap(y)
  BY <1>1, <1>2, <1>5, <1>8, <1>9, HeapParts DEF Fits
<1> QED BY <1>10 DEF y

LEMMA RotateLeftHeap ==
    ASSUME NEW V, NEW K, K \subseteq Keys, NEW n, Fits(n, K, V), n # Nil, n.right # Nil,
           Heap(n.left), Heap(n.right), Tops(n.key, n.right.left), Tops(n.key, n.left),
           Above(n.right.key, n.key)
    PROVE  Heap(RotateLeft(n))
<1> DEFINE x == n.right
           inner == Node(n.key, n.val, n.left, x.left)
           y == RotateLeft(n)
<1>1. Fits(y, K, V) /\ Fits(x, Upper(K, n.key), V) /\ Upper(K, n.key) \subseteq Keys
  BY RotateLeftIs, FitsParts DEF Upper
<1>2. y # Nil /\ y.key = x.key /\ y.left = inner /\ y.right = x.right
  BY NodeIs DEF RotateLeft
<1>3. inner # Nil /\ inner.key = n.key /\ inner.left = n.left /\ inner.right = x.left
  BY NodeIs
<1> HIDE DEF x, y, inner
<1>4. x # Nil /\ Heap(x) /\ Tops(n.key, x.left) /\ Above(x.key, n.key)
  BY DEF x
<1>5. Heap(x.left) /\ Heap(x.right) /\ Tops(x.key, x.left) /\ Tops(x.key, x.right)
  BY <1>1, <1>4, HeapParts DEF Fits
<1>6. x.key \in Keys /\ n.key \in Keys
  BY <1>1, <1>4, FitsParts
<1>7. Fits(inner, Lower(K, x.key), V) /\ Lower(K, x.key) \subseteq Keys
  BY <1>1, <1>2, FitsParts DEF Lower
<1>8. Heap(inner)
  BY <1>3, <1>4, <1>5, <1>7, HeapParts DEF Fits
<1>9. Tops(x.key, inner)
  BY <1>3, <1>4, <1>6, <1>7, <1>8, TopsAll
<1>10. Heap(y)
  BY <1>1, <1>2, <1>5, <1>8, <1>9, HeapParts DEF Fits
<1> QED BY <1>10 DEF y

\* A heap whose root may come before its parent, and nothing else of it.
Sinks(c, k, n) == \A j \in KeysIn(c) : j # k => Above(n, j)

LEMMA RaiseLeftHeap ==
    ASSUME NEW V, NEW K, K \subseteq Keys, NEW m, Fits(m, K, V), m # Nil, m.left # Nil,
           Heap(m.left), Heap(m.right), Tops(m.key, m.right), NEW k, Sinks(m.left, k, m.key)
    PROVE  Heap(RaiseLeft(m))
<1> DEFINE c == m.left
<1>1. /\ Fits(c, Lower(K, m.key), V) /\ Lower(K, m.key) \subseteq Keys /\ m.key \in Keys
      /\ m \in Trees(V)[Depth] /\ Keys \subseteq Nat
  BY FitsParts, Constants DEF Lower, Fits
<1> HIDE DEF c
<1>2. /\ c # Nil /\ Heap(c) /\ Sinks(c, k, m.key) /\ c.key \in Lower(K, m.key)
      /\ KeysIn(c) = {c.key} \cup KeysIn(c.left) \cup KeysIn(c.right)
      /\ Fits(c.right, Upper(Lower(K, m.key), c.key), V)
  BY <1>1, FitsParts DEF c
<1>3. c.key \in Keys /\ c.key # m.key
  <2>1. c.key \in Keys /\ c.key \in Nat /\ m.key \in Nat
    BY <1>1, <1>2
  <2>2. c.key < m.key
    BY <1>2 DEF Lower
  <2> QED BY <2>1, <2>2
<1>4. CASE Above(c.key, m.key)
  <2>1. c.key = k
    BY <1>1, <1>2, <1>3, <1>4, AboveIs DEF Sinks
  <2>2. \A j \in KeysIn(c.right) : j \in Upper(Lower(K, m.key), c.key)
    BY <1>2 DEF Fits
  <2>3. \A j \in KeysIn(c.right) : j # k
    BY <1>1, <2>1, <2>2 DEF Upper, Lower
  <2>4. Tops(m.key, c.right)
    BY <1>2, <2>3 DEF Sinks, Tops
  <2>5. Heap(RotateRight(m))
    BY <1>4, <2>4, RotateRightHeap DEF c
  <2> QED BY <1>4, <2>5 DEF RaiseLeft, c
<1>5. CASE ~ Above(c.key, m.key)
  <2>1. Above(m.key, c.key)
    BY <1>1, <1>3, <1>5, AboveIs
  <2>2. Tops(m.key, c)
    BY <1>1, <1>2, <2>1, TopsAll
  <2>3. Heap(m)
    BY <1>1, <2>2, HeapParts DEF c
  <2> QED BY <1>5, <2>3 DEF RaiseLeft, c
<1> QED BY <1>4, <1>5

LEMMA RaiseRightHeap ==
    ASSUME NEW V, NEW K, K \subseteq Keys, NEW m, Fits(m, K, V), m # Nil, m.right # Nil,
           Heap(m.left), Heap(m.right), Tops(m.key, m.left), NEW k, Sinks(m.right, k, m.key)
    PROVE  Heap(RaiseRight(m))
<1> DEFINE c == m.right
<1>1. /\ Fits(c, Upper(K, m.key), V) /\ Upper(K, m.key) \subseteq Keys /\ m.key \in Keys
      /\ m \in Trees(V)[Depth] /\ Keys \subseteq Nat
  BY FitsParts, Constants DEF Upper, Fits
<1> HIDE DEF c
<1>2. /\ c # Nil /\ Heap(c) /\ Sinks(c, k, m.key) /\ c.key \in Upper(K, m.key)
      /\ KeysIn(c) = {c.key} \cup KeysIn(c.left) \cup KeysIn(c.right)
      /\ Fits(c.left, Lower(Upper(K, m.key), c.key), V)
  BY <1>1, FitsParts DEF c
<1>3. c.key \in Keys /\ c.key # m.key
  <2>1. c.key \in Keys /\ c.key \in Nat /\ m.key \in Nat
    BY <1>1, <1>2
  <2>2. m.key < c.key
    BY <1>2 DEF Upper
  <2> QED BY <2>1, <2>2
<1>4. CASE Above(c.key, m.key)
  <2>1. c.key = k
    BY <1>1, <1>2, <1>3, <1>4, AboveIs DEF Sinks
  <2>2. \A j \in KeysIn(c.left) : j \in Lower(Upper(K, m.key), c.key)
    BY <1>2 DEF Fits
  <2>3. \A j \in KeysIn(c.left) : j # k
    BY <1>1, <2>1, <2>2 DEF Upper, Lower
  <2>4. Tops(m.key, c.left)
    BY <1>2, <2>3 DEF Sinks, Tops
  <2>5. Heap(RotateLeft(m))
    BY <1>4, <2>4, RotateLeftHeap DEF c
  <2> QED BY <1>4, <2>5 DEF RaiseRight, c
<1>5. CASE ~ Above(c.key, m.key)
  <2>1. Above(m.key, c.key)
    BY <1>1, <1>3, <1>5, AboveIs
  <2>2. Tops(m.key, c)
    BY <1>1, <1>2, <2>1, TopsAll
  <2>3. Heap(m)
    BY <1>1, <2>2, HeapParts DEF c
  <2> QED BY <1>5, <2>3 DEF RaiseRight, c
<1> QED BY <1>4, <1>5

\* Only the key that is updated may have to rise.
LEMMA UpdatedHeap ==
    ASSUME NEW V, NEW K, K \subseteq Keys, NEW n, Fits(n, K, V), n # Nil, Heap(n),
           NEW k \in K, NEW v \in V, NEW c,
           \A J : J \subseteq Keys /\ k \in J /\ Fits(Child(n, k), J, V) /\ k # n.key =>
                      Fits(c, J, V) /\ Entries(c) = With(Entries(Child(n, k)), k, v),
           Heap(Child(n, k)) /\ k # n.key => Heap(c)
    PROVE  Heap(Updated(n, k, v, c))
<1>1. /\ n.key \in K /\ n.val \in V /\ K \subseteq Nat
      /\ Fits(n.left, Lower(K, n.key), V) /\ Fits(n.right, Upper(K, n.key), V)
      /\ Lower(K, n.key) \subseteq Keys /\ Upper(K, n.key) \subseteq Keys
  <2>1. /\ n.key \in K /\ n.val \in V
        /\ Fits(n.left, Lower(K, n.key), V) /\ Fits(n.right, Upper(K, n.key), V)
    BY FitsParts
  <2>2. K \subseteq Nat
    BY Constants
  <2>3. Lower(K, n.key) \subseteq Keys /\ Upper(K, n.key) \subseteq Keys
    BY DEF Lower, Upper
  <2> QED BY <2>1, <2>2, <2>3
<1>2. /\ Heap(n.left) /\ Heap(n.right) /\ Tops(n.key, n.left) /\ Tops(n.key, n.right)
  BY HeapParts DEF Fits
<1>3. CASE k = n.key
  <2> DEFINE m == Node(n.key, v, n.left, n.right)
  <2>1. Joins(n.key, v, n.left, n.right, K, V)
    BY <1>1 DEF Joins
  <2>2. Fits(m, K, V) /\ m # Nil /\ m.key = n.key /\ m.left = n.left /\ m.right = n.right
    BY <2>1, FitsMade, NodeIs
  <2>3. Updated(n, k, v, c) = m
    BY <1>3 DEF Updated
  <2> HIDE DEF m
  <2> QED BY <1>2, <2>2, <2>3, HeapParts DEF Fits
<1>4. CASE k < n.key
  <2>1. k \in Lower(K, n.key) /\ k # n.key /\ Child(n, k) = n.left
    BY <1>1, <1>4 DEF Lower, Child
  <2>2. Fits(c, Lower(K, n.key), V) /\ Entries(c) = With(Entries(n.left), k, v) /\ Heap(c)
    BY <1>1, <1>2, <2>1
  <2> DEFINE m == Node(n.key, n.val, c, n.right)
  <2>3. Joins(n.key, n.val, c, n.right, K, V)
    BY <1>1, <2>2 DEF Joins
  <2>4. Fits(m, K, V) /\ m # Nil /\ m.key = n.key /\ m.left = c /\ m.right = n.right
    BY <2>3, FitsMade, NodeIs
  <2>5. Updated(n, k, v, c) = RaiseLeft(m)
    BY <1>1, <1>4, <2>1 DEF Updated
  <2> HIDE DEF m
  <2>6. c # Nil
    BY <2>2, FitsNil DEF With
  <2>7. Sinks(c, k, n.key)
    <3> SUFFICES ASSUME NEW j \in KeysIn(c), j # k PROVE Above(n.key, j)
      BY DEF Sinks
    <3>1. PICK w : <<j, w>> \in Entries(c)
      BY KeysOfEntries
    <3>2. <<j, w>> \in Entries(n.left)
      BY <2>2, <3>1 DEF With, Without
    <3>3. j \in KeysIn(n.left)
      BY <3>2, KeysOfEntries
    <3> QED BY <1>2, <3>3 DEF Tops
  <2> QED BY <1>2, <2>2, <2>4, <2>5, <2>6, <2>7, RaiseLeftHeap
<1>5. CASE n.key < k
  <2>1. k \in Upper(K, n.key) /\ k # n.key /\ Child(n, k) = n.right
    BY <1>1, <1>5 DEF Upper, Child
  <2>2. Fits(c, Upper(K, n.key), V) /\ Entries(c) = With(Entries(n.right), k, v) /\ Heap(c)
    BY <1>1, <1>2, <2>1
  <2> DEFINE m == Node(n.key, n.val, n.left, c)
  <2>3. Joins(n.key, n.val, n.left, c, K, V)
    BY <1>1, <2>2 DEF Joins
  <2>4. Fits(m, K, V) /\ m # Nil /\ m.key = n.key /\ m.left = n.left /\ m.right = c
    BY <2>3, FitsMade, NodeIs
  <2>5. Updated(n, k, v, c) = RaiseRight(m)
    BY <1>1, <1>5, <2>1 DEF Updated
  <2> HIDE DEF m
  <2>6. c # Nil
    BY <2>2, FitsNil DEF With
  <2>7. Sinks(c, k, n.key)
    <3> SUFFICES ASSUME NEW j \in KeysIn(c), j # k PROVE Above(n.key, j)
      BY DEF Sinks
    <3>1. PICK w : <<j, w>> \in Entries(c)
      BY KeysOfEntries
    <3>2. <<j, w>> \in Entries(n.right)
      BY <2>2, <3>1 DEF With, Without
    <3>3. j \in KeysIn(n.right)
      BY <3>2, KeysOfEntries
    <3> QED BY <1>2, <3>3 DEF Tops
  <2> QED BY <1>2, <2>2, <2>4, <2>5, <2>6, <2>7, RaiseRightHeap
<1>6. k = n.key \/ k < n.key \/ n.key < k
  <2>1. k \in Nat /\ n.key \in Nat
    BY <1>1
  <2> QED BY <2>1
<1> QED BY <1>3, <1>4, <1>5, <1>6

UpsertUpto(t, k, v) ==
    LET path == Path(t, k)
        up[i \in 0..Len(path)] ==
            IF i = 0 THEN Node(k, v, Nil, Nil)
            ELSE Updated(path[Len(path) + 1 - i], k, v, up[i - 1])
    IN  up

LEMMA UpsertUptoIs ==
    ASSUME NEW t, NEW k, NEW v, Len(Path(t, k)) \in Nat
    PROVE  /\ UpsertUpto(t, k, v)[0] = Node(k, v, Nil, Nil)
           /\ \A h \in 1..Len(Path(t, k)) :
                 UpsertUpto(t, k, v)[h] =
                     Updated(Path(t, k)[Len(Path(t, k)) + 1 - h], k, v, UpsertUpto(t, k, v)[h - 1])
           /\ Upsert(t, k, v) = UpsertUpto(t, k, v)[Len(Path(t, k))]
<1> DEFINE N == Len(Path(t, k))
<1>0. N \in Nat
  OBVIOUS
<1> HIDE DEF N
<1> DEFINE base == Node(k, v, Nil, Nil)
           Step(h, x) == Updated(Path(t, k)[N + 1 - h], k, v, x)
<1> DEFINE Solves(f, m) == f = [h \in 0..m |-> IF h = 0 THEN base ELSE Step(h, f[h - 1])]
           Bad == {m \in 0..N : ~ \E f : Solves(f, m)}
<1>1. \E f : Solves(f, N)
  <2> HIDE DEF base, Step
  <2>1. ASSUME Bad # {} PROVE FALSE
    <3>1. PICK m \in Bad : \A j \in Bad : m <= j
      <4>1. Bad \subseteq Nat
        BY <1>0
      <4> HIDE DEF Bad
      <4> QED BY <2>1, <4>1, LeastExists, Zenon
    <3>2. m \in 0..N /\ ~ \E f : Solves(f, m)
      BY <3>1
    <3>3. m # 0
      <4>1. Solves([h \in 0..0 |-> base], 0)
        OBVIOUS
      <4> HIDE DEF Solves
      <4> QED BY <4>1, <3>2
    <3>4. PICK f : Solves(f, m - 1)
      <4>1. m - 1 \in 0..N /\ ~ (m <= m - 1)
        BY <1>0, <3>2, <3>3
      <4> HIDE DEF Solves
      <4> QED BY <4>1, <3>1
    <3> DEFINE g == [h \in 0..m |-> IF h = m THEN Step(m, f[m - 1]) ELSE f[h]]
    <3>5. ASSUME NEW h \in 0..m
          PROVE  g[h] = IF h = 0 THEN base ELSE Step(h, g[h - 1])
      <4>1. h # 0 => g[h - 1] = f[h - 1]
        BY <1>0, <3>2
      <4>2. h # m => h \in 0..(m - 1) /\ g[h] = f[h]
        BY <1>0, <3>2
      <4>3. h = m => g[h] = Step(m, f[m - 1])
        OBVIOUS
      <4> HIDE DEF g
      <4> QED BY <4>1, <4>2, <4>3, <3>3, <3>4
    <3>6. Solves(g, m)
      <4>1. g = [h \in 0..m |-> g[h]]
        OBVIOUS
      <4> HIDE DEF g
      <4> QED BY <4>1, <3>5
    <3> HIDE DEF g, Solves
    <3> QED BY <3>2, <3>6
  <2>2. N \in 0..N
    BY <1>0
  <2>3. N \notin Bad
    <3> HIDE DEF Bad
    <3> QED BY <2>1
  <2> HIDE DEF Solves
  <2> QED BY <2>2, <2>3
<1> DEFINE chosen == CHOOSE f : Solves(f, N)
<1>2. Solves(chosen, N)
  <2> HIDE DEF Solves
  <2> QED BY <1>1
<1> HIDE DEF chosen, base, Step
<1>3. chosen[0] = base
  BY <1>0, <1>2
<1>4. ASSUME NEW h \in 1..N PROVE chosen[h] = Step(h, chosen[h - 1])
  <2>1. h \in 0..N /\ h # 0
    BY <1>0
  <2> QED BY <1>2, <2>1
<1> USE DEF base, Step
<1>5. UpsertUpto(t, k, v) = chosen
  BY DEF UpsertUpto, chosen, N
<1>6. Upsert(t, k, v) = UpsertUpto(t, k, v)[N]
  BY DEF Upsert, UpsertUpto, N
<1> QED BY <1>3, <1>4, <1>5, <1>6 DEF N

\* What is below place i of a walk, counted from its end.
Rest(p, i) == IF i = 0 THEN Nil ELSE p[Len(p) + 1 - i]

LEMMA RestIs ==
    ASSUME NEW V, NEW t, Fits(t, Keys, V), NEW k \in Keys, NEW p,
           IF t = Nil THEN p = <<>> ELSE IsWalk(p, t, k) /\ Ended(Last(p), k)
    PROVE  /\ Len(p) \in Nat /\ Rest(p, Len(p)) = t
           /\ \A i \in 1..Len(p) : /\ Rest(p, i) \in Nodes(t)
                                   /\ Rest(p, i) = p[Len(p) + 1 - i]
                                   /\ Rest(p, i).key # k => Rest(p, i - 1) = Child(Rest(p, i), k)
<1>1. CASE t = Nil
  BY <1>1 DEF Rest
<1>2. CASE t # Nil
  <2>1. /\ p \in Seq(Nodes(t)) /\ p # <<>> /\ p[1] = t /\ Len(p) \in Nat \ {0}
        /\ \A i \in 1..(Len(p) - 1) : p[i + 1] = Child(p[i], k)
        /\ Ended(p[Len(p)], k)
    BY <1>2 DEF IsWalk, Last
  <2>2. Rest(p, Len(p)) = t
    BY <2>1 DEF Rest
  <2>3. ASSUME NEW i \in 1..Len(p)
        PROVE  /\ Rest(p, i) \in Nodes(t) /\ Rest(p, i) = p[Len(p) + 1 - i]
               /\ Rest(p, i).key # k => Rest(p, i - 1) = Child(Rest(p, i), k)
    <3>1. Rest(p, i) = p[Len(p) + 1 - i] /\ Len(p) + 1 - i \in 1..Len(p)
      BY <2>1 DEF Rest
    <3>2. Rest(p, i) \in Nodes(t)
      BY <2>1, <3>1
    <3>3. ASSUME Rest(p, i).key # k PROVE Rest(p, i - 1) = Child(Rest(p, i), k)
      <4>1. CASE i = 1
        <5>1. Len(p) + 1 - i = Len(p)
          BY <2>1, <4>1
        <5> QED BY <2>1, <3>1, <3>3, <4>1, <5>1 DEF Rest, Ended
      <4>2. CASE i # 1
        <5>1. /\ Len(p) + 1 - i \in 1..(Len(p) - 1) /\ i - 1 # 0
              /\ Len(p) + 1 - (i - 1) = Len(p) + 1 - i + 1
          BY <2>1, <4>2
        <5> QED BY <2>1, <3>1, <5>1 DEF Rest
      <4> QED BY <4>1, <4>2
    <3> QED BY <3>1, <3>2, <3>3
  <2> QED BY <2>1, <2>2, <2>3
<1> QED BY <1>1, <1>2

\* An upsert changes the value of its key and nothing else, and keeps a heap one.
LEMMA UpsertIs ==
    ASSUME NEW V, NEW D, D \subseteq Keys, NEW t, Fits(t, D, V), NEW k \in D, NEW v \in V
    PROVE  /\ Fits(Upsert(t, k, v), D, V)
           /\ Entries(Upsert(t, k, v)) = With(Entries(t), k, v)
           /\ Heap(t) => Heap(Upsert(t, k, v))
<1> DEFINE p == Path(t, k)
           L == Len(p)
           up == UpsertUpto(t, k, v)
<1>1. /\ Len(p) \in Nat /\ Rest(p, L) = t
      /\ \A i \in 1..L : /\ Rest(p, i) \in Nodes(t)
                         /\ Rest(p, i) = p[L + 1 - i]
                         /\ Rest(p, i).key # k => Rest(p, i - 1) = Child(Rest(p, i), k)
  <2>0. Fits(t, Keys, V) /\ k \in Keys
    BY FitsWider
  <2>1. IF t = Nil THEN p = <<>> ELSE IsWalk(p, t, k) /\ Ended(Last(p), k)
    BY <2>0, PathIs
  <2> HIDE DEF p
  <2> QED BY <2>0, <2>1, RestIs
<1>2. /\ up[0] = Node(k, v, Nil, Nil)
      /\ \A h \in 1..L : up[h] = Updated(p[L + 1 - h], k, v, up[h - 1])
      /\ Upsert(t, k, v) = up[L]
  BY <1>1, UpsertUptoIs
<1> HIDE DEF p, L, up
<1>3. L \in Nat
  BY <1>1 DEF L
<1> DEFINE Made(i) == \A K : K \subseteq Keys /\ k \in K /\ Fits(Rest(p, i), K, V) =>
                          /\ Fits(up[i], K, V) /\ Entries(up[i]) = With(Entries(Rest(p, i)), k, v)
                          /\ Heap(Rest(p, i)) => Heap(up[i])
           Bad == {i \in 0..L : ~ Made(i)}
<1>4. ASSUME Bad # {} PROVE FALSE
  <2>1. PICK i \in Bad : \A j \in Bad : i <= j
    <3>1. Bad \subseteq Nat
      BY <1>3
    <3> HIDE DEF Bad
    <3> QED BY <1>4, <3>1, LeastExists, Zenon
  <2>2. i \in 0..L /\ ~ Made(i)
    BY <2>1
  <2>3. i # 0
    <3>1. ASSUME NEW K, K \subseteq Keys, k \in K
          PROVE  Fits(up[0], K, V) /\ Entries(up[0]) = With(Entries(Rest(p, 0)), k, v)
      <4>1. Joins(k, v, Nil, Nil, K, V) /\ Entries(Nil) = {}
        BY <3>1, FitsNil DEF Joins
      <4>2. Fits(up[0], K, V) /\ Entries(up[0]) = Joint(k, v, Entries(Nil), Entries(Nil))
        BY <1>2, <3>1, <4>1, FitsMade
      <4> QED BY <4>1, <4>2 DEF Rest, With, Without, Joint
    <3>2. Heap(up[0])
      <4>1. Joins(k, v, Nil, Nil, D, V)
        BY FitsNil DEF Joins
      <4>2. Fits(up[0], D, V)
        BY <1>2, <4>1, FitsMade
      <4>3. up[0] # Nil /\ up[0].left = Nil /\ up[0].right = Nil
        BY <1>2, NodeIs
      <4> QED BY <4>2, <4>3, HeapParts, HeapNil DEF Fits
    <3>3. Made(0)
      BY <3>1, <3>2
    <3> HIDE DEF Made
    <3> QED BY <2>2, <3>3
  <2>4. i \in 1..L /\ i - 1 \in 0..L /\ ~ (i <= i - 1)
    BY <1>3, <2>2, <2>3
  <2>5. Made(i - 1)
    <3> HIDE DEF Made
    <3> QED BY <2>1, <2>4
  <2> DEFINE n == Rest(p, i)
  <2>6. PICK K : /\ K \subseteq Keys /\ k \in K /\ Fits(n, K, V)
                 /\ ~ (/\ Fits(up[i], K, V) /\ Entries(up[i]) = With(Entries(n), k, v)
                       /\ Heap(n) => Heap(up[i]))
    BY <2>2
  <2>7. n \in Nodes(t) /\ (n.key # k => Rest(p, i - 1) = Child(n, k)) /\ n = p[L + 1 - i]
    BY <1>1, <2>4
  <2>8. n # Nil
    BY <2>7, NodesDiffer
  <2> HIDE DEF n
  <2>9. \A J : J \subseteq Keys /\ k \in J /\ Fits(Child(n, k), J, V) /\ k # n.key =>
                   Fits(up[i - 1], J, V) /\ Entries(up[i - 1]) = With(Entries(Child(n, k)), k, v)
    BY <2>5, <2>7
  <2>10. up[i] = Updated(n, k, v, up[i - 1])
    BY <1>2, <2>4, <2>7
  <2>11. /\ Fits(Updated(n, k, v, up[i - 1]), K, V)
         /\ Entries(Updated(n, k, v, up[i - 1])) = With(Entries(n), k, v)
    <3> HIDE DEF Made
    <3> QED BY <2>6, <2>8, <2>9, UpdatedIs
  <2>12. Heap(n) => Heap(Updated(n, k, v, up[i - 1]))
    <3> SUFFICES ASSUME Heap(n) PROVE Heap(Updated(n, k, v, up[i - 1]))
      OBVIOUS
    <3>1. /\ Fits(n.left, Lower(K, n.key), V) /\ Fits(n.right, Upper(K, n.key), V)
          /\ Heap(n.left) /\ Heap(n.right)
      BY <2>6, <2>8, FitsParts, HeapParts DEF Fits
    <3>2. Fits(Child(n, k), Keys, V) /\ Heap(Child(n, k))
      <4>1. Lower(K, n.key) \subseteq Keys /\ Upper(K, n.key) \subseteq Keys
        BY <2>6 DEF Lower, Upper
      <4> QED BY <3>1, <4>1, FitsWider DEF Child
    <3>3. k # n.key => Heap(up[i - 1])
      BY <2>5, <2>7, <3>2
    <3> HIDE DEF Made
    <3> QED BY <2>6, <2>8, <2>9, <3>3, UpdatedHeap
  <2> QED BY <2>6, <2>10, <2>11, <2>12
<1>5. Made(L)
  BY <1>3, <1>4
<1> QED BY <1>1, <1>2, <1>5

LEMMA UpsertLooks ==
    ASSUME NEW V, NEW D, D \subseteq Keys, NEW t, Fits(t, D, V), NEW k \in D, NEW v \in V,
           NEW j \in Keys, NEW absent
    PROVE  Lookup(Upsert(t, k, v), j, absent) = IF j = k THEN v ELSE Lookup(t, j, absent)
<1> DEFINE u == Upsert(t, k, v)
<1>0. Fits(t, Keys, V)
  BY FitsWider
<1>1. Fits(u, Keys, V) /\ Entries(u) = With(Entries(t), k, v)
  BY UpsertIs, FitsWider
<1> HIDE DEF u
<1>2. CASE j = k
  <2>1. <<j, v>> \in Entries(u)
    BY <1>1, <1>2 DEF With
  <2> QED BY <1>1, <1>2, <2>1, LookupIs DEF u
<1>3. CASE j # k
  <2>1. CASE j \in KeysIn(t)
    <3>1. <<j, Lookup(t, j, absent)>> \in Entries(t)
      BY <1>0, <2>1, LookupIs
    <3>2. <<j, Lookup(t, j, absent)>> \in Entries(u)
      BY <1>1, <1>3, <3>1 DEF With, Without
    <3> QED BY <1>1, <1>3, <3>2, LookupIs DEF u
  <2>2. CASE j \notin KeysIn(t)
    <3>1. \A w : <<j, w>> \notin Entries(t)
      <4>1. \A e \in Entries(t) : e[1] \in KeysIn(t)
        BY KeysOfEntries
      <4> QED BY <2>2, <4>1
    <3>2. j \notin KeysIn(u)
      <4>1. \A w : <<j, w>> \notin Entries(u)
        BY <1>1, <1>3, <3>1 DEF With, Without
      <4> QED BY <4>1, KeysOfEntries
    <3>3. Lookup(u, j, absent) = absent /\ Lookup(t, j, absent) = absent
      BY <1>0, <1>1, <2>2, <3>2, LookupIs
    <3> QED BY <1>3, <3>3 DEF u
  <2> QED BY <2>1, <2>2
<1> QED BY <1>2, <1>3

-----------------------------------------------------------------------------
(* Clocks.                                                                 *)

LEMMA LookupNil ==
    ASSUME NEW k \in Keys, NEW absent
    PROVE  Lookup(Nil, k, absent) = absent
BY FitsNil, LookupIs

LEMMA LookupValue ==
    ASSUME NEW V, NEW t, Fits(t, Keys, V), NEW k \in Keys, NEW absent
    PROVE  Lookup(t, k, absent) \in V \cup {absent}
<1>1. CASE k \in KeysIn(t)
  <2>1. <<k, Lookup(t, k, absent)>> \in Entries(t)
    BY <1>1, LookupIs
  <2>2. PICK n \in Nodes(t) : <<k, Lookup(t, k, absent)>> = <<n.key, n.val>>
    BY <2>1 DEF Entries
  <2>3. n.val \in V
    BY NodesDiffer
  <2> QED BY <2>2, <2>3
<1>2. CASE k \notin KeysIn(t)
  BY <1>2, LookupIs
<1> QED BY <1>1, <1>2

\* A lookup depends on the entries of its key only.
LEMMA SameLookup ==
    ASSUME NEW V, NEW t, Fits(t, Keys, V), NEW u, Fits(u, Keys, V), NEW k \in Keys, NEW absent,
           \A v : <<k, v>> \in Entries(t) <=> <<k, v>> \in Entries(u)
    PROVE  Lookup(t, k, absent) = Lookup(u, k, absent)
<1>1. CASE k \in KeysIn(t)
  <2>1. <<k, Lookup(t, k, absent)>> \in Entries(u)
    BY <1>1, LookupIs
  <2> QED BY <2>1, LookupIs
<1>2. CASE k \notin KeysIn(t)
  <2>1. k \notin KeysIn(u)
    <3>1. \A v : <<k, v>> \notin Entries(t)
      <4>1. \A e \in Entries(t) : e[1] \in KeysIn(t)
        BY KeysOfEntries
      <4> QED BY <1>2, <4>1
    <3> QED BY <3>1, KeysOfEntries
  <2> QED BY <1>2, <2>1, LookupIs
<1> QED BY <1>1, <1>2

\* Below the root, a key is looked up on its side.
LEMMA LookupParts ==
    ASSUME NEW V, NEW D, D \subseteq Keys, NEW t, Fits(t, D, V), t # Nil,
           NEW q \in Keys, NEW absent
    PROVE  /\ q = t.key => Lookup(t, q, absent) = t.val
           /\ q < t.key => Lookup(t, q, absent) = Lookup(t.left, q, absent)
           /\ t.key < q => Lookup(t, q, absent) = Lookup(t.right, q, absent)
<1>0. Keys \subseteq Nat
  BY Constants
<1>1. /\ t.key \in D /\ t.key \in Keys
      /\ Fits(t.left, Lower(D, t.key), V) /\ Fits(t.right, Upper(D, t.key), V)
      /\ Entries(t) = Joint(t.key, t.val, Entries(t.left), Entries(t.right))
  BY FitsParts
<1>2. Fits(t, Keys, V) /\ Fits(t.left, Keys, V) /\ Fits(t.right, Keys, V)
  <2>1. Lower(D, t.key) \subseteq Keys /\ Upper(D, t.key) \subseteq Keys
    BY DEF Lower, Upper
  <2> QED BY <1>1, <2>1, FitsWider
<1>3. /\ \A e \in Entries(t.left) : e[1] \in Keys /\ e[1] < t.key
      /\ \A e \in Entries(t.right) : e[1] \in Keys /\ t.key < e[1]
  <2>1. /\ \A e \in Entries(t.left) : e[1] \in Lower(D, t.key)
        /\ \A e \in Entries(t.right) : e[1] \in Upper(D, t.key)
    BY <1>1, KeysOfEntries DEF Fits
  <2> QED BY <2>1 DEF Lower, Upper
<1>4. q \in Nat /\ t.key \in Nat
  BY <1>0, <1>1
<1>5. ASSUME q = t.key PROVE Lookup(t, q, absent) = t.val
  <2>1. <<q, t.val>> \in Entries(t)
    BY <1>1, <1>5 DEF Joint
  <2>2. \A v : <<q, v>> \in Entries(t) => Lookup(t, q, absent) = v
    BY <1>2, LookupIs
  <2> QED BY <2>1, <2>2
<1>6. ASSUME q < t.key PROVE Lookup(t, q, absent) = Lookup(t.left, q, absent)
  <2>1. ASSUME NEW v PROVE <<q, v>> \in Entries(t) <=> <<q, v>> \in Entries(t.left)
    <3>1. <<q, v>> \notin Entries(t.right)
      <4>1. ~ (t.key < q)
        BY <1>4, <1>6
      <4> QED BY <1>3, <4>1
    <3>2. <<q, v>> # <<t.key, t.val>>
      BY <1>4, <1>6
    <3> QED BY <1>1, <3>1, <3>2 DEF Joint
  <2> QED BY <1>2, <2>1, SameLookup
<1>7. ASSUME t.key < q PROVE Lookup(t, q, absent) = Lookup(t.right, q, absent)
  <2>1. ASSUME NEW v PROVE <<q, v>> \in Entries(t) <=> <<q, v>> \in Entries(t.right)
    <3>1. <<q, v>> \notin Entries(t.left)
      <4>1. ~ (q < t.key)
        BY <1>4, <1>7
      <4> QED BY <1>3, <4>1
    <3>2. <<q, v>> # <<t.key, t.val>>
      BY <1>4, <1>7
    <3> QED BY <1>1, <3>1, <3>2 DEF Joint
  <2> QED BY <1>2, <2>1, SameLookup
<1> QED BY <1>5, <1>6, <1>7

\* s is t cut at k.
Cut(s, t, D, k) ==
    /\ s = [less |-> s.less, counter |-> s.counter, greater |-> s.greater]
    /\ Fits(s.less, Lower(D, k), Nat) /\ Fits(s.greater, Upper(D, k), Nat)
    /\ s.counter \in Nat
    /\ s.counter = Lookup(t, k, 0)
    /\ \A q \in Lower(D, k) : Lookup(s.less, q, 0) = Lookup(t, q, 0)
    /\ \A q \in Upper(D, k) : Lookup(s.greater, q, 0) = Lookup(t, q, 0)

LEMMA PartedIs ==
    ASSUME NEW D, D \subseteq Keys, NEW n, Fits(n, D, Nat), n # Nil,
           NEW k \in D, NEW s,
           \A J : J \subseteq Keys /\ k \in J /\ Fits(Child(n, k), J, Nat) /\ k # n.key =>
                      Cut(s, Child(n, k), J, k)
    PROVE  Cut(Parted(n, k, s), n, D, k)
<1>0. Keys \subseteq Nat
  BY Constants
<1>1. /\ n.key \in D /\ n.val \in Nat
      /\ Fits(n.left, Lower(D, n.key), Nat) /\ Fits(n.right, Upper(D, n.key), Nat)
  BY FitsParts
<1>2. /\ k \in Nat /\ n.key \in Nat /\ D \subseteq Nat
      /\ Lower(D, n.key) \subseteq Keys /\ Upper(D, n.key) \subseteq Keys
  BY <1>0, <1>1 DEF Lower, Upper
<1>3. \A q \in Keys : /\ q = n.key => Lookup(n, q, 0) = n.val
                      /\ q < n.key => Lookup(n, q, 0) = Lookup(n.left, q, 0)
                      /\ n.key < q => Lookup(n, q, 0) = Lookup(n.right, q, 0)
  BY LookupParts
<1>4. CASE k = n.key
  <2> DEFINE w == [less |-> n.left, counter |-> n.val, greater |-> n.right]
  <2>1. Parted(n, k, s) = w
    BY <1>4 DEF Parted
  <2>2. w.less = n.left /\ w.counter = n.val /\ w.greater = n.right
    OBVIOUS
  <2>3. w = [less |-> w.less, counter |-> w.counter, greater |-> w.greater]
    OBVIOUS
  <2> HIDE DEF w
  <2>4. \A q \in Lower(D, k) : Lookup(w.less, q, 0) = Lookup(n, q, 0)
    BY <1>2, <1>3, <1>4, <2>2 DEF Lower
  <2>5. \A q \in Upper(D, k) : Lookup(w.greater, q, 0) = Lookup(n, q, 0)
    BY <1>2, <1>3, <1>4, <2>2 DEF Upper
  <2>6. k \in Keys
    BY <1>4, <1>1
  <2> QED BY <1>1, <1>3, <1>4, <2>1, <2>2, <2>3, <2>4, <2>5, <2>6 DEF Cut
<1>5. CASE k < n.key
  <2>1. k \in Lower(D, n.key) /\ k # n.key /\ Child(n, k) = n.left
    BY <1>2, <1>5 DEF Lower, Child
  <2>2. Cut(s, n.left, Lower(D, n.key), k)
    BY <1>1, <1>2, <2>1
  <2>3. /\ Lower(Upper(D, k), n.key) = Upper(Lower(D, n.key), k)
        /\ Upper(Upper(D, k), n.key) = Upper(D, n.key)
        /\ Lower(Lower(D, n.key), k) = Lower(D, k)
        /\ n.key \in Upper(D, k) /\ Upper(D, k) \subseteq Keys
    <3>1. Ordered(D, k, n.key)
      BY <1>1, <1>5 DEF Ordered
    <3> QED BY <3>1, PartsOfParts
  <2>4. /\ Fits(s.less, Lower(D, k), Nat) /\ Fits(s.greater, Lower(Upper(D, k), n.key), Nat)
        /\ s = [less |-> s.less, counter |-> s.counter, greater |-> s.greater]
        /\ s.counter \in Nat /\ s.counter = Lookup(n.left, k, 0)
        /\ \A q \in Lower(D, k) : Lookup(s.less, q, 0) = Lookup(n.left, q, 0)
        /\ \A q \in Lower(Upper(D, k), n.key) : Lookup(s.greater, q, 0) = Lookup(n.left, q, 0)
    BY <2>2, <2>3 DEF Cut
  <2> DEFINE m == Node(n.key, n.val, s.greater, n.right)
             w == [less |-> s.less, counter |-> s.counter, greater |-> m]
  <2>5. /\ Fits(m, Upper(D, k), Nat) /\ m # Nil
        /\ m.key = n.key /\ m.val = n.val /\ m.left = s.greater /\ m.right = n.right
    <3>1. Joins(n.key, n.val, s.greater, n.right, Upper(D, k), Nat)
      BY <1>1, <2>3, <2>4 DEF Joins
    <3> QED BY <2>3, <3>1, FitsMade, NodeIs
  <2>6. Parted(n, k, s) = w
    <3>1. Parted(n, k, s) = [s EXCEPT !.greater = m]
      BY <1>2, <1>5, <2>1 DEF Parted
    <3> HIDE DEF m
    <3> QED BY <2>4, <3>1
  <2> HIDE DEF m
  <2>7. w.less = s.less /\ w.counter = s.counter /\ w.greater = m
    OBVIOUS
  <2>8. w = [less |-> w.less, counter |-> w.counter, greater |-> w.greater]
    OBVIOUS
  <2> HIDE DEF w
  <2>9. \A q \in Lower(D, k) : Lookup(w.less, q, 0) = Lookup(n, q, 0)
    <3>1. \A q \in Lower(D, k) : q \in Keys /\ q < n.key
      BY <1>2, <1>5 DEF Lower
    <3> QED BY <1>3, <2>4, <2>7, <3>1
  <2>10. ASSUME NEW q \in Upper(D, k) PROVE Lookup(w.greater, q, 0) = Lookup(n, q, 0)
    <3>1. q \in Keys /\ q \in Nat
      BY <1>2 DEF Upper
    <3>2. /\ q = n.key => Lookup(m, q, 0) = n.val
          /\ q < n.key => Lookup(m, q, 0) = Lookup(s.greater, q, 0)
          /\ n.key < q => Lookup(m, q, 0) = Lookup(n.right, q, 0)
      BY <2>3, <2>5, <3>1, LookupParts
    <3>3. q < n.key => q \in Lower(Upper(D, k), n.key)
      BY DEF Lower
    <3> QED BY <1>2, <1>3, <2>4, <2>7, <3>1, <3>2, <3>3
  <2>11. w.counter = Lookup(n, k, 0)
    BY <1>3, <1>5, <2>4, <2>7
  <2> QED BY <2>4, <2>5, <2>6, <2>7, <2>8, <2>9, <2>10, <2>11 DEF Cut
<1>6. CASE n.key < k
  <2>1. k \in Upper(D, n.key) /\ k # n.key /\ Child(n, k) = n.right
    BY <1>2, <1>6 DEF Upper, Child
  <2>2. Cut(s, n.right, Upper(D, n.key), k)
    BY <1>1, <1>2, <2>1
  <2>3. /\ Upper(Lower(D, k), n.key) = Lower(Upper(D, n.key), k)
        /\ Lower(Lower(D, k), n.key) = Lower(D, n.key)
        /\ Upper(Upper(D, n.key), k) = Upper(D, k)
        /\ n.key \in Lower(D, k) /\ Lower(D, k) \subseteq Keys
    <3>1. Ordered(D, n.key, k)
      BY <1>1, <1>6 DEF Ordered
    <3> QED BY <3>1, PartsOfParts
  <2>4. /\ Fits(s.greater, Upper(D, k), Nat) /\ Fits(s.less, Upper(Lower(D, k), n.key), Nat)
        /\ s = [less |-> s.less, counter |-> s.counter, greater |-> s.greater]
        /\ s.counter \in Nat /\ s.counter = Lookup(n.right, k, 0)
        /\ \A q \in Upper(D, k) : Lookup(s.greater, q, 0) = Lookup(n.right, q, 0)
        /\ \A q \in Upper(Lower(D, k), n.key) : Lookup(s.less, q, 0) = Lookup(n.right, q, 0)
    BY <2>2, <2>3 DEF Cut
  <2> DEFINE m == Node(n.key, n.val, n.left, s.less)
             w == [less |-> m, counter |-> s.counter, greater |-> s.greater]
  <2>5. /\ Fits(m, Lower(D, k), Nat) /\ m # Nil
        /\ m.key = n.key /\ m.val = n.val /\ m.left = n.left /\ m.right = s.less
    <3>1. Joins(n.key, n.val, n.left, s.less, Lower(D, k), Nat)
      BY <1>1, <2>3, <2>4 DEF Joins
    <3> QED BY <2>3, <3>1, FitsMade, NodeIs
  <2>6. Parted(n, k, s) = w
    <3>1. Parted(n, k, s) = [s EXCEPT !.less = m]
      BY <1>2, <1>6, <2>1 DEF Parted
    <3> HIDE DEF m
    <3> QED BY <2>4, <3>1
  <2> HIDE DEF m
  <2>7. w.less = m /\ w.counter = s.counter /\ w.greater = s.greater
    OBVIOUS
  <2>8. w = [less |-> w.less, counter |-> w.counter, greater |-> w.greater]
    OBVIOUS
  <2> HIDE DEF w
  <2>9. \A q \in Upper(D, k) : Lookup(w.greater, q, 0) = Lookup(n, q, 0)
    <3>1. \A q \in Upper(D, k) : q \in Keys /\ n.key < q
      BY <1>2, <1>6 DEF Upper
    <3> QED BY <1>3, <2>4, <2>7, <3>1
  <2>10. ASSUME NEW q \in Lower(D, k) PROVE Lookup(w.less, q, 0) = Lookup(n, q, 0)
    <3>1. q \in Keys /\ q \in Nat
      BY <1>2 DEF Lower
    <3>2. /\ q = n.key => Lookup(m, q, 0) = n.val
          /\ q < n.key => Lookup(m, q, 0) = Lookup(n.left, q, 0)
          /\ n.key < q => Lookup(m, q, 0) = Lookup(s.less, q, 0)
      BY <2>3, <2>5, <3>1, LookupParts
    <3>3. n.key < q => q \in Upper(Lower(D, k), n.key)
      BY DEF Upper
    <3> QED BY <1>2, <1>3, <2>4, <2>7, <3>1, <3>2, <3>3
  <2>11. w.counter = Lookup(n, k, 0)
    BY <1>3, <1>6, <2>4, <2>7
  <2> QED BY <2>4, <2>5, <2>6, <2>7, <2>8, <2>9, <2>10, <2>11 DEF Cut
<1> QED BY <1>2, <1>4, <1>5, <1>6

SplitUpto(t, k) ==
    LET path == Path(t, k)
        up[i \in 0..Len(path)] ==
            IF i = 0 THEN [less |-> Nil, counter |-> 0, greater |-> Nil]
            ELSE Parted(path[Len(path) + 1 - i], k, up[i - 1])
    IN  up

LEMMA SplitUptoIs ==
    ASSUME NEW t, NEW k, Len(Path(t, k)) \in Nat
    PROVE  /\ SplitUpto(t, k)[0] = [less |-> Nil, counter |-> 0, greater |-> Nil]
           /\ \A h \in 1..Len(Path(t, k)) :
                 SplitUpto(t, k)[h] =
                     Parted(Path(t, k)[Len(Path(t, k)) + 1 - h], k, SplitUpto(t, k)[h - 1])
           /\ Split(t, k) = SplitUpto(t, k)[Len(Path(t, k))]
<1> DEFINE N == Len(Path(t, k))
<1>0. N \in Nat
  OBVIOUS
<1> HIDE DEF N
<1> DEFINE base == [less |-> Nil, counter |-> 0, greater |-> Nil]
           Step(h, x) == Parted(Path(t, k)[N + 1 - h], k, x)
<1> DEFINE Solves(f, m) == f = [h \in 0..m |-> IF h = 0 THEN base ELSE Step(h, f[h - 1])]
           Bad == {m \in 0..N : ~ \E f : Solves(f, m)}
<1>1. \E f : Solves(f, N)
  <2> HIDE DEF base, Step
  <2>1. ASSUME Bad # {} PROVE FALSE
    <3>1. PICK m \in Bad : \A j \in Bad : m <= j
      <4>1. Bad \subseteq Nat
        BY <1>0
      <4> HIDE DEF Bad
      <4> QED BY <2>1, <4>1, LeastExists, Zenon
    <3>2. m \in 0..N /\ ~ \E f : Solves(f, m)
      BY <3>1
    <3>3. m # 0
      <4>1. Solves([h \in 0..0 |-> base], 0)
        OBVIOUS
      <4> HIDE DEF Solves
      <4> QED BY <4>1, <3>2
    <3>4. PICK f : Solves(f, m - 1)
      <4>1. m - 1 \in 0..N /\ ~ (m <= m - 1)
        BY <1>0, <3>2, <3>3
      <4> HIDE DEF Solves
      <4> QED BY <4>1, <3>1
    <3> DEFINE g == [h \in 0..m |-> IF h = m THEN Step(m, f[m - 1]) ELSE f[h]]
    <3>5. ASSUME NEW h \in 0..m
          PROVE  g[h] = IF h = 0 THEN base ELSE Step(h, g[h - 1])
      <4>1. h # 0 => g[h - 1] = f[h - 1]
        BY <1>0, <3>2
      <4>2. h # m => h \in 0..(m - 1) /\ g[h] = f[h]
        BY <1>0, <3>2
      <4>3. h = m => g[h] = Step(m, f[m - 1])
        OBVIOUS
      <4> HIDE DEF g
      <4> QED BY <4>1, <4>2, <4>3, <3>3, <3>4
    <3>6. Solves(g, m)
      <4>1. g = [h \in 0..m |-> g[h]]
        OBVIOUS
      <4> HIDE DEF g
      <4> QED BY <4>1, <3>5
    <3> HIDE DEF g, Solves
    <3> QED BY <3>2, <3>6
  <2>2. N \in 0..N
    BY <1>0
  <2>3. N \notin Bad
    <3> HIDE DEF Bad
    <3> QED BY <2>1
  <2> HIDE DEF Solves
  <2> QED BY <2>2, <2>3
<1> DEFINE chosen == CHOOSE f : Solves(f, N)
<1>2. Solves(chosen, N)
  <2> HIDE DEF Solves
  <2> QED BY <1>1
<1> HIDE DEF chosen, base, Step
<1>3. chosen[0] = base
  BY <1>0, <1>2
<1>4. ASSUME NEW h \in 1..N PROVE chosen[h] = Step(h, chosen[h - 1])
  <2>1. h \in 0..N /\ h # 0
    BY <1>0
  <2> QED BY <1>2, <2>1
<1> USE DEF base, Step
<1>5. SplitUpto(t, k) = chosen
  BY DEF SplitUpto, chosen, N
<1>6. Split(t, k) = SplitUpto(t, k)[N]
  BY DEF Split, SplitUpto, N
<1> QED BY <1>3, <1>4, <1>5, <1>6 DEF N

LEMMA SplitIs ==
    ASSUME NEW D, D \subseteq Keys, NEW t, Fits(t, D, Nat), NEW k \in D
    PROVE  Cut(Split(t, k), t, D, k)
<1> DEFINE p == Path(t, k)
           L == Len(p)
           up == SplitUpto(t, k)
<1>0. Fits(t, Keys, Nat) /\ k \in Keys
  BY FitsWider
<1>1. /\ Len(p) \in Nat /\ Rest(p, L) = t
      /\ \A i \in 1..L : /\ Rest(p, i) \in Nodes(t)
                         /\ Rest(p, i) = p[L + 1 - i]
                         /\ Rest(p, i).key # k => Rest(p, i - 1) = Child(Rest(p, i), k)
  <2>1. IF t = Nil THEN p = <<>> ELSE IsWalk(p, t, k) /\ Ended(Last(p), k)
    BY <1>0, PathIs
  <2> HIDE DEF p
  <2> QED BY <1>0, <2>1, RestIs
<1>2. /\ up[0] = [less |-> Nil, counter |-> 0, greater |-> Nil]
      /\ \A h \in 1..L : up[h] = Parted(p[L + 1 - h], k, up[h - 1])
      /\ Split(t, k) = up[L]
  BY <1>1, SplitUptoIs
<1> HIDE DEF p, L, up
<1>3. L \in Nat
  BY <1>1 DEF L
<1> DEFINE Made(i) == \A K : K \subseteq Keys /\ k \in K /\ Fits(Rest(p, i), K, Nat) =>
                          Cut(up[i], Rest(p, i), K, k)
           Bad == {i \in 0..L : ~ Made(i)}
<1>4. ASSUME Bad # {} PROVE FALSE
  <2>1. PICK i \in Bad : \A j \in Bad : i <= j
    <3>1. Bad \subseteq Nat
      BY <1>3
    <3> HIDE DEF Bad
    <3> QED BY <1>4, <3>1, LeastExists, Zenon
  <2>2. i \in 0..L /\ ~ Made(i)
    BY <2>1
  <2>3. i # 0
    <3>1. ASSUME NEW K, K \subseteq Keys, k \in K
          PROVE  Cut(up[0], Nil, K, k)
      <4>1. Fits(Nil, Lower(K, k), Nat) /\ Fits(Nil, Upper(K, k), Nat)
        BY FitsNil
      <4>2. \A q \in Keys : Lookup(Nil, q, 0) = 0
        BY LookupNil
      <4>3. up[0].less = Nil /\ up[0].counter = 0 /\ up[0].greater = Nil
        BY <1>2
      <4>4. up[0] = [less |-> up[0].less, counter |-> up[0].counter, greater |-> up[0].greater]
        BY <1>2
      <4>5. Lower(K, k) \subseteq Keys /\ Upper(K, k) \subseteq Keys
        BY <3>1 DEF Lower, Upper
      <4> QED BY <1>0, <4>1, <4>2, <4>3, <4>4, <4>5 DEF Cut
    <3>2. Rest(p, 0) = Nil
      BY DEF Rest
    <3>3. Made(0)
      BY <3>1, <3>2
    <3> HIDE DEF Made
    <3> QED BY <2>2, <3>3
  <2>4. i \in 1..L /\ i - 1 \in 0..L /\ ~ (i <= i - 1)
    BY <1>3, <2>2, <2>3
  <2>5. Made(i - 1)
    <3> HIDE DEF Made
    <3> QED BY <2>1, <2>4
  <2> DEFINE n == Rest(p, i)
  <2>6. PICK K : K \subseteq Keys /\ k \in K /\ Fits(n, K, Nat) /\ ~ Cut(up[i], n, K, k)
    BY <2>2
  <2>7. n \in Nodes(t) /\ (n.key # k => Rest(p, i - 1) = Child(n, k)) /\ n = p[L + 1 - i]
    BY <1>1, <2>4
  <2>8. n # Nil
    BY <2>7, NodesDiffer
  <2> HIDE DEF n
  <2>9. \A J : J \subseteq Keys /\ k \in J /\ Fits(Child(n, k), J, Nat) /\ k # n.key =>
                   Cut(up[i - 1], Child(n, k), J, k)
    BY <2>5, <2>7
  <2>10. up[i] = Parted(n, k, up[i - 1])
    BY <1>2, <2>4, <2>7
  <2>11. Cut(Parted(n, k, up[i - 1]), n, K, k)
    <3> HIDE DEF Made
    <3> QED BY <2>6, <2>8, <2>9, PartedIs
  <2> QED BY <2>6, <2>10, <2>11
<1>5. Made(L)
  BY <1>3, <1>4
<1> QED BY <1>1, <1>2, <1>5

\* The union of two clocks, by the size of the smaller of the key sets they may have.
UnionUpto ==
    LET upto[h \in 0..Depth] ==
            IF h = 0 THEN [p \in Clocks \X Clocks |-> Nil]
            ELSE [p \in Clocks \X Clocks |->
                     IF p[1] = Nil THEN p[2]
                     ELSE IF p[2] = Nil \/ p[1] = p[2] THEN p[1]
                     ELSE Joined(p[1], p[2], upto[h - 1], Larger)]
    IN  upto

United(x) ==
    [p \in Clocks \X Clocks |->
        IF p[1] = Nil THEN p[2]
        ELSE IF p[2] = Nil \/ p[1] = p[2] THEN p[1]
        ELSE Joined(p[1], p[2], x, Larger)]

LEMMA UnionUptoIs ==
    /\ UnionUpto[0] = [p \in Clocks \X Clocks |-> Nil]
    /\ \A h \in 1..Depth : UnionUpto[h] = United(UnionUpto[h - 1])
    /\ \A a, b : Union(a, b) = UnionUpto[Depth][<<a, b>>]
<1>0. Depth \in Nat
  BY Constants
<1> DEFINE base == [p \in Clocks \X Clocks |-> Nil]
           Step(h, x) == United(x)
<1> DEFINE Solves(f, m) == f = [h \in 0..m |-> IF h = 0 THEN base ELSE Step(h, f[h - 1])]
           Bad == {m \in 0..Depth : ~ \E f : Solves(f, m)}
<1>1. \E f : Solves(f, Depth)
  <2> HIDE DEF base, Step
  <2>1. ASSUME Bad # {} PROVE FALSE
    <3>1. PICK m \in Bad : \A j \in Bad : m <= j
      <4>1. Bad \subseteq Nat
        BY <1>0
      <4> HIDE DEF Bad
      <4> QED BY <2>1, <4>1, LeastExists, Zenon
    <3>2. m \in 0..Depth /\ ~ \E f : Solves(f, m)
      BY <3>1
    <3>3. m # 0
      <4>1. Solves([h \in 0..0 |-> base], 0)
        OBVIOUS
      <4> HIDE DEF Solves
      <4> QED BY <4>1, <3>2
    <3>4. PICK f : Solves(f, m - 1)
      <4>1. m - 1 \in 0..Depth /\ ~ (m <= m - 1)
        BY <1>0, <3>2, <3>3
      <4> HIDE DEF Solves
      <4> QED BY <4>1, <3>1
    <3> DEFINE g == [h \in 0..m |-> IF h = m THEN Step(m, f[m - 1]) ELSE f[h]]
    <3>5. ASSUME NEW h \in 0..m
          PROVE  g[h] = IF h = 0 THEN base ELSE Step(h, g[h - 1])
      <4>1. h # 0 => g[h - 1] = f[h - 1]
        BY <1>0, <3>2
      <4>2. h # m => h \in 0..(m - 1) /\ g[h] = f[h]
        BY <1>0, <3>2
      <4>3. h = m => g[h] = Step(m, f[m - 1])
        OBVIOUS
      <4> HIDE DEF g
      <4> QED BY <4>1, <4>2, <4>3, <3>3, <3>4
    <3>6. Solves(g, m)
      <4>1. g = [h \in 0..m |-> g[h]]
        OBVIOUS
      <4> HIDE DEF g
      <4> QED BY <4>1, <3>5
    <3> HIDE DEF g, Solves
    <3> QED BY <3>2, <3>6
  <2>2. Depth \in 0..Depth
    BY <1>0
  <2>3. Depth \notin Bad
    <3> HIDE DEF Bad
    <3> QED BY <2>1
  <2> HIDE DEF Solves
  <2> QED BY <2>2, <2>3
<1> DEFINE chosen == CHOOSE f : Solves(f, Depth)
<1>2. Solves(chosen, Depth)
  <2> HIDE DEF Solves
  <2> QED BY <1>1
<1> HIDE DEF chosen, base, Step
<1>3. chosen[0] = base
  BY <1>0, <1>2
<1>4. ASSUME NEW h \in 1..Depth PROVE chosen[h] = Step(h, chosen[h - 1])
  <2>1. h \in 0..Depth /\ h # 0
    BY <1>0
  <2> QED BY <1>2, <2>1
<1> USE DEF base, Step
<1>5. UnionUpto = chosen
  BY DEF UnionUpto, United, chosen
<1>6. ASSUME NEW a, NEW b PROVE Union(a, b) = UnionUpto[Depth][<<a, b>>]
  BY DEF Union, UnionKeeping, UnionUpto
<1> QED BY <1>3, <1>4, <1>5, <1>6

\* u has the counters of a and b, the larger where both have one.
Merges(u, a, b, D) ==
    /\ Fits(u, D, Nat)
    /\ \A q \in Keys : Lookup(u, q, 0) = Larger(Lookup(a, q, 0), Lookup(b, q, 0))

LEMMA CounterIs ==
    ASSUME NEW D, D \subseteq Keys, NEW t, Fits(t, D, Nat), NEW q \in Keys
    PROVE  Lookup(t, q, 0) \in Nat
<1>1. Fits(t, Keys, Nat)
  BY FitsWider
<1>2. Lookup(t, q, 0) \in Nat \cup {0}
  BY <1>1, LookupValue
<1> QED BY <1>2

LEMMA JoinedIs ==
    ASSUME NEW D, D \subseteq Keys, NEW a, NEW b, Fits(a, D, Nat), Fits(b, D, Nat),
           a # Nil, b # Nil, NEW x,
           \A k \in D : \A l, m : /\ Fits(l, Lower(D, k), Nat) /\ Fits(m, Lower(D, k), Nat)
                              => Merges(x[<<l, m>>], l, m, Lower(D, k)),
           \A k \in D : \A l, m : /\ Fits(l, Upper(D, k), Nat) /\ Fits(m, Upper(D, k), Nat)
                              => Merges(x[<<l, m>>], l, m, Upper(D, k))
    PROVE  Merges(Joined(a, b, x, Larger), a, b, D)
<1> DEFINE top == IF a.key = b.key \/ Above(a.key, b.key) THEN a ELSE b
           other == IF top = a THEN b ELSE a
           s == Split(other, top.key)
           l == x[<<top.left, s.less>>]
           r == x[<<top.right, s.greater>>]
           v == Larger(top.val, s.counter)
           u == Node(top.key, v, l, r)
<1>0. Keys \subseteq Nat
  BY Constants
<1>1. \/ top = a /\ other = b
      \/ top = b /\ other = a
  OBVIOUS
<1>2. Joined(a, b, x, Larger) = u
  BY DEF Joined
<1> HIDE DEF top, other
<1>3. Fits(top, D, Nat) /\ Fits(other, D, Nat) /\ top # Nil
  BY <1>1
<1>4. /\ top.key \in D /\ top.key \in Keys /\ top.val \in Nat
      /\ Fits(top.left, Lower(D, top.key), Nat) /\ Fits(top.right, Upper(D, top.key), Nat)
  BY <1>3, FitsParts
<1>5. Cut(s, other, D, top.key)
  BY <1>3, <1>4, SplitIs
<1> HIDE DEF s
<1>6. Merges(l, top.left, s.less, Lower(D, top.key)) /\ Merges(r, top.right, s.greater, Upper(D, top.key))
  BY <1>4, <1>5 DEF Cut
<1> HIDE DEF l, r
<1>7. v \in Nat /\ s.counter = Lookup(other, top.key, 0)
  BY <1>4, <1>5 DEF Larger, Cut
<1>8. /\ Fits(u, D, Nat) /\ u # Nil /\ u.key = top.key /\ u.val = v /\ u.left = l /\ u.right = r
  <2> HIDE DEF v
  <2>1. Joins(top.key, v, l, r, D, Nat)
    BY <1>4, <1>6, <1>7 DEF Joins, Merges
  <2> QED BY <2>1, FitsMade, NodeIs
<1> HIDE DEF u
<1>9. ASSUME NEW q \in Keys
      PROVE  Lookup(u, q, 0) = Larger(Lookup(top, q, 0), Lookup(other, q, 0))
  <2>1. /\ q = top.key => Lookup(u, q, 0) = v
        /\ q < top.key => Lookup(u, q, 0) = Lookup(l, q, 0)
        /\ top.key < q => Lookup(u, q, 0) = Lookup(r, q, 0)
    <3> HIDE DEF v
    <3> QED BY <1>8, LookupParts
  <2>2. /\ q = top.key => Lookup(top, q, 0) = top.val
        /\ q < top.key => Lookup(top, q, 0) = Lookup(top.left, q, 0)
        /\ top.key < q => Lookup(top, q, 0) = Lookup(top.right, q, 0)
    BY <1>3, LookupParts
  <2>3. q \in Nat /\ top.key \in Nat
    BY <1>0, <1>4
  <2>4. CASE q = top.key
    BY <1>7, <2>1, <2>2, <2>4
  <2>5. ASSUME q < top.key
        PROVE  Lookup(s.less, q, 0) = Lookup(other, q, 0)
    <3>1. CASE q \in D
      BY <1>5, <2>5, <3>1 DEF Cut, Lower
    <3>2. CASE q \notin D
      <4>1. Lookup(s.less, q, 0) = 0
        <5>1. q \notin KeysIn(s.less) /\ Fits(s.less, Keys, Nat)
          <6>1. Fits(s.less, Lower(D, top.key), Nat) /\ Lower(D, top.key) \subseteq D
            BY <1>5 DEF Cut, Lower
          <6> QED BY <3>2, <6>1, FitsWider DEF Fits
        <5> QED BY <5>1, LookupIs
      <4>2. Lookup(other, q, 0) = 0
        <5>1. q \notin KeysIn(other) /\ Fits(other, Keys, Nat)
          BY <1>3, <3>2, FitsWider DEF Fits
        <5> QED BY <5>1, LookupIs
      <4> QED BY <4>1, <4>2
    <3> QED BY <3>1, <3>2
  <2>6. ASSUME top.key < q
        PROVE  Lookup(s.greater, q, 0) = Lookup(other, q, 0)
    <3>1. CASE q \in D
      BY <1>5, <2>6, <3>1 DEF Cut, Upper
    <3>2. CASE q \notin D
      <4>1. Lookup(s.greater, q, 0) = 0
        <5>1. q \notin KeysIn(s.greater) /\ Fits(s.greater, Keys, Nat)
          <6>1. Fits(s.greater, Upper(D, top.key), Nat) /\ Upper(D, top.key) \subseteq D
            BY <1>5 DEF Cut, Upper
          <6> QED BY <3>2, <6>1, FitsWider DEF Fits
        <5> QED BY <5>1, LookupIs
      <4>2. Lookup(other, q, 0) = 0
        <5>1. q \notin KeysIn(other) /\ Fits(other, Keys, Nat)
          BY <1>3, <3>2, FitsWider DEF Fits
        <5> QED BY <5>1, LookupIs
      <4> QED BY <4>1, <4>2
    <3> QED BY <3>1, <3>2
  <2>7. CASE q < top.key
    BY <1>6, <2>1, <2>2, <2>5, <2>7 DEF Merges
  <2>8. CASE top.key < q
    BY <1>6, <2>1, <2>2, <2>6, <2>8 DEF Merges
  <2> QED BY <2>3, <2>4, <2>7, <2>8
<1>10. ASSUME NEW q \in Keys
       PROVE  Lookup(u, q, 0) = Larger(Lookup(a, q, 0), Lookup(b, q, 0))
  <2>1. Lookup(a, q, 0) \in Nat /\ Lookup(b, q, 0) \in Nat
    BY CounterIs
  <2> QED BY <1>1, <1>9, <2>1 DEF Larger
<1> QED BY <1>2, <1>8, <1>10 DEF Merges

\* The union of two clocks has the larger counter of each peer.
LEMMA UnionIs ==
    ASSUME NEW a, NEW b, Fits(a, Keys, Nat), Fits(b, Keys, Nat)
    PROVE  Merges(Union(a, b), a, b, Keys)
<1>0. Depth \in Nat /\ IsFiniteSet(Keys) /\ Cardinality(Keys) = Depth
  BY Constants DEF Depth
<1> DEFINE Good(h) == \A D, l, m : /\ D \subseteq Keys /\ Cardinality(D) <= h
                                   /\ Fits(l, D, Nat) /\ Fits(m, D, Nat)
                                   => Merges(UnionUpto[h][<<l, m>>], l, m, D)
           Bad == {h \in 0..Depth : ~ Good(h)}
<1>1. ASSUME Bad # {} PROVE FALSE
  <2>1. PICK h \in Bad : \A j \in Bad : h <= j
    <3>1. Bad \subseteq Nat
      BY <1>0
    <3> HIDE DEF Bad
    <3> QED BY <1>1, <3>1, LeastExists, Zenon
  <2>2. h \in 0..Depth /\ ~ Good(h)
    BY <2>1
  <2>3. PICK D, l, m : /\ D \subseteq Keys /\ Cardinality(D) <= h
                       /\ Fits(l, D, Nat) /\ Fits(m, D, Nat)
                       /\ ~ Merges(UnionUpto[h][<<l, m>>], l, m, D)
    BY <2>2
  <2>4. l \in Clocks /\ m \in Clocks /\ Fits(l, Keys, Nat) /\ Fits(m, Keys, Nat)
    BY <2>3, FitsWider DEF Fits, Clocks
  <2>5. \A q \in Keys : /\ Lookup(l, q, 0) \in Nat /\ Lookup(m, q, 0) \in Nat
                        /\ Lookup(Nil, q, 0) = 0
    BY <2>4, CounterIs, LookupNil
  <2>6. h # 0
    <3>1. ASSUME h = 0 PROVE FALSE
      <4>1. IsFiniteSet(D) /\ Cardinality(D) \in Nat
        BY <1>0, <2>3, FS_Subset, FS_CardinalityType
      <4>2. D = {}
        BY <2>3, <3>1, <4>1, FS_EmptySet
      <4>3. l = Nil /\ m = Nil
        BY <2>3, <4>2, FitsParts
      <4>4. UnionUpto[h][<<l, m>>] = Nil
        BY <2>4, <3>1, UnionUptoIs
      <4> QED BY <2>3, <2>5, <4>3, <4>4 DEF Merges, Larger
    <3> QED BY <3>1
  <2>7. h \in 1..Depth /\ h - 1 \in 0..Depth /\ ~ (h <= h - 1)
    BY <1>0, <2>2, <2>6
  <2>8. Good(h - 1)
    <3> HIDE DEF Good
    <3> QED BY <2>1, <2>7
  <2>9. UnionUpto[h][<<l, m>>] =
            IF l = Nil THEN m ELSE IF m = Nil \/ l = m THEN l
            ELSE Joined(l, m, UnionUpto[h - 1], Larger)
    <3>1. UnionUpto[h] = United(UnionUpto[h - 1])
      BY <2>7, UnionUptoIs
    <3> QED BY <2>4, <3>1 DEF United
  <2>10. CASE l = Nil
    BY <2>3, <2>5, <2>9, <2>10 DEF Merges, Larger
  <2>11. CASE l # Nil /\ (m = Nil \/ l = m)
    <3>1. UnionUpto[h][<<l, m>>] = l
      BY <2>9, <2>11
    <3>2. \A q \in Keys : Lookup(l, q, 0) = Larger(Lookup(l, q, 0), Lookup(m, q, 0))
      BY <2>5, <2>11 DEF Larger
    <3> QED BY <2>3, <3>1, <3>2 DEF Merges
  <2>12. CASE l # Nil /\ m # Nil /\ l # m
    <3>1. ASSUME NEW k \in D
          PROVE  /\ Lower(D, k) \subseteq Keys /\ Cardinality(Lower(D, k)) <= h - 1
                 /\ Upper(D, k) \subseteq Keys /\ Cardinality(Upper(D, k)) <= h - 1
      <4>1. /\ Lower(D, k) \subseteq Keys /\ Upper(D, k) \subseteq Keys
            /\ Cardinality(D) \in 1..Depth
            /\ Cardinality(Lower(D, k)) \in 0..(Cardinality(D) - 1)
            /\ Cardinality(Upper(D, k)) \in 0..(Cardinality(D) - 1)
        BY <2>3, PartsSmaller
      <4> QED BY <1>0, <2>2, <2>3, <4>1
    <3> DEFINE x == UnionUpto[h - 1]
    <3>2. \A k \in D : \A i, j : Fits(i, Lower(D, k), Nat) /\ Fits(j, Lower(D, k), Nat)
                              => Merges(x[<<i, j>>], i, j, Lower(D, k))
      BY <2>8, <3>1
    <3>3. \A k \in D : \A i, j : Fits(i, Upper(D, k), Nat) /\ Fits(j, Upper(D, k), Nat)
                              => Merges(x[<<i, j>>], i, j, Upper(D, k))
      BY <2>8, <3>1
    <3>4. UnionUpto[h][<<l, m>>] = Joined(l, m, x, Larger)
      BY <2>9, <2>12
    <3> HIDE DEF x
    <3>5. Merges(Joined(l, m, x, Larger), l, m, D)
      BY <2>3, <2>12, <3>2, <3>3, JoinedIs
    <3> QED BY <2>3, <3>4, <3>5
  <2> QED BY <2>10, <2>11, <2>12
<1>2. Good(Depth)
  <2>1. Depth \in 0..Depth /\ Depth \notin Bad
    <3> HIDE DEF Bad
    <3> QED BY <1>0, <1>1
  <2> QED BY <2>1
<1>3. Cardinality(Keys) <= Depth
  BY <1>0
<1>4. Merges(UnionUpto[Depth][<<a, b>>], a, b, Keys)
  BY <1>2, <1>3
<1>5. Union(a, b) = UnionUpto[Depth][<<a, b>>]
  BY UnionUptoIs
<1> QED BY <1>4, <1>5

LEMMA UpsertClockIs ==
    ASSUME NEW t, Fits(t, Keys, Nat), NEW peer \in Keys, NEW counter \in Nat
    PROVE  /\ Fits(UpsertClock(t, peer, counter), Keys, Nat)
           /\ \A q \in Keys : Lookup(UpsertClock(t, peer, counter), q, 0) =
                  IF q = peer THEN Larger(counter, Lookup(t, peer, 0)) ELSE Lookup(t, q, 0)
<1> DEFINE v == Larger(counter, Lookup(t, peer, 0))
<1>1. v \in Nat
  BY CounterIs DEF Larger
<1>2. UpsertClock(t, peer, counter) = Upsert(t, peer, v)
  BY DEF UpsertClock
<1> HIDE DEF v
<1>3. Fits(Upsert(t, peer, v), Keys, Nat)
  BY <1>1, UpsertIs
<1>4. \A q \in Keys : Lookup(Upsert(t, peer, v), q, 0) = IF q = peer THEN v ELSE Lookup(t, q, 0)
  BY <1>1, UpsertLooks
<1> QED BY <1>2, <1>3, <1>4 DEF v

-----------------------------------------------------------------------------
(* Batches, in ascending order and with what they depend on.               *)

Rises(s, n) == \A i, j \in 1..n : i < j => s[i] < s[j]

LEMMA SortedExists ==
    ASSUME NEW S, S \subseteq Nat, IsFiniteSet(S)
    PROVE  \E s \in [1..Cardinality(S) -> S] : Rises(s, Cardinality(S))
<1> DEFINE N == Cardinality(S)
           Sorts(T, n) == \E s \in [1..n -> T] : Rises(s, n)
           Good(n) == \A T : T \subseteq Nat /\ IsFiniteSet(T) /\ Cardinality(T) = n => Sorts(T, n)
           Bad == {n \in 0..N : ~ Good(n)}
<1>0. N \in Nat
  BY FS_CardinalityType
<1> HIDE DEF N
<1>1. ASSUME Bad # {} PROVE FALSE
  <2>1. PICK n \in Bad : \A j \in Bad : n <= j
    <3>1. Bad \subseteq Nat
      BY <1>0
    <3> HIDE DEF Bad
    <3> QED BY <1>1, <3>1, LeastExists, Zenon
  <2>2. n \in 0..N /\ ~ Good(n)
    BY <2>1
  <2>3. PICK T : T \subseteq Nat /\ IsFiniteSet(T) /\ Cardinality(T) = n /\ ~ Sorts(T, n)
    <3> HIDE DEF Sorts
    <3> QED BY <2>2
  <2>4. n # 0
    <3>1. ASSUME n = 0 PROVE FALSE
      <4> DEFINE s == [i \in 1..n |-> 0]
      <4>1. s \in [1..n -> T] /\ Rises(s, n)
        BY <3>1 DEF Rises
      <4> QED BY <2>3, <4>1
    <3> QED BY <3>1
  <2>5. T # {}
    BY <2>3, <2>4, FS_EmptySet
  <2>6. PICK x \in T : \A y \in T : x <= y
    BY <2>3, <2>5, LeastExists
  <2>7. /\ T \ {x} \subseteq Nat /\ IsFiniteSet(T \ {x}) /\ Cardinality(T \ {x}) = n - 1
        /\ n - 1 \in 0..N /\ ~ (n <= n - 1)
    <3>1. IsFiniteSet(T \ {x}) /\ Cardinality(T \ {x}) = Cardinality(T) - 1
      BY <2>3, <2>6, FS_RemoveElement
    <3> QED BY <1>0, <2>2, <2>3, <2>4, <3>1
  <2>8. Good(n - 1)
    <3> HIDE DEF Good
    <3> QED BY <2>1, <2>7
  <2>9. PICK s \in [1..(n - 1) -> T \ {x}] : Rises(s, n - 1)
    BY <2>7, <2>8
  <2> DEFINE r == [i \in 1..n |-> IF i = 1 THEN x ELSE s[i - 1]]
  <2>10. ASSUME NEW i \in 1..n, i # 1 PROVE i - 1 \in 1..(n - 1) /\ r[i] = s[i - 1] /\ r[i] \in T \ {x}
    <3>1. i - 1 \in 1..(n - 1)
      BY <2>2, <2>10
    <3>2. r[i] = s[i - 1]
      BY <2>10
    <3> QED BY <2>9, <3>1, <3>2
  <2>11. r[1] = x /\ 1 \in 1..n
    BY <2>2, <2>4
  <2>12. r \in [1..n -> T]
    <3>1. DOMAIN r = 1..n /\ r = [i \in 1..n |-> r[i]]
      OBVIOUS
    <3> HIDE DEF r
    <3>2. \A i \in 1..n : r[i] \in T
      BY <2>6, <2>10, <2>11
    <3> QED BY <3>1, <3>2
  <2> HIDE DEF r
  <2>13. ASSUME NEW i \in 1..n, NEW j \in 1..n, i < j PROVE r[i] < r[j]
    <3>1. j # 1 /\ j - 1 \in 1..(n - 1) /\ r[j] = s[j - 1] /\ r[j] \in T \ {x}
      BY <2>2, <2>10, <2>13
    <3>2. CASE i = 1
      <4>1. r[i] = x /\ r[j] \in Nat /\ x \in Nat /\ x <= r[j] /\ x # r[j]
        BY <2>3, <2>6, <2>11, <3>1, <3>2
      <4> QED BY <4>1
    <3>3. CASE i # 1
      <4>1. i - 1 \in 1..(n - 1) /\ r[i] = s[i - 1] /\ i - 1 < j - 1
        BY <2>2, <2>10, <2>13, <3>3
      <4> QED BY <2>9, <3>1, <4>1 DEF Rises
    <3> QED BY <3>2, <3>3
  <2> QED BY <2>3, <2>12, <2>13 DEF Rises
<1>2. Good(N)
  <2>1. N \in 0..N /\ N \notin Bad
    <3> HIDE DEF Bad
    <3> QED BY <1>0, <1>1
  <2> QED BY <2>1
<1> QED BY <1>2 DEF N

LEMMA SortedIs ==
    ASSUME NEW S, S \subseteq Nat, IsFiniteSet(S)
    PROVE  /\ Sorted(S) \in Seq(S) /\ Len(Sorted(S)) = Cardinality(S)
           /\ Cardinality(S) \in Nat
           /\ Rises(Sorted(S), Cardinality(S))
           /\ \A x : x \in S <=> \E i \in 1..Len(Sorted(S)) : Sorted(S)[i] = x
<1> DEFINE n == Cardinality(S)
           s == Sorted(S)
<1>1. n \in Nat
  BY FS_CardinalityType
<1>2. s \in [1..n -> S] /\ Rises(s, n)
  <2>1. \E f \in [1..n -> S] : \A i, j \in 1..n : i < j => f[i] < f[j]
    BY SortedExists DEF Rises
  <2> QED BY <2>1 DEF Sorted, Rises
<1> HIDE DEF n, s
<1>3. s \in Seq(S) /\ Len(s) = n
  BY <1>1, <1>2
<1>4. s \in Injection(1..n, S)
  <2>1. ASSUME NEW i \in 1..n, NEW j \in 1..n, s[i] = s[j] PROVE i = j
    <3>1. s[i] \in Nat /\ s[j] \in Nat
      BY <1>2
    <3>2. ~ (i < j) /\ ~ (j < i)
      BY <1>2, <2>1, <3>1 DEF Rises
    <3> QED BY <1>1, <3>2
  <2> QED BY <1>2, <2>1 DEF Injection, IsInjective
<1>5. IsFiniteSet(1..n) /\ Cardinality(1..n) = n
  <2>1. 1 \in Int /\ n \in Int
    BY <1>1
  <2>2. IsFiniteSet(1..n) /\ Cardinality(1..n) = IF 1 > n THEN 0 ELSE n - 1 + 1
    BY <2>1, FS_Interval
  <2> QED BY <1>1, <2>2
<1>6. s \in Surjection(1..n, S)
  BY <1>4, <1>5, FS_Injection DEF n
<1>7. \A x \in S : \E i \in 1..n : s[i] = x
  BY <1>6 DEF Surjection
<1> QED BY <1>1, <1>2, <1>3, <1>7 DEF n, s

\* A finite set of numbers has a greatest.
LEMMA GreatestExists ==
    ASSUME NEW S, S \subseteq Nat, IsFiniteSet(S), S # {}
    PROVE  \E x \in S : \A y \in S : y <= x
<1> DEFINE s == Sorted(S)
           n == Cardinality(S)
<1>1. /\ s \in Seq(S) /\ Len(s) = n /\ n \in Nat /\ Rises(s, n)
      /\ \A x : x \in S <=> \E i \in 1..Len(s) : s[i] = x
  BY SortedIs
<1> HIDE DEF s, n
<1>2. n \in 1..n /\ s[n] \in S
  BY <1>1
<1>3. ASSUME NEW y \in S PROVE y <= s[n]
  <2>1. PICK i \in 1..n : s[i] = y
    BY <1>1
  <2>2. i = n \/ i < n
    BY <1>1
  <2>3. s[n] \in Nat
    BY <1>2
  <2> QED BY <1>2, <2>1, <2>2, <2>3, <1>1 DEF Rises
<1> QED BY <1>2, <1>3

LEMMA BatchesAre ==
    /\ Ids \subseteq Keys /\ Docs \subseteq Keys /\ Ids \subseteq Nat \ {0}
    /\ \A b \in Ids : /\ Batch[b].peer \in Keys
                      /\ Batch[b].docs \subseteq Docs /\ IsFiniteSet(Batch[b].docs)
                      /\ Heads[b] \subseteq Ids /\ IsFiniteSet(Heads[b])
                      /\ \A h \in Heads[b] : h < b
<1>1. Keys \subseteq Nat \ {0} /\ IsFiniteSet(Keys)
  BY Constants
<1>2. Ids \subseteq Keys /\ \A b \in Ids : Batch[b].peer \in Keys /\ Batch[b].docs \subseteq Keys
  BY BatchAssumption
<1>3. \A b \in Ids : \A h \in Heads[b] : h \in Ids /\ h < b
  BY BatchAssumption
<1>4. Docs \subseteq Keys /\ \A b \in Ids : Batch[b].docs \subseteq Docs
  BY <1>2 DEF Docs
<1>5. \A T : T \subseteq Keys => IsFiniteSet(T)
  BY <1>1, FS_Subset
<1>6. \A b \in Ids : Heads[b] \subseteq Keys
  BY <1>2, <1>3
<1> QED BY <1>1, <1>2, <1>3, <1>4, <1>5, <1>6

-----------------------------------------------------------------------------
(* Recursion over sequences.                                               *)

UpsertAllUpto(t, b, docs) ==
    LET upto[i \in 0..Len(docs)] ==
            IF i = 0 THEN t ELSE Upsert(upto[i - 1], docs[i], b)
    IN  upto

LEMMA UpsertAllUptoIs ==
    ASSUME NEW t, NEW b, NEW docs, Len(docs) \in Nat
    PROVE  /\ UpsertAllUpto(t, b, docs)[0] = t
           /\ \A h \in 1..Len(docs) :
                 UpsertAllUpto(t, b, docs)[h] = Upsert(UpsertAllUpto(t, b, docs)[h - 1], docs[h], b)
           /\ UpsertAll(t, b, docs) = UpsertAllUpto(t, b, docs)[Len(docs)]
<1> DEFINE N == Len(docs)
<1>0. N \in Nat
  OBVIOUS
<1> HIDE DEF N
<1> DEFINE base == t
           Step(h, x) == Upsert(x, docs[h], b)
<1> DEFINE Solves(f, m) == f = [h \in 0..m |-> IF h = 0 THEN base ELSE Step(h, f[h - 1])]
           Bad == {m \in 0..N : ~ \E f : Solves(f, m)}
<1>1. \E f : Solves(f, N)
  <2> HIDE DEF base, Step
  <2>1. ASSUME Bad # {} PROVE FALSE
    <3>1. PICK m \in Bad : \A j \in Bad : m <= j
      <4>1. Bad \subseteq Nat
        BY <1>0
      <4> HIDE DEF Bad
      <4> QED BY <2>1, <4>1, LeastExists, Zenon
    <3>2. m \in 0..N /\ ~ \E f : Solves(f, m)
      BY <3>1
    <3>3. m # 0
      <4>1. Solves([h \in 0..0 |-> base], 0)
        OBVIOUS
      <4> HIDE DEF Solves
      <4> QED BY <4>1, <3>2
    <3>4. PICK f : Solves(f, m - 1)
      <4>1. m - 1 \in 0..N /\ ~ (m <= m - 1)
        BY <1>0, <3>2, <3>3
      <4> HIDE DEF Solves
      <4> QED BY <4>1, <3>1
    <3> DEFINE g == [h \in 0..m |-> IF h = m THEN Step(m, f[m - 1]) ELSE f[h]]
    <3>5. ASSUME NEW h \in 0..m
          PROVE  g[h] = IF h = 0 THEN base ELSE Step(h, g[h - 1])
      <4>1. h # 0 => g[h - 1] = f[h - 1]
        BY <1>0, <3>2
      <4>2. h # m => h \in 0..(m - 1) /\ g[h] = f[h]
        BY <1>0, <3>2
      <4>3. h = m => g[h] = Step(m, f[m - 1])
        OBVIOUS
      <4> HIDE DEF g
      <4> QED BY <4>1, <4>2, <4>3, <3>3, <3>4
    <3>6. Solves(g, m)
      <4>1. g = [h \in 0..m |-> g[h]]
        OBVIOUS
      <4> HIDE DEF g
      <4> QED BY <4>1, <3>5
    <3> HIDE DEF g, Solves
    <3> QED BY <3>2, <3>6
  <2>2. N \in 0..N
    BY <1>0
  <2>3. N \notin Bad
    <3> HIDE DEF Bad
    <3> QED BY <2>1
  <2> HIDE DEF Solves
  <2> QED BY <2>2, <2>3
<1> DEFINE chosen == CHOOSE f : Solves(f, N)
<1>2. Solves(chosen, N)
  <2> HIDE DEF Solves
  <2> QED BY <1>1
<1> HIDE DEF chosen, base, Step
<1>3. chosen[0] = base
  BY <1>0, <1>2
<1>4. ASSUME NEW h \in 1..N PROVE chosen[h] = Step(h, chosen[h - 1])
  <2>1. h \in 0..N /\ h # 0
    BY <1>0
  <2> QED BY <1>2, <2>1
<1> USE DEF base, Step
<1>5. UpsertAllUpto(t, b, docs) = chosen
  BY DEF UpsertAllUpto, chosen, N
<1>6. UpsertAll(t, b, docs) = UpsertAllUpto(t, b, docs)[N]
  BY DEF UpsertAll, UpsertAllUpto, N
<1> QED BY <1>3, <1>4, <1>5, <1>6 DEF N

\* u answers b for the keys in docs, and like t for all others.
Occurs(d, docs) == \E i \in 1..Len(docs) : docs[i] = d
Answers(u, t, b, docs, absent) ==
    \A d \in Keys : Lookup(u, d, absent) = IF Occurs(d, docs) THEN b ELSE Lookup(t, d, absent)

LEMMA UpsertAllIs ==
    ASSUME NEW V, NEW D, D \subseteq Keys, NEW t, Fits(t, D, V), NEW b \in V,
           NEW docs \in Seq(D), NEW absent
    PROVE  /\ Fits(UpsertAll(t, b, docs), D, V)
           /\ Answers(UpsertAll(t, b, docs), t, b, docs, absent)
           /\ Heap(t) => Heap(UpsertAll(t, b, docs))
<1> DEFINE N == Len(docs)
           u == UpsertAllUpto(t, b, docs)
           Good(n) == /\ Fits(u[n], D, V)
                      /\ \A d \in Keys : Lookup(u[n], d, absent) =
                             IF \E i \in 1..n : docs[i] = d THEN b ELSE Lookup(t, d, absent)
                      /\ Heap(t) => Heap(u[n])
           Bad == {n \in 0..N : ~ Good(n)}
<1>0. N \in Nat /\ \A i \in 1..N : docs[i] \in D
  OBVIOUS
<1>1. u[0] = t /\ (\A h \in 1..N : u[h] = Upsert(u[h - 1], docs[h], b)) /\ UpsertAll(t, b, docs) = u[N]
  BY <1>0, UpsertAllUptoIs
<1> HIDE DEF N, u
<1>2. ASSUME Bad # {} PROVE FALSE
  <2>1. PICK n \in Bad : \A j \in Bad : n <= j
    <3>1. Bad \subseteq Nat
      BY <1>0
    <3> HIDE DEF Bad
    <3> QED BY <1>2, <3>1, LeastExists, Zenon
  <2>2. n \in 0..N /\ ~ Good(n)
    BY <2>1
  <2>3. n # 0
    <3>1. Good(0)
      BY <1>1
    <3> HIDE DEF Good
    <3> QED BY <2>2, <3>1
  <2>4. n \in 1..N /\ n - 1 \in 0..N /\ ~ (n <= n - 1)
    BY <1>0, <2>2, <2>3
  <2>5. Good(n - 1)
    <3> HIDE DEF Good
    <3> QED BY <2>1, <2>4
  <2>6. u[n] = Upsert(u[n - 1], docs[n], b) /\ docs[n] \in D
    BY <1>0, <1>1, <2>4
  <2>7. Fits(u[n], D, V) /\ (Heap(t) => Heap(u[n]))
    BY <2>5, <2>6, UpsertIs
  <2>8. ASSUME NEW d \in Keys
        PROVE  Lookup(u[n], d, absent) =
                   IF \E i \in 1..n : docs[i] = d THEN b ELSE Lookup(t, d, absent)
    <3>1. Lookup(u[n], d, absent) = IF d = docs[n] THEN b ELSE Lookup(u[n - 1], d, absent)
      BY <2>5, <2>6, UpsertLooks
    <3>2. Lookup(u[n - 1], d, absent) =
              IF \E i \in 1..(n - 1) : docs[i] = d THEN b ELSE Lookup(t, d, absent)
      BY <2>5
    <3>3. (\E i \in 1..n : docs[i] = d) <=> d = docs[n] \/ \E i \in 1..(n - 1) : docs[i] = d
      <4>1. \A i : i \in 1..n <=> i = n \/ i \in 1..(n - 1)
        BY <2>4
      <4> QED BY <4>1
    <3> QED BY <3>1, <3>2, <3>3
  <2> QED BY <2>2, <2>7, <2>8
<1>3. Good(N)
  <2>1. N \in 0..N /\ N \notin Bad
    <3> HIDE DEF Bad
    <3> QED BY <1>0, <1>2
  <2> QED BY <2>1
<1> QED BY <1>1, <1>3 DEF N, Occurs, Answers

HeadsClockUpto(view, b) ==
    LET heads == Sorted(Heads[b])
        upto[i \in 0..Len(heads)] ==
            IF i = 0 THEN Nil ELSE Union(upto[i - 1], Row(view, heads[i]).clock)
    IN  upto

LEMMA HeadsClockUptoIs ==
    ASSUME NEW view, NEW b, NEW heads, heads = Sorted(Heads[b]), Len(heads) \in Nat
    PROVE  /\ HeadsClockUpto(view, b)[0] = Nil
           /\ \A h \in 1..Len(heads) :
                 HeadsClockUpto(view, b)[h] =
                     Union(HeadsClockUpto(view, b)[h - 1], Row(view, heads[h]).clock)
           /\ HeadsClock(view, b) = HeadsClockUpto(view, b)[Len(heads)]
<1> DEFINE N == Len(heads)
<1>0. N \in Nat
  OBVIOUS
<1> HIDE DEF N
<1> DEFINE base == Nil
           Step(h, x) == Union(x, Row(view, heads[h]).clock)
<1> DEFINE Solves(f, m) == f = [h \in 0..m |-> IF h = 0 THEN base ELSE Step(h, f[h - 1])]
           Bad == {m \in 0..N : ~ \E f : Solves(f, m)}
<1>1. \E f : Solves(f, N)
  <2> HIDE DEF base, Step
  <2>1. ASSUME Bad # {} PROVE FALSE
    <3>1. PICK m \in Bad : \A j \in Bad : m <= j
      <4>1. Bad \subseteq Nat
        BY <1>0
      <4> HIDE DEF Bad
      <4> QED BY <2>1, <4>1, LeastExists, Zenon
    <3>2. m \in 0..N /\ ~ \E f : Solves(f, m)
      BY <3>1
    <3>3. m # 0
      <4>1. Solves([h \in 0..0 |-> base], 0)
        OBVIOUS
      <4> HIDE DEF Solves
      <4> QED BY <4>1, <3>2
    <3>4. PICK f : Solves(f, m - 1)
      <4>1. m - 1 \in 0..N /\ ~ (m <= m - 1)
        BY <1>0, <3>2, <3>3
      <4> HIDE DEF Solves
      <4> QED BY <4>1, <3>1
    <3> DEFINE g == [h \in 0..m |-> IF h = m THEN Step(m, f[m - 1]) ELSE f[h]]
    <3>5. ASSUME NEW h \in 0..m
          PROVE  g[h] = IF h = 0 THEN base ELSE Step(h, g[h - 1])
      <4>1. h # 0 => g[h - 1] = f[h - 1]
        BY <1>0, <3>2
      <4>2. h # m => h \in 0..(m - 1) /\ g[h] = f[h]
        BY <1>0, <3>2
      <4>3. h = m => g[h] = Step(m, f[m - 1])
        OBVIOUS
      <4> HIDE DEF g
      <4> QED BY <4>1, <4>2, <4>3, <3>3, <3>4
    <3>6. Solves(g, m)
      <4>1. g = [h \in 0..m |-> g[h]]
        OBVIOUS
      <4> HIDE DEF g
      <4> QED BY <4>1, <3>5
    <3> HIDE DEF g, Solves
    <3> QED BY <3>2, <3>6
  <2>2. N \in 0..N
    BY <1>0
  <2>3. N \notin Bad
    <3> HIDE DEF Bad
    <3> QED BY <2>1
  <2> HIDE DEF Solves
  <2> QED BY <2>2, <2>3
<1> DEFINE chosen == CHOOSE f : Solves(f, N)
<1>2. Solves(chosen, N)
  <2> HIDE DEF Solves
  <2> QED BY <1>1
<1> HIDE DEF chosen, base, Step
<1>3. chosen[0] = base
  BY <1>0, <1>2
<1>4. ASSUME NEW h \in 1..N PROVE chosen[h] = Step(h, chosen[h - 1])
  <2>1. h \in 0..N /\ h # 0
    BY <1>0
  <2> QED BY <1>2, <2>1
<1> USE DEF base, Step
<1>5. HeadsClockUpto(view, b) = chosen
  BY DEF HeadsClockUpto, chosen, N
<1>6. HeadsClock(view, b) = HeadsClockUpto(view, b)[N]
  BY DEF HeadsClock, HeadsClockUpto, N
<1> QED BY <1>3, <1>4, <1>5, <1>6 DEF N

\* The clock of some batches has the largest counter each peer has in theirs.
LEMMA HeadsClockIs ==
    ASSUME NEW view, NEW b \in Ids, \A h \in Heads[b] : Fits(Row(view, h).clock, Keys, Nat)
    PROVE  /\ Fits(HeadsClock(view, b), Keys, Nat)
           /\ \A q \in Keys :
                 /\ \A h \in Heads[b] : Lookup(Row(view, h).clock, q, 0) <= Lookup(HeadsClock(view, b), q, 0)
                 /\ \/ Lookup(HeadsClock(view, b), q, 0) = 0
                    \/ \E h \in Heads[b] : Lookup(HeadsClock(view, b), q, 0) = Lookup(Row(view, h).clock, q, 0)
<1>0. Heads[b] \subseteq Nat /\ IsFiniteSet(Heads[b])
  BY BatchesAre
<1> DEFINE S == Heads[b]
           heads == Sorted(S)
           N == Len(heads)
           u == HeadsClockUpto(view, b)
           C(i) == Row(view, heads[i]).clock
           Good(n) == /\ Fits(u[n], Keys, Nat)
                      /\ \A q \in Keys :
                            /\ \A i \in 1..n : Lookup(C(i), q, 0) <= Lookup(u[n], q, 0)
                            /\ \/ Lookup(u[n], q, 0) = 0
                               \/ \E i \in 1..n : Lookup(u[n], q, 0) = Lookup(C(i), q, 0)
           Bad == {n \in 0..N : ~ Good(n)}
<1>1. /\ N \in Nat
      /\ \A i \in 1..N : heads[i] \in S
      /\ \A x \in S : \E i \in 1..N : heads[i] = x
  <2>1. /\ heads \in Seq(S) /\ N = Cardinality(S) /\ Cardinality(S) \in Nat
        /\ \A x : x \in S <=> \E i \in 1..N : heads[i] = x
    BY <1>0, SortedIs
  <2> QED BY <2>1
<1>2. /\ u[0] = Nil /\ (\A h \in 1..N : u[h] = Union(u[h - 1], C(h)))
      /\ HeadsClock(view, b) = u[N]
  BY <1>1, HeadsClockUptoIs
<1>3. \A i \in 1..N : Fits(C(i), Keys, Nat) /\ \A q \in Keys : Lookup(C(i), q, 0) \in Nat
  <2>1. \A i \in 1..N : Fits(C(i), Keys, Nat)
    BY <1>1
  <2> HIDE DEF C
  <2> QED BY <2>1, CounterIs
<1> HIDE DEF N, u, heads, C
<1>4. ASSUME Bad # {} PROVE FALSE
  <2>1. PICK n \in Bad : \A j \in Bad : n <= j
    <3>1. Bad \subseteq Nat
      BY <1>1
    <3> HIDE DEF Bad
    <3> QED BY <1>4, <3>1, LeastExists, Zenon
  <2>2. n \in 0..N /\ ~ Good(n)
    BY <2>1
  <2>3. n # 0
    <3>1. Good(0)
      BY <1>2, FitsNil, LookupNil
    <3> HIDE DEF Good
    <3> QED BY <2>2, <3>1
  <2>4. n \in 1..N /\ n - 1 \in 0..N /\ ~ (n <= n - 1)
    BY <1>1, <2>2, <2>3
  <2>5. Good(n - 1)
    <3> HIDE DEF Good
    <3> QED BY <2>1, <2>4
  <2>6. Merges(u[n], u[n - 1], C(n), Keys)
    <3>1. u[n] = Union(u[n - 1], C(n))
      BY <1>2, <2>4
    <3> QED BY <1>3, <2>4, <2>5, <3>1, UnionIs
  <2>7. \A i : i \in 1..n <=> i = n \/ i \in 1..(n - 1)
    BY <2>4
  <2>8. ASSUME NEW q \in Keys
        PROVE  /\ \A i \in 1..n : Lookup(C(i), q, 0) <= Lookup(u[n], q, 0)
               /\ \/ Lookup(u[n], q, 0) = 0
                  \/ \E i \in 1..n : Lookup(u[n], q, 0) = Lookup(C(i), q, 0)
    <3>1. Lookup(u[n], q, 0) = Larger(Lookup(u[n - 1], q, 0), Lookup(C(n), q, 0))
      BY <2>6 DEF Merges
    <3>2. /\ \A i \in 1..(n - 1) : Lookup(C(i), q, 0) <= Lookup(u[n - 1], q, 0)
          /\ \/ Lookup(u[n - 1], q, 0) = 0
             \/ \E i \in 1..(n - 1) : Lookup(u[n - 1], q, 0) = Lookup(C(i), q, 0)
      BY <2>5
    <3>3. Lookup(u[n - 1], q, 0) \in Nat /\ \A i \in 1..n : Lookup(C(i), q, 0) \in Nat
      BY <1>1, <1>3, <2>4, <2>5, CounterIs
    <3>4. \/ /\ Lookup(u[n], q, 0) = Lookup(u[n - 1], q, 0)
             /\ Lookup(C(n), q, 0) <= Lookup(u[n - 1], q, 0)
          \/ /\ Lookup(u[n], q, 0) = Lookup(C(n), q, 0)
             /\ Lookup(u[n - 1], q, 0) <= Lookup(C(n), q, 0)
      BY <2>4, <3>1, <3>3 DEF Larger
    <3>5. ASSUME NEW i \in 1..n PROVE Lookup(C(i), q, 0) <= Lookup(u[n], q, 0)
      <4>1. CASE i = n
        BY <3>3, <3>4, <4>1
      <4>2. CASE i # n
        <5>1. i \in 1..(n - 1) /\ n \in 1..n
          BY <2>4, <2>7, <4>2
        <5>2. Lookup(C(i), q, 0) <= Lookup(u[n - 1], q, 0)
          BY <3>2, <5>1
        <5>3. Lookup(C(i), q, 0) \in Nat /\ Lookup(C(n), q, 0) \in Nat
          BY <3>3, <5>1
        <5> QED BY <3>3, <3>4, <5>2, <5>3
      <4> QED BY <4>1, <4>2
    <3> QED BY <2>4, <2>7, <3>2, <3>4, <3>5
  <2> QED BY <2>2, <2>6, <2>8 DEF Merges
<1>5. Good(N)
  <2>1. N \in 0..N /\ N \notin Bad
    <3> HIDE DEF Bad
    <3> QED BY <1>1, <1>4
  <2> QED BY <2>1
<1>6. ASSUME NEW q \in Keys
      PROVE  /\ \A h \in S : Lookup(Row(view, h).clock, q, 0) <= Lookup(u[N], q, 0)
             /\ \/ Lookup(u[N], q, 0) = 0
                \/ \E h \in S : Lookup(u[N], q, 0) = Lookup(Row(view, h).clock, q, 0)
  <2>1. \A h \in S : \E i \in 1..N : Row(view, h).clock = C(i)
    BY <1>1 DEF C
  <2>2. \A i \in 1..N : heads[i] \in S /\ C(i) = Row(view, heads[i]).clock
    BY <1>1 DEF C
  <2> QED BY <1>5, <2>1, <2>2
<1> QED BY <1>2, <1>5, <1>6

-----------------------------------------------------------------------------
(* The past of a batch; the documents of a history.                        *)

LEMMA PastIs ==
    \A b \in Ids : Past[b] = {b} \cup UNION {Past[h] : h \in Heads[b]}
<1> DEFINE Solves(f, S) == f = [b \in S |-> {b} \cup UNION {f[h] : h \in Heads[b]}]
           Earlier(n) == {i \in Ids : i < n}
<1>0. Ids \subseteq Nat /\ IsFiniteSet(Ids) /\ \A b \in Ids : Heads[b] \subseteq Ids /\ \A h \in Heads[b] : h < b
  BY BatchesAre, Constants, FS_Subset
<1>1. PICK N \in Nat : Earlier(N) = Ids
  <2>1. CASE Ids = {}
    <3>1. Earlier(0) = Ids
      BY <2>1
    <3> HIDE DEF Earlier
    <3> QED BY <3>1
  <2>2. CASE Ids # {}
    <3>1. PICK m \in Ids : \A b \in Ids : b <= m
      BY <1>0, <2>2, GreatestExists
    <3>2. Earlier(m + 1) = Ids /\ m + 1 \in Nat
      <4>1. m \in Nat
        BY <1>0
      <4>2. ASSUME NEW b \in Ids PROVE b < m + 1
        <5>1. b \in Nat /\ b <= m
          BY <1>0, <3>1
        <5> QED BY <4>1, <5>1
      <4>3. Earlier(m + 1) = Ids
        BY <4>2
      <4> HIDE DEF Earlier
      <4> QED BY <4>1, <4>3
    <3> HIDE DEF Earlier
    <3> QED BY <3>2
  <2> QED BY <2>1, <2>2
<1> DEFINE Bad == {n \in 0..N : ~ \E f : Solves(f, Earlier(n))}
<1>2. ASSUME Bad # {} PROVE FALSE
  <2>1. PICK n \in Bad : \A j \in Bad : n <= j
    <3>1. Bad \subseteq Nat
      BY <1>1
    <3> HIDE DEF Bad
    <3> QED BY <1>2, <3>1, LeastExists, Zenon
  <2>2. n \in 0..N /\ ~ \E f : Solves(f, Earlier(n))
    <3> HIDE DEF Solves, Earlier
    <3> QED BY <2>1
  <2>3. n # 0
    <3>1. ASSUME n = 0 PROVE FALSE
      <4>1. Earlier(n) = {}
        <5>1. ASSUME NEW i \in Ids PROVE ~ (i < n)
          <6>1. i \in Nat
            BY <1>0
          <6> QED BY <3>1, <6>1
        <5> QED BY <5>1
      <4> HIDE DEF Earlier
      <4>2. Solves([b \in {} |-> 0], Earlier(n))
        BY <4>1
      <4> HIDE DEF Solves
      <4> QED BY <2>2, <4>2
    <3> QED BY <3>1
  <2>4. n - 1 \in 0..N /\ ~ (n <= n - 1)
    BY <1>1, <2>2, <2>3
  <2>5. PICK f : Solves(f, Earlier(n - 1))
    <3> HIDE DEF Solves, Earlier
    <3> QED BY <2>1, <2>4
  <2> DEFINE g == [b \in Earlier(n) |-> IF b = n - 1 THEN {b} \cup UNION {f[h] : h \in Heads[b]} ELSE f[b]]
  <2>6. ASSUME NEW b \in Earlier(n)
        PROVE  /\ \A h \in Heads[b] : h \in Earlier(n - 1) /\ g[h] = f[h]
               /\ b # n - 1 => b \in Earlier(n - 1)
    <3>1. b \in Ids /\ b \in Nat /\ b < n /\ n \in Nat
      BY <1>0, <2>2
    <3>2. ASSUME NEW h \in Heads[b]
          PROVE  h \in Earlier(n - 1) /\ g[h] = f[h]
      <4>1. h \in Ids /\ h \in Nat /\ h < b
        BY <1>0, <3>1
      <4>2. h < n /\ h < n - 1 /\ h # n - 1
        BY <3>1, <4>1
      <4> QED BY <4>1, <4>2
    <3>3. ASSUME b # n - 1 PROVE b < n - 1
      BY <3>1, <3>3
    <3> QED BY <3>1, <3>2, <3>3
  <2>7. ASSUME NEW b \in Earlier(n)
        PROVE  g[b] = {b} \cup UNION {g[h] : h \in Heads[b]}
    <3>1. {g[h] : h \in Heads[b]} = {f[h] : h \in Heads[b]}
      BY <2>6
    <3>2. CASE b = n - 1
      BY <3>1, <3>2
    <3>3. CASE b # n - 1
      <4>1. g[b] = f[b] /\ b \in Earlier(n - 1)
        BY <2>6, <3>3
      <4>2. f[b] = {b} \cup UNION {f[h] : h \in Heads[b]}
        <5> HIDE DEF Earlier
        <5> QED BY <2>5, <4>1
      <4> HIDE DEF g
      <4> QED BY <3>1, <4>1, <4>2
    <3> QED BY <3>2, <3>3
  <2>8. g = [b \in Earlier(n) |-> g[b]]
    OBVIOUS
  <2> HIDE DEF g, Earlier
  <2>9. Solves(g, Earlier(n))
    BY <2>7, <2>8
  <2> HIDE DEF Solves
  <2> QED BY <2>2, <2>9
<1>3. \E f : Solves(f, Ids)
  <2>1. N \in 0..N /\ N \notin Bad
    <3> HIDE DEF Bad
    <3> QED BY <1>1, <1>2
  <2> HIDE DEF Solves, Earlier
  <2> QED BY <1>1, <2>1
<1> DEFINE chosen == CHOOSE f : Solves(f, Ids)
<1>4. Solves(chosen, Ids)
  <2> HIDE DEF Solves
  <2> QED BY <1>3
<1>5. Past = chosen
  BY DEF Past
<1> HIDE DEF chosen
<1> QED BY <1>4, <1>5

LEMMA PastWithin ==
    \A b \in Ids : b \in Past[b] /\ Past[b] \subseteq Ids /\ \A x \in Past[b] : x <= b
<1>0. Ids \subseteq Nat /\ \A b \in Ids : Heads[b] \subseteq Ids /\ \A h \in Heads[b] : h < b
  BY BatchesAre
<1> DEFINE Good(b) == Past[b] \subseteq Ids /\ \A x \in Past[b] : x <= b
           Bad == {b \in Ids : ~ Good(b)}
<1>1. ASSUME Bad # {} PROVE FALSE
  <2>1. PICK b \in Bad : \A j \in Bad : b <= j
    <3>1. Bad \subseteq Nat
      BY <1>0
    <3> HIDE DEF Bad
    <3> QED BY <1>1, <3>1, LeastExists, Zenon
  <2>2. b \in Ids /\ ~ Good(b) /\ b \in Nat
    BY <1>0, <2>1
  <2>3. \A h \in Heads[b] : h \in Ids /\ h \in Nat /\ h < b /\ Good(h)
    <3>1. ASSUME NEW h \in Heads[b] PROVE h \in Ids /\ h \in Nat /\ h < b /\ ~ (b <= h)
      <4>1. h \in Ids /\ h \in Nat /\ h < b
        BY <1>0, <2>2
      <4> QED BY <2>2, <4>1
    <3> HIDE DEF Good
    <3> QED BY <2>1, <3>1
  <2>4. Past[b] = {b} \cup UNION {Past[h] : h \in Heads[b]}
    BY <2>2, PastIs
  <2>5. ASSUME NEW x \in Past[b] PROVE x \in Ids /\ x <= b
    <3>1. CASE x = b
      BY <2>2, <3>1
    <3>2. CASE \E h \in Heads[b] : x \in Past[h]
      <4>1. PICK h \in Heads[b] : x \in Past[h]
        BY <3>2
      <4>2. x \in Ids /\ x <= h /\ h < b /\ h \in Nat /\ x \in Nat
        BY <1>0, <2>3, <4>1
      <4> QED BY <2>2, <4>2
    <3> QED BY <2>4, <3>1, <3>2
  <2> QED BY <2>2, <2>5
<1>2. \A b \in Ids : b \in Past[b]
  BY PastIs
<1> QED BY <1>1, <1>2

LEMMA PastTransitive ==
    ASSUME NEW d \in Ids, NEW x \in Past[d]
    PROVE  Past[x] \subseteq Past[d]
<1>0. Ids \subseteq Nat /\ \A b \in Ids : Heads[b] \subseteq Ids /\ \A h \in Heads[b] : h < b
  BY BatchesAre
<1> DEFINE Good(b) == \A y \in Past[b] : Past[y] \subseteq Past[b]
           Bad == {b \in Ids : ~ Good(b)}
<1>1. ASSUME Bad # {} PROVE FALSE
  <2>1. PICK b \in Bad : \A j \in Bad : b <= j
    <3>1. Bad \subseteq Nat
      BY <1>0
    <3> HIDE DEF Bad
    <3> QED BY <1>1, <3>1, LeastExists, Zenon
  <2>2. b \in Ids /\ ~ Good(b) /\ b \in Nat
    BY <1>0, <2>1
  <2>3. \A h \in Heads[b] : h \in Ids /\ Good(h)
    <3>1. ASSUME NEW h \in Heads[b] PROVE h \in Ids /\ ~ (b <= h)
      <4>1. h \in Ids /\ h \in Nat /\ h < b
        BY <1>0, <2>2
      <4> QED BY <2>2, <4>1
    <3> HIDE DEF Good
    <3> QED BY <2>1, <3>1
  <2>4. Past[b] = {b} \cup UNION {Past[h] : h \in Heads[b]}
    BY <2>2, PastIs
  <2>5. \A h \in Heads[b] : Past[h] \subseteq Past[b]
    BY <2>4
  <2>6. ASSUME NEW y \in Past[b] PROVE Past[y] \subseteq Past[b]
    <3>1. CASE y = b
      BY <3>1
    <3>2. CASE \E h \in Heads[b] : y \in Past[h]
      <4>1. PICK h \in Heads[b] : y \in Past[h]
        BY <3>2
      <4>2. Past[y] \subseteq Past[h]
        BY <2>3, <4>1
      <4> QED BY <2>5, <4>1, <4>2
    <3> QED BY <2>4, <3>1, <3>2
  <2> QED BY <2>2, <2>6
<1> QED BY <1>1

\* The batch that wrote d last in h, or None.
Latest(h, d) == IF d \in DOMAIN DocumentsAt(h) THEN DocumentsAt(h)[d] ELSE None
Writers(h, d) == {i \in DOMAIN h : d \in Batch[h[i]].docs}

LEMMA LatestIs ==
    ASSUME NEW h \in Seq(Ids), NEW d \in Docs
    PROVE  /\ Writers(h, d) = {} => Latest(h, d) = None
           /\ \A i \in Writers(h, d) : (\A j \in Writers(h, d) : j <= i) => Latest(h, d) = h[i]
<1> DEFINE last(s) == CHOOSE i \in s : \A j \in s : j <= i
<1>1. DocumentsAt(h) = [e \in {c \in Docs : Writers(h, c) # {}} |-> h[last(Writers(h, e))]]
  BY DEF DocumentsAt, Writers
<1>2. Writers(h, d) = {} => Latest(h, d) = None
  BY <1>1 DEF Latest
<1>3. ASSUME NEW i \in Writers(h, d), \A j \in Writers(h, d) : j <= i
      PROVE  Latest(h, d) = h[i]
  <2>1. Latest(h, d) = h[last(Writers(h, d))]
    BY <1>1, <1>3 DEF Latest
  <2>2. Writers(h, d) \subseteq Nat
    BY DEF Writers
  <2>3. last(Writers(h, d)) = i
    <3> DEFINE W == Writers(h, d)
    <3> HIDE DEF W
    <3>1. W \subseteq Nat /\ i \in W /\ \A j \in W : j <= i
      BY <1>3, <2>2 DEF W
    <3>2. last(W) \in W /\ \A j \in W : j <= last(W)
      BY <3>1
    <3>3. last(W) = i
      <4> HIDE DEF last
      <4>1. last(W) \in Nat /\ i \in Nat /\ last(W) <= i /\ i <= last(W)
        BY <3>1, <3>2
      <4> QED BY <4>1
    <3> QED BY <3>3 DEF W
  <2> QED BY <2>1, <2>3
<1> QED BY <1>2, <1>3

LEMMA LatestAppended ==
    ASSUME NEW h \in Seq(Ids), NEW b \in Ids, NEW d \in Docs
    PROVE  Latest(Append(h, b), d) = IF d \in Batch[b].docs THEN b ELSE Latest(h, d)
<1> DEFINE g == Append(h, b)
           n == Len(h)
<1>1. /\ n \in Nat /\ g \in Seq(Ids) /\ DOMAIN h = 1..n /\ DOMAIN g = 1..(n + 1)
      /\ g[n + 1] = b /\ \A i \in 1..n : g[i] = h[i]
  OBVIOUS
<1> HIDE DEF g, n
<1>2. n + 1 \in 1..(n + 1) /\ \A i : i \in 1..(n + 1) <=> i = n + 1 \/ i \in 1..n
  BY <1>1
<1>3. CASE d \in Batch[b].docs
  <2>1. n + 1 \in Writers(g, d) /\ \A j \in Writers(g, d) : j <= n + 1
    BY <1>1, <1>2, <1>3 DEF Writers
  <2>2. Latest(g, d) = g[n + 1]
    BY <1>1, <2>1, LatestIs
  <2> QED BY <1>1, <1>3, <2>2 DEF g
<1>4. CASE d \notin Batch[b].docs
  <2>1. Writers(g, d) = Writers(h, d)
    <3>1. \A i : i \in Writers(g, d) <=> i \in Writers(h, d)
      BY <1>1, <1>2, <1>4 DEF Writers
    <3> QED BY <3>1
  <2>2. CASE Writers(h, d) = {}
    <3>1. Latest(g, d) = None /\ Latest(h, d) = None
      BY <1>1, <2>1, <2>2, LatestIs
    <3> QED BY <1>4, <3>1 DEF g
  <2>3. CASE Writers(h, d) # {}
    <3>1. Writers(h, d) \subseteq 1..n /\ IsFiniteSet(1..n) /\ 1..n \subseteq Nat
      <4>1. 1 \in Int /\ n \in Int
        BY <1>1
      <4>2. IsFiniteSet(1..n)
        BY <4>1, FS_Interval
      <4>3. Writers(h, d) \subseteq 1..n /\ 1..n \subseteq Nat
        BY <1>1 DEF Writers
      <4> QED BY <4>2, <4>3
    <3>2. IsFiniteSet(Writers(h, d)) /\ Writers(h, d) \subseteq Nat
      BY <3>1, FS_Subset
    <3>3. PICK i \in Writers(h, d) : \A j \in Writers(h, d) : j <= i
      BY <2>3, <3>2, GreatestExists
    <3>4. Latest(h, d) = h[i]
      BY <3>3, LatestIs
    <3>5. Latest(g, d) = g[i]
      BY <1>1, <2>1, <3>3, LatestIs
    <3>6. g[i] = h[i]
      BY <1>1, <3>1
    <3> QED BY <1>4, <3>4, <3>5, <3>6 DEF g
  <2> QED BY <2>2, <2>3
<1> QED BY <1>3, <1>4

LEMMA LatestEmpty ==
    ASSUME NEW d \in Docs
    PROVE  Latest(<<>>, d) = None
<1>1. <<>> \in Seq(Ids) /\ Writers(<<>>, d) = {}
  BY DEF Writers
<1> QED BY <1>1, LatestIs

LEMMA LatestWithin ==
    ASSUME NEW h \in Seq(Ids), NEW d \in Docs
    PROVE  Latest(h, d) \in Ids \cup {None}
<1>1. DOMAIN h = 1..Len(h) /\ Len(h) \in Nat
  OBVIOUS
<1>2. CASE Writers(h, d) = {}
  BY <1>2, LatestIs
<1>3. CASE Writers(h, d) # {}
  <2>1. Writers(h, d) \subseteq 1..Len(h) /\ IsFiniteSet(1..Len(h)) /\ 1..Len(h) \subseteq Nat
    <3>1. 1 \in Int /\ Len(h) \in Int
      BY <1>1
    <3> QED BY <1>1, <3>1, FS_Interval DEF Writers
  <2>2. IsFiniteSet(Writers(h, d)) /\ Writers(h, d) \subseteq Nat
    BY <2>1, FS_Subset
  <2>3. PICK i \in Writers(h, d) : \A j \in Writers(h, d) : j <= i
    BY <1>3, <2>2, GreatestExists
  <2>4. Latest(h, d) = h[i] /\ i \in 1..Len(h)
    BY <2>1, <2>3, LatestIs
  <2> QED BY <2>4
<1> QED BY <1>2, <1>3

-----------------------------------------------------------------------------
(* The rows of the accepted batches.                                       *)

Records == Ids \X Nat \X Clocks
RowSet == [batch : Ids, counter : Nat \ {0}, clock : Clocks]

PeerOf(row) == Batch[row.batch].peer
\* The rows of the batches in the past of row i's.
Behind(rows, i) == {j \in 1..Len(rows) : rows[j].batch \in Past[rows[i].batch]}

\* The clock of row i has, for each peer, the largest counter behind it.
ClockInv(rows, i) ==
    /\ Fits(rows[i].clock, Keys, Nat)
    /\ \A x \in Past[rows[i].batch] : \E j \in 1..i : rows[j].batch = x
    /\ \A j \in Behind(rows, i) : rows[j].counter <= Lookup(rows[i].clock, PeerOf(rows[j]), 0)
    /\ \A q \in Keys : Lookup(rows[i].clock, q, 0) # 0 =>
           \E j \in Behind(rows, i) : /\ PeerOf(rows[j]) = q
                                      /\ rows[j].counter = Lookup(rows[i].clock, q, 0)
    /\ rows[i].counter = Lookup(rows[i].clock, PeerOf(rows[i]), 0)
    /\ \A j \in Behind(rows, i) : j # i /\ PeerOf(rows[j]) = PeerOf(rows[i]) =>
           rows[j].counter < rows[i].counter

RowsInv(rows) ==
    /\ rows \in Seq(RowSet)
    /\ \A i, j \in 1..Len(rows) : rows[i].batch = rows[j].batch => i = j
    /\ \A i \in 1..Len(rows) : \A h \in Heads[rows[i].batch] :
           \E j \in 1..(i - 1) : rows[j].batch = h
    /\ \A i \in 1..Len(rows) : ClockInv(rows, i)

\* b is new, and what it depends on is there.
Ready(view, b) == Rows(view, b) = {} /\ \A h \in Heads[b] : Rows(view, h) # {}

LEMMA RowIs ==
    ASSUME NEW view, RowsInv(view.rows), NEW h, Rows(view, h) # {}
    PROVE  \E i \in 1..Len(view.rows) : Row(view, h) = view.rows[i] /\ view.rows[i].batch = h
<1>1. DOMAIN view.rows = 1..Len(view.rows)
  BY DEF RowsInv
<1> DEFINE i == CHOOSE j \in Rows(view, h) : TRUE
<1>2. i \in Rows(view, h)
  OBVIOUS
<1>3. i \in 1..Len(view.rows) /\ view.rows[i].batch = h
  BY <1>1, <1>2 DEF Rows
<1>4. Row(view, h) = view.rows[i]
  BY DEF Row
<1> HIDE DEF i
<1> QED BY <1>3, <1>4

LEMMA NextRowIs ==
    ASSUME NEW view, RowsInv(view.rows), NEW b \in Ids, Ready(view, b)
    PROVE  /\ NextRow(view, b) \in RowSet /\ NextRow(view, b).batch = b
           /\ Fits(NextRow(view, b).clock, Keys, Nat)
           /\ Fits(HeadsClock(view, b), Keys, Nat)
           /\ NextRow(view, b).counter = Lookup(HeadsClock(view, b), Batch[b].peer, 0) + 1
           /\ \A q \in Keys : Lookup(NextRow(view, b).clock, q, 0) =
                  IF q = Batch[b].peer THEN NextRow(view, b).counter
                  ELSE Lookup(HeadsClock(view, b), q, 0)
<1> DEFINE clock == HeadsClock(view, b)
           peer == Batch[b].peer
           counter == Lookup(clock, peer, 0) + 1
           row == NextRow(view, b)
<1>1. peer \in Keys
  BY BatchesAre
<1>2. Fits(clock, Keys, Nat)
  <2>1. ASSUME NEW h \in Heads[b] PROVE Fits(Row(view, h).clock, Keys, Nat)
    <3>1. PICK i \in 1..Len(view.rows) : Row(view, h) = view.rows[i]
      BY RowIs DEF Ready
    <3>2. ClockInv(view.rows, i)
      BY DEF RowsInv
    <3> QED BY <3>1, <3>2 DEF ClockInv
  <2> QED BY <2>1, HeadsClockIs
<1>3. row = [batch |-> b, counter |-> counter, clock |-> UpsertClock(clock, peer, counter)]
  BY DEF NextRow, RowBehind
<1> HIDE DEF clock, peer
<1>4. Lookup(clock, peer, 0) \in Nat
  BY <1>1, <1>2, CounterIs
<1>5. /\ Fits(UpsertClock(clock, peer, counter), Keys, Nat)
      /\ \A q \in Keys : Lookup(UpsertClock(clock, peer, counter), q, 0) =
             IF q = peer THEN Larger(counter, Lookup(clock, peer, 0)) ELSE Lookup(clock, q, 0)
  <2>1. counter \in Nat
    BY <1>4
  <2> HIDE DEF counter
  <2> QED BY <1>1, <1>2, <2>1, UpsertClockIs
<1>6. Larger(counter, Lookup(clock, peer, 0)) = counter
  BY <1>4 DEF Larger
<1>7. row.batch = b /\ row.counter = counter /\ row.clock = UpsertClock(clock, peer, counter)
  BY <1>3
<1>8. row \in RowSet
  <2>1. UpsertClock(clock, peer, counter) \in Clocks /\ counter \in Nat \ {0}
    BY <1>4, <1>5 DEF Fits, Clocks
  <2> HIDE DEF counter, row
  <2> QED BY <1>3, <2>1 DEF RowSet
<1> QED BY <1>2, <1>5, <1>6, <1>7, <1>8 DEF clock, peer

LEMMA RowFields ==
    ASSUME NEW rows \in Seq(RowSet)
    PROVE  /\ Len(rows) \in Nat
           /\ \A i \in 1..Len(rows) : /\ rows[i] \in RowSet /\ rows[i].batch \in Ids
                                      /\ rows[i].counter \in Nat \ {0} /\ rows[i].clock \in Clocks
                                      /\ PeerOf(rows[i]) \in Keys
<1>1. \A i \in 1..Len(rows) : rows[i] \in RowSet
  OBVIOUS
<1>2. \A row \in RowSet : row.batch \in Ids /\ row.counter \in Nat \ {0} /\ row.clock \in Clocks
  BY DEF RowSet
<1>3. \A row \in RowSet : PeerOf(row) \in Keys
  BY <1>2, BatchesAre DEF PeerOf
<1>4. Len(rows) \in Nat
  OBVIOUS
<1> QED BY <1>1, <1>2, <1>3, <1>4

LEMMA ClocksStay ==
    ASSUME NEW rows, RowsInv(rows), NEW row \in RowSet, \A i \in 1..Len(rows) : rows[i].batch # row.batch,
           NEW i \in 1..Len(rows)
    PROVE  ClockInv(Append(rows, row), i)
<1> DEFINE more == Append(rows, row)
           n == Len(rows)
<1>1. /\ n \in Nat /\ Len(more) = n + 1 /\ (\A j \in 1..n : more[j] = rows[j]) /\ more[n + 1] = row
      /\ i \in 1..n
  BY DEF RowsInv
<1>2. ClockInv(rows, i)
  BY DEF RowsInv
<1> HIDE DEF more, n
<1>3. more[i] = rows[i] /\ i \in Nat /\ i <= n /\ (\A j \in 1..i : j \in 1..n /\ more[j] = rows[j])
  BY <1>1
<1>4. row.batch \notin Past[rows[i].batch]
  <2>1. \A x \in Past[rows[i].batch] : \E j \in 1..i : rows[j].batch = x
    BY <1>2 DEF ClockInv
  <2> QED BY <1>3, <2>1 DEF n
<1>5. Behind(more, i) = Behind(rows, i) /\ \A j \in Behind(rows, i) : more[j] = rows[j]
  <2>1. \A j : j \in Behind(more, i) <=> j \in 1..(n + 1) /\ more[j].batch \in Past[rows[i].batch]
    BY <1>1, <1>3 DEF Behind
  <2>2. \A j : j \in Behind(rows, i) <=> j \in 1..n /\ rows[j].batch \in Past[rows[i].batch]
    BY DEF Behind, n
  <2>3. \A j : j \in 1..(n + 1) <=> j = n + 1 \/ j \in 1..n
    BY <1>1
  <2>4. \A j : j \in Behind(more, i) <=> j \in Behind(rows, i)
    BY <1>1, <1>4, <2>1, <2>2, <2>3
  <2> QED BY <1>1, <2>2, <2>4
<1>6. \A x \in Past[more[i].batch] : \E j \in 1..i : more[j].batch = x
  BY <1>2, <1>3 DEF ClockInv
<1>7. \A j \in Behind(more, i) :
         more[j].counter <= Lookup(more[i].clock, PeerOf(more[j]), 0)
  BY <1>2, <1>3, <1>5 DEF ClockInv
<1>8. \A q \in Keys : Lookup(more[i].clock, q, 0) # 0 =>
         \E j \in Behind(more, i) : /\ PeerOf(more[j]) = q
                                    /\ more[j].counter = Lookup(more[i].clock, q, 0)
  <2>1. \A q \in Keys : Lookup(rows[i].clock, q, 0) # 0 =>
           \E j \in Behind(rows, i) : /\ PeerOf(rows[j]) = q
                                      /\ rows[j].counter = Lookup(rows[i].clock, q, 0)
    BY <1>2 DEF ClockInv
  <2> QED BY <1>3, <1>5, <2>1
<1>9. \A j \in Behind(more, i) : j # i /\ PeerOf(more[j]) = PeerOf(more[i]) =>
         more[j].counter < more[i].counter
  BY <1>2, <1>3, <1>5 DEF ClockInv
<1>10. Fits(more[i].clock, Keys, Nat) /\ more[i].counter = Lookup(more[i].clock, PeerOf(more[i]), 0)
  BY <1>2, <1>3 DEF ClockInv
<1>11. ClockInv(more, i)
  BY <1>6, <1>7, <1>8, <1>9, <1>10 DEF ClockInv
<1> QED BY <1>11 DEF more

LEMMA ClockNew ==
    ASSUME NEW view, RowsInv(view.rows), NEW b \in Ids, Ready(view, b)
    PROVE  ClockInv(Append(view.rows, NextRow(view, b)), Len(view.rows) + 1)
<1> DEFINE rows == view.rows
           row == NextRow(view, b)
           more == Append(rows, row)
           n == Len(rows)
           clock == HeadsClock(view, b)
           peer == Batch[b].peer
<1>0. rows \in Seq(RowSet)
  BY DEF RowsInv
<1>1. /\ row \in RowSet /\ row.batch = b
      /\ Fits(row.clock, Keys, Nat) /\ Fits(clock, Keys, Nat)
      /\ row.counter = Lookup(clock, peer, 0) + 1
      /\ \A q \in Keys : Lookup(row.clock, q, 0) =
             IF q = peer THEN row.counter ELSE Lookup(clock, q, 0)
  BY NextRowIs
<1>2. \A q \in Keys :
         /\ \A h \in Heads[b] : Lookup(Row(view, h).clock, q, 0) <= Lookup(clock, q, 0)
         /\ \/ Lookup(clock, q, 0) = 0
            \/ \E h \in Heads[b] : Lookup(clock, q, 0) = Lookup(Row(view, h).clock, q, 0)
  <2>1. ASSUME NEW h \in Heads[b] PROVE Fits(Row(view, h).clock, Keys, Nat)
    <3>1. PICK i \in 1..Len(view.rows) : Row(view, h) = view.rows[i]
      BY RowIs DEF Ready
    <3>2. ClockInv(view.rows, i)
      BY DEF RowsInv
    <3> QED BY <3>1, <3>2 DEF ClockInv
  <2> QED BY <2>1, HeadsClockIs
<1>3. \A h \in Heads[b] : \E i \in 1..n : Row(view, h) = rows[i] /\ rows[i].batch = h
  BY RowIs DEF Ready
<1>4. \A i \in 1..n : ClockInv(rows, i) /\ rows[i].batch # b
  <2>1. DOMAIN rows = 1..n
    BY <1>0
  <2> QED BY <2>1 DEF RowsInv, Ready, Rows
<1>5. n \in Nat /\ Len(more) = n + 1 /\ (\A j \in 1..n : more[j] = rows[j]) /\ more[n + 1] = row
  BY <1>0, <1>1
<1>6. peer \in Keys
  BY BatchesAre
<1>7. /\ \A i \in 1..n : rows[i].batch \in Ids /\ rows[i].counter \in Nat \ {0} /\ PeerOf(rows[i]) \in Keys
      /\ row.counter \in Nat \ {0}
  <2>1. row.counter \in Nat \ {0}
    BY <1>1 DEF RowSet
  <2> QED BY <1>0, <2>1, RowFields
<1>8. \A q \in Keys : Lookup(clock, q, 0) \in Nat
  BY <1>1, CounterIs
<1> HIDE DEF rows, row, more, n, clock, peer
\* What is behind the new row is behind one of its heads, or itself.
<1>9. Past[b] = {b} \cup UNION {Past[h] : h \in Heads[b]}
  BY PastIs
<1>10. \A j : j \in 1..(n + 1) <=> j = n + 1 \/ j \in 1..n
  BY <1>5
<1>11. \A j : j \in Behind(more, n + 1) <=> j = n + 1 \/ (j \in 1..n /\ rows[j].batch \in Past[b])
  <2>1. \A j : j \in Behind(more, n + 1) <=> j \in 1..(n + 1) /\ more[j].batch \in Past[b]
    BY <1>1, <1>5 DEF Behind
  <2> QED BY <1>1, <1>5, <1>9, <1>10, <2>1
<1>12. ASSUME NEW h \in Heads[b]
       PROVE  \E i \in 1..n : /\ Row(view, h) = rows[i]
                              /\ \A j : j \in Behind(rows, i) <=> j \in 1..n /\ rows[j].batch \in Past[h]
                              /\ \A j \in Behind(rows, i) : rows[j].batch \in Past[b]
                              /\ ClockInv(rows, i)
  <2>1. PICK i \in 1..n : Row(view, h) = rows[i] /\ rows[i].batch = h
    BY <1>3
  <2>2. \A j : j \in Behind(rows, i) <=> j \in 1..n /\ rows[j].batch \in Past[h]
    BY <2>1 DEF Behind, n
  <2> QED BY <1>4, <1>9, <2>1, <2>2
\* Every counter behind a head is at most the clock's.
<1>13. ASSUME NEW j \in 1..n, rows[j].batch \in Past[b]
       PROVE  rows[j].counter <= Lookup(clock, PeerOf(rows[j]), 0)
  <2>1. PICK h \in Heads[b] : rows[j].batch \in Past[h]
    BY <1>4, <1>9, <1>13
  <2>2. PICK i \in 1..n : /\ Row(view, h) = rows[i]
                          /\ \A k : k \in Behind(rows, i) <=> k \in 1..n /\ rows[k].batch \in Past[h]
                          /\ ClockInv(rows, i)
    BY <1>12
  <2>3. rows[j].counter <= Lookup(rows[i].clock, PeerOf(rows[j]), 0)
    BY <2>1, <2>2 DEF ClockInv
  <2>4. Lookup(rows[i].clock, PeerOf(rows[j]), 0) <= Lookup(clock, PeerOf(rows[j]), 0)
    BY <1>2, <1>7, <2>2
  <2>5. Lookup(rows[i].clock, PeerOf(rows[j]), 0) \in Nat
    BY <1>7, <2>2, CounterIs DEF ClockInv
  <2> QED BY <1>7, <1>8, <2>3, <2>4, <2>5
<1>14. ASSUME NEW x \in Past[b] PROVE \E j \in 1..(n + 1) : more[j].batch = x
  <2>1. CASE x = b
    BY <1>1, <1>5, <1>10, <2>1
  <2>2. CASE x # b
    <3>1. PICK h \in Heads[b] : x \in Past[h]
      BY <1>9, <2>2
    <3>2. PICK i \in 1..n : rows[i].batch = h
      BY <1>3
    <3>3. PICK j \in 1..i : rows[j].batch = x
      BY <1>4, <3>1, <3>2 DEF ClockInv
    <3>4. j \in 1..n
      BY <1>5, <3>2, <3>3
    <3> QED BY <1>5, <1>10, <3>3, <3>4
  <2> QED BY <2>1, <2>2
<1>15. ASSUME NEW j \in Behind(more, n + 1)
       PROVE  more[j].counter <= Lookup(row.clock, PeerOf(more[j]), 0)
  <2>1. CASE j = n + 1
    BY <1>1, <1>5, <1>6, <1>7, <2>1 DEF PeerOf, peer
  <2>2. CASE j # n + 1
    <3>1. j \in 1..n /\ rows[j].batch \in Past[b] /\ more[j] = rows[j]
      BY <1>5, <1>11, <2>2
    <3>2. rows[j].counter <= Lookup(clock, PeerOf(rows[j]), 0)
      BY <1>13, <3>1
    <3>3. /\ Lookup(clock, PeerOf(rows[j]), 0) \in Nat /\ rows[j].counter \in Nat
          /\ Lookup(clock, peer, 0) \in Nat
      BY <1>6, <1>7, <1>8, <3>1
    <3>4. Lookup(row.clock, PeerOf(rows[j]), 0) =
              IF PeerOf(rows[j]) = peer THEN row.counter ELSE Lookup(clock, PeerOf(rows[j]), 0)
      BY <1>1, <1>7, <3>1
    <3>5. CASE PeerOf(rows[j]) = peer
      BY <1>1, <3>1, <3>2, <3>3, <3>4, <3>5
    <3>6. CASE PeerOf(rows[j]) # peer
      BY <3>1, <3>2, <3>4, <3>6
    <3> QED BY <3>5, <3>6
  <2> QED BY <2>1, <2>2
<1>16. ASSUME NEW q \in Keys, Lookup(row.clock, q, 0) # 0
       PROVE  \E j \in Behind(more, n + 1) : /\ PeerOf(more[j]) = q
                                             /\ more[j].counter = Lookup(row.clock, q, 0)
  <2>1. CASE q = peer
    <3>1. n + 1 \in Behind(more, n + 1) /\ more[n + 1] = row /\ PeerOf(row) = q
      BY <1>1, <1>5, <1>11, <2>1 DEF PeerOf, peer
    <3> QED BY <1>1, <2>1, <3>1
  <2>2. CASE q # peer
    <3>1. Lookup(row.clock, q, 0) = Lookup(clock, q, 0) /\ Lookup(clock, q, 0) # 0
      BY <1>1, <1>16, <2>2
    <3>2. PICK h \in Heads[b] : Lookup(clock, q, 0) = Lookup(Row(view, h).clock, q, 0)
      BY <1>2, <3>1
    <3>3. PICK i \in 1..n : /\ Row(view, h) = rows[i]
                            /\ \A j : j \in Behind(rows, i) <=> j \in 1..n /\ rows[j].batch \in Past[h]
                            /\ \A j \in Behind(rows, i) : rows[j].batch \in Past[b]
                            /\ ClockInv(rows, i)
      BY <1>12
    <3>4. PICK j \in Behind(rows, i) : /\ PeerOf(rows[j]) = q
                                       /\ rows[j].counter = Lookup(rows[i].clock, q, 0)
      BY <3>1, <3>2, <3>3 DEF ClockInv
    <3>5. j \in 1..n /\ rows[j].batch \in Past[b]
      BY <3>3, <3>4
    <3>6. j \in Behind(more, n + 1) /\ more[j] = rows[j]
      BY <1>5, <1>11, <3>5
    <3> QED BY <3>1, <3>2, <3>3, <3>4, <3>6
  <2> QED BY <2>1, <2>2
<1>17. row.counter = Lookup(row.clock, PeerOf(row), 0)
  BY <1>1, <1>6 DEF PeerOf, peer
<1>18. ASSUME NEW j \in Behind(more, n + 1), j # n + 1, PeerOf(more[j]) = PeerOf(row)
       PROVE  more[j].counter < row.counter
  <2>1. j \in 1..n /\ rows[j].batch \in Past[b] /\ more[j] = rows[j]
    BY <1>5, <1>11, <1>18
  <2>2. PeerOf(rows[j]) = peer
    BY <1>1, <1>18, <2>1 DEF PeerOf, peer
  <2>3. rows[j].counter <= Lookup(clock, peer, 0)
    BY <1>13, <2>1, <2>2
  <2>4. rows[j].counter \in Nat /\ Lookup(clock, peer, 0) \in Nat
    BY <1>6, <1>7, <1>8, <2>1
  <2> QED BY <1>1, <2>1, <2>3, <2>4
<1>19. more[n + 1] = row
  BY <1>5
<1>20. ClockInv(more, n + 1)
  BY <1>1, <1>14, <1>15, <1>16, <1>17, <1>18, <1>19 DEF ClockInv
<1> QED BY <1>20 DEF more, n, rows, row

LEMMA RowsGrow ==
    ASSUME NEW view, RowsInv(view.rows), NEW b \in Ids, Ready(view, b)
    PROVE  RowsInv(Append(view.rows, NextRow(view, b)))
<1> DEFINE rows == view.rows
           row == NextRow(view, b)
           more == Append(rows, row)
           n == Len(rows)
<1>0. rows \in Seq(RowSet) /\ DOMAIN rows = 1..n
  BY DEF RowsInv
<1>1. row \in RowSet /\ row.batch = b
  BY NextRowIs
<1>2. /\ n \in Nat /\ Len(more) = n + 1 /\ (\A j \in 1..n : more[j] = rows[j]) /\ more[n + 1] = row
      /\ more \in Seq(RowSet)
  BY <1>0, <1>1
<1>3. \A i \in 1..n : rows[i].batch # b
  BY <1>0 DEF Ready, Rows
<1>4. \A h \in Heads[b] : \E i \in 1..n : rows[i].batch = h
  BY RowIs DEF Ready
<1>5. \A i \in 1..n : ClockInv(more, i)
  BY <1>1, <1>3, ClocksStay
<1>6. ClockInv(more, n + 1)
  BY ClockNew
<1>7. /\ \A i, j \in 1..n : rows[i].batch = rows[j].batch => i = j
      /\ \A i \in 1..n : \A h \in Heads[rows[i].batch] : \E j \in 1..(i - 1) : rows[j].batch = h
  BY DEF RowsInv
<1> HIDE DEF more, rows, row, n
<1>8. \A i : i \in 1..(n + 1) <=> i = n + 1 \/ i \in 1..n
  BY <1>2
<1>9. ASSUME NEW i \in 1..(n + 1), NEW j \in 1..(n + 1), more[i].batch = more[j].batch
      PROVE  i = j
  BY <1>1, <1>2, <1>3, <1>7, <1>8, <1>9
<1>10. ASSUME NEW i \in 1..(n + 1), NEW h \in Heads[more[i].batch]
       PROVE  \E j \in 1..(i - 1) : more[j].batch = h
  <2>1. CASE i = n + 1
    <3>1. PICK j \in 1..n : rows[j].batch = h
      BY <1>1, <1>2, <1>4, <1>10, <2>1
    <3>2. j \in 1..(i - 1) /\ more[j] = rows[j]
      BY <1>2, <2>1, <3>1
    <3> QED BY <3>1, <3>2
  <2>2. CASE i # n + 1
    <3>1. i \in 1..n /\ more[i] = rows[i]
      BY <1>2, <1>8, <2>2
    <3>2. PICK j \in 1..(i - 1) : rows[j].batch = h
      BY <1>7, <1>10, <3>1
    <3>3. j \in 1..n /\ more[j] = rows[j]
      BY <1>2, <3>1, <3>2
    <3> QED BY <3>2, <3>3
  <2> QED BY <2>1, <2>2
<1>11. \A i \in 1..(n + 1) : ClockInv(more, i)
  BY <1>5, <1>6, <1>8
<1>12. RowsInv(more)
  BY <1>2, <1>9, <1>10, <1>11 DEF RowsInv
<1> QED BY <1>12 DEF more, rows, row

-----------------------------------------------------------------------------
(* What a connection sees.                                                 *)

IsRoot(r) ==
    /\ r = [count |-> r.count, docs |-> r.docs, batches |-> r.batches]
    /\ r.count \in Nat /\ Fits(r.docs, Docs, Ids) /\ Fits(r.batches, Keys, Records)

\* The first n batches.
Prefix(view, n) == [i \in 1..n |-> view.rows[i].batch]

\* The document map of r is that of a prefix of the view's history.
MirrorsAt(r, view) ==
    /\ IsRoot(r) /\ r.count <= view.root.count
    /\ \A d \in Docs : Lookup(r.docs, d, None) = Latest(Prefix(view, r.count), d)

IsFile(v) ==
    /\ v = [root |-> v.root, rows |-> v.rows, table |-> v.table,
            stamp |-> v.stamp, recorded |-> v.recorded]
    /\ IsRoot(v.root) /\ IsRoot(v.stamp) /\ DOMAIN v.table = Docs
    /\ v.root.count <= Len(v.rows) /\ Len(v.rows) <= v.root.count + 1
    /\ v.recorded \subseteq 1..Len(v.rows)

StampInv(v) ==
    /\ v.stamp = v.root => v.recorded = 1..v.root.count
    /\ v.stamp.count <= Len(v.rows)

MapInv(v) ==
    /\ MirrorsAt(v.root, v) /\ Heap(v.root.docs)
    /\ \A b \in Ids : Lookup(v.root.batches, b, <<>>) # <<>> <=>
                          \E i \in 1..v.root.count : v.rows[i].batch = b

Good(v) == IsFile(v) /\ RowsInv(v.rows) /\ StampInv(v) /\ MapInv(v)

LEMMA GoodIs ==
    ASSUME NEW v, Good(v)
    PROVE  /\ v.rows \in Seq(RowSet) /\ Len(v.rows) \in Nat /\ v.root.count \in Nat
           /\ DOMAIN v.rows = 1..Len(v.rows)
           /\ v.root.count \in 0..Len(v.rows) /\ Len(v.rows) \in v.root.count..(v.root.count + 1)
           /\ v.stamp.count \in Nat /\ v.stamp # Nil /\ v # Closed
           /\ \A i \in 1..Len(v.rows) : v.rows[i].batch \in Ids
<1>1. v.rows \in Seq(RowSet) /\ v.root.count \in Nat /\ v.stamp.count \in Nat
  BY DEF Good, RowsInv, IsFile, IsRoot
<1>2. Len(v.rows) \in Nat /\ DOMAIN v.rows = 1..Len(v.rows)
  BY <1>1
<1>3. v.root.count \in 0..Len(v.rows) /\ Len(v.rows) \in v.root.count..(v.root.count + 1)
  BY <1>1, <1>2 DEF Good, IsFile
<1>4. v.stamp # Nil
  <2>1. v.stamp = [count |-> v.stamp.count, docs |-> v.stamp.docs, batches |-> v.stamp.batches]
    BY DEF Good, IsFile, IsRoot
  <2>2. "count" \in DOMAIN v.stamp
    BY <2>1
  <2>3. "count" \notin DOMAIN Nil
    BY DEF Nil
  <2> QED BY <2>2, <2>3
<1>5. Closed.stamp = Nil
  BY DEF Closed, EmptyFile
<1>6. v # Closed
  BY <1>4, <1>5
<1>7. \A i \in 1..Len(v.rows) : v.rows[i].batch \in Ids
  BY <1>1, RowFields
<1> QED BY <1>1, <1>2, <1>3, <1>4, <1>6, <1>7

LEMMA PrefixIs ==
    ASSUME NEW v, Good(v), NEW n \in 0..Len(v.rows)
    PROVE  Prefix(v, n) \in Seq(Ids) /\ Len(Prefix(v, n)) = n
<1>1. n \in Nat /\ \A i \in 1..n : v.rows[i].batch \in Ids
  <2>1. Len(v.rows) \in Nat /\ \A i \in 1..Len(v.rows) : v.rows[i].batch \in Ids
    BY GoodIs
  <2> QED BY <2>1
<1> QED BY <1>1 DEF Prefix

LEMMA EmptyGood == Good(EmptyFile)
<1> DEFINE f == EmptyFile
<1>1. /\ f.root = EmptyRoot /\ f.rows = <<>> /\ f.table = [d \in Docs |-> Nil]
      /\ f.stamp = EmptyRoot /\ f.recorded = {}
      /\ f = [root |-> f.root, rows |-> f.rows, table |-> f.table,
              stamp |-> f.stamp, recorded |-> f.recorded]
  BY DEF EmptyFile
<1> HIDE DEF f
<1>2. /\ EmptyRoot.count = 0 /\ EmptyRoot.docs = Nil /\ EmptyRoot.batches = Nil
      /\ IsRoot(EmptyRoot)
  <2>1. Fits(Nil, Docs, Ids) /\ Fits(Nil, Keys, Records)
    BY FitsNil
  <2> QED BY <2>1 DEF EmptyRoot, IsRoot
<1>3. Len(f.rows) = 0 /\ f.rows \in Seq(RowSet)
  BY <1>1
<1>4. IsFile(f)
  BY <1>1, <1>2, <1>3 DEF IsFile
<1>5. RowsInv(f.rows)
  BY <1>3 DEF RowsInv
<1>6. StampInv(f)
  BY <1>1, <1>2, <1>3 DEF StampInv
<1>7. MapInv(f)
  <2>1. Prefix(f, 0) = <<>>
    BY DEF Prefix
  <2>2. \A d \in Docs : Lookup(Nil, d, None) = None /\ Latest(<<>>, d) = None
    BY BatchesAre, LookupNil, LatestEmpty
  <2>3. \A b \in Ids : Lookup(Nil, b, <<>>) = <<>>
    BY BatchesAre, LookupNil
  <2> QED BY <1>1, <1>2, <2>1, <2>2, <2>3, HeapNil DEF MapInv, MirrorsAt
<1>8. Good(f)
  BY <1>4, <1>5, <1>6, <1>7 DEF Good
<1> QED BY <1>8 DEF f

\* The checks that precede every writer's step.
Admits(v, b) == Ready(v, b) /\ Len(v.rows) = v.root.count

LEMMA WrittenDocsAre ==
    ASSUME NEW b \in Ids
    PROVE  /\ WrittenDocs(b) \in Seq(Docs) /\ Len(WrittenDocs(b)) \in Nat
           /\ \A d : d \in Batch[b].docs <=> Occurs(d, WrittenDocs(b))
<1> DEFINE S == Batch[b].docs
<1>1. S \subseteq Docs /\ S \subseteq Nat /\ IsFiniteSet(S)
  BY BatchesAre, Constants
<1>2. /\ Sorted(S) \in Seq(S)
      /\ \A x : x \in S <=> \E i \in 1..Len(Sorted(S)) : Sorted(S)[i] = x
  BY <1>1, SortedIs
<1>3. Sorted(S) \in Seq(Docs) /\ Len(Sorted(S)) \in Nat
  BY <1>1, <1>2
<1> QED BY <1>2, <1>3 DEF WrittenDocs, Occurs

LEMMA PostIs ==
    ASSUME NEW v, Good(v), NEW b \in Ids, Admits(v, b)
    PROVE  /\ IsRoot(Post(v, v.root, b))
           /\ Post(v, v.root, b).count = v.root.count + 1
           /\ \A d \in Docs : Lookup(Post(v, v.root, b).docs, d, None) =
                  IF d \in Batch[b].docs THEN b ELSE Lookup(v.root.docs, d, None)
           /\ \A c \in Ids : Lookup(Post(v, v.root, b).batches, c, <<>>) # <<>> <=>
                  c = b \/ Lookup(v.root.batches, c, <<>>) # <<>>
           /\ Heap(Post(v, v.root, b).docs)
<1> DEFINE r == v.root
           row == NextRow(v, b)
           record == CausalRecord(row)
           docs == UpsertAll(r.docs, b, WrittenDocs(b))
           batches == Upsert(r.batches, b, record)
<1>1. IsRoot(r) /\ r.count \in Nat /\ Fits(r.docs, Docs, Ids) /\ Fits(r.batches, Keys, Records)
      /\ Heap(r.docs)
  BY DEF Good, IsFile, IsRoot, MapInv
<1>2. record \in Records /\ record # <<>>
  <2>1. row \in RowSet
    BY NextRowIs DEF Good, Admits
  <2>2. row.batch \in Ids /\ row.counter \in Nat /\ row.clock \in Clocks
    BY <2>1 DEF RowSet
  <2> HIDE DEF row
  <2> QED BY <2>2 DEF CausalRecord, Records
<1>3. Post(v, v.root, b) = [count |-> r.count + 1, docs |-> docs, batches |-> batches]
  BY DEF Post, UpsertDocs
<1> HIDE DEF r, record
<1>4. b \in Keys /\ Docs \subseteq Keys /\ Ids \subseteq Keys
  BY BatchesAre
<1>5. /\ Fits(docs, Docs, Ids)
      /\ \A d \in Keys : Lookup(docs, d, None) =
             IF Occurs(d, WrittenDocs(b)) THEN b ELSE Lookup(r.docs, d, None)
      /\ Heap(docs)
  <2>1. WrittenDocs(b) \in Seq(Docs) /\ b \in Ids
    BY WrittenDocsAre
  <2> DEFINE list == WrittenDocs(b)
             old == r.docs
  <2>2. list \in Seq(Docs) /\ Fits(old, Docs, Ids) /\ Heap(old)
    BY <1>1, <2>1
  <2> HIDE DEF list, old
  <2>3. /\ Fits(UpsertAll(old, b, list), Docs, Ids)
        /\ Answers(UpsertAll(old, b, list), old, b, list, None)
        /\ Heap(UpsertAll(old, b, list))
    BY <1>4, <2>1, <2>2, UpsertAllIs
  <2> QED BY <2>3 DEF list, old, Answers
<1>6. \A d \in Docs : Lookup(docs, d, None) =
                          IF d \in Batch[b].docs THEN b ELSE Lookup(r.docs, d, None)
  <2>1. \A d : d \in Batch[b].docs <=> Occurs(d, WrittenDocs(b))
    BY WrittenDocsAre
  <2> HIDE DEF docs
  <2> QED BY <1>4, <1>5, <2>1
<1>7. Fits(batches, Keys, Records)
  BY <1>1, <1>2, <1>4, UpsertIs
<1>8. \A c \in Keys : Lookup(batches, c, <<>>) = IF c = b THEN record ELSE Lookup(r.batches, c, <<>>)
  BY <1>1, <1>2, <1>4, UpsertLooks
<1> HIDE DEF docs, batches
<1>9. \A c \in Ids : Lookup(batches, c, <<>>) # <<>> <=> c = b \/ Lookup(r.batches, c, <<>>) # <<>>
  BY <1>2, <1>4, <1>8
<1> DEFINE post == Post(v, v.root, b)
<1>10. post.count = r.count + 1 /\ post.docs = docs /\ post.batches = batches
  BY <1>3
<1>11. IsRoot(post)
  <2>1. post = [count |-> post.count, docs |-> post.docs, batches |-> post.batches]
    BY <1>3, <1>10
  <2> HIDE DEF post
  <2> QED BY <1>1, <1>5, <1>7, <1>10, <2>1 DEF IsRoot
<1> HIDE DEF post
<1> QED BY <1>5, <1>6, <1>9, <1>10, <1>11 DEF post, r

\* How one writer's step may change what it sees.
Grows(v, b, w) ==
    /\ w = [root |-> w.root, rows |-> w.rows, table |-> w.table,
            stamp |-> w.stamp, recorded |-> w.recorded]
    /\ w.rows = Append(v.rows, NextRow(v, b)) /\ DOMAIN w.table = Docs
    /\ w.root \in {v.root, Post(v, v.root, b)}
    /\ \/ w.stamp = v.stamp /\ w.recorded = v.recorded
       \/ /\ v.stamp = v.root /\ w.stamp = Post(v, v.root, b)
          /\ w.recorded = v.recorded \cup {w.stamp.count}

LEMMA GrownIs ==
    ASSUME NEW v, Good(v), NEW b \in Ids, Admits(v, b), NEW w, Grows(v, b, w)
    PROVE  /\ Len(w.rows) = Len(v.rows) + 1
           /\ \A i \in 1..Len(v.rows) : w.rows[i] = v.rows[i]
           /\ w.rows[Len(w.rows)].batch = b
           /\ \A n \in 0..Len(v.rows) : Prefix(w, n) = Prefix(v, n)
           /\ Prefix(w, Len(w.rows)) = Append(Prefix(v, Len(v.rows)), b)
<1>1. v.rows \in Seq(RowSet) /\ Len(v.rows) \in Nat
  BY GoodIs
<1>2. NextRow(v, b) \in RowSet /\ NextRow(v, b).batch = b
  BY NextRowIs DEF Good, Admits
<1> DEFINE n == Len(v.rows)
<1>3. /\ Len(w.rows) = n + 1 /\ (\A i \in 1..n : w.rows[i] = v.rows[i])
      /\ w.rows[n + 1] = NextRow(v, b)
  BY <1>1, <1>2 DEF Grows
<1>4. \A m \in 0..n : Prefix(w, m) = Prefix(v, m)
  <2>1. \A m \in 0..n : \A i \in 1..m : w.rows[i].batch = v.rows[i].batch
    BY <1>1, <1>3
  <2> QED BY <2>1 DEF Prefix
<1>5. Prefix(w, n + 1) = Append(Prefix(v, n), b)
  <2>0. n \in 0..n
    BY <1>1
  <2>1. Prefix(v, n) \in Seq(Ids) /\ Len(Prefix(v, n)) = n /\ (\A i \in 1..n : Prefix(v, n)[i] = v.rows[i].batch)
    BY <2>0, PrefixIs DEF Prefix
  <2> DEFINE p == Prefix(v, n)
             q == Append(p, b)
  <2>2. q \in Seq(Ids) /\ Len(q) = n + 1 /\ (\A i \in 1..n : q[i] = p[i]) /\ q[n + 1] = b
    <3> HIDE DEF p, n
    <3>1. p \in Seq(Ids) /\ Len(p) = n
      BY <2>1 DEF p
    <3> QED BY <3>1
  <2>3. q = [i \in 1..(n + 1) |-> q[i]]
    <3> HIDE DEF q
    <3> QED BY <2>2
  <2>4. \A i \in 1..(n + 1) : q[i] = w.rows[i].batch
    <3>1. \A i : i \in 1..(n + 1) <=> i = n + 1 \/ i \in 1..n
      BY <1>1
    <3> HIDE DEF q, n
    <3> QED BY <1>2, <1>3, <2>1, <2>2, <3>1 DEF p
  <2> HIDE DEF q
  <2>5. Prefix(w, n + 1) = q
    BY <2>3, <2>4 DEF Prefix
  <2> QED BY <2>5 DEF q, p
<1> QED BY <1>1, <1>2, <1>3, <1>4, <1>5

\* A root that mirrors a prefix mirrors it in everything that grew from there.
LEMMA MirrorStays ==
    ASSUME NEW v, NEW w, NEW r, MirrorsAt(r, v), v.root.count \in Nat, w.root.count \in Nat,
           v.root.count <= w.root.count, \A i \in 1..v.root.count : w.rows[i] = v.rows[i]
    PROVE  MirrorsAt(r, w)
<1>1. r.count \in Nat /\ r.count <= v.root.count
  BY DEF MirrorsAt, IsRoot
<1>2. Prefix(w, r.count) = Prefix(v, r.count)
  <2>1. \A i \in 1..r.count : w.rows[i].batch = v.rows[i].batch
    BY <1>1
  <2> QED BY <2>1 DEF Prefix
<1>3. r.count <= w.root.count
  BY <1>1
<1> QED BY <1>2, <1>3 DEF MirrorsAt

LEMMA GrownGood ==
    ASSUME NEW v, Good(v), NEW b \in Ids, Admits(v, b), NEW w, Grows(v, b, w)
    PROVE  Good(w)
<1> DEFINE n == Len(v.rows)
           post == Post(v, v.root, b)
<1>1. /\ n \in Nat /\ v.root.count = n /\ v.stamp.count \in Nat
      /\ v.stamp.count <= n /\ v.recorded \subseteq 1..n
  BY GoodIs DEF Good, IsFile, StampInv, Admits
<1>2. /\ Len(w.rows) = n + 1
      /\ \A i \in 1..n : w.rows[i] = v.rows[i]
      /\ w.rows[n + 1].batch = b
      /\ Prefix(w, n) = Prefix(v, n)
      /\ Prefix(w, n + 1) = Append(Prefix(v, n), b)
  <2>1. n \in 0..n
    BY <1>1
  <2> QED BY <2>1, GrownIs
<1>3. /\ IsRoot(post) /\ post.count = n + 1
      /\ \A d \in Docs : Lookup(post.docs, d, None) =
             IF d \in Batch[b].docs THEN b ELSE Lookup(v.root.docs, d, None)
      /\ \A c \in Ids : Lookup(post.batches, c, <<>>) # <<>> <=>
             c = b \/ Lookup(v.root.batches, c, <<>>) # <<>>
      /\ Heap(post.docs) /\ Heap(v.root.docs)
  BY <1>1, PostIs DEF Good, MapInv
<1>4. RowsInv(w.rows)
  BY RowsGrow DEF Good, Grows, Admits
<1>5. Prefix(v, n) \in Seq(Ids)
  <2>1. n \in 0..n
    BY <1>1
  <2> QED BY <2>1, PrefixIs
<1>6. /\ \A d \in Docs : Lookup(v.root.docs, d, None) = Latest(Prefix(v, n), d)
      /\ \A c \in Ids : Lookup(v.root.batches, c, <<>>) # <<>> <=> \E i \in 1..n : v.rows[i].batch = c
      /\ IsRoot(v.root) /\ IsRoot(v.stamp)
  BY <1>1 DEF Good, MapInv, MirrorsAt, IsFile
<1>7. /\ w.root \in {v.root, post} /\ DOMAIN w.table = Docs
      /\ w = [root |-> w.root, rows |-> w.rows, table |-> w.table,
              stamp |-> w.stamp, recorded |-> w.recorded]
      /\ \/ w.stamp = v.stamp /\ w.recorded = v.recorded
         \/ v.stamp = v.root /\ w.stamp = post /\ w.recorded = v.recorded \cup {n + 1}
  BY <1>3 DEF Grows
<1>8. v.stamp = v.root => v.recorded = 1..n
  BY <1>1 DEF Good, StampInv
<1> HIDE DEF n, post
<1>9. n <= n + 1 /\ n + 1 <= n + 1 /\ n + 1 <= n + 1 + 1 /\ 1..n \subseteq 1..(n + 1) /\ n + 1 \in 1..(n + 1)
      /\ 1..(n + 1) = 1..n \cup {n + 1} /\ n + 1 # n /\ v.stamp.count <= n + 1 /\ n + 1 \in Nat
  BY <1>1
<1>10. IsFile(w)
  <2>1. IsRoot(w.root) /\ IsRoot(w.stamp) /\ w.root.count \in {n, n + 1}
    BY <1>1, <1>3, <1>6, <1>7
  <2>2. w.recorded \subseteq 1..Len(w.rows)
    BY <1>1, <1>2, <1>7, <1>9
  <2>3. w.root.count <= Len(w.rows) /\ Len(w.rows) <= w.root.count + 1
    BY <1>2, <1>9, <2>1
  <2> QED BY <1>7, <2>1, <2>2, <2>3 DEF IsFile
<1>11. StampInv(w)
  <2>1. w.stamp.count <= Len(w.rows)
    BY <1>2, <1>3, <1>7, <1>9
  <2>2. ASSUME w.stamp = w.root PROVE w.recorded = 1..w.root.count
    <3>1. CASE w.stamp = v.stamp /\ w.recorded = v.recorded
      <4>1. w.root # post
        BY <1>1, <1>3, <2>2, <3>1
      <4> QED BY <1>1, <1>7, <1>8, <2>2, <3>1, <4>1
    <3>2. CASE v.stamp = v.root /\ w.stamp = post /\ w.recorded = v.recorded \cup {n + 1}
      BY <1>3, <1>8, <1>9, <2>2, <3>2
    <3> QED BY <1>7, <3>1, <3>2
  <2> QED BY <2>1, <2>2 DEF StampInv
<1>12. MapInv(w)
  <2>1. CASE w.root = v.root
    <3>1. MirrorsAt(w.root, w)
      BY <1>1, <1>2, <1>6, <2>1 DEF MirrorsAt
    <3>2. \A c \in Ids : Lookup(w.root.batches, c, <<>>) # <<>> <=> \E i \in 1..n : w.rows[i].batch = c
      BY <1>2, <1>6, <2>1
    <3> QED BY <1>1, <1>3, <2>1, <3>1, <3>2 DEF MapInv
  <2>2. CASE w.root = post
    <3>1. \A d \in Docs : Lookup(post.docs, d, None) = Latest(Append(Prefix(v, n), b), d)
      BY <1>3, <1>5, <1>6, LatestAppended
    <3>2. MirrorsAt(w.root, w)
      BY <1>2, <1>3, <1>9, <2>2, <3>1 DEF MirrorsAt
    <3>3. ASSUME NEW c \in Ids
          PROVE  Lookup(post.batches, c, <<>>) # <<>> <=> \E i \in 1..(n + 1) : w.rows[i].batch = c
      <4>1. \A i : i \in 1..(n + 1) <=> i = n + 1 \/ i \in 1..n
        BY <1>1
      <4>2. (\E i \in 1..(n + 1) : w.rows[i].batch = c) <=> c = b \/ \E i \in 1..n : v.rows[i].batch = c
        BY <1>2, <4>1
      <4> QED BY <1>3, <1>6, <4>2
    <3> QED BY <1>3, <2>2, <3>2, <3>3 DEF MapInv
  <2> QED BY <1>7, <2>1, <2>2
<1> QED BY <1>4, <1>10, <1>11, <1>12 DEF Good

-----------------------------------------------------------------------------
(* What the writers do to what they see.                                   *)

LEMMA MaterializedIs ==
    ASSUME NEW a, NEW b, NEW c, NEW d, NEW e, NEW p, NEW x,
           x = [root |-> a, rows |-> b, table |-> c, stamp |-> d, recorded |-> e]
    PROVE  Materialized(x, p) =
               [root |-> a, rows |-> b, table |-> c, stamp |-> p, recorded |-> e \cup {p.count}]
<1> DEFINE w == Materialized(x, p)
<1>1. DOMAIN w = {"root", "rows", "table", "stamp", "recorded"}
  BY DEF Materialized
<1>2. w.root = a /\ w.rows = b /\ w.table = c /\ w.stamp = p /\ w.recorded = e \cup {p.count}
  BY DEF Materialized
<1>3. w = [f \in {"root", "rows", "table", "stamp", "recorded"} |-> w[f]]
  BY <1>1 DEF Materialized
<1> HIDE DEF w
<1>4. w = [root |-> a, rows |-> b, table |-> c, stamp |-> p, recorded |-> e \cup {p.count}]
  BY <1>2, <1>3
<1> QED BY <1>4 DEF w

LEMMA AppliedGrows ==
    ASSUME NEW v, Good(v), NEW b \in Ids, Admits(v, b), NEW m \in BOOLEAN, m => v.stamp = v.root,
           NEW documents \in BOOLEAN
    PROVE  /\ Grows(v, b, Applied(v, v.root, b, m, documents))
           /\ Applied(v, v.root, b, m, documents).root = Post(v, v.root, b)
           /\ documents => Applied(v, v.root, b, m, documents).table =
                               Store(v.table, v.root.docs, Post(v, v.root, b).docs)
<1> DEFINE post == Post(v, v.root, b)
           more == Append(v.rows, NextRow(v, b))
           stored == Store(v.table, v.root.docs, post.docs)
           table == IF documents THEN stored ELSE v.table
           stamp == IF m THEN post ELSE v.stamp
           recorded == IF m THEN v.recorded \cup {post.count} ELSE v.recorded
           w == Applied(v, v.root, b, m, documents)
<1>1. v = [root |-> v.root, rows |-> v.rows, table |-> v.table,
           stamp |-> v.stamp, recorded |-> v.recorded] /\ DOMAIN v.table = Docs
  BY DEF Good, IsFile
<1>2. post.docs = UpsertAll(v.root.docs, b, WrittenDocs(b))
  BY DEF Post, UpsertDocs
<1>3. Inserted(v, b) = [root |-> v.root, rows |-> more, table |-> v.table,
                        stamp |-> v.stamp, recorded |-> v.recorded]
  <2> HIDE DEF more
  <2>1. Inserted(v, b) = [v EXCEPT !.rows = more]
    BY DEF Inserted, more
  <2> QED BY <1>1, <2>1
<1> HIDE DEF more, post
<1>4. WithDocs(Inserted(v, b), v.root, b, WrittenDocs(b)) =
          [root |-> v.root, rows |-> more, table |-> stored,
           stamp |-> v.stamp, recorded |-> v.recorded]
  BY <1>2, <1>3 DEF WithDocs
<1> HIDE DEF stored
<1>5. w = [root |-> post, rows |-> more, table |-> table, stamp |-> stamp, recorded |-> recorded]
  <2> DEFINE written == IF documents THEN WithDocs(Inserted(v, b), v.root, b, WrittenDocs(b))
                        ELSE Inserted(v, b)
             all == IF m THEN Materialized(written, post) ELSE written
  <2>1. written = [root |-> v.root, rows |-> more, table |-> table,
                   stamp |-> v.stamp, recorded |-> v.recorded]
    BY <1>3, <1>4
  <2> HIDE DEF written, table
  <2>2. Materialized(written, post) = [root |-> v.root, rows |-> more, table |-> table,
                                       stamp |-> post, recorded |-> v.recorded \cup {post.count}]
    BY <2>1, MaterializedIs
  <2>3. all = [root |-> v.root, rows |-> more, table |-> table, stamp |-> stamp, recorded |-> recorded]
    BY <2>1, <2>2
  <2>4. w = [all EXCEPT !.root = post]
    BY DEF Applied, Advanced, post, written
  <2> HIDE DEF all, stamp, recorded, w
  <2> QED BY <2>3, <2>4
<1>6. DOMAIN table = Docs
  BY <1>1 DEF stored, Store
<1> HIDE DEF w
<1>7. /\ w.root = post /\ w.rows = more /\ w.table = table /\ w.stamp = stamp /\ w.recorded = recorded
      /\ w = [root |-> w.root, rows |-> w.rows, table |-> w.table,
              stamp |-> w.stamp, recorded |-> w.recorded]
  <2> HIDE DEF table, stamp, recorded
  <2> QED BY <1>5
<1>8. Grows(v, b, w)
  BY <1>6, <1>7 DEF Grows, more, post
<1> QED BY <1>7, <1>8 DEF w, post, stored

LEMMA PartialGrows ==
    ASSUME NEW v, Good(v), NEW b \in Ids, Admits(v, b), NEW m \in BOOLEAN, m => v.stamp = v.root,
           NEW w \in Partial(v, v.root, b, m)
    PROVE  Grows(v, b, w) /\ w.root = v.root
<1> DEFINE post == Post(v, v.root, b)
           more == Append(v.rows, NextRow(v, b))
           docs == WrittenDocs(b)
           stored(n) == Store(v.table, v.root.docs, UpsertAll(v.root.docs, b, SubSeq(docs, 1, n)))
           Wrote(n) == WithDocs(Inserted(v, b), v.root, b, SubSeq(docs, 1, n))
<1>1. v = [root |-> v.root, rows |-> v.rows, table |-> v.table,
           stamp |-> v.stamp, recorded |-> v.recorded] /\ DOMAIN v.table = Docs
  BY DEF Good, IsFile
<1>2. Inserted(v, b) = [root |-> v.root, rows |-> more, table |-> v.table,
                        stamp |-> v.stamp, recorded |-> v.recorded]
  <2> HIDE DEF more
  <2>1. Inserted(v, b) = [v EXCEPT !.rows = more]
    BY DEF Inserted, more
  <2> QED BY <1>1, <2>1
<1> HIDE DEF more
<1>3. \A n : Wrote(n) = [root |-> v.root, rows |-> more, table |-> stored(n),
                         stamp |-> v.stamp, recorded |-> v.recorded]
  BY <1>2 DEF WithDocs
<1>4. PICK n : w = Wrote(n) \/ (m /\ w = Materialized(Wrote(n), post))
  BY DEF Partial
<1> DEFINE t == stored(n)
<1>5. Wrote(n) = [root |-> v.root, rows |-> more, table |-> t,
                  stamp |-> v.stamp, recorded |-> v.recorded]
  BY <1>3
<1>6. DOMAIN t = Docs
  BY <1>1 DEF Store
<1> HIDE DEF t, post, Wrote
<1>7. CASE w = Wrote(n)
  <2>1. /\ w.root = v.root /\ w.rows = more /\ w.table = t /\ w.stamp = v.stamp /\ w.recorded = v.recorded
        /\ w = [root |-> w.root, rows |-> w.rows, table |-> w.table,
                stamp |-> w.stamp, recorded |-> w.recorded]
    BY <1>5, <1>7
  <2> QED BY <1>6, <2>1 DEF Grows, more
<1>8. CASE m /\ w = Materialized(Wrote(n), post)
  <2>1. w = [root |-> v.root, rows |-> more, table |-> t, stamp |-> post,
             recorded |-> v.recorded \cup {post.count}]
    BY <1>5, <1>8, MaterializedIs
  <2>2. /\ w.root = v.root /\ w.rows = more /\ w.table = t /\ w.stamp = post
        /\ w.recorded = v.recorded \cup {post.count}
        /\ w = [root |-> w.root, rows |-> w.rows, table |-> w.table,
                stamp |-> w.stamp, recorded |-> w.recorded]
    BY <2>1
  <2> QED BY <1>6, <1>8, <2>2 DEF Grows, more, post
<1> QED BY <1>4, <1>7, <1>8

LEMMA TableGood ==
    ASSUME NEW v, Good(v), NEW t, DOMAIN t = Docs
    PROVE  LET w == [v EXCEPT !.table = t]
           IN  Good(w) /\ w.root = v.root /\ w.rows = v.rows /\ w.stamp = v.stamp
<1> DEFINE w == [v EXCEPT !.table = t]
<1>1. v = [root |-> v.root, rows |-> v.rows, table |-> v.table,
           stamp |-> v.stamp, recorded |-> v.recorded]
  BY DEF Good, IsFile
<1>2. w = [root |-> v.root, rows |-> v.rows, table |-> t,
           stamp |-> v.stamp, recorded |-> v.recorded]
  BY <1>1
<1> HIDE DEF w
<1>3. /\ w.root = v.root /\ w.rows = v.rows /\ w.table = t /\ w.stamp = v.stamp
      /\ w.recorded = v.recorded
      /\ w = [root |-> w.root, rows |-> w.rows, table |-> w.table,
              stamp |-> w.stamp, recorded |-> w.recorded]
  BY <1>2
<1>4. IsFile(w) /\ StampInv(w)
  BY <1>3 DEF Good, IsFile, StampInv
<1>5. MapInv(w)
  <2>1. \A n : Prefix(w, n) = Prefix(v, n)
    BY <1>3 DEF Prefix
  <2> QED BY <1>3, <2>1 DEF Good, MapInv, MirrorsAt
<1>6. Good(w)
  BY <1>3, <1>4, <1>5 DEF Good
<1> QED BY <1>3, <1>6 DEF w

LEMMA StampGood ==
    ASSUME NEW v, Good(v)
    PROVE  LET w == [v EXCEPT !.stamp = v.root, !.recorded = 1..v.root.count]
           IN  Good(w) /\ w.root = v.root /\ w.rows = v.rows /\ w.stamp = v.root
<1> DEFINE all == 1..v.root.count
           root == v.root
           w == [v EXCEPT !.stamp = root, !.recorded = all]
<1>1. v = [root |-> v.root, rows |-> v.rows, table |-> v.table,
           stamp |-> v.stamp, recorded |-> v.recorded]
  BY DEF Good, IsFile
<1>2. w = [root |-> v.root, rows |-> v.rows, table |-> v.table,
           stamp |-> v.root, recorded |-> 1..v.root.count]
  <2> HIDE DEF all, root
  <2>1. w = [root |-> v.root, rows |-> v.rows, table |-> v.table, stamp |-> root, recorded |-> all]
    <3> DEFINE y == [v EXCEPT !.stamp = root]
    <3>1. y = [root |-> v.root, rows |-> v.rows, table |-> v.table,
               stamp |-> root, recorded |-> v.recorded]
      BY <1>1
    <3>2. w = [y EXCEPT !.recorded = all]
      BY Zenon
    <3> HIDE DEF y, w
    <3> QED BY <3>1, <3>2
  <2> QED BY <2>1 DEF all, root
<1> HIDE DEF w
<1>3. /\ w.root = v.root /\ w.rows = v.rows /\ w.table = v.table /\ w.stamp = v.root
      /\ w.recorded = 1..v.root.count
      /\ w = [root |-> w.root, rows |-> w.rows, table |-> w.table,
              stamp |-> w.stamp, recorded |-> w.recorded]
  BY <1>2
<1>4. v.root.count \in Nat /\ Len(v.rows) \in Nat /\ v.root.count <= Len(v.rows)
  BY GoodIs
<1>5. IsFile(w) /\ StampInv(w)
  BY <1>3, <1>4 DEF Good, IsFile, StampInv
<1>6. MapInv(w)
  <2>1. \A n : Prefix(w, n) = Prefix(v, n)
    BY <1>3 DEF Prefix
  <2> QED BY <1>3, <2>1 DEF Good, MapInv, MirrorsAt
<1>7. Good(w)
  BY <1>3, <1>5, <1>6 DEF Good
<1> QED BY <1>3, <1>7 DEF w, all, root

\* w has v's rows and at least its batches; without a new one it has its root.
Continues(v, w) ==
    /\ Len(v.rows) <= Len(w.rows) /\ \A i \in 1..Len(v.rows) : w.rows[i] = v.rows[i]
    /\ v.root.count <= w.root.count
    /\ v.root.count = w.root.count => w.root = v.root
    /\ v.root.count = w.root.count /\ Len(w.rows) = w.root.count => w.stamp \in {v.stamp, w.root}

LEMMA ContinuesItself ==
    ASSUME NEW v, Good(v)
    PROVE  Continues(v, v)
BY GoodIs DEF Continues

LEMMA GrownContinues ==
    ASSUME NEW u, Good(u), NEW v, Good(v), Continues(u, v), NEW b \in Ids, Admits(v, b),
           NEW w, Grows(v, b, w)
    PROVE  Continues(u, w)
<1>1. /\ Len(u.rows) \in Nat /\ Len(v.rows) \in Nat /\ u.root.count \in Nat
      /\ v.root.count = Len(v.rows)
  BY GoodIs DEF Admits
<1>2. Len(w.rows) = Len(v.rows) + 1 /\ \A i \in 1..Len(v.rows) : w.rows[i] = v.rows[i]
  BY GrownIs
<1>3. Post(v, v.root, b).count = v.root.count + 1
  BY PostIs
<1>4. Len(u.rows) <= Len(w.rows) /\ \A i \in 1..Len(u.rows) : w.rows[i] = v.rows[i]
  BY <1>1, <1>2 DEF Continues
<1>5. CASE w.root = v.root
  <2>1. Len(w.rows) # w.root.count
    BY <1>1, <1>2, <1>5
  <2> QED BY <1>4, <1>5, <2>1 DEF Continues
<1>6. CASE w.root = Post(v, v.root, b)
  <2>1. u.root.count <= w.root.count /\ u.root.count # w.root.count
    BY <1>1, <1>3, <1>6 DEF Continues
  <2> QED BY <1>4, <2>1 DEF Continues
<1> QED BY <1>5, <1>6 DEF Grows

LEMMA MirrorContinues ==
    ASSUME NEW v, Good(v), NEW w, Good(w), Continues(v, w), NEW r, MirrorsAt(r, v)
    PROVE  MirrorsAt(r, w)
<1>1. /\ v.root.count \in Nat /\ w.root.count \in Nat /\ v.root.count <= w.root.count
      /\ Len(v.rows) \in Nat /\ v.root.count <= Len(v.rows)
  BY GoodIs DEF Continues
<1>2. \A i \in 1..v.root.count : w.rows[i] = v.rows[i]
  BY <1>1 DEF Continues
<1> QED BY <1>1, <1>2, MirrorStays

LEMMA RowsContinue ==
    ASSUME NEW v, Good(v), NEW w, Good(w), Continues(v, w), NEW h, Rows(v, h) # {}
    PROVE  Rows(w, h) # {}
<1>1. PICK i \in 1..Len(v.rows) : v.rows[i].batch = h
  BY GoodIs DEF Rows
<1>2. i \in 1..Len(w.rows) /\ w.rows[i].batch = h
  BY <1>1, GoodIs DEF Continues
<1> QED BY <1>2, GoodIs DEF Rows


-----------------------------------------------------------------------------
(* The inductive invariant.                                                *)

\* One connection at most writes a candidate, and sees what is committed and more.
TxInv ==
    /\ tx = [c \in Conns |-> tx[c]] /\ known = [c \in Conns |-> known[c]]
    /\ asked \in [Conns -> [batch : Ids \cup {None}, materialize : BOOLEAN]]
    /\ Good(db)
    /\ \A c, d \in Conns : tx[c] # Closed /\ tx[d] # Closed => c = d
    /\ \A c \in Conns : tx[c] # Closed =>
           asked[c] = NotAsked /\ Good(tx[c]) /\ Continues(db, tx[c])

KnownInv == \A c \in Conns : MirrorsAt(known[c], View(c))

\* What an ordinary apply has checked still holds, unless it will fail.
Checked(v, r, q) ==
    q.batch # None =>
        /\ \A h \in Heads[q.batch] : Rows(v, h) # {}
        /\ q.materialize /\ v.root = r /\ Len(v.rows) = v.root.count => v.stamp = v.root

AskedInv == \A c \in Conns : Checked(db, known[c], asked[c])

ReadInv == DocumentsReadable(db, db.root)

IInv == TxInv /\ KnownInv /\ AskedInv /\ ReadInv

LEMMA Stored ==
    ASSUME NEW table, DOMAIN table = Docs, NEW old, NEW new, Fits(new, Docs, Ids),
           NEW n \in Nodes(new), n \in Nodes(old) => table[n.key] = n
    PROVE  Store(table, old, new)[n.key] = n
<1> DEFINE written == Nodes(new) \ Nodes(old)
<1>1. /\ \A m \in Nodes(new) : m.key = n.key => m = n
      /\ n.key \in Docs
  BY BatchesAre, NodesDiffer
<1>2. Store(table, old, new)[n.key] =
          IF \E m \in written : m.key = n.key
          THEN CHOOSE m \in written : m.key = n.key ELSE table[n.key]
  BY <1>1 DEF Store
<1>3. CASE \E m \in written : m.key = n.key
  <2> DEFINE it == CHOOSE m \in written : m.key = n.key
  <2>1. it \in written /\ it.key = n.key
    BY <1>3
  <2> HIDE DEF it
  <2>2. it = n
    BY <1>1, <2>1
  <2> QED BY <1>2, <1>3, <2>2 DEF it
<1>4. CASE ~ \E m \in written : m.key = n.key
  <2>1. n \in Nodes(old)
    BY <1>4
  <2> QED BY <1>2, <1>4, <2>1
<1> QED BY <1>3, <1>4

LEMMA CheckedStays ==
    ASSUME NEW v, Good(v), NEW w, Good(w), Continues(v, w),
           NEW r, r.count \in Nat, r.count <= v.root.count,
           NEW q \in [batch : Ids \cup {None}, materialize : BOOLEAN], Checked(v, r, q)
    PROVE  Checked(w, r, q)
<1> SUFFICES ASSUME q.batch # None
             PROVE  /\ \A h \in Heads[q.batch] : Rows(w, h) # {}
                    /\ q.materialize /\ w.root = r /\ Len(w.rows) = w.root.count
                       => w.stamp = w.root
  BY DEF Checked
<1>1. \A h \in Heads[q.batch] : Rows(w, h) # {}
  BY RowsContinue DEF Checked
<1>2. ASSUME q.materialize, w.root = r, Len(w.rows) = w.root.count
      PROVE  w.stamp = w.root
  <2>1. /\ v.root.count \in Nat /\ w.root.count \in Nat /\ Len(v.rows) \in Nat
        /\ v.root.count <= Len(v.rows)
    BY GoodIs
  <2>2. v.root.count = w.root.count /\ w.root = v.root /\ Len(v.rows) = v.root.count
    BY <1>2, <2>1 DEF Continues
  <2>3. v.stamp = v.root
    BY <1>2, <2>2 DEF Checked
  <2> QED BY <1>2, <2>2, <2>3 DEF Continues
<1> QED BY <1>1, <1>2

LEMMA InitInv == Init => IInv
<1> SUFFICES ASSUME Init PROVE IInv
  OBVIOUS
<1> USE DEF Init
<1>1. Good(db)
  BY EmptyGood
<1>2. \A c \in Conns : tx[c] = Closed /\ known[c] = EmptyRoot /\ asked[c] = NotAsked
  BY DEF NotAsked
<1>3. TxInv
  <2>1. [batch |-> None, materialize |-> FALSE] \in [batch : Ids \cup {None}, materialize : BOOLEAN]
    OBVIOUS
  <2>2. asked \in [Conns -> [batch : Ids \cup {None}, materialize : BOOLEAN]]
    BY <2>1
  <2> QED BY <1>1, <1>2, <2>2 DEF TxInv
<1>4. MirrorsAt(EmptyRoot, EmptyFile)
  <2>1. EmptyFile.root = EmptyRoot
    BY DEF EmptyFile
  <2> QED BY <2>1, EmptyGood DEF Good, MapInv
<1>5. KnownInv
  BY <1>2, <1>4 DEF KnownInv, View
<1>6. AskedInv
  BY <1>2 DEF AskedInv, Checked, NotAsked
<1>7. ReadInv
  <2>1. EmptyFile.root.docs = Nil
    BY DEF EmptyFile, EmptyRoot
  <2>2. Nodes(Nil) = {}
    BY FitsNil
  <2> QED BY <2>1, <2>2 DEF ReadInv, DocumentsReadable
<1> QED BY <1>3, <1>5, <1>6, <1>7 DEF IInv

-----------------------------------------------------------------------------
(* Every step keeps it.                                                    *)

LEMMA ViewIs ==
    ASSUME IInv, NEW c \in Conns
    PROVE  Good(View(c)) /\ Continues(db, View(c))
<1>1. Good(db) /\ (tx[c] # Closed => Good(tx[c]) /\ Continues(db, tx[c]))
  BY DEF IInv, TxInv
<1>2. Continues(db, db)
  BY <1>1, ContinuesItself
<1> QED BY <1>1, <1>2 DEF View

\* A candidate transaction goes on to see w, under the root r of its host.
LEMMA CandidateKeeps ==
    ASSUME IInv, NEW c \in Conns, tx[c] # Closed, NEW w, Good(w), Continues(db, w),
           NEW r, MirrorsAt(r, w), CandidateStep(c, w), known' = [known EXCEPT ![c] = r]
    PROVE  IInv'
<1> USE DEF CandidateStep
<1>1. UNCHANGED <<db, asked>> /\ tx' = [tx EXCEPT ![c] = w]
  OBVIOUS
<1>2. w # Closed
  BY GoodIs
<1>3. /\ tx' = [d \in Conns |-> tx'[d]] /\ known' = [d \in Conns |-> known'[d]]
      /\ tx'[c] = w /\ known'[c] = r
      /\ \A d \in Conns : d # c => tx'[d] = tx[d] /\ known'[d] = known[d]
  <2>1. tx = [d \in Conns |-> tx[d]] /\ known = [d \in Conns |-> known[d]]
    BY DEF IInv, TxInv
  <2> QED BY <1>1, <2>1
<1>4. asked[c] = NotAsked /\ \A d \in Conns : d # c => tx[d] = Closed
  BY DEF IInv, TxInv
<1>5. TxInv'
  <2>1. \A d, e \in Conns : tx'[d] # Closed /\ tx'[e] # Closed => d = e
    BY <1>3, <1>4
  <2>2. \A d \in Conns : tx'[d] # Closed =>
           asked'[d] = NotAsked /\ Good(tx'[d]) /\ Continues(db', tx'[d])
    BY <1>1, <1>3, <1>4
  <2>3. Good(db') /\ asked' \in [Conns -> [batch : Ids \cup {None}, materialize : BOOLEAN]]
    BY <1>1 DEF IInv, TxInv
  <2> QED BY <1>3, <2>1, <2>2, <2>3 DEF TxInv
<1>6. KnownInv'
  <2>1. ASSUME NEW d \in Conns PROVE MirrorsAt(known'[d], IF tx'[d] = Closed THEN db' ELSE tx'[d])
    <3>1. CASE d = c
      BY <1>2, <1>3, <3>1
    <3>2. CASE d # c
      <4>1. MirrorsAt(known[d], View(d))
        BY DEF IInv, KnownInv
      <4> QED BY <1>1, <1>3, <3>2, <4>1 DEF View
    <3> QED BY <3>1, <3>2
  <2> QED BY <2>1 DEF KnownInv, View
<1>7. AskedInv'
  <2>1. ASSUME NEW d \in Conns PROVE Checked(db', known'[d], asked'[d])
    <3>1. CASE d = c
      BY <1>1, <1>4, <3>1 DEF Checked, NotAsked
    <3>2. CASE d # c
      BY <1>1, <1>3, <3>2 DEF IInv, AskedInv
    <3> QED BY <3>1, <3>2
  <2> QED BY <2>1 DEF AskedInv
<1>8. ReadInv'
  BY <1>1 DEF IInv, ReadInv, DocumentsReadable, Loads
<1> QED BY <1>5, <1>6, <1>7, <1>8 DEF IInv

\* The checks of a candidate's step are what a writer needs.
LEMMA CandidateAdmits ==
    ASSUME IInv, NEW c \in Conns, tx[c] # Closed, NEW b \in Ids, NEW m,
           Admissible(tx[c], known[c], b, m), Vacant(tx[c], known[c], b)
    PROVE  /\ Good(tx[c]) /\ Continues(db, tx[c]) /\ known[c] = tx[c].root
           /\ Admits(tx[c], b) /\ (m => tx[c].stamp = tx[c].root)
<1>1. Good(tx[c]) /\ Continues(db, tx[c])
  BY DEF IInv, TxInv
<1>2. known[c] = tx[c].root /\ Rows(tx[c], b) = {} /\ Len(tx[c].rows) = known[c].count
  BY DEF Admissible, Vacant
<1>3. m => tx[c].stamp = known[c]
  BY DEF Admissible
<1>4. \A h \in Heads[b] : Rows(tx[c], h) # {}
  BY DEF Admissible, Authenticated
<1> QED BY <1>1, <1>2, <1>3, <1>4 DEF Admits, Ready

LEMMA GrownMirror ==
    ASSUME NEW v, Good(v), NEW b \in Ids, Admits(v, b), NEW w, Grows(v, b, w), NEW r, MirrorsAt(r, v)
    PROVE  MirrorsAt(r, w)
<1>1. Good(w)
  BY GrownGood
<1>2. Continues(v, w)
  <2>1. Continues(v, v)
    BY ContinuesItself
  <2> QED BY <2>1, GrownContinues
<1> QED BY <1>1, <1>2, MirrorContinues

LEMMA ApplyCandidateKeeps ==
    ASSUME IInv, NEW c \in Conns, NEW b \in Ids, NEW m \in BOOLEAN, ApplyCandidate(c, b, m)
    PROVE  IInv'
<1> DEFINE v == tx[c]
           w == Applied(v, v.root, b, m, TRUE)
<1>1. /\ v # Closed /\ Good(v) /\ Continues(db, v) /\ known[c] = v.root
      /\ Admits(v, b) /\ (m => v.stamp = v.root)
  BY CandidateAdmits DEF ApplyCandidate
<1>2. Grows(v, b, w)
  BY <1>1, AppliedGrows
<1>3. Good(w) /\ Continues(db, w)
  <2>1. Good(db)
    BY DEF IInv, TxInv
  <2> HIDE DEF w, v
  <2> QED BY <1>1, <1>2, <2>1, GrownGood, GrownContinues
<1>4. CandidateStep(c, w) /\ known' = [known EXCEPT ![c] = tx'[c].root]
  BY <1>1 DEF ApplyCandidate
<1>5. tx'[c] = w
  BY <1>4 DEF CandidateStep, IInv, TxInv
<1>6. MirrorsAt(w.root, w)
  BY <1>3 DEF Good, MapInv
<1> HIDE DEF w
<1>7. known' = [known EXCEPT ![c] = w.root]
  BY <1>4, <1>5
<1> QED BY <1>1, <1>3, <1>4, <1>6, <1>7, CandidateKeeps

LEMMA KnownSame ==
    ASSUME IInv, NEW c \in Conns, UNCHANGED known
    PROVE  known' = [known EXCEPT ![c] = known[c]]
BY DEF IInv, TxInv

LEMMA CandidateFailsKeeps ==
    ASSUME IInv, NEW c \in Conns, NEW b \in Ids, ApplyCandidateFails(c, b)
    PROVE  IInv'
<1>1. PICK m \in BOOLEAN : /\ Admissible(tx[c], known[c], b, m)
                           /\ \E view \in Partial(tx[c], known[c], b, m) : CandidateStep(c, view)
  BY DEF ApplyCandidateFails
<1>2. PICK w \in Partial(tx[c], known[c], b, m) : CandidateStep(c, w)
  BY <1>1
<1> DEFINE v == tx[c]
<1>3. /\ v # Closed /\ Good(v) /\ Continues(db, v) /\ known[c] = v.root
      /\ Admits(v, b) /\ (m => v.stamp = v.root)
  BY <1>1, CandidateAdmits DEF ApplyCandidateFails
<1>4. Grows(v, b, w)
  BY <1>2, <1>3, PartialGrows
<1>5. Good(w) /\ Continues(db, w)
  <2>1. Good(db)
    BY DEF IInv, TxInv
  <2> HIDE DEF v
  <2> QED BY <1>3, <1>4, <2>1, GrownGood, GrownContinues
<1>6. MirrorsAt(known[c], w)
  <2>1. MirrorsAt(v.root, v)
    BY <1>3 DEF Good, MapInv
  <2> QED BY <1>3, <1>4, <2>1, GrownMirror
<1>7. known' = [known EXCEPT ![c] = known[c]]
  BY KnownSame DEF ApplyCandidateFails
<1> QED BY <1>2, <1>3, <1>5, <1>6, <1>7, CandidateKeeps

LEMMA TerminalPrefixKeeps ==
    ASSUME IInv, NEW c \in Conns, NEW b \in Ids, ApplyTerminalPrefix(c, b)
    PROVE  IInv'
<1> DEFINE v == tx[c]
           w == Applied(v, v.root, b, FALSE, FALSE)
<1>1. /\ v # Closed /\ Good(v) /\ Continues(db, v) /\ known[c] = v.root
      /\ Admits(v, b)
  BY CandidateAdmits DEF ApplyTerminalPrefix
<1>2. Grows(v, b, w)
  BY <1>1, AppliedGrows
<1>3. Good(w) /\ Continues(db, w)
  <2>1. Good(db)
    BY DEF IInv, TxInv
  <2> HIDE DEF w, v
  <2> QED BY <1>1, <1>2, <2>1, GrownGood, GrownContinues
<1>4. CandidateStep(c, w) /\ known' = [known EXCEPT ![c] = tx'[c].root]
  BY <1>1 DEF ApplyTerminalPrefix
<1>5. tx'[c] = w
  BY <1>4 DEF CandidateStep, IInv, TxInv
<1>6. MirrorsAt(w.root, w)
  BY <1>3 DEF Good, MapInv
<1> HIDE DEF w
<1>7. known' = [known EXCEPT ![c] = w.root]
  BY <1>4, <1>5
<1> QED BY <1>1, <1>3, <1>4, <1>6, <1>7, CandidateKeeps

LEMMA SeedKeeps ==
    ASSUME IInv, NEW c \in Conns, SeedTerminalDocuments(c)
    PROVE  IInv'
<1> DEFINE v == tx[c]
           built == Terminal(DocumentsAt(History(v)))
           t == Store(v.table, Nil, built)
           w == [v EXCEPT !.table = t]
<1>1. v # Closed /\ Good(v) /\ Continues(db, v) /\ MirrorsAt(known[c], v)
  BY DEF IInv, TxInv, KnownInv, View, SeedTerminalDocuments
<1>2. CandidateStep(c, w) /\ UNCHANGED known
  BY DEF SeedTerminalDocuments
<1>3. DOMAIN t = Docs
  <2>1. DOMAIN v.table = Docs
    BY <1>1 DEF Good, IsFile
  <2> QED BY <2>1 DEF Store
<1> HIDE DEF t
<1>4. Good(w) /\ w.root = v.root /\ w.rows = v.rows /\ w.stamp = v.stamp
  BY <1>1, <1>3, TableGood
<1> HIDE DEF w
<1>5. Continues(db, w)
  BY <1>1, <1>4 DEF Continues
<1>6. MirrorsAt(known[c], w)
  <2>1. Prefix(w, known[c].count) = Prefix(v, known[c].count)
    BY <1>4 DEF Prefix
  <2> QED BY <1>1, <1>4, <2>1 DEF MirrorsAt
<1>7. known' = [known EXCEPT ![c] = known[c]]
  BY <1>2, KnownSame
<1> QED BY <1>1, <1>2, <1>4, <1>5, <1>6, <1>7, CandidateKeeps

LEMMA FinishTerminalKeeps ==
    ASSUME IInv, NEW c \in Conns, FinishTerminalConstruction(c)
    PROVE  IInv'
<1> DEFINE v == tx[c]
           w == [v EXCEPT !.stamp = v.root, !.recorded = 1..v.root.count]
<1>1. v # Closed /\ Good(v) /\ Continues(db, v) /\ MirrorsAt(known[c], v)
  BY DEF IInv, TxInv, KnownInv, View, FinishTerminalConstruction
<1>2. CandidateStep(c, w) /\ UNCHANGED known
  BY Zenon DEF FinishTerminalConstruction
<1>4. Good(w) /\ w.root = v.root /\ w.rows = v.rows /\ w.stamp = v.root
  BY <1>1, StampGood
<1> HIDE DEF w
<1>5. Continues(db, w)
  BY <1>1, <1>4 DEF Continues
<1>6. MirrorsAt(known[c], w)
  <2>1. Prefix(w, known[c].count) = Prefix(v, known[c].count)
    BY <1>4 DEF Prefix
  <2> QED BY <1>1, <1>4, <2>1 DEF MirrorsAt
<1>7. known' = [known EXCEPT ![c] = known[c]]
  BY <1>2, KnownSame
<1> QED BY <1>1, <1>2, <1>4, <1>5, <1>6, <1>7, CandidateKeeps

LEMMA BeginKeeps ==
    ASSUME IInv, NEW c \in Conns, Begin(c)
    PROVE  IInv'
<1>1. /\ tx[c] = Closed /\ asked[c] = NotAsked /\ tx' = [tx EXCEPT ![c] = db]
      /\ UNCHANGED <<db, known, asked>> /\ \A d \in Conns : tx[d] = Closed
  BY DEF Begin, Writable
<1>2. /\ tx' = [d \in Conns |-> tx'[d]] /\ tx'[c] = db
      /\ \A d \in Conns : d # c => tx'[d] = tx[d]
  <2>1. tx = [d \in Conns |-> tx[d]]
    BY DEF IInv, TxInv
  <2> QED BY <1>1, <2>1
<1>3. Good(db) /\ Continues(db, db)
  BY ContinuesItself DEF IInv, TxInv
<1>4. TxInv'
  <2>1. \A d, e \in Conns : tx'[d] # Closed /\ tx'[e] # Closed => d = e
    BY <1>1, <1>2
  <2>2. \A d \in Conns : tx'[d] # Closed =>
           asked'[d] = NotAsked /\ Good(tx'[d]) /\ Continues(db', tx'[d])
    BY <1>1, <1>2, <1>3
  <2> QED BY <1>1, <1>2, <2>1, <2>2 DEF IInv, TxInv
<1>5. KnownInv'
  <2>1. \A d \in Conns : (IF tx'[d] = Closed THEN db' ELSE tx'[d]) = db
    BY <1>1, <1>2
  <2>2. \A d \in Conns : MirrorsAt(known[d], db)
    BY <1>1 DEF IInv, KnownInv, View
  <2> QED BY <1>1, <2>1, <2>2 DEF KnownInv, View
<1>6. AskedInv' /\ ReadInv'
  BY <1>1 DEF IInv, AskedInv, ReadInv, DocumentsReadable, Loads
<1> QED BY <1>4, <1>5, <1>6 DEF IInv

LEMMA CloseKeeps ==
    ASSUME IInv, NEW c \in Conns, Close(c)
    PROVE  IInv'
<1>1. /\ db' = db /\ tx' = [tx EXCEPT ![c] = Closed]
      /\ asked' = [asked EXCEPT ![c] = NotAsked] /\ known' = [known EXCEPT ![c] = db.root]
  BY DEF Close
<1>2. /\ tx' = [d \in Conns |-> tx'[d]] /\ known' = [d \in Conns |-> known'[d]]
      /\ tx'[c] = Closed /\ known'[c] = db.root
      /\ \A d \in Conns : d # c => tx'[d] = tx[d] /\ known'[d] = known[d]
  <2>1. tx = [d \in Conns |-> tx[d]] /\ known = [d \in Conns |-> known[d]]
    BY DEF IInv, TxInv
  <2> QED BY <1>1, <2>1
<1>3. /\ asked' \in [Conns -> [batch : Ids \cup {None}, materialize : BOOLEAN]]
      /\ asked'[c] = NotAsked /\ \A d \in Conns : d # c => asked'[d] = asked[d]
  <2>1. NotAsked \in [batch : Ids \cup {None}, materialize : BOOLEAN]
    BY DEF NotAsked
  <2>2. asked \in [Conns -> [batch : Ids \cup {None}, materialize : BOOLEAN]]
    BY DEF IInv, TxInv
  <2> QED BY <1>1, <2>1, <2>2
<1>4. TxInv'
  <2>1. \A d, e \in Conns : tx'[d] # Closed /\ tx'[e] # Closed => d = e
    BY <1>2 DEF IInv, TxInv
  <2>2. \A d \in Conns : tx'[d] # Closed =>
           asked'[d] = NotAsked /\ Good(tx'[d]) /\ Continues(db', tx'[d])
    BY <1>1, <1>2, <1>3 DEF IInv, TxInv
  <2>3. Good(db')
    BY <1>1 DEF IInv, TxInv
  <2> QED BY <1>2, <1>3, <2>1, <2>2, <2>3 DEF TxInv
<1>5. KnownInv'
  <2>1. MirrorsAt(db.root, db)
    BY DEF IInv, TxInv, Good, MapInv
  <2>2. ASSUME NEW d \in Conns PROVE MirrorsAt(known'[d], IF tx'[d] = Closed THEN db' ELSE tx'[d])
    <3>1. CASE d = c
      BY <1>1, <1>2, <2>1, <3>1
    <3>2. CASE d # c
      BY <1>1, <1>2, <3>2 DEF IInv, KnownInv, View
    <3> QED BY <3>1, <3>2
  <2> QED BY <2>2 DEF KnownInv, View
<1>6. AskedInv'
  <2>1. Checked(db', known'[c], asked'[c])
    BY <1>3 DEF Checked, NotAsked
  <2>2. \A d \in Conns : d # c => Checked(db', known'[d], asked'[d])
    BY <1>1, <1>2, <1>3 DEF IInv, AskedInv
  <2> QED BY <2>1, <2>2 DEF AskedInv
<1>7. ReadInv'
  BY <1>1 DEF IInv, ReadInv, DocumentsReadable, Loads
<1> QED BY <1>4, <1>5, <1>6, <1>7 DEF IInv

LEMMA AskKeeps ==
    ASSUME IInv, NEW c \in Conns, NEW q \in [batch : Ids \cup {None}, materialize : BOOLEAN],
           asked' = [asked EXCEPT ![c] = q], UNCHANGED <<db, tx, known>>,
           tx[c] # Closed => q = NotAsked, Checked(db, known[c], q)
    PROVE  IInv'
<1>1. /\ asked' \in [Conns -> [batch : Ids \cup {None}, materialize : BOOLEAN]]
      /\ asked'[c] = q /\ \A d \in Conns : d # c => asked'[d] = asked[d]
  <2>1. asked \in [Conns -> [batch : Ids \cup {None}, materialize : BOOLEAN]]
    BY DEF IInv, TxInv
  <2> QED BY <2>1
<1>2. TxInv'
  <2>1. \A d \in Conns : tx'[d] # Closed =>
           asked'[d] = NotAsked /\ Good(tx'[d]) /\ Continues(db', tx'[d])
    BY <1>1 DEF IInv, TxInv
  <2> QED BY <1>1, <2>1 DEF IInv, TxInv
<1>3. AskedInv'
  BY <1>1 DEF IInv, AskedInv
<1>4. KnownInv' /\ ReadInv'
  BY DEF IInv, KnownInv, View, ReadInv, DocumentsReadable, Loads
<1> QED BY <1>2, <1>3, <1>4 DEF IInv

LEMMA CheckKeeps ==
    ASSUME IInv, NEW c \in Conns, NEW b \in Ids, NEW m \in BOOLEAN, Check(c, b, m)
    PROVE  IInv'
<1> DEFINE q == [batch |-> b, materialize |-> m]
<1>1. q \in [batch : Ids \cup {None}, materialize : BOOLEAN]
  OBVIOUS
<1>2. Checked(db, known[c], q)
  <2>1. db.root = known[c] /\ (m => db.stamp = known[c]) /\ \A h \in Heads[b] : Rows(db, h) # {}
    BY DEF Check, Admissible, Authenticated
  <2>2. q.batch = b /\ q.materialize = m
    OBVIOUS
  <2> QED BY <2>1, <2>2 DEF Checked
<1>3. tx[c] = Closed /\ asked' = [asked EXCEPT ![c] = q] /\ UNCHANGED <<db, tx, known>>
  BY DEF Check
<1> QED BY <1>1, <1>2, <1>3, AskKeeps

LEMMA ApplyFailsKeeps ==
    ASSUME IInv, NEW c \in Conns, ApplyFails(c)
    PROVE  IInv'
<1>1. NotAsked \in [batch : Ids \cup {None}, materialize : BOOLEAN] /\ Checked(db, known[c], NotAsked)
  BY DEF NotAsked, Checked
<1> QED BY <1>1, AskKeeps DEF ApplyFails

LEMMA RefreshKeeps ==
    ASSUME IInv, NEW c \in Conns, Refresh(c)
    PROVE  IInv'
<1>1. /\ asked[c] = NotAsked /\ UNCHANGED <<db, tx, asked>>
      /\ known' = [known EXCEPT ![c] = View(c).root]
  BY DEF Refresh
<1>2. MirrorsAt(View(c).root, View(c))
  BY ViewIs DEF Good, MapInv
<1> DEFINE r == View(c).root
<1> HIDE DEF r
<1>3. /\ known' = [d \in Conns |-> known'[d]] /\ known'[c] = r
      /\ \A d \in Conns : d # c => known'[d] = known[d]
  <2>1. known = [d \in Conns |-> known[d]]
    BY DEF IInv, TxInv
  <2> QED BY <1>1, <2>1 DEF r
<1>4. TxInv'
  BY <1>1, <1>3 DEF IInv, TxInv
<1>5. KnownInv'
  <2>1. ASSUME NEW d \in Conns PROVE MirrorsAt(known'[d], View(d))
    <3>1. CASE d = c
      BY <1>2, <1>3, <3>1 DEF r
    <3>2. CASE d # c
      BY <1>3, <3>2 DEF IInv, KnownInv
    <3> QED BY <3>1, <3>2
  <2> QED BY <1>1, <2>1 DEF KnownInv, View
<1>6. AskedInv'
  <2>1. Checked(db', known'[c], asked'[c])
    BY <1>1 DEF Checked, NotAsked
  <2>2. \A d \in Conns : d # c => Checked(db', known'[d], asked'[d])
    BY <1>1, <1>3 DEF IInv, AskedInv
  <2> QED BY <2>1, <2>2 DEF AskedInv
<1>7. ReadInv'
  BY <1>1 DEF IInv, ReadInv, DocumentsReadable, Loads
<1> QED BY <1>4, <1>5, <1>6, <1>7 DEF IInv

\* A commit: w becomes what all connections see, c's host holds the root r.
LEMMA CommitKeeps ==
    ASSUME IInv, NEW c \in Conns, \A d \in Conns : d # c => tx[d] = Closed,
           NEW w, Good(w), Continues(db, w), DocumentsReadable(w, w.root),
           NEW r, MirrorsAt(r, w), known' = [known EXCEPT ![c] = r],
           db' = w, tx' = [tx EXCEPT ![c] = Closed],
           NEW q, q \in {asked[c], NotAsked}, tx[c] # Closed => q = NotAsked,
           q # NotAsked => r = known[c],
           asked' = [asked EXCEPT ![c] = q]
    PROVE  IInv'
<1>1. /\ tx' = [d \in Conns |-> tx'[d]] /\ known' = [d \in Conns |-> known'[d]]
      /\ tx'[c] = Closed /\ known'[c] = r
      /\ \A d \in Conns : d # c => tx'[d] = tx[d] /\ known'[d] = known[d]
  <2>1. tx = [d \in Conns |-> tx[d]] /\ known = [d \in Conns |-> known[d]]
    BY DEF IInv, TxInv
  <2> QED BY <2>1
<1>2. NotAsked \in [batch : Ids \cup {None}, materialize : BOOLEAN]
  BY DEF NotAsked
<1>3. /\ asked \in [Conns -> [batch : Ids \cup {None}, materialize : BOOLEAN]]
      /\ asked' \in [Conns -> [batch : Ids \cup {None}, materialize : BOOLEAN]]
      /\ asked'[c] = q /\ \A d \in Conns : d # c => asked'[d] = asked[d]
  <2>1. asked \in [Conns -> [batch : Ids \cup {None}, materialize : BOOLEAN]]
    BY DEF IInv, TxInv
  <2> QED BY <1>2, <2>1
<1>4. Good(db)
  BY DEF IInv, TxInv
<1>5. \A d \in Conns : tx'[d] = Closed
  BY <1>1
<1>6. TxInv'
  BY <1>1, <1>3, <1>5 DEF TxInv
<1>7. ASSUME NEW d \in Conns, d # c PROVE MirrorsAt(known[d], db) /\ MirrorsAt(known[d], w)
  <2>1. MirrorsAt(known[d], db)
    BY <1>7 DEF IInv, KnownInv, View
  <2> QED BY <1>4, <2>1, MirrorContinues
<1>8. KnownInv'
  BY <1>1, <1>5, <1>7 DEF KnownInv, View
<1>9. AskedInv'
  <2>1. ASSUME NEW d \in Conns, asked'[d] # NotAsked
        PROVE  Checked(w, known'[d], asked'[d])
    <3>1. known'[d] = known[d] /\ asked'[d] = asked[d] /\ tx[d] = Closed
      BY <1>1, <1>3, <2>1
    <3>2. MirrorsAt(known[d], db) /\ Checked(db, known[d], asked[d])
      BY <3>1 DEF IInv, KnownInv, AskedInv, View
    <3>3. known[d].count \in Nat /\ known[d].count <= db.root.count
      BY <3>2 DEF MirrorsAt, IsRoot
    <3>4. asked[d] \in [batch : Ids \cup {None}, materialize : BOOLEAN]
      BY <1>3
    <3> QED BY <1>4, <3>1, <3>2, <3>3, <3>4, CheckedStays
  <2>2. ASSUME NEW d \in Conns, asked'[d] = NotAsked
        PROVE  Checked(w, known'[d], asked'[d])
    BY <2>2 DEF Checked, NotAsked
  <2> QED BY <2>1, <2>2 DEF AskedInv
<1>10. ReadInv'
  BY DEF ReadInv, DocumentsReadable, Loads
<1> QED BY <1>6, <1>8, <1>9, <1>10 DEF IInv

LEMMA ApplyKeeps ==
    ASSUME IInv, NEW c \in Conns, Apply(c)
    PROVE  IInv' /\ Continues(db, db')
<1> DEFINE b == asked[c].batch
           m == asked[c].materialize
           w == Applied(db, db.root, b, m, TRUE)
           post == Post(db, db.root, b)
<1>1. /\ b # None /\ Writable(c) /\ db.root = known[c] /\ Vacant(db, known[c], b)
      /\ db' = w /\ known' = [known EXCEPT ![c] = db'.root]
      /\ asked' = [asked EXCEPT ![c] = NotAsked] /\ tx' = tx
  BY DEF Apply, Fresh
<1>2. /\ Good(db) /\ b \in Ids /\ m \in BOOLEAN /\ tx[c] = Closed
      /\ tx = [d \in Conns |-> tx[d]]
  <2>1. asked[c] \in [batch : Ids \cup {None}, materialize : BOOLEAN]
    BY DEF IInv, TxInv
  <2>2. asked[c] # NotAsked
    BY <1>1 DEF NotAsked
  <2> QED BY <1>1, <2>1, <2>2 DEF IInv, TxInv
<1>3. Checked(db, known[c], asked[c])
  BY DEF IInv, AskedInv
<1>4. Admits(db, b) /\ (m => db.stamp = db.root)
  <2>1. Rows(db, b) = {} /\ Len(db.rows) = db.root.count
    BY <1>1 DEF Vacant
  <2>2. \A h \in Heads[b] : Rows(db, h) # {}
    BY <1>1, <1>3 DEF Checked
  <2>3. m => db.stamp = db.root
    BY <1>1, <1>3, <2>1 DEF Checked
  <2> QED BY <2>1, <2>2, <2>3 DEF Admits, Ready
<1> HIDE DEF b, m
<1>5. /\ Grows(db, b, w) /\ w.root = post
      /\ w.table = Store(db.table, db.root.docs, post.docs)
  BY <1>2, <1>4, AppliedGrows
<1> HIDE DEF w, post
<1>6. Continues(db, db)
  BY <1>2, ContinuesItself
<1>7. Good(w) /\ Continues(db, w)
  BY <1>2, <1>4, <1>5, <1>6, GrownGood, GrownContinues
<1>8. DocumentsReadable(w, w.root)
  <2>1. Fits(post.docs, Docs, Ids)
    BY <1>5, <1>7 DEF Good, IsFile, IsRoot
  <2>2. DOMAIN db.table = Docs
    BY <1>2 DEF Good, IsFile
  <2>3. ASSUME NEW n \in Nodes(post.docs) PROVE w.table[n.key] = n
    <3>1. n \in Nodes(db.root.docs) => db.table[n.key] = n
      BY DEF IInv, ReadInv, DocumentsReadable, Loads
    <3> QED BY <1>5, <2>1, <2>2, <3>1, Stored
  <2> QED BY <1>5, <2>3 DEF DocumentsReadable, Loads
<1>9. MirrorsAt(w.root, w)
  BY <1>7 DEF Good, MapInv
<1>10. known' = [known EXCEPT ![c] = w.root] /\ tx' = [tx EXCEPT ![c] = Closed]
  BY <1>1, <1>2
<1>11. \A d \in Conns : d # c => tx[d] = Closed
  BY <1>1 DEF Writable
<1> DEFINE r == w.root
           q == NotAsked
<1>12. /\ MirrorsAt(r, w) /\ known' = [known EXCEPT ![c] = r]
       /\ q \in {asked[c], NotAsked} /\ q = NotAsked /\ asked' = [asked EXCEPT ![c] = q]
  BY <1>1, <1>9, <1>10
<1> HIDE DEF r, q
<1>13. db' = w
  BY <1>1
<1> QED BY <1>7, <1>8, <1>10, <1>11, <1>12, <1>13, CommitKeeps DEF q

LEMMA FinishKeeps ==
    ASSUME IInv, NEW c \in Conns, Finish(c)
    PROVE  IInv' /\ Continues(db, db')
<1>1. /\ tx[c] # Closed /\ DocumentsReadable(tx[c], tx[c].root) /\ db' = tx[c]
      /\ tx' = [tx EXCEPT ![c] = Closed] /\ UNCHANGED <<known, asked>>
  BY DEF Finish
<1>2. /\ Good(tx[c]) /\ Continues(db, tx[c]) /\ asked[c] = NotAsked
      /\ \A d \in Conns : d # c => tx[d] = Closed
  BY <1>1 DEF IInv, TxInv
<1>3. MirrorsAt(known[c], tx[c])
  BY <1>1 DEF IInv, KnownInv, View
<1>4. known' = [known EXCEPT ![c] = known[c]] /\ asked' = [asked EXCEPT ![c] = asked[c]]
  <2>1. asked \in [Conns -> [batch : Ids \cup {None}, materialize : BOOLEAN]]
    BY DEF IInv, TxInv
  <2>2. asked' = [asked EXCEPT ![c] = asked[c]]
    BY <1>1, <2>1
  <2> QED BY <1>1, <2>2, KnownSame
<1> DEFINE w == tx[c]
           r == known[c]
           q == asked[c]
<1>5. /\ Good(w) /\ Continues(db, w) /\ DocumentsReadable(w, w.root) /\ db' = w
      /\ MirrorsAt(r, w) /\ known' = [known EXCEPT ![c] = r]
      /\ q \in {asked[c], NotAsked} /\ q = NotAsked /\ asked' = [asked EXCEPT ![c] = q]
  BY <1>1, <1>2, <1>3, <1>4
<1> HIDE DEF w, r, q
<1> QED BY <1>1, <1>2, <1>5, CommitKeeps

LEMMA StepInv == IInv /\ [Next]_vars => IInv'
<1> SUFFICES ASSUME IInv, [Next]_vars PROVE IInv'
  OBVIOUS
<1>1. CASE UNCHANGED vars
  BY <1>1 DEF vars, IInv, TxInv, KnownInv, View, AskedInv, ReadInv, DocumentsReadable, Loads
<1>2. CASE Next
  <2>1. PICK c \in Conns :
           \/ Apply(c) \/ ApplyFails(c) \/ Refresh(c)
           \/ Begin(c) \/ SeedTerminalDocuments(c) \/ FinishTerminalConstruction(c)
           \/ Finish(c) \/ Close(c)
           \/ \E b \in Ids :
                 \/ ApplyTerminalPrefix(c, b) \/ ApplyCandidateFails(c, b)
                 \/ \E m \in BOOLEAN : Check(c, b, m) \/ ApplyCandidate(c, b, m)
    BY <1>2 DEF Next
  <2>2. CASE Apply(c) \/ ApplyFails(c) \/ Refresh(c)
    BY <2>2, ApplyKeeps, ApplyFailsKeeps, RefreshKeeps
  <2>3. CASE Begin(c) \/ SeedTerminalDocuments(c) \/ FinishTerminalConstruction(c)
    BY <2>3, BeginKeeps, SeedKeeps, FinishTerminalKeeps
  <2>4. CASE Finish(c) \/ Close(c)
    BY <2>4, FinishKeeps, CloseKeeps
  <2>5. CASE \E b \in Ids : ApplyTerminalPrefix(c, b) \/ ApplyCandidateFails(c, b)
    BY <2>5, TerminalPrefixKeeps, CandidateFailsKeeps
  <2>6. CASE \E b \in Ids, m \in BOOLEAN : Check(c, b, m) \/ ApplyCandidate(c, b, m)
    BY <2>6, CheckKeeps, ApplyCandidateKeeps
  <2> QED BY <2>1, <2>2, <2>3, <2>4, <2>5, <2>6
<1> QED BY <1>1, <1>2

LEMMA Invariance == Spec => []IInv
BY InitInv, StepInv, PTL DEF Spec

-----------------------------------------------------------------------------
(* Types, the stamp, and the history that is accepted.                     *)

LEMMA ViewsAre ==
    ASSUME IInv, NEW v \in Views
    PROVE  /\ Good(v) /\ Continues(db, v)
           /\ v = db \/ \E c \in Conns : tx[c] # Closed /\ v = tx[c]
<1>1. v = db \/ \E c \in Conns : tx[c] # Closed /\ v = tx[c]
  BY DEF Views
<1>2. Good(db) /\ Continues(db, db)
  BY ContinuesItself DEF IInv, TxInv
<1>3. \A c \in Conns : tx[c] # Closed => Good(tx[c]) /\ Continues(db, tx[c])
  BY DEF IInv, TxInv
<1> QED BY <1>1, <1>2, <1>3

LEMMA HistoryIs ==
    ASSUME NEW v, Good(v)
    PROVE  /\ History(v) = Prefix(v, v.root.count)
           /\ History(v) \in Seq(Ids) /\ Len(History(v)) = v.root.count
           /\ v.root.count \in Nat /\ v.root.count <= Len(v.rows) /\ Len(v.rows) \in Nat
           /\ \A i \in 1..v.root.count : i \in 1..Len(v.rows) /\ History(v)[i] = v.rows[i].batch
           /\ \A i, j \in 1..v.root.count : History(v)[i] = History(v)[j] => i = j
           /\ \A i \in 1..v.root.count :
                 Heads[History(v)[i]] \subseteq {History(v)[j] : j \in 1..(i - 1)}
<1> DEFINE n == v.root.count
           h == History(v)
<1>1. n \in Nat /\ Len(v.rows) \in Nat /\ n <= Len(v.rows) /\ n \in 0..Len(v.rows)
  BY GoodIs
<1>2. h = Prefix(v, n) /\ \A i \in 1..n : h[i] = v.rows[i].batch
  BY DEF History, Prefix
<1>3. h \in Seq(Ids) /\ Len(h) = n
  BY <1>1, <1>2, PrefixIs
<1> HIDE DEF h, n
<1>4. \A i \in 1..n : i \in 1..Len(v.rows)
  BY <1>1
<1>5. \A i, j \in 1..n : h[i] = h[j] => i = j
  BY <1>2, <1>4 DEF Good, RowsInv
<1>6. ASSUME NEW i \in 1..n, NEW b \in Heads[h[i]]
      PROVE  \E j \in 1..(i - 1) : b = h[j]
  <2>1. PICK j \in 1..(i - 1) : v.rows[j].batch = b
    BY <1>2, <1>4 DEF Good, RowsInv
  <2>2. j \in 1..n
    BY <1>1, <2>1
  <2> QED BY <1>2, <2>1, <2>2
<1> QED BY <1>1, <1>2, <1>3, <1>4, <1>5, <1>6 DEF h, n

LEMMA HistoryShort ==
    ASSUME NEW v, Good(v)
    PROVE  Cardinality(Ids) \in Nat /\ v.root.count <= Cardinality(Ids)
<1> DEFINE n == v.root.count
           h == History(v)
<1>1. n \in Nat /\ h \in Seq(Ids) /\ Len(h) = n /\ \A i, j \in 1..n : h[i] = h[j] => i = j
  BY HistoryIs
<1>2. IsFiniteSet(Ids)
  <2>1. Ids \in SUBSET Keys /\ IsFiniteSet(Keys)
    BY BatchesAre, Constants
  <2> QED BY <2>1, FS_Subset
<1>3. Cardinality(Ids) \in Nat
  BY <1>2, FS_CardinalityType
<1> HIDE DEF n, h
<1>4. DOMAIN h = 1..n /\ h \in [1..n -> Ids]
  BY <1>1
<1>5. h \in Injection(1..n, Ids)
  BY <1>1, <1>4 DEF Injection, IsInjective
<1>6. Cardinality(1..n) <= Cardinality(Ids)
  BY <1>2, <1>5, FS_Injection
<1>7. 1 \in Int /\ n \in Int
  BY <1>1
<1>8. Cardinality(1..n) = IF 1 > n THEN 0 ELSE n - 1 + 1
  BY <1>7, FS_Interval
<1>9. Cardinality(1..n) = n
  BY <1>1, <1>8
<1> QED BY <1>3, <1>6, <1>9 DEF n

LEMMA TypesHold == IInv => TypeOK
<1> SUFFICES ASSUME IInv PROVE TypeOK
  OBVIOUS
<1>1. ASSUME NEW v \in Views
      PROVE  /\ v.root.count \in 0..Cardinality(Ids)
             /\ v.root.count <= Len(v.rows) /\ Len(v.rows) <= v.root.count + 1
             /\ \A i \in DOMAIN v.rows : v.rows[i].batch \in Ids
             /\ v.recorded \subseteq 1..Len(v.rows)
  <2>1. Good(v)
    BY ViewsAre
  <2>2. v.root.count \in Nat /\ Cardinality(Ids) \in Nat /\ v.root.count <= Cardinality(Ids)
    BY <2>1, HistoryIs, HistoryShort
  <2>3. DOMAIN v.rows = 1..Len(v.rows) /\ \A i \in 1..Len(v.rows) : v.rows[i].batch \in Ids
    BY <2>1, GoodIs
  <2>4. /\ v.root.count <= Len(v.rows) /\ Len(v.rows) <= v.root.count + 1
        /\ v.recorded \subseteq 1..Len(v.rows)
    BY <2>1 DEF Good, IsFile
  <2> QED BY <2>2, <2>3, <2>4
<1>2. /\ DOMAIN tx = Conns /\ DOMAIN known = Conns
      /\ asked \in [Conns -> [batch : Ids \cup {None}, materialize : BOOLEAN]]
  BY DEF IInv, TxInv
<1> QED BY <1>1, <1>2 DEF TypeOK

\* Every view keeps its shape: never more batches than exist, at most one row beyond
\* the frontier row (of a candidate step that failed), no record without a row.
THEOREM TypeCorrect == Spec => []TypeOK
BY Invariance, TypesHold, PTL

\* A materialization stamp that names the frontier is never short: apply_in_open_transaction,
\* its failed steps and the terminal construction record every accepted batch first.
THEOREM StampNeverShort == Spec => []StampCovers
<1>1. IInv => StampCovers
  <2> SUFFICES ASSUME IInv, NEW v \in Views, v.stamp = v.root
               PROVE  v.recorded = 1..v.root.count
    BY DEF StampCovers
  <2>1. Good(v)
    BY ViewsAre
  <2> QED BY <2>1 DEF Good, StampInv
<1> QED BY <1>1, Invariance, PTL

LEMMA DbMoves ==
    ASSUME IInv, [Next]_vars
    PROVE  Good(db) /\ Good(db') /\ (db' = db \/ Continues(db, db'))
<1>0. Good(db) /\ Good(db')
  BY StepInv DEF IInv, TxInv
<1>1. CASE UNCHANGED vars
  BY <1>0, <1>1 DEF vars
<1>2. CASE Next
  <2>1. PICK c \in Conns :
           \/ Apply(c) \/ ApplyFails(c) \/ Refresh(c)
           \/ Begin(c) \/ SeedTerminalDocuments(c) \/ FinishTerminalConstruction(c)
           \/ Finish(c) \/ Close(c)
           \/ \E b \in Ids :
                 \/ ApplyTerminalPrefix(c, b) \/ ApplyCandidateFails(c, b)
                 \/ \E m \in BOOLEAN : Check(c, b, m) \/ ApplyCandidate(c, b, m)
    BY <1>2 DEF Next
  <2>2. CASE Apply(c) \/ Finish(c)
    BY <1>0, <2>2, ApplyKeeps, FinishKeeps
  <2>3. CASE ApplyFails(c) \/ Refresh(c) \/ Begin(c) \/ Close(c)
    BY <1>0, <2>3 DEF ApplyFails, Refresh, Begin, Close
  <2>4. CASE SeedTerminalDocuments(c) \/ FinishTerminalConstruction(c)
    BY <1>0, <2>4 DEF SeedTerminalDocuments, FinishTerminalConstruction, CandidateStep
  <2>5. CASE \E b \in Ids : ApplyTerminalPrefix(c, b) \/ ApplyCandidateFails(c, b)
    BY <1>0, <2>5 DEF ApplyTerminalPrefix, ApplyCandidateFails, CandidateStep
  <2>6. CASE \E b \in Ids, m \in BOOLEAN : Check(c, b, m) \/ ApplyCandidate(c, b, m)
    BY <1>0, <2>6 DEF Check, ApplyCandidate, CandidateStep
  <2> QED BY <2>1, <2>2, <2>3, <2>4, <2>5, <2>6
<1> QED BY <1>1, <1>2

LEMMA HistoryGrows ==
    ASSUME NEW v, Good(v), NEW w, Good(w), Continues(v, w), History(w) # History(v)
    PROVE  /\ Accepted!IsStrictPrefix(History(v), History(w))
           /\ Accepted!ToSet(History(w)) \subseteq Ids
           /\ Accepted!Causal(History(w))
<1> DEFINE m == v.root.count
           n == w.root.count
           g == History(v)
           h == History(w)
<1>1. /\ m \in Nat /\ g \in Seq(Ids) /\ Len(g) = m /\ Len(v.rows) \in Nat /\ m <= Len(v.rows)
      /\ \A i \in 1..m : g[i] = v.rows[i].batch
  BY HistoryIs
<1>2. /\ n \in Nat /\ h \in Seq(Ids) /\ Len(h) = n
      /\ \A i \in 1..n : h[i] = w.rows[i].batch
      /\ \A i, j \in 1..n : h[i] = h[j] => i = j
      /\ \A i \in 1..n : Heads[h[i]] \subseteq {h[j] : j \in 1..(i - 1)}
  BY HistoryIs
<1>3. m <= n /\ \A i \in 1..m : w.rows[i] = v.rows[i]
  BY <1>1 DEF Continues
<1> HIDE DEF m, n, g, h
<1>4. \A i \in 1..m : i \in 1..n /\ h[i] = g[i]
  BY <1>1, <1>2, <1>3
<1>5. SubSeq(g, 1, m) = SubSeq(h, 1, m)
  <2>1. SubSeq(g, 1, m) = [i \in 1..m |-> g[i]] /\ SubSeq(h, 1, m) = [i \in 1..m |-> h[i]]
    BY <1>1, <1>2, <1>3
  <2> QED BY <1>4, <2>1
<1>6. Accepted!IsStrictPrefix(g, h)
  BY <1>1, <1>2, <1>3, <1>5 DEF Accepted!IsStrictPrefix, Accepted!IsPrefix, g, h
<1>7. DOMAIN h = 1..n
  BY <1>2
<1>8. Accepted!ToSet(h) \subseteq Ids
  BY <1>2, <1>7 DEF Accepted!ToSet
<1>9. Accepted!Causal(h)
  BY <1>2, <1>7 DEF Accepted!Causal, Accepted!IsInjective
<1> QED BY <1>6, <1>8, <1>9 DEF g, h

\* The committed database implements the abstract history: whatever two connections,
\* a candidate build, a failed step or a crash do, batches are only appended, each once
\* and behind the batches it depends on.
THEOREM HistoryInOrder == Spec => AcceptsInOrder
<1>1. Init => Accepted!Init
  <2> SUFFICES ASSUME Init PROVE History(db) = <<>>
    BY DEF Accepted!Init
  <2>1. db.root.count = 0
    BY DEF Init, EmptyFile, EmptyRoot
  <2> QED BY <2>1 DEF History
<1>2. IInv /\ [Next]_vars => [Accepted!Extends]_(History(db))
  <2> SUFFICES ASSUME IInv, [Next]_vars, History(db') # History(db)
               PROVE  Accepted!Extends
    OBVIOUS
  <2>1. Good(db) /\ Good(db') /\ Continues(db, db')
    BY DbMoves
  <2>2. /\ Accepted!IsStrictPrefix(History(db), History(db'))
        /\ Accepted!ToSet(History(db')) \subseteq Ids
        /\ Accepted!Causal(History(db'))
    BY <2>1, HistoryGrows
  <2> QED BY <2>2 DEF Accepted!Extends
<1> QED BY <1>1, <1>2, Invariance, PTL DEF Spec, AcceptsInOrder, Accepted!Spec

-----------------------------------------------------------------------------
(* What is read.                                                           *)

\* All that d's document depends on are the nodes on the way to d.
LEMMA DocumentIs ==
    ASSUME NEW v, NEW r, MirrorsAt(r, v), NEW d \in Docs
    PROVE  /\ FrontierDocument(v, r, d) \in {Corrupt, Latest(Prefix(v, r.count), d)}
           /\ DocumentsReadable(v, r) =>
                  FrontierDocument(v, r, d) = Latest(Prefix(v, r.count), d)
<1> DEFINE t == r.docs
           path == Path(r.docs, d)
           broken == \E i \in DOMAIN path : ~ Loads(v, path[i])
<1>1. d \in Keys /\ Docs \subseteq Keys
  BY BatchesAre
<1>2. Fits(t, Keys, Ids) /\ Lookup(t, d, None) = Latest(Prefix(v, r.count), d)
  <2>1. Fits(r.docs, Docs, Ids)
    BY DEF MirrorsAt, IsRoot
  <2> QED BY <1>1, <2>1, FitsWider DEF MirrorsAt
<1>3. FrontierDocument(v, r, d) =
          IF broken THEN Corrupt
          ELSE IF path # <<>> /\ Last(path).key = d THEN v.table[d].val
          ELSE None
  BY DEF FrontierDocument
<1>4. Lookup(t, d, None) = IF path # <<>> /\ Last(path).key = d THEN Last(path).val ELSE None
  BY DEF Lookup
<1> HIDE DEF t
<1>5. path # <<>> => path \in Seq(Nodes(t)) /\ Len(path) \in DOMAIN path
  <2>1. CASE t = Nil
    BY <1>1, <1>2, <2>1, PathIs DEF t
  <2>2. CASE t # Nil
    <3>1. IsWalk(path, t, d)
      BY <1>1, <1>2, <2>2, PathIs DEF t
    <3> HIDE DEF path
    <3>2. path \in Seq(Nodes(t)) /\ path # <<>>
      BY <3>1 DEF IsWalk
    <3> QED BY <3>2
  <2> QED BY <2>1, <2>2
<1> HIDE DEF path
<1>6. CASE broken
  <2>1. PICK i \in DOMAIN path : ~ Loads(v, path[i])
    BY <1>6
  <2>2. path # <<>>
    BY <2>1
  <2>3. path[i] \in Nodes(t)
    BY <1>5, <2>1, <2>2
  <2>4. ~ DocumentsReadable(v, r)
    BY <2>1, <2>3 DEF DocumentsReadable, t
  <2> QED BY <1>3, <1>6, <2>4
<1>7. CASE ~ broken
  <2>1. CASE path # <<>> /\ Last(path).key = d
    <3>1. Loads(v, path[Len(path)]) /\ path[Len(path)].key = d
      BY <1>5, <1>7, <2>1 DEF Last
    <3>2. v.table[d] = Last(path)
      BY <3>1 DEF Loads, Last
    <3>3. FrontierDocument(v, r, d) = Last(path).val
      BY <1>3, <1>7, <2>1, <3>2
    <3> QED BY <1>2, <1>4, <2>1, <3>3
  <2>2. CASE ~ (path # <<>> /\ Last(path).key = d)
    BY <1>2, <1>3, <1>4, <1>7, <2>2
  <2> QED BY <2>1, <2>2
<1> QED BY <1>6, <1>7

\* Each root a host may read a view under mirrors a prefix of the view's history.
LEMMA RootsMirror ==
    ASSUME IInv, NEW v \in Views, NEW r \in Roots(v)
    PROVE  MirrorsAt(r.root, v) /\ r.history = Prefix(v, r.root.count)
<1>1. Good(v) /\ Continues(db, v) /\ Good(db)
  BY ViewsAre DEF IInv, TxInv
<1>2. CASE r = [root |-> v.root, history |-> History(v)]
  <2>1. MirrorsAt(v.root, v) /\ History(v) = Prefix(v, v.root.count)
    BY <1>1, HistoryIs DEF Good, MapInv
  <2>2. r.root = v.root /\ r.history = History(v)
    BY <1>2
  <2> QED BY <2>1, <2>2
<1>3. ASSUME NEW c \in Conns, known[c].count <= v.root.count,
             r = [root |-> known[c], history |-> SubSeq(History(v), 1, known[c].count)]
      PROVE  MirrorsAt(r.root, v) /\ r.history = Prefix(v, r.root.count)
  <2> DEFINE k == known[c]
             n == known[c].count
  <2>1. MirrorsAt(k, View(c)) /\ Good(View(c)) /\ Continues(db, View(c))
    BY ViewIs DEF IInv, KnownInv
  <2>2. n \in Nat /\ n <= v.root.count
    BY <1>3, <2>1 DEF MirrorsAt, IsRoot
  <2>3. MirrorsAt(k, v)
    <3>1. CASE View(c) = v
      BY <2>1, <3>1
    <3>2. CASE View(c) = db
      BY <1>1, <2>1, <3>2, MirrorContinues
    <3>3. CASE v = db
      <4>1. /\ db.root.count \in Nat /\ Len(db.rows) \in Nat /\ db.root.count <= Len(db.rows)
        BY <1>1, GoodIs
      <4>2. \A i \in 1..Len(db.rows) : View(c).rows[i] = db.rows[i]
        BY <2>1 DEF Continues
      <4>3. \A i \in 1..n : View(c).rows[i].batch = v.rows[i].batch
        BY <2>2, <3>3, <4>1, <4>2
      <4>4. Prefix(View(c), n) = Prefix(v, n)
        BY <4>3 DEF Prefix
      <4> QED BY <1>3, <2>1, <4>4 DEF MirrorsAt
    <3>4. CASE \E d \in Conns : tx[d] # Closed /\ v = tx[d]
      <4>1. PICK d \in Conns : tx[d] # Closed /\ v = tx[d]
        BY <3>4
      <4>2. tx[c] # Closed => c = d
        BY <4>1 DEF IInv, TxInv
      <4>3. View(c) = db \/ View(c) = v
        BY <4>1, <4>2 DEF View
      <4> QED BY <3>1, <3>2, <4>3
    <3> QED BY <3>3, <3>4, ViewsAre
  <2>4. SubSeq(History(v), 1, n) = Prefix(v, n)
    <3> DEFINE h == History(v)
    <3>1. /\ h \in Seq(Ids) /\ Len(h) = v.root.count /\ v.root.count \in Nat
          /\ \A i \in 1..v.root.count : h[i] = v.rows[i].batch
      BY <1>1, HistoryIs
    <3> HIDE DEF h, n
    <3>2. SubSeq(h, 1, n) = [i \in 1..n |-> h[i]]
      BY <2>2, <3>1
    <3>3. \A i \in 1..n : h[i] = v.rows[i].batch
      BY <2>2, <3>1
    <3>4. SubSeq(h, 1, n) = Prefix(v, n)
      BY <3>2, <3>3 DEF Prefix
    <3> QED BY <3>4 DEF h
  <2>5. r.root = k /\ r.history = SubSeq(History(v), 1, n)
    BY <1>3
  <2> QED BY <2>3, <2>4, <2>5
<1> QED BY <1>2, <1>3 DEF Roots

\* A document read under any root the host still holds, of the committed file or of an
\* open candidate, is that root's document or an error, never one that a later apply
\* wrote in its place: frontier_document checks the digest of each row it reads.
THEOREM DocumentsStayExact == Spec => []DocumentsExact
<1>1. IInv => DocumentsExact
  <2> SUFFICES ASSUME IInv, NEW v \in Views, NEW r \in Roots(v), NEW d \in Docs
               PROVE  FrontierDocument(v, r.root, d) \in
                          {Corrupt, IF d \in DOMAIN DocumentsAt(r.history)
                                    THEN DocumentsAt(r.history)[d] ELSE None}
    BY DEF DocumentsExact
  <2>1. MirrorsAt(r.root, v) /\ r.history = Prefix(v, r.root.count)
    BY RootsMirror
  <2>2. FrontierDocument(v, r.root, d) \in {Corrupt, Latest(r.history, d)}
    BY <2>1, DocumentIs
  <2> QED BY <2>2 DEF Latest
<1> QED BY <1>1, Invariance, PTL

\* The batches of a frontier root are those of its history, each with its row.
LEMMA AcceptedAre ==
    ASSUME NEW v, Good(v), NEW b \in Ids
    PROVE  Authenticated(v, v.root, b) <=> \E i \in 1..v.root.count : v.rows[i].batch = b
<1>1. Lookup(v.root.batches, b, <<>>) # <<>> <=> \E i \in 1..v.root.count : v.rows[i].batch = b
  BY DEF Good, MapInv
<1>2. ASSUME NEW i \in 1..v.root.count, v.rows[i].batch = b
      PROVE  /\ Rows(v, b) # {}
             /\ Lookup(Row(v, b).clock, Batch[b].peer, 0) = Row(v, b).counter
  <2>1. i \in DOMAIN v.rows
    BY <1>2, GoodIs
  <2>2. Rows(v, b) # {}
    BY <1>2, <2>1 DEF Rows
  <2>3. PICK j \in 1..Len(v.rows) : Row(v, b) = v.rows[j] /\ v.rows[j].batch = b
    BY <2>2, RowIs DEF Good
  <2>4. ClockInv(v.rows, j)
    BY DEF Good, RowsInv
  <2> QED BY <2>2, <2>3, <2>4 DEF ClockInv, PeerOf
<1> QED BY <1>1, <1>2 DEF Authenticated

\* The committed frontier can be read whole, whatever failed, was retried or died before:
\* each document answers the batch that wrote it last, and exactly the accepted batches
\* authenticate (frontier_document, authenticated_batch_record).
THEOREM FrontierStaysWhole == Spec => []FrontierWhole
<1>1. IInv => FrontierWhole
  <2> SUFFICES ASSUME IInv PROVE FrontierWhole
    OBVIOUS
  <2>1. Good(db) /\ DocumentsReadable(db, db.root)
    BY DEF IInv, TxInv, ReadInv
  <2>2. ASSUME NEW d \in Docs
        PROVE  FrontierDocument(db, db.root, d) =
                   IF d \in DOMAIN DocumentsAt(History(db)) THEN DocumentsAt(History(db))[d]
                   ELSE None
    <3>1. MirrorsAt(db.root, db) /\ History(db) = Prefix(db, db.root.count)
      BY <2>1, HistoryIs DEF Good, MapInv
    <3>2. FrontierDocument(db, db.root, d) = Latest(History(db), d)
      BY <2>1, <3>1, DocumentIs
    <3> QED BY <3>2 DEF Latest
  <2>3. ASSUME NEW b \in Ids
        PROVE  Authenticated(db, db.root, b) <=> b \in ToSet(History(db))
    <3>1. b \in ToSet(History(db)) <=> \E i \in 1..db.root.count : db.rows[i].batch = b
      BY DEF ToSet, History
    <3> QED BY <2>1, <3>1, AcceptedAre
  <2> QED BY <2>2, <2>3 DEF FrontierWhole
<1> QED BY <1>1, Invariance, PTL

LEMMA ClocksAnswer ==
    ASSUME NEW rows, RowsInv(rows), NEW i \in 1..Len(rows), NEW j \in 1..Len(rows)
    PROVE  Lookup(rows[i].clock, PeerOf(rows[j]), 0) >= rows[j].counter
               <=> rows[j].batch \in Past[rows[i].batch]
<1> DEFINE a == rows[j].batch
           d == rows[i].batch
           at == Lookup(rows[i].clock, PeerOf(rows[j]), 0)
<1>1. /\ ClockInv(rows, i) /\ ClockInv(rows, j)
      /\ \A k, l \in 1..Len(rows) : rows[k].batch = rows[l].batch => k = l
  BY DEF RowsInv
<1>2. \A k \in 1..Len(rows) : /\ rows[k].batch \in Ids /\ rows[k].counter \in Nat \ {0}
                              /\ PeerOf(rows[k]) \in Keys
  BY RowFields DEF RowsInv
<1>3. at \in Nat
  BY <1>1, <1>2, CounterIs DEF ClockInv
<1>4. ASSUME a \in Past[d] PROVE at >= rows[j].counter
  <2>1. j \in Behind(rows, i)
    BY <1>4 DEF Behind
  <2>2. rows[j].counter <= at
    BY <1>1, <2>1 DEF ClockInv
  <2> QED BY <1>2, <1>3, <2>2
<1>5. ASSUME at >= rows[j].counter PROVE a \in Past[d]
  <2>1. at # 0
    BY <1>2, <1>3, <1>5
  <2>2. PICK k \in Behind(rows, i) : PeerOf(rows[k]) = PeerOf(rows[j]) /\ rows[k].counter = at
    BY <1>1, <1>2, <2>1 DEF ClockInv
  <2> DEFINE x == rows[k].batch
  <2>3. k \in 1..Len(rows) /\ x \in Past[d]
    BY <2>2 DEF Behind
  <2>4. a \in Past[x] \/ x \in Past[a]
    BY <1>2, <2>2, <2>3, BatchAssumption DEF PeerOf
  <2>5. CASE a \in Past[x]
    BY <1>2, <2>3, <2>5, PastTransitive
  <2>6. CASE x \in Past[a]
    <3>1. k \in Behind(rows, j)
      BY <2>3, <2>6 DEF Behind
    <3>2. k = j
      <4>1. k # j => rows[k].counter < rows[j].counter
        BY <1>1, <2>2, <3>1 DEF ClockInv
      <4> QED BY <1>2, <1>3, <1>5, <2>2, <4>1
    <3> QED BY <2>3, <3>2
  <2> QED BY <2>4, <2>5, <2>6
<1> QED BY <1>4, <1>5

\* Comparing one counter of the ancestor with the descendant's clock (batch_descends_from)
\* decides the dependency relation: the clocks that derive_causal_clock_root joins hold,
\* for each peer, exactly its batches in the past.
THEOREM DescentIsPast == Spec => []DescendsExact
<1>1. IInv => DescendsExact
  <2> SUFFICES ASSUME IInv, NEW v \in Views,
                      NEW d \in ToSet(History(v)), NEW a \in ToSet(History(v))
               PROVE  DescendsFrom(v, v.root, d, a) <=> a \in Past[d]
    BY DEF DescendsExact
  <2>1. Good(v)
    BY ViewsAre
  <2>2. /\ \E i \in 1..v.root.count : v.rows[i].batch = d
        /\ \E i \in 1..v.root.count : v.rows[i].batch = a
    BY DEF ToSet, History
  <2>3. a \in Ids /\ d \in Ids /\ Rows(v, a) # {} /\ Rows(v, d) # {}
    <3>1. \A i \in 1..v.root.count : i \in DOMAIN v.rows /\ v.rows[i].batch \in Ids
      BY <2>1, GoodIs
    <3> QED BY <2>2, <3>1 DEF Rows
  <2>4. PICK i \in 1..Len(v.rows) : Row(v, d) = v.rows[i] /\ v.rows[i].batch = d
    BY <2>1, <2>3, RowIs DEF Good
  <2>5. PICK j \in 1..Len(v.rows) : Row(v, a) = v.rows[j] /\ v.rows[j].batch = a
    BY <2>1, <2>3, RowIs DEF Good
  <2>6. Authenticated(v, v.root, a)
    BY <2>1, <2>2, <2>3, AcceptedAre
  <2>7. RowsInv(v.rows)
    BY <2>1 DEF Good
  <2> DEFINE rows == v.rows
  <2> HIDE DEF rows
  <2>8. Lookup(rows[i].clock, PeerOf(rows[j]), 0) >= rows[j].counter <=> a \in Past[d]
    BY <2>4, <2>5, <2>7, ClocksAnswer DEF rows
  <2> QED BY <2>4, <2>5, <2>6, <2>8 DEF DescendsFrom, PeerOf, rows
<1> QED BY <1>1, Invariance, PTL
-----------------------------------------------------------------------------
(* The terminal build.                                                     *)

ChainedUpto(spine) ==
    LET up[i \in 0..Len(spine)] ==
            IF i = 0 THEN Nil
            ELSE LET n == spine[Len(spine) + 1 - i]
                 IN  Node(n.key, n.val, n.left, up[i - 1])
    IN  up

LEMMA ChainedUptoIs ==
    ASSUME NEW s, Len(s) \in Nat
    PROVE  /\ ChainedUpto(s)[0] = Nil
           /\ \A i \in 1..Len(s) :
                 ChainedUpto(s)[i] = Node(s[Len(s) + 1 - i].key, s[Len(s) + 1 - i].val,
                                          s[Len(s) + 1 - i].left, ChainedUpto(s)[i - 1])
           /\ Chained(s) = ChainedUpto(s)[Len(s)]
<1> DEFINE N == Len(s)
<1>0. N \in Nat
  OBVIOUS
<1> HIDE DEF N
<1> DEFINE base == Nil
           Step(h, x) == Node(s[N + 1 - h].key, s[N + 1 - h].val, s[N + 1 - h].left, x)
<1> DEFINE Solves(f, m) == f = [h \in 0..m |-> IF h = 0 THEN base ELSE Step(h, f[h - 1])]
           Bad == {m \in 0..N : ~ \E f : Solves(f, m)}
<1>1. \E f : Solves(f, N)
  <2> HIDE DEF base, Step
  <2>1. ASSUME Bad # {} PROVE FALSE
    <3>1. PICK m \in Bad : \A j \in Bad : m <= j
      <4>1. Bad \subseteq Nat
        BY <1>0
      <4> HIDE DEF Bad
      <4> QED BY <2>1, <4>1, LeastExists, Zenon
    <3>2. m \in 0..N /\ ~ \E f : Solves(f, m)
      BY <3>1
    <3>3. m # 0
      <4>1. Solves([h \in 0..0 |-> base], 0)
        OBVIOUS
      <4> HIDE DEF Solves
      <4> QED BY <4>1, <3>2
    <3>4. PICK f : Solves(f, m - 1)
      <4>1. m - 1 \in 0..N /\ ~ (m <= m - 1)
        BY <1>0, <3>2, <3>3
      <4> HIDE DEF Solves
      <4> QED BY <4>1, <3>1
    <3> DEFINE g == [h \in 0..m |-> IF h = m THEN Step(m, f[m - 1]) ELSE f[h]]
    <3>5. ASSUME NEW h \in 0..m
          PROVE  g[h] = IF h = 0 THEN base ELSE Step(h, g[h - 1])
      <4>1. h # 0 => g[h - 1] = f[h - 1]
        BY <1>0, <3>2
      <4>2. h # m => h \in 0..(m - 1) /\ g[h] = f[h]
        BY <1>0, <3>2
      <4>3. h = m => g[h] = Step(m, f[m - 1])
        OBVIOUS
      <4> HIDE DEF g
      <4> QED BY <4>1, <4>2, <4>3, <3>3, <3>4
    <3>6. Solves(g, m)
      <4>1. g = [h \in 0..m |-> g[h]]
        OBVIOUS
      <4> HIDE DEF g
      <4> QED BY <4>1, <3>5
    <3> HIDE DEF g, Solves
    <3> QED BY <3>2, <3>6
  <2>2. N \in 0..N
    BY <1>0
  <2>3. N \notin Bad
    <3> HIDE DEF Bad
    <3> QED BY <2>1
  <2> HIDE DEF Solves
  <2> QED BY <2>2, <2>3
<1> DEFINE chosen == CHOOSE f : Solves(f, N)
<1>2. Solves(chosen, N)
  <2> HIDE DEF Solves
  <2> QED BY <1>1
<1> HIDE DEF chosen, base, Step
<1>3. chosen[0] = base
  BY <1>0, <1>2
<1>4. ASSUME NEW h \in 1..N PROVE chosen[h] = Step(h, chosen[h - 1])
  <2>1. h \in 0..N /\ h # 0
    BY <1>0
  <2> QED BY <1>2, <2>1
<1> USE DEF base, Step
<1>5. ChainedUpto(s) = chosen
  BY DEF ChainedUpto, chosen, N
<1>6. Chained(s) = ChainedUpto(s)[N]
  BY DEF Chained, ChainedUpto, N
<1> QED BY <1>3, <1>4, <1>5, <1>6 DEF N

SpineUpto(map) ==
    LET keys == Sorted(DOMAIN map)
        upto[i \in 0..Len(keys)] ==
            IF i = 0 THEN <<>> ELSE Pushed(upto[i - 1], keys[i], map[keys[i]])
    IN  upto

LEMMA SpineUptoIs ==
    ASSUME NEW map, NEW keys, keys = Sorted(DOMAIN map), Len(keys) \in Nat
    PROVE  /\ SpineUpto(map)[0] = <<>>
           /\ \A i \in 1..Len(keys) :
                 SpineUpto(map)[i] = Pushed(SpineUpto(map)[i - 1], keys[i], map[keys[i]])
           /\ Terminal(map) = Chained(SpineUpto(map)[Len(keys)])
<1> DEFINE N == Len(keys)
<1>0. N \in Nat
  OBVIOUS
<1> HIDE DEF N
<1> DEFINE base == <<>>
           Step(h, x) == Pushed(x, keys[h], map[keys[h]])
<1> DEFINE Solves(f, m) == f = [h \in 0..m |-> IF h = 0 THEN base ELSE Step(h, f[h - 1])]
           Bad == {m \in 0..N : ~ \E f : Solves(f, m)}
<1>1. \E f : Solves(f, N)
  <2> HIDE DEF base, Step
  <2>1. ASSUME Bad # {} PROVE FALSE
    <3>1. PICK m \in Bad : \A j \in Bad : m <= j
      <4>1. Bad \subseteq Nat
        BY <1>0
      <4> HIDE DEF Bad
      <4> QED BY <2>1, <4>1, LeastExists, Zenon
    <3>2. m \in 0..N /\ ~ \E f : Solves(f, m)
      BY <3>1
    <3>3. m # 0
      <4>1. Solves([h \in 0..0 |-> base], 0)
        OBVIOUS
      <4> HIDE DEF Solves
      <4> QED BY <4>1, <3>2
    <3>4. PICK f : Solves(f, m - 1)
      <4>1. m - 1 \in 0..N /\ ~ (m <= m - 1)
        BY <1>0, <3>2, <3>3
      <4> HIDE DEF Solves
      <4> QED BY <4>1, <3>1
    <3> DEFINE g == [h \in 0..m |-> IF h = m THEN Step(m, f[m - 1]) ELSE f[h]]
    <3>5. ASSUME NEW h \in 0..m
          PROVE  g[h] = IF h = 0 THEN base ELSE Step(h, g[h - 1])
      <4>1. h # 0 => g[h - 1] = f[h - 1]
        BY <1>0, <3>2
      <4>2. h # m => h \in 0..(m - 1) /\ g[h] = f[h]
        BY <1>0, <3>2
      <4>3. h = m => g[h] = Step(m, f[m - 1])
        OBVIOUS
      <4> HIDE DEF g
      <4> QED BY <4>1, <4>2, <4>3, <3>3, <3>4
    <3>6. Solves(g, m)
      <4>1. g = [h \in 0..m |-> g[h]]
        OBVIOUS
      <4> HIDE DEF g
      <4> QED BY <4>1, <3>5
    <3> HIDE DEF g, Solves
    <3> QED BY <3>2, <3>6
  <2>2. N \in 0..N
    BY <1>0
  <2>3. N \notin Bad
    <3> HIDE DEF Bad
    <3> QED BY <2>1
  <2> HIDE DEF Solves
  <2> QED BY <2>2, <2>3
<1> DEFINE chosen == CHOOSE f : Solves(f, N)
<1>2. Solves(chosen, N)
  <2> HIDE DEF Solves
  <2> QED BY <1>1
<1> HIDE DEF chosen, base, Step
<1>3. chosen[0] = base
  BY <1>0, <1>2
<1>4. ASSUME NEW h \in 1..N PROVE chosen[h] = Step(h, chosen[h - 1])
  <2>1. h \in 0..N /\ h # 0
    BY <1>0
  <2> QED BY <1>2, <2>1
<1> USE DEF base, Step
<1>5. SpineUpto(map) = chosen
  BY DEF SpineUpto, chosen, N
<1>6. Terminal(map) = Chained(SpineUpto(map)[N])
  BY DEF Terminal, SpineUpto, N
<1> QED BY <1>3, <1>4, <1>5, <1>6 DEF N

\* A right spine: keys and priorities fall from node to node, and what hangs to the
\* left of a node lies between it and the node above.
Under(n) == {<<n.key, n.val>>} \cup Entries(n.left)
Hangs(n, V) ==
    /\ n.key \in Keys /\ n.val \in V /\ Fits(n.left, Lower(Keys, n.key), V)
    /\ Heap(n.left) /\ Tops(n.key, n.left)
Spine(s, V) ==
    /\ Len(s) \in Nat /\ DOMAIN s = 1..Len(s)
    /\ \A i \in 1..Len(s) : Hangs(s[i], V)
    /\ \A i, j \in 1..Len(s) : i < j =>
           Above(s[i].key, s[j].key) /\ \A e \in Under(s[j]) : s[i].key < e[1]

LEMMA ChainedIs ==
    ASSUME NEW V, NEW s, Spine(s, V)
    PROVE  /\ Fits(Chained(s), Keys, V) /\ Heap(Chained(s))
           /\ \A e : e \in Entries(Chained(s)) <=> \E j \in 1..Len(s) : e \in Under(s[j])
           /\ Chained(s) # Nil => Len(s) # 0 /\ Chained(s).key = s[1].key
<1> DEFINE L == Len(s)
           u == ChainedUpto(s)
           Fine(i) == /\ Fits(u[i], Keys, V) /\ Heap(u[i])
                      /\ \A e : e \in Entries(u[i]) <=> \E j \in (L + 1 - i)..L : e \in Under(s[j])
                      /\ u[i] # Nil => i # 0 /\ u[i].key = s[L + 1 - i].key
           Bad == {i \in 0..L : ~ Fine(i)}
<1>0. L \in Nat
  BY DEF Spine
<1>1. /\ u[0] = Nil /\ Chained(s) = u[L]
      /\ \A i \in 1..L : u[i] = Node(s[L + 1 - i].key, s[L + 1 - i].val, s[L + 1 - i].left, u[i - 1])
  BY <1>0, ChainedUptoIs
<1>2. /\ \A i \in 1..L : Hangs(s[i], V)
      /\ \A i, j \in 1..L : i < j =>
           Above(s[i].key, s[j].key) /\ \A e \in Under(s[j]) : s[i].key < e[1]
  BY DEF Spine
<1> HIDE DEF L, u
<1>3. ASSUME Bad # {} PROVE FALSE
  <2>1. PICK i \in Bad : \A j \in Bad : i <= j
    <3>1. Bad \subseteq Nat
      BY <1>0
    <3> HIDE DEF Bad
    <3> QED BY <1>3, <3>1, LeastExists, Zenon
  <2>2. i \in 0..L /\ ~ Fine(i)
    BY <2>1
  <2>3. i # 0
    <3>1. \A e : ~ \E j \in (L + 1 - 0)..L : e \in Under(s[j])
      BY <1>0
    <3>2. Fine(0)
      BY <1>1, <3>1, FitsNil, HeapNil
    <3> HIDE DEF Fine
    <3> QED BY <2>2, <3>2
  <2> DEFINE p == L + 1 - i
             n == s[p]
             c == u[i - 1]
             t == u[i]
  <2>4. /\ i \in 1..L /\ i - 1 \in 0..L /\ ~ (i <= i - 1) /\ p \in 1..L
        /\ L + 1 - (i - 1) = p + 1
    BY <1>0, <2>2, <2>3
  <2>5. Fine(i - 1)
    <3> HIDE DEF Fine
    <3> QED BY <2>1, <2>4
  <2>6. t = Node(n.key, n.val, n.left, c)
    BY <1>1, <2>4
  <2>7. Hangs(n, V)
    BY <1>2, <2>4
  <2>8. /\ Fits(c, Keys, V) /\ Heap(c)
        /\ \A e : e \in Entries(c) <=> \E j \in (p + 1)..L : e \in Under(s[j])
        /\ c # Nil => i - 1 # 0 /\ c.key = s[p + 1].key
    BY <2>4, <2>5
  <2> HIDE DEF n, c, t, Fine
  <2>9. ASSUME NEW j \in (p + 1)..L PROVE j \in 1..L /\ p < j
    BY <1>0, <2>4, <2>9
  <2>10. Fits(c, Upper(Keys, n.key), V)
    <3>1. ASSUME NEW k \in KeysIn(c) PROVE n.key < k
      <4>1. PICK v : <<k, v>> \in Entries(c)
        BY KeysOfEntries
      <4>2. PICK j \in (p + 1)..L : <<k, v>> \in Under(s[j])
        BY <2>8, <4>1
      <4>3. \A e \in Under(s[j]) : n.key < e[1]
        BY <1>2, <2>4, <2>9 DEF n
      <4> QED BY <4>2, <4>3
    <3> QED BY <2>8, <3>1 DEF Fits, Upper
  <2>11. Tops(n.key, c)
    <3>1. CASE c = Nil
      BY <3>1, HeapNil
    <3>2. CASE c # Nil
      <4>1. p + 1 \in 1..L /\ c.key = s[p + 1].key /\ p < p + 1
        BY <1>0, <2>4, <2>8, <3>2
      <4>2. Above(n.key, c.key)
        BY <1>2, <2>4, <4>1 DEF n
      <4> QED BY <2>7, <2>8, <3>2, <4>2, TopsAll DEF Hangs
    <3> QED BY <3>1, <3>2
  <2>12. /\ Fits(t, Keys, V) /\ Entries(t) = Joint(n.key, n.val, Entries(n.left), Entries(c))
         /\ t # Nil /\ t.key = n.key /\ t.left = n.left /\ t.right = c
    <3>1. Joins(n.key, n.val, n.left, c, Keys, V)
      BY <2>7, <2>10 DEF Joins, Hangs
    <3> QED BY <2>6, <3>1, FitsMade, NodeIs
  <2>13. Heap(t)
    BY <2>7, <2>8, <2>11, <2>12, HeapParts DEF Fits, Hangs
  <2>14. ASSUME NEW e PROVE e \in Entries(t) <=> \E j \in p..L : e \in Under(s[j])
    <3>1. e \in Entries(t) <=> e \in Under(n) \/ e \in Entries(c)
      BY <2>12 DEF Joint, Under
    <3>2. \A j : j \in p..L <=> j = p \/ j \in (p + 1)..L
      BY <1>0, <2>4
    <3> QED BY <2>8, <3>1, <3>2 DEF n
  <2>15. Fine(i)
    BY <2>3, <2>12, <2>13, <2>14 DEF Fine, n, t
  <2> QED BY <2>2, <2>15
<1>4. Fine(L)
  <2>1. L \in 0..L /\ L \notin Bad
    <3> HIDE DEF Bad
    <3> QED BY <1>0, <1>3
  <2> QED BY <2>1
<1>5. L + 1 - L = 1
  BY <1>0
<1> QED BY <1>1, <1>4, <1>5 DEF L

\* The nodes that stay on the spine are its first ones.
LEMMA KeptAre ==
    ASSUME NEW V, NEW s, Spine(s, V), NEW k \in Keys
    PROVE  LET n == Cardinality({i \in DOMAIN s : ~ Above(k, s[i].key)})
           IN  /\ n \in 0..Len(s)
               /\ \A i \in 1..n : ~ Above(k, s[i].key)
               /\ n # Len(s) => Above(k, s[n + 1].key)
<1> DEFINE L == Len(s)
           S == {i \in DOMAIN s : ~ Above(k, s[i].key)}
<1>1. /\ L \in Nat /\ DOMAIN s = 1..L /\ \A i \in 1..L : s[i].key \in Keys
      /\ \A i, j \in 1..L : i < j => Above(s[i].key, s[j].key)
  BY DEF Spine, Hangs
<1>2. \A i : i \in S <=> i \in 1..L /\ ~ Above(k, s[i].key)
  BY <1>1
<1> HIDE DEF L, S
<1>3. \E n \in 0..L : S = 1..n
  <2>1. CASE S = {}
    <3>1. S = 1..0 /\ 0 \in 0..L
      BY <1>1, <2>1
    <3> QED BY <3>1
  <2>2. CASE S # {}
    <3>1. S \subseteq 1..L /\ S \subseteq Nat /\ IsFiniteSet(1..L)
      <4>1. 1 \in Int /\ L \in Int
        BY <1>1
      <4> QED BY <1>1, <1>2, <4>1, FS_Interval
    <3>2. PICK n \in S : \A i \in S : i <= n
      BY <2>2, <3>1, FS_Subset, GreatestExists
    <3>3. n \in 1..L
      BY <3>1
    <3>4. ASSUME NEW i \in 1..n PROVE i \in S
      <4>1. CASE i = n
        BY <4>1
      <4>2. CASE i # n
        <5>1. i < n /\ i \in 1..L
          BY <1>1, <3>3, <4>2
        <5>2. Above(s[i].key, s[n].key) /\ s[i].key \in Keys /\ s[n].key \in Keys
          BY <1>1, <3>3, <5>1
        <5>3. ~ Above(k, s[n].key)
          BY <1>2, <3>2
        <5> QED BY <1>2, <5>1, <5>2, <5>3, AboveIs
      <4> QED BY <4>1, <4>2
    <3>5. S = 1..n
      <4>1. \A i \in S : i \in 1..n
        BY <3>1, <3>2, <3>3
      <4> QED BY <3>4, <4>1
    <3> QED BY <1>1, <3>3, <3>5
  <2> QED BY <2>1, <2>2
<1>4. PICK n \in 0..L : S = 1..n
  BY <1>3
<1>5. Cardinality(S) = n
  <2>1. 1 \in Int /\ n \in Int
    BY <1>1
  <2>2. Cardinality(1..n) = IF 1 > n THEN 0 ELSE n - 1 + 1
    BY <2>1, FS_Interval
  <2> QED BY <1>1, <1>4, <2>2
<1>6. \A i \in 1..n : ~ Above(k, s[i].key)
  BY <1>2, <1>4
<1>7. n # L => Above(k, s[n + 1].key)
  <2>1. n # L => n + 1 \in 1..L /\ n + 1 \notin 1..n
    BY <1>1
  <2> QED BY <1>2, <1>4, <2>1
<1> QED BY <1>4, <1>5, <1>6, <1>7 DEF L, S

LEMMA PushedIs ==
    ASSUME NEW V, NEW s, Spine(s, V), NEW k \in Keys, NEW v \in V,
           \A j \in 1..Len(s) : \A e \in Under(s[j]) : e[1] < k
    PROVE  /\ Spine(Pushed(s, k, v), V)
           /\ \A e : (\E j \in 1..Len(Pushed(s, k, v)) : e \in Under(Pushed(s, k, v)[j])) <=>
                        e = <<k, v>> \/ \E j \in 1..Len(s) : e \in Under(s[j])
<1> DEFINE L == Len(s)
           n == Cardinality({i \in DOMAIN s : ~ Above(k, s[i].key)})
           q == SubSeq(s, n + 1, L)
           c == Chained(q)
           x == Node(k, v, c, Nil)
           front == SubSeq(s, 1, n)
           r == Append(front, x)
<1>0. /\ L \in Nat /\ DOMAIN s = 1..L /\ (\A i \in 1..L : Hangs(s[i], V))
      /\ \A i, j \in 1..L : i < j =>
           Above(s[i].key, s[j].key) /\ \A e \in Under(s[j]) : s[i].key < e[1]
      /\ \A j \in 1..L : \A e \in Under(s[j]) : e[1] < k
      /\ Keys \subseteq Nat
  BY Constants DEF Spine
<1>1. /\ n \in 0..L /\ (\A i \in 1..n : ~ Above(k, s[i].key))
      /\ n # L => Above(k, s[n + 1].key)
  BY KeptAre
<1>2. Pushed(s, k, v) = r
  BY DEF Pushed
<1> HIDE DEF n, L
<1>3. Len(q) = L - n /\ L - n \in Nat /\ DOMAIN q = 1..(L - n)
      /\ \A i \in 1..(L - n) : q[i] = s[n + i] /\ n + i \in 1..L
  <2>1. q = [i \in 1..(L - (n + 1) + 1) |-> s[n + 1 + i - 1]]
    BY <1>0, <1>1
  <2>2. L - (n + 1) + 1 = L - n /\ L - n \in Nat
    BY <1>0, <1>1
  <2>3. \A i \in 1..(L - n) : n + 1 + i - 1 = n + i /\ n + i \in 1..L
    BY <1>0, <1>1
  <2>4. q = [i \in 1..(L - n) |-> s[n + i]]
    <3> HIDE DEF q
    <3> QED BY <2>1, <2>2, <2>3
  <2> HIDE DEF q
  <2>5. Len(q) = L - n
    BY <2>2, <2>4
  <2> QED BY <2>2, <2>3, <2>4, <2>5
<1> HIDE DEF q
<1>4. Spine(q, V)
  <2>1. ASSUME NEW i \in 1..(L - n), NEW j \in 1..(L - n), i < j
        PROVE  Above(q[i].key, q[j].key) /\ \A e \in Under(q[j]) : q[i].key < e[1]
    <3>1. n + i < n + j
      BY <1>0, <1>1, <2>1
    <3>2. n + i \in 1..L /\ n + j \in 1..L /\ q[i] = s[n + i] /\ q[j] = s[n + j]
      BY <1>3
    <3> QED BY <1>0, <3>1, <3>2
  <2>2. \A i \in 1..(L - n) : Hangs(q[i], V)
    BY <1>0, <1>3
  <2> QED BY <1>3, <2>1, <2>2 DEF Spine
<1>5. /\ Fits(c, Keys, V) /\ Heap(c)
      /\ \A e : e \in Entries(c) <=> \E j \in 1..Len(q) : e \in Under(q[j])
      /\ c # Nil => Len(q) # 0 /\ c.key = q[1].key
  BY <1>4, ChainedIs
<1> HIDE DEF c
<1>6. ASSUME NEW e PROVE e \in Entries(c) <=> \E j \in (n + 1)..L : e \in Under(s[j])
  <2>1. ASSUME NEW j \in 1..Len(q), e \in Under(q[j]) PROVE \E i \in (n + 1)..L : e \in Under(s[i])
    <3>1. n + j \in (n + 1)..L /\ q[j] = s[n + j]
      BY <1>0, <1>1, <1>3
    <3> QED BY <2>1, <3>1
  <2>2. ASSUME NEW j \in (n + 1)..L, e \in Under(s[j]) PROVE \E i \in 1..Len(q) : e \in Under(q[i])
    <3>1. j - n \in 1..Len(q) /\ n + (j - n) = j
      BY <1>0, <1>1, <1>3
    <3>2. q[j - n] = s[j]
      BY <1>3, <3>1
    <3> QED BY <2>2, <3>1, <3>2
  <2> QED BY <1>5, <2>1, <2>2
<1>7. ASSUME NEW j \in KeysIn(c)
      PROVE  j \in Keys /\ j < k /\ \A i \in 1..n : s[i].key < j
  <2>1. j \in Keys
    BY <1>5 DEF Fits
  <2>2. PICK w : <<j, w>> \in Entries(c)
    BY KeysOfEntries
  <2>3. PICK i \in (n + 1)..L : <<j, w>> \in Under(s[i])
    BY <1>6, <2>2
  <2>4. i \in 1..L /\ \A m \in 1..n : m \in 1..L /\ m < i
    BY <1>0, <1>1
  <2>5. <<j, w>>[1] = j
    OBVIOUS
  <2> QED BY <1>0, <2>1, <2>3, <2>4, <2>5
<1>8. Hangs(x, V) /\ Under(x) = {<<k, v>>} \cup Entries(c) /\ x.key = k
  <2>1. Fits(c, Lower(Keys, k), V)
    BY <1>5, <1>7 DEF Fits, Lower
  <2>2. Tops(k, c)
    <3>1. CASE c = Nil
      BY <3>1, HeapNil
    <3>2. CASE c # Nil
      <4>1. n # L /\ 1 \in 1..(L - n)
        BY <1>0, <1>1, <1>3, <1>5, <3>2
      <4>2. Above(k, c.key)
        BY <1>1, <1>3, <1>5, <3>2, <4>1
      <4> QED BY <1>5, <3>2, <4>2, TopsAll
    <3> QED BY <3>1, <3>2
  <2>3. x.key = k /\ x.val = v /\ x.left = c
    BY NodeIs
  <2> HIDE DEF x
  <2> QED BY <1>5, <2>1, <2>2, <2>3 DEF Hangs, Under
<1> HIDE DEF x
<1>9. /\ Len(r) = n + 1 /\ n \in Nat /\ DOMAIN r = 1..(n + 1) /\ r[n + 1] = x
      /\ \A i \in 1..n : r[i] = s[i] /\ i \in 1..L
  <2>1. front = [i \in 1..n |-> s[i]]
    <3>1. front = [i \in 1..(n - 1 + 1) |-> s[1 + i - 1]]
      BY <1>0, <1>1
    <3>2. n - 1 + 1 = n /\ \A i \in 1..n : 1 + i - 1 = i
      BY <1>0, <1>1
    <3> HIDE DEF front
    <3> QED BY <3>1, <3>2
  <2>2. n \in Nat /\ \A i \in 1..n : i \in 1..L
    BY <1>0, <1>1
  <2> HIDE DEF front
  <2>3. Len(front) = n
    BY <2>1, <2>2
  <2>4. /\ Len(r) = n + 1 /\ r[n + 1] = x /\ DOMAIN r = 1..(n + 1)
        /\ \A i \in 1..n : r[i] = front[i]
    <3>1. front \in Seq({s[i] : i \in 1..n})
      BY <2>1, <2>2
    <3> QED BY <2>2, <2>3, <3>1
  <2> QED BY <2>1, <2>2, <2>4
<1> HIDE DEF r, front
<1>10. \A i \in 1..(n + 1) : i = n + 1 \/ i \in 1..n
  BY <1>9
<1>11. Spine(r, V)
  <2>1. \A i \in 1..(n + 1) : Hangs(r[i], V)
    BY <1>0, <1>8, <1>9, <1>10
  <2>2. ASSUME NEW i \in 1..(n + 1), NEW j \in 1..(n + 1), i < j
        PROVE  Above(r[i].key, r[j].key) /\ \A e \in Under(r[j]) : r[i].key < e[1]
    <3>1. i \in 1..n /\ i \in 1..L /\ r[i] = s[i]
      <4>1. i \in 1..n
        BY <1>9, <2>2
      <4> QED BY <1>9, <4>1
    <3>2. CASE j \in 1..n
      BY <1>0, <1>9, <2>2, <3>1, <3>2
    <3>3. CASE j = n + 1
      <4>1. s[i].key \in Keys /\ s[i].key < k
        <5>1. Hangs(s[i], V) /\ <<s[i].key, s[i].val>> \in Under(s[i])
          BY <1>0, <3>1 DEF Under
        <5>2. <<s[i].key, s[i].val>>[1] < k
          BY <1>0, <3>1, <5>1
        <5> QED BY <5>1, <5>2 DEF Hangs
      <4>2. Above(s[i].key, k)
        <5>1. s[i].key # k
          BY <1>0, <4>1
        <5> QED BY <1>1, <3>1, <4>1, <5>1, AboveIs
      <4>3. ASSUME NEW e \in Under(x) PROVE s[i].key < e[1]
        <5>1. CASE e = <<k, v>>
          BY <4>1, <5>1
        <5>2. CASE e \in Entries(c)
          BY <1>7, <3>1, <5>2, KeysOfEntries
        <5> QED BY <1>8, <5>1, <5>2
      <4> QED BY <1>8, <1>9, <3>1, <3>3, <4>2, <4>3
    <3> QED BY <1>10, <3>2, <3>3
  <2>3. n + 1 \in Nat
    BY <1>9
  <2> QED BY <1>9, <2>1, <2>2, <2>3 DEF Spine
<1>12. ASSUME NEW e
       PROVE (\E j \in 1..Len(r) : e \in Under(r[j])) <=>
                 e = <<k, v>> \/ \E j \in 1..L : e \in Under(s[j])
  <2>1. (\E j \in 1..Len(r) : e \in Under(r[j])) <=> e \in Under(x) \/ \E j \in 1..n : e \in Under(s[j])
    <3>1. n + 1 \in 1..(n + 1) /\ \A j \in 1..n : j \in 1..(n + 1)
      BY <1>9
    <3> QED BY <1>9, <1>10, <3>1
  <2>2. \A j : j \in 1..L <=> j \in 1..n \/ j \in (n + 1)..L
    BY <1>0, <1>1
  <2> QED BY <1>6, <1>8, <2>1, <2>2
<1> QED BY <1>2, <1>11, <1>12 DEF L

LEMMA TerminalIs ==
    ASSUME NEW V, NEW map, DOMAIN map \subseteq Keys, \A k \in DOMAIN map : map[k] \in V
    PROVE  /\ Fits(Terminal(map), Keys, V) /\ Heap(Terminal(map))
           /\ Entries(Terminal(map)) = {<<k, map[k]>> : k \in DOMAIN map}
<1> DEFINE D == DOMAIN map
           keys == Sorted(D)
           N == Len(keys)
           u == SpineUpto(map)
           Pair(i) == <<keys[i], map[keys[i]]>>
           Has(x, e) == \E j \in 1..Len(x) : e \in Under(x[j])
           Fine(i) == /\ Spine(u[i], V)
                      /\ \A e : Has(u[i], e) <=> \E j \in 1..i : e = Pair(j)
           Bad == {i \in 0..N : ~ Fine(i)}
<1>0. D \subseteq Nat /\ IsFiniteSet(D) /\ Keys \subseteq Nat
  BY Constants, FS_Subset
<1>1. /\ N \in Nat /\ (\A i \in 1..N : keys[i] \in D)
      /\ \A i, j \in 1..N : i < j => keys[i] < keys[j]
      /\ \A k : k \in D <=> \E i \in 1..N : keys[i] = k
  <2>1. /\ keys \in Seq(D) /\ Len(keys) = Cardinality(D) /\ Cardinality(D) \in Nat
        /\ Rises(keys, Cardinality(D))
        /\ \A k : k \in D <=> \E i \in 1..Len(keys) : keys[i] = k
    BY <1>0, SortedIs
  <2> HIDE DEF keys
  <2> QED BY <2>1 DEF Rises
<1>2. /\ u[0] = <<>> /\ Terminal(map) = Chained(u[N])
      /\ \A i \in 1..N : u[i] = Pushed(u[i - 1], keys[i], map[keys[i]])
  BY <1>1, SpineUptoIs
<1> HIDE DEF keys, N, u
<1>3. ASSUME Bad # {} PROVE FALSE
  <2>1. PICK i \in Bad : \A j \in Bad : i <= j
    <3>1. Bad \subseteq Nat
      BY <1>1
    <3> HIDE DEF Bad
    <3> QED BY <1>3, <3>1, LeastExists, Zenon
  <2>2. i \in 0..N /\ ~ Fine(i)
    BY <2>1
  <2>3. i # 0
    <3>1. Fine(0)
      <4>1. Len(u[0]) = 0 /\ DOMAIN u[0] = 1..0
        BY <1>2
      <4>2. Spine(u[0], V)
        BY <4>1 DEF Spine
      <4> QED BY <4>1, <4>2
    <3> HIDE DEF Fine
    <3> QED BY <2>2, <3>1
  <2>4. i \in 1..N /\ i - 1 \in 0..N /\ ~ (i <= i - 1)
    BY <1>1, <2>2, <2>3
  <2>5. Fine(i - 1)
    <3> HIDE DEF Fine
    <3> QED BY <2>1, <2>4
  <2> DEFINE s == u[i - 1]
             k == keys[i]
             v == map[k]
  <2>6. k \in D /\ k \in Keys /\ v \in V
    BY <1>1, <2>4
  <2>7. ASSUME NEW j \in 1..Len(s), NEW e \in Under(s[j]) PROVE e[1] < k
    <3>1. Has(s, e)
      BY <2>7
    <3>2. PICK m \in 1..(i - 1) : e = Pair(m)
      BY <2>5, <3>1
    <3>3. m \in 1..N /\ m < i
      BY <1>1, <2>4
    <3>4. e[1] = keys[m]
      BY <3>2
    <3> QED BY <1>1, <2>4, <3>3, <3>4
  <2>8. Spine(s, V) /\ \A e : Has(s, e) <=> \E j \in 1..(i - 1) : e = Pair(j)
    BY <2>5
  <2>9. u[i] = Pushed(s, k, v)
    BY <1>2, <2>4
  <2> HIDE DEF s, k, v
  <2>10. /\ Spine(Pushed(s, k, v), V)
         /\ \A e : Has(Pushed(s, k, v), e) <=> e = <<k, v>> \/ Has(s, e)
    <3>1. \A j \in 1..Len(s) : \A e \in Under(s[j]) : e[1] < k
      <4>1. TAKE j \in 1..Len(s)
      <4>2. TAKE e \in Under(s[j])
      <4> QED BY <2>7
    <3> QED BY <2>6, <2>8, <3>1, PushedIs
  <2>11. \A j : j \in 1..i <=> j = i \/ j \in 1..(i - 1)
    BY <2>4
  <2>12. <<k, v>> = Pair(i)
    BY DEF k, v
  <2>13. Fine(i)
    <3> HIDE DEF Pair, Has
    <3> QED BY <2>8, <2>9, <2>10, <2>11, <2>12
  <2> QED BY <2>2, <2>13
<1>4. Fine(N)
  <2>1. N \in 0..N /\ N \notin Bad
    <3> HIDE DEF Bad
    <3> QED BY <1>1, <1>3
  <2> QED BY <2>1
<1> DEFINE t == Chained(u[N])
<1>5. /\ Fits(t, Keys, V) /\ Heap(t)
      /\ \A e : e \in Entries(t) <=> Has(u[N], e)
  <2>1. Spine(u[N], V)
    BY <1>4
  <2> DEFINE s == u[N]
  <2> HIDE DEF s
  <2>2. Spine(s, V)
    BY <2>1 DEF s
  <2>3. /\ Fits(Chained(s), Keys, V) /\ Heap(Chained(s))
        /\ \A e : e \in Entries(Chained(s)) <=> Has(s, e)
    BY <2>2, ChainedIs
  <2> QED BY <2>3 DEF s
<1> HIDE DEF t
<1>6. \A e : e \in Entries(t) <=> \E j \in 1..N : e = Pair(j)
  BY <1>4, <1>5
<1>7. \A e : e \in Entries(t) <=> \E k \in D : e = <<k, map[k]>>
  BY <1>1, <1>6
<1>8. Entries(t) = {<<k, map[k]>> : k \in D}
  BY <1>7
<1> QED BY <1>2, <1>5, <1>8 DEF t

\* There is one heap-ordered search tree of some entries.
LEMMA SameTree ==
    ASSUME NEW V, NEW a, NEW b, Fits(a, Keys, V), Fits(b, Keys, V), Heap(a), Heap(b),
           Entries(a) = Entries(b)
    PROVE  a = b
<1>0. Depth \in Nat /\ Depth \in 0..Depth /\ Keys \subseteq Nat
  BY Constants
<1> DEFINE Alike(s, t) == /\ Fits(s, Keys, V) /\ Fits(t, Keys, V) /\ Heap(s) /\ Heap(t)
                          /\ Entries(s) = Entries(t)
           Fine(h) == \A s, t : s \in Trees(V)[h] /\ Alike(s, t) => s = t
           Bad == {h \in 0..Depth : ~ Fine(h)}
<1>1. ASSUME Bad # {} PROVE FALSE
  <2>1. PICK h \in Bad : \A j \in Bad : h <= j
    <3>1. Bad \subseteq Nat
      BY <1>0
    <3> HIDE DEF Bad
    <3> QED BY <1>1, <3>1, LeastExists, Zenon
  <2>2. h \in 0..Depth /\ ~ Fine(h)
    BY <2>1
  <2>3. PICK s, t : s \in Trees(V)[h] /\ Alike(s, t) /\ s # t
    <3> HIDE DEF Alike
    <3> QED BY <2>2
  <2>4. ASSUME NEW x, Fits(x, Keys, V), x # Nil, Heap(x)
        PROVE  /\ x = Node(x.key, x.val, x.left, x.right) /\ x.key \in Keys
               /\ <<x.key, x.val>> \in Entries(x)
               /\ Fits(x.left, Keys, V) /\ Fits(x.right, Keys, V) /\ Heap(x.left) /\ Heap(x.right)
               /\ \A j \in KeysIn(x) : j = x.key \/ Above(x.key, j)
               /\ Entries(x.left) = {e \in Entries(x) : e[1] < x.key}
               /\ Entries(x.right) = {e \in Entries(x) : x.key < e[1]}
    <3>1. /\ x = Node(x.key, x.val, x.left, x.right) /\ x.key \in Keys
          /\ Fits(x.left, Lower(Keys, x.key), V) /\ Fits(x.right, Upper(Keys, x.key), V)
          /\ Entries(x) = Joint(x.key, x.val, Entries(x.left), Entries(x.right))
          /\ KeysIn(x) = {x.key} \cup KeysIn(x.left) \cup KeysIn(x.right)
      BY <2>4, FitsParts
    <3>2. Heap(x.left) /\ Heap(x.right) /\ Tops(x.key, x.left) /\ Tops(x.key, x.right)
      BY <2>4, HeapParts DEF Fits
    <3>3. Fits(x.left, Keys, V) /\ Fits(x.right, Keys, V)
      BY <3>1, FitsWider DEF Lower, Upper
    <3>4. /\ \A e \in Entries(x.left) : e[1] \in Keys /\ e[1] < x.key
          /\ \A e \in Entries(x.right) : e[1] \in Keys /\ x.key < e[1]
      <4>1. /\ \A e \in Entries(x.left) : e[1] \in Lower(Keys, x.key)
            /\ \A e \in Entries(x.right) : e[1] \in Upper(Keys, x.key)
        BY <3>1, KeysOfEntries DEF Fits
      <4> QED BY <4>1 DEF Lower, Upper
    <3>5. x.key \in Nat /\ \A e \in Entries(x.left) \cup Entries(x.right) : e[1] \in Nat
      BY <1>0, <3>1, <3>4
    <3>6. ASSUME NEW e \in Entries(x)
          PROVE  \/ e = <<x.key, x.val>> /\ ~ (e[1] < x.key) /\ ~ (x.key < e[1])
                 \/ e \in Entries(x.left) /\ e[1] < x.key /\ ~ (x.key < e[1])
                 \/ e \in Entries(x.right) /\ ~ (e[1] < x.key) /\ x.key < e[1]
      <4>1. CASE e = <<x.key, x.val>>
        BY <3>5, <4>1
      <4>2. CASE e \in Entries(x.left)
        BY <3>4, <3>5, <4>2
      <4>3. CASE e \in Entries(x.right)
        BY <3>4, <3>5, <4>3
      <4> QED BY <3>1, <4>1, <4>2, <4>3 DEF Joint
    <3>7. /\ Entries(x.left) = {e \in Entries(x) : e[1] < x.key}
          /\ Entries(x.right) = {e \in Entries(x) : x.key < e[1]}
      <4>1. Entries(x.left) \subseteq Entries(x) /\ Entries(x.right) \subseteq Entries(x)
        BY <3>1 DEF Joint
      <4> QED BY <3>4, <3>6, <4>1
    <3>8. <<x.key, x.val>> \in Entries(x)
      BY <3>1 DEF Joint
    <3> QED BY <3>1, <3>2, <3>3, <3>7, <3>8 DEF Tops
  <2>5. s # Nil /\ t # Nil
    <3>1. \A x : Fits(x, Keys, V) /\ Heap(x) /\ x # Nil => Entries(x) # {}
      BY <2>4
    <3> QED BY <2>3, <3>1, FitsNil
  <2>6. /\ Fits(s, Keys, V) /\ Fits(t, Keys, V) /\ Heap(s) /\ Heap(t) /\ Entries(s) = Entries(t)
    BY <2>3
  <2>7. s.key = t.key
    <3>1. s.key \in KeysIn(t) /\ t.key \in KeysIn(s)
      <4>1. <<s.key, s.val>> \in Entries(t) /\ <<t.key, t.val>> \in Entries(s)
        BY <2>4, <2>5, <2>6
      <4>2. <<s.key, s.val>>[1] = s.key /\ <<t.key, t.val>>[1] = t.key
        OBVIOUS
      <4> QED BY <4>1, <4>2, KeysOfEntries
    <3>2. s.key = t.key \/ (Above(s.key, t.key) /\ Above(t.key, s.key))
      BY <2>4, <2>5, <2>6, <3>1
    <3> QED BY <2>4, <2>5, <2>6, <3>2, AboveIs
  <2>8. s.val = t.val
    <3>1. <<s.key, s.val>> \in Entries(s) /\ <<s.key, t.val>> \in Entries(s)
      BY <2>4, <2>5, <2>6, <2>7
    <3> QED BY <2>6, <3>1, EntriesDiffer
  <2>9. h - 1 \in 0..Depth /\ s.left \in Trees(V)[h - 1] /\ s.right \in Trees(V)[h - 1]
    BY <2>2, <2>3, <2>5, TreeCases
  <2>10. Fine(h - 1)
    <3>1. ~ (h <= h - 1)
      BY <2>2
    <3> HIDE DEF Fine
    <3> QED BY <2>1, <2>9, <3>1
  <2>11. /\ Fits(s.left, Keys, V) /\ Fits(s.right, Keys, V) /\ Heap(s.left) /\ Heap(s.right)
         /\ Entries(s.left) = {e \in Entries(s) : e[1] < s.key}
         /\ Entries(s.right) = {e \in Entries(s) : s.key < e[1]}
    BY <2>4, <2>5, <2>6
  <2>12. /\ Fits(t.left, Keys, V) /\ Fits(t.right, Keys, V) /\ Heap(t.left) /\ Heap(t.right)
         /\ Entries(t.left) = {e \in Entries(t) : e[1] < t.key}
         /\ Entries(t.right) = {e \in Entries(t) : t.key < e[1]}
    BY <2>4, <2>5, <2>6
  <2>13. s.left = t.left
    <3>1. Alike(s.left, t.left)
      BY <2>6, <2>7, <2>11, <2>12
    <3> HIDE DEF Alike
    <3> QED BY <2>9, <2>10, <3>1
  <2>14. s.right = t.right
    <3>1. Alike(s.right, t.right)
      BY <2>6, <2>7, <2>11, <2>12
    <3> HIDE DEF Alike
    <3> QED BY <2>9, <2>10, <3>1
  <2>15. s = Node(s.key, s.val, s.left, s.right) /\ t = Node(t.key, t.val, t.left, t.right)
    BY <2>4, <2>5, <2>6
  <2> QED BY <2>3, <2>7, <2>8, <2>13, <2>14, <2>15
<1>2. Fine(Depth)
  <2>1. Depth \notin Bad
    <3> HIDE DEF Bad
    <3> QED BY <1>1
  <2> QED BY <1>0, <2>1
<1>3. a \in Trees(V)[Depth]
  BY DEF Fits
<1> QED BY <1>2, <1>3

\* The documents of a history, each with a batch.
LEMMA DocumentsAre ==
    ASSUME NEW h \in Seq(Ids)
    PROVE  /\ DOMAIN DocumentsAt(h) \subseteq Docs
           /\ \A d \in DOMAIN DocumentsAt(h) : DocumentsAt(h)[d] \in Ids
<1> DEFINE last(s) == CHOOSE i \in s : \A j \in s : j <= i
<1>1. DocumentsAt(h) = [e \in {c \in Docs : Writers(h, c) # {}} |-> h[last(Writers(h, e))]]
  BY DEF DocumentsAt, Writers
<1>2. DOMAIN DocumentsAt(h) = {c \in Docs : Writers(h, c) # {}}
  BY <1>1
<1>3. ASSUME NEW d \in Docs, Writers(h, d) # {} PROVE Latest(h, d) \in Ids
  <2>1. Writers(h, d) \subseteq 1..Len(h) /\ IsFiniteSet(1..Len(h)) /\ 1..Len(h) \subseteq Nat
    <3>1. 1 \in Int /\ Len(h) \in Int
      OBVIOUS
    <3>2. IsFiniteSet(1..Len(h))
      BY <3>1, FS_Interval
    <3>3. 1..Len(h) \subseteq Nat /\ DOMAIN h = 1..Len(h)
      OBVIOUS
    <3> QED BY <3>2, <3>3 DEF Writers
  <2>2. IsFiniteSet(Writers(h, d)) /\ Writers(h, d) \subseteq Nat
    BY <2>1, FS_Subset
  <2>3. PICK i \in Writers(h, d) : \A j \in Writers(h, d) : j <= i
    BY <1>3, <2>2, GreatestExists
  <2>4. Latest(h, d) = h[i] /\ i \in 1..Len(h)
    BY <2>1, <2>3, LatestIs
  <2> QED BY <2>4
<1> QED BY <1>2, <1>3 DEF Latest

\* The one-pass build over the sorted documents (seed_terminal_frontier_documents_candidate)
\* gives the very root that one update after another gave, in whatever order the batches
\* were accepted, so that no terminal build is refused for its root.
THEOREM TerminalBuildAgrees == Spec => []TerminalAgrees
<1>1. IInv => TerminalAgrees
  <2> SUFFICES ASSUME IInv, NEW v \in Views
               PROVE  Terminal(DocumentsAt(History(v))) = v.root.docs
    BY DEF TerminalAgrees
  <2> DEFINE h == History(v)
             map == DocumentsAt(h)
             t == v.root.docs
  <2>1. Good(v)
    BY ViewsAre
  <2>2. h \in Seq(Ids) /\ h = Prefix(v, v.root.count)
    BY <2>1, HistoryIs
  <2>3. /\ Fits(t, Docs, Ids) /\ Heap(t)
        /\ \A d \in Docs : Lookup(t, d, None) = Latest(h, d)
    BY <2>1, <2>2 DEF Good, MapInv, MirrorsAt, IsRoot
  <2>4. Docs \subseteq Keys /\ Ids \subseteq Nat \ {0}
    BY BatchesAre
  <2> HIDE DEF h, t
  <2>5. DOMAIN map \subseteq Docs /\ \A d \in DOMAIN map : map[d] \in Ids
    BY <2>2, DocumentsAre
  <2>6. \A d \in Docs : Latest(h, d) = IF d \in DOMAIN map THEN map[d] ELSE None
    BY DEF Latest
  <2> HIDE DEF map
  <2>7. /\ Fits(Terminal(map), Keys, Ids) /\ Heap(Terminal(map))
        /\ Entries(Terminal(map)) = {<<k, map[k]>> : k \in DOMAIN map}
    <3>1. DOMAIN map \subseteq Keys
      BY <2>4, <2>5
    <3> QED BY <2>5, <3>1, TerminalIs
  <2>8. Fits(t, Keys, Ids)
    BY <2>3, <2>4, FitsWider
  <2>9. ASSUME NEW e \in Entries(t) PROVE \E k \in DOMAIN map : e = <<k, map[k]>>
    <3>1. PICK n \in Nodes(t) : e = <<n.key, n.val>>
      BY DEF Entries
    <3>2. n.key \in Docs /\ n.val \in Ids
      BY <2>3, <2>4, <3>1, NodesDiffer
    <3>3. Lookup(t, n.key, None) = n.val
      <4>1. <<n.key, n.val>> \in Entries(t)
        BY <3>1
      <4>2. n.key \in Keys
        BY <2>4, <3>2
      <4>3. \A w : <<n.key, w>> \in Entries(t) => Lookup(t, n.key, None) = w
        BY <2>8, <4>2, LookupIs
      <4> QED BY <4>1, <4>3
    <3>4. Latest(h, n.key) = n.val /\ n.val # None
      BY <2>3, <2>4, <3>2, <3>3 DEF None
    <3> QED BY <2>6, <3>1, <3>2, <3>4
  <2>10. ASSUME NEW k \in DOMAIN map PROVE <<k, map[k]>> \in Entries(t)
    <3>1. k \in Docs /\ k \in Keys /\ Lookup(t, k, None) = map[k] /\ map[k] \in Ids
      BY <2>3, <2>4, <2>5, <2>6
    <3>2. map[k] # None
      BY <2>4, <3>1 DEF None
    <3> QED BY <2>8, <3>1, <3>2, LookupIs
  <2>11. Entries(Terminal(map)) = Entries(t)
    BY <2>7, <2>9, <2>10
  <2>12. Terminal(map) = t
    BY <2>3, <2>7, <2>8, <2>11, SameTree
  <2> QED BY <2>12 DEF map, t, h
<1> QED BY <1>1, Invariance, PTL
=============================================================================
