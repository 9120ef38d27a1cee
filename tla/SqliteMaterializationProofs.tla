--------------------- MODULE SqliteMaterializationProofs ---------------------
(***************************************************************************)
(* For any pages, blocks, contents and queries: after any changes, builds  *)
(* and resets the tables hold what the graph says, no change was refused,  *)
(* the reads answer from the graph, and a scan loses no row.               *)
(***************************************************************************)
EXTENDS SqliteMaterialization, FiniteSetTheorems, WellFoundedInduction, TLAPS

Fields == {"pages", "blocks", "refs", "properties", "tasks", "owners", "fts",
           "coverage", "postings", "aliases", "bindings", "stamp", "refused"}
IsTables(u) == u = [f \in Fields |-> u[f]]

\* The rows of the facts F of graph g.
PageRows(g, F) == {[id |-> f[1], path |-> g[f[1]].path] : f \in {x \in F : x[2][1] = 0}}
BlockRows(g, F) ==
    {[id |-> f[2][2], page |-> f[1], uuid |-> Said(g, f).uuid] :
        f \in {x \in F : x[2][1] = 1}}
TaskRows(g, F) ==
    {[block |-> f[2][2], page |-> f[1], marker |-> Said(g, f).marker] :
        f \in {x \in F : x[2][1] = 1 /\ Said(g, x).marker # 0}}
RefRows(g, F) ==
    UNION {{[source |-> f[2], page |-> f[1], target |-> x] :
               x \in Said(g, f).links \cap Entities(g)} : f \in F}
PropertyRows(g, F) ==
    UNION {{[owner |-> f[2], page |-> f[1], name |-> n] : n \in Said(g, f).properties} : f \in F}
SearchRow(g, o) ==
    [rowid |-> o.rowid, entity |-> o.entity, page |-> o.page,
     word |-> Said(g, <<o.page, o.entity>>).word]

\* Every fact has one owner, and every owner its search row.
IsOwner(o, F) ==
    /\ o = [rowid |-> o.rowid, entity |-> o.entity, page |-> o.page]
    /\ o.rowid \in Nat /\ <<o.page, o.entity>> \in F
Indexed(u, g, F) ==
    /\ IsFiniteSet(u.owners)
    /\ \A o \in u.owners : IsOwner(o, F)
    /\ \A f \in F : \E o \in u.owners : <<o.page, o.entity>> = f
    /\ \A o, q \in u.owners : o.rowid = q.rowid \/ o.entity = q.entity => o = q
    /\ u.fts = {SearchRow(g, o) : o \in u.owners}

\* The tables hold the rows of the facts F and no others.
Holds(u, g, F) ==
    /\ IsTables(u) /\ u.refused = FALSE
    /\ u.pages = PageRows(g, F) /\ u.blocks = BlockRows(g, F) /\ u.tasks = TaskRows(g, F)
    /\ u.refs = RefRows(g, F) /\ u.properties = PropertyRows(g, F)
    /\ Indexed(u, g, F)

Declared(g) == UNION {Declarations(p, g[p]) : p \in Live(g)}
Declaring(g, a) == {p \in Live(g) : a \in g[p].aliases}
AliasesOf(g) == UNION {g[p].aliases : p \in Live(g)}
Posted(g) == UNION {Postings(p, g[p]) : p \in Live(g)}

NoCatalog(u) ==
    u.coverage = {} /\ u.postings = {} /\ u.aliases = {} /\ u.bindings = <<>>
Catalogs(u, g) ==
    /\ u.coverage = Live(g) /\ u.postings = Posted(g) /\ u.aliases = Declared(g)
    /\ u.bindings = [a \in AliasesOf(g) |-> Sorted(Declaring(g, a))]

Shows(u, g) ==
    /\ Holds(u, g, Facts(g))
    /\ IF mode = "rows" THEN NoCatalog(u) ELSE Catalogs(u, g)

\* The scan: all it saw are tuples of one width; what it read is in order and
\* nothing that was always there is behind its cursor.
Width(query) ==
    IF query.read \in {"counts", "plainText", "taskPages"} THEN 1
    ELSE IF query.read \in {"pages", "blockReferrers", "blockProperties", "taskBlocks"} THEN 2
    ELSE 3
Tuples(query) == [1..Width(query) -> Nat]

Ascending(s) == \A i, j \in 1..Len(s) : i < j => Less(s[i], s[j])
Beyond(cursor, r) == cursor = None \/ Less(cursor, r)
Scans ==
    /\ reader.query \in Queries
    /\ reader.always \subseteq Rows(t, reader.query)
    /\ Rows(t, reader.query) \subseteq reader.ever
    /\ reader.ever \subseteq Tuples(reader.query)
    /\ reader.got \in Seq(reader.ever) /\ Ascending(reader.got)
    /\ reader.after = IF reader.got = <<>> THEN None ELSE Last(reader.got)
    /\ \A r \in reader.always : ~ Beyond(reader.after, r) => \E i \in 1..Len(reader.got) : reader.got[i] = r
    /\ reader.done => \A r \in reader.always : ~ Beyond(reader.after, r)
IsReader ==
    reader = [view |-> reader.view, query |-> reader.query, after |-> reader.after,
              got |-> reader.got, batch |-> reader.batch, always |-> reader.always,
              ever |-> reader.ever, done |-> reader.done]

IInv ==
    /\ mode \in {"catalog", "rows"} /\ phase \in {"candidate", "live"}
    /\ graph \in Graphs /\ Shows(t, graph) /\ refused = FALSE
    /\ phase = "candidate" => counted = Sources(graph) /\ reader.query = None
    /\ IsReader
    /\ reader.query = None => reader = NotReading
    /\ reader.query # None => Scans

-----------------------------------------------------------------------------
(* Orders.                                                                 *)

\* Every nonempty set of natural numbers has a least element.
LEMMA LeastExists ==
    ASSUME NEW T, T \subseteq Nat, T # {}
    PROVE  \E x \in T : \A y \in T : x <= y
<1> DEFINE Below == {p \in Nat \X Nat : p[1] < p[2]}
<1>1. IsWellFoundedOn(Below, Nat)
  <2>1. OpToRel(<, Nat) = Below
    BY DEF OpToRel
  <2> QED BY <2>1, NatLessThanWellFounded, Zenon
<1> HIDE DEF Below
<1>2. PICK x \in T : \A y \in T : ~ (<<y, x>> \in Below)
  BY <1>1, WFMin, Zenon
<1>3. \A y \in T : ~ (y < x)
  BY <1>2 DEF Below
<1> QED BY <1>3

Rises(s, n) == \A i, j \in 1..n : i < j => s[i] < s[j]

LEMMA SortedExists ==
    ASSUME NEW S, S \subseteq Nat, IsFiniteSet(S)
    PROVE  \E s \in [1..Cardinality(S) -> S] : Rises(s, Cardinality(S))
<1> DEFINE N == Cardinality(S)
           Sorts(T, n) == \E s \in [1..n -> T] : Rises(s, n)
           Good(n) == \A T : T \subseteq Nat /\ IsFiniteSet(T) /\ Cardinality(T) = n => Sorts(T, n)
           Bad == {n \in 0..N : ~ Good(n)}
<1>0. N \in Nat
  BY FS_CardinalityType
<1> HIDE DEF N
<1>1. ASSUME Bad # {} PROVE FALSE
  <2>1. PICK n \in Bad : \A j \in Bad : n <= j
    <3>1. Bad \subseteq Nat
      BY <1>0
    <3> HIDE DEF Bad
    <3> QED BY <1>1, <3>1, LeastExists, Zenon
  <2>2. n \in 0..N /\ ~ Good(n)
    BY <2>1
  <2>3. PICK T : T \subseteq Nat /\ IsFiniteSet(T) /\ Cardinality(T) = n /\ ~ Sorts(T, n)
    <3> HIDE DEF Sorts
    <3> QED BY <2>2
  <2>4. n # 0
    <3>1. ASSUME n = 0 PROVE FALSE
      <4> DEFINE s == [i \in 1..n |-> 0]
      <4>1. s \in [1..n -> T] /\ Rises(s, n)
        BY <3>1 DEF Rises
      <4> QED BY <2>3, <4>1
    <3> QED BY <3>1
  <2>5. T # {}
    BY <2>3, <2>4, FS_EmptySet
  <2>6. PICK x \in T : \A y \in T : x <= y
    BY <2>3, <2>5, LeastExists
  <2>7. /\ T \ {x} \subseteq Nat /\ IsFiniteSet(T \ {x}) /\ Cardinality(T \ {x}) = n - 1
        /\ n - 1 \in 0..N /\ ~ (n <= n - 1)
    <3>1. IsFiniteSet(T \ {x}) /\ Cardinality(T \ {x}) = Cardinality(T) - 1
      BY <2>3, <2>6, FS_RemoveElement
    <3> QED BY <1>0, <2>2, <2>3, <2>4, <3>1
  <2>8. Good(n - 1)
    <3> HIDE DEF Good
    <3> QED BY <2>1, <2>7
  <2>9. PICK s \in [1..(n - 1) -> T \ {x}] : Rises(s, n - 1)
    BY <2>7, <2>8
  <2> DEFINE r == [i \in 1..n |-> IF i = 1 THEN x ELSE s[i - 1]]
  <2>10. ASSUME NEW i \in 1..n, i # 1 PROVE i - 1 \in 1..(n - 1) /\ r[i] = s[i - 1] /\ r[i] \in T \ {x}
    <3>1. i - 1 \in 1..(n - 1)
      BY <2>2, <2>10
    <3>2. r[i] = s[i - 1]
      BY <2>10
    <3> QED BY <2>9, <3>1, <3>2
  <2>11. r[1] = x /\ 1 \in 1..n
    BY <2>2, <2>4
  <2>12. r \in [1..n -> T]
    <3>1. DOMAIN r = 1..n /\ r = [i \in 1..n |-> r[i]]
      OBVIOUS
    <3> HIDE DEF r
    <3>2. \A i \in 1..n : r[i] \in T
      BY <2>6, <2>10, <2>11
    <3> QED BY <3>1, <3>2
  <2> HIDE DEF r
  <2>13. ASSUME NEW i \in 1..n, NEW j \in 1..n, i < j PROVE r[i] < r[j]
    <3>1. j # 1 /\ j - 1 \in 1..(n - 1) /\ r[j] = s[j - 1] /\ r[j] \in T \ {x}
      BY <2>2, <2>10, <2>13
    <3>2. CASE i = 1
      <4>1. r[i] = x /\ r[j] \in Nat /\ x \in Nat /\ x <= r[j] /\ x # r[j]
        BY <2>3, <2>6, <2>11, <3>1, <3>2
      <4> QED BY <4>1
    <3>3. CASE i # 1
      <4>1. i - 1 \in 1..(n - 1) /\ r[i] = s[i - 1] /\ i - 1 < j - 1
        BY <2>2, <2>10, <2>13, <3>3
      <4> QED BY <2>9, <3>1, <4>1 DEF Rises
    <3> QED BY <3>2, <3>3
  <2> QED BY <2>3, <2>12, <2>13 DEF Rises
<1>2. Good(N)
  <2>1. N \in 0..N /\ N \notin Bad
    <3> HIDE DEF Bad
    <3> QED BY <1>0, <1>1
  <2> QED BY <2>1
<1> QED BY <1>2 DEF N

LEMMA SortedIs ==
    ASSUME NEW S, S \subseteq Nat, IsFiniteSet(S)
    PROVE  /\ Sorted(S) \in Seq(S) /\ Len(Sorted(S)) = Cardinality(S)
           /\ Cardinality(S) \in Nat
           /\ Rises(Sorted(S), Cardinality(S))
           /\ \A x : x \in S <=> \E i \in 1..Len(Sorted(S)) : Sorted(S)[i] = x
<1> DEFINE n == Cardinality(S)
           s == Sorted(S)
<1>1. n \in Nat
  BY FS_CardinalityType
<1>2. s \in [1..n -> S] /\ Rises(s, n)
  <2>1. \E f \in [1..n -> S] : \A i, j \in 1..n : i < j => f[i] < f[j]
    BY SortedExists DEF Rises
  <2> QED BY <2>1 DEF Sorted, Rises
<1> HIDE DEF n, s
<1>3. s \in Seq(S) /\ Len(s) = n
  BY <1>1, <1>2
<1>4. s \in Injection(1..n, S)
  <2>1. ASSUME NEW i \in 1..n, NEW j \in 1..n, s[i] = s[j] PROVE i = j
    <3>1. s[i] \in Nat /\ s[j] \in Nat
      BY <1>2
    <3>2. ~ (i < j) /\ ~ (j < i)
      BY <1>2, <2>1, <3>1 DEF Rises
    <3> QED BY <1>1, <3>2
  <2> QED BY <1>2, <2>1 DEF Injection, IsInjective
<1>5. IsFiniteSet(1..n) /\ Cardinality(1..n) = n
  <2>1. 1 \in Int /\ n \in Int
    BY <1>1
  <2>2. IsFiniteSet(1..n) /\ Cardinality(1..n) = IF 1 > n THEN 0 ELSE n - 1 + 1
    BY <2>1, FS_Interval
  <2> QED BY <1>1, <2>2
<1>6. s \in Surjection(1..n, S)
  BY <1>4, <1>5, FS_Injection DEF n
<1>7. \A x \in S : \E i \in 1..n : s[i] = x
  BY <1>6 DEF Surjection
<1> QED BY <1>1, <1>2, <1>3, <1>7 DEF n, s

\* A finite set of numbers has a greatest.
LEMMA GreatestExists ==
    ASSUME NEW S, S \subseteq Nat, IsFiniteSet(S), S # {}
    PROVE  \E x \in S : \A y \in S : y <= x
<1> DEFINE s == Sorted(S)
           n == Cardinality(S)
<1>1. /\ s \in Seq(S) /\ Len(s) = n /\ n \in Nat /\ Rises(s, n)
      /\ \A x : x \in S <=> \E i \in 1..Len(s) : s[i] = x
  BY SortedIs
<1> HIDE DEF s, n
<1>2. n \in 1..n /\ s[n] \in S
  BY <1>1
<1>3. ASSUME NEW y \in S PROVE y <= s[n]
  <2>1. PICK i \in 1..n : s[i] = y
    BY <1>1
  <2>2. i = n \/ i < n
    BY <1>1
  <2>3. s[n] \in Nat
    BY <1>2
  <2> QED BY <1>2, <2>1, <2>2, <2>3, <1>1 DEF Rises
<1> QED BY <1>2, <1>3

-----------------------------------------------------------------------------
(* The facts of a graph.                                                   *)

LEMMA SaysAre ==
    ASSUME NEW p, NEW c
    PROVE  /\ DOMAIN Says(p, c) = {Page(p)} \cup {Block(b) : b \in DOMAIN c.blocks}
           /\ Says(p, c)[Page(p)] = c.own
           /\ \A b \in DOMAIN c.blocks : Says(p, c)[Block(b)] = c.blocks[b]
<1>1. \A b : Block(b) # Page(p) /\ Block(b)[2] = b
  BY DEF Page, Block
<1> QED BY <1>1 DEF Says

LEMMA PageFact ==
    ASSUME NEW g, NEW p \in Live(g)
    PROVE  <<p, Page(p)>> \in Facts(g) /\ Said(g, <<p, Page(p)>>) = g[p].own
<1> DEFINE e == Page(p)
<1>1. e \in DOMAIN Says(p, g[p]) /\ Says(p, g[p])[e] = g[p].own
  <2>1. DOMAIN Says(p, g[p]) = {Page(p)} \cup {Block(b) : b \in DOMAIN g[p].blocks}
    BY SaysAre
  <2>2. Says(p, g[p])[Page(p)] = g[p].own
    BY SaysAre
  <2> QED BY <2>1, <2>2
<1> HIDE DEF e
<1>2. <<p, e>> \in Facts(g) /\ Said(g, <<p, e>>) = Says(p, g[p])[e]
  BY <1>1 DEF Facts, Said
<1> QED BY <1>1, <1>2 DEF e

LEMMA BlockFact ==
    ASSUME NEW g, NEW p \in Live(g), NEW b \in DOMAIN g[p].blocks
    PROVE  <<p, Block(b)>> \in Facts(g) /\ Said(g, <<p, Block(b)>>) = g[p].blocks[b]
<1> DEFINE e == Block(b)
<1>1. e \in DOMAIN Says(p, g[p]) /\ Says(p, g[p])[e] = g[p].blocks[b]
  <2>1. DOMAIN Says(p, g[p]) = {Page(p)} \cup {Block(x) : x \in DOMAIN g[p].blocks}
    BY SaysAre
  <2>2. \A x \in DOMAIN g[p].blocks : Says(p, g[p])[Block(x)] = g[p].blocks[x]
    BY SaysAre
  <2> QED BY <2>1, <2>2
<1> HIDE DEF e
<1>2. <<p, e>> \in Facts(g) /\ Said(g, <<p, e>>) = Says(p, g[p])[e]
  BY <1>1 DEF Facts, Said
<1> QED BY <1>1, <1>2 DEF e

LEMMA FactIs ==
    ASSUME NEW g, NEW f \in Facts(g)
    PROVE  /\ f = <<f[1], f[2]>> /\ f[1] \in Live(g)
           /\ \/ f[2] = Page(f[1]) /\ Said(g, f) = g[f[1]].own
              \/ \E b \in DOMAIN g[f[1]].blocks : f[2] = Block(b) /\ Said(g, f) = g[f[1]].blocks[b]
<1>1. PICK p \in Live(g) : \E e \in DOMAIN Says(p, g[p]) : f = <<p, e>>
  BY DEF Facts
<1>2. PICK e \in DOMAIN Says(p, g[p]) : f = <<p, e>>
  BY <1>1
<1>3. f[1] = p /\ f[2] = e
  BY <1>2
<1>4. DOMAIN Says(p, g[p]) = {Page(p)} \cup {Block(b) : b \in DOMAIN g[p].blocks}
  BY SaysAre
<1>5. e = Page(p) \/ \E b \in DOMAIN g[p].blocks : e = Block(b)
  BY <1>4
<1>6. CASE e = Page(p)
  BY <1>2, <1>3, <1>6, PageFact
<1>7. CASE \E b \in DOMAIN g[p].blocks : e = Block(b)
  <2>1. PICK b \in DOMAIN g[p].blocks : e = Block(b)
    BY <1>7
  <2>2. Said(g, <<p, Block(b)>>) = g[p].blocks[b]
    BY BlockFact
  <2> QED BY <1>2, <1>3, <2>1, <2>2
<1> QED BY <1>5, <1>6, <1>7

LEMMA KindsAre ==
    ASSUME NEW g, NEW f \in Facts(g)
    PROVE  /\ f[2] = <<f[2][1], f[2][2]>>
           /\ f[2][1] = 0 <=> f[2] = Page(f[1])
           /\ f[2][1] = 1 <=> f[2] = Block(f[2][2])
           /\ f[2][1] = 0 \/ f[2][1] = 1
           /\ f[2][1] = 1 => f[2][2] \in DOMAIN g[f[1]].blocks
<1>1. f[2] = Page(f[1]) \/ \E b \in DOMAIN g[f[1]].blocks : f[2] = Block(b)
  BY FactIs
<1>2. CASE f[2] = Page(f[1])
  BY <1>2 DEF Page, Block
<1>3. CASE \E b \in DOMAIN g[f[1]].blocks : f[2] = Block(b)
  BY <1>3 DEF Page, Block
<1> QED BY <1>1, <1>2, <1>3

LEMMA EntitiesAre ==
    ASSUME NEW g, NEW e
    PROVE  e \in Entities(g) <=> \E f \in Facts(g) : f[2] = e
<1>1. ASSUME e \in Entities(g) PROVE \E f \in Facts(g) : f[2] = e
  <2>1. CASE \E p \in Live(g) : e = Page(p)
    <3>1. PICK p \in Live(g) : e = Page(p)
      BY <2>1
    <3>2. <<p, e>> \in Facts(g) /\ <<p, e>>[2] = e
      BY <3>1, PageFact, BlockFact
    <3> QED BY <3>2
  <2>2. CASE \E p \in Live(g) : \E b \in DOMAIN g[p].blocks : e = Block(b)
    <3>1. PICK p \in Live(g) : \E b \in DOMAIN g[p].blocks : e = Block(b)
      BY <2>2
    <3>2. <<p, e>> \in Facts(g) /\ <<p, e>>[2] = e
      BY <3>1, PageFact, BlockFact
    <3> QED BY <3>2
  <2> QED BY <1>1, <2>1, <2>2 DEF Entities
<1>2. ASSUME NEW f \in Facts(g), f[2] = e PROVE e \in Entities(g)
  <2>1. /\ f[1] \in Live(g)
        /\ f[2] = Page(f[1]) \/ \E b \in DOMAIN g[f[1]].blocks : f[2] = Block(b)
    BY FactIs
  <2> QED BY <1>2, <2>1 DEF Entities
<1> QED BY <1>1, <1>2

LEMMA GraphIs ==
    ASSUME NEW g \in Graphs
    PROVE  /\ Live(g) \subseteq Pages /\ Live(g) \subseteq Nat /\ IsFiniteSet(Live(g))
           /\ \A p \in Pages : p \in Live(g) <=> g[p] # Absent
           /\ \A p \in Live(g) :
                 /\ g[p] \in Contents[p] /\ DOMAIN g[p].blocks \subseteq Blocks
                 /\ DOMAIN g[p].blocks \subseteq Nat /\ IsFiniteSet(DOMAIN g[p].blocks)
                 /\ g[p].own.uuid = 0 /\ g[p].own.marker = 0
                 /\ g[p].path \in Nat /\ g[p].aliases \subseteq Nat
           /\ \A f \in Facts(g) :
                 Said(g, f).names \cup Said(g, f).claims \cup Said(g, f).properties \subseteq Nat
           /\ WellFormed(g)
<1>1. Live(g) \subseteq Pages /\ WellFormed(g) /\ \A p \in Live(g) : g[p] \in Contents[p]
  BY DEF Graphs, Live
<1>2. Pages \subseteq Nat /\ Blocks \subseteq Nat /\ Pages \subseteq Pages \cup Blocks
      /\ Blocks \subseteq Pages \cup Blocks /\ IsFiniteSet(Pages \cup Blocks)
  BY ContentAssumption
<1>3. IsFiniteSet(Pages) /\ IsFiniteSet(Blocks)
  BY <1>2, FS_Subset
<1>4. ASSUME NEW p \in Live(g)
      PROVE  /\ DOMAIN g[p].blocks \subseteq Blocks
             /\ g[p].own.uuid = 0 /\ g[p].own.marker = 0
             /\ g[p].path \in Nat /\ g[p].aliases \subseteq Nat
             /\ \A says \in {g[p].own} \cup {g[p].blocks[b] : b \in DOMAIN g[p].blocks} :
                   says.names \cup says.claims \cup says.properties \subseteq Nat
  BY <1>1, ContentAssumption
<1>5. ASSUME NEW p \in Live(g) PROVE IsFiniteSet(DOMAIN g[p].blocks)
  BY <1>3, <1>4, FS_Subset
<1>6. ASSUME NEW f \in Facts(g)
      PROVE  Said(g, f).names \cup Said(g, f).claims \cup Said(g, f).properties \subseteq Nat
  <2>1. f[1] \in Live(g) /\ \/ Said(g, f) = g[f[1]].own
                            \/ \E b \in DOMAIN g[f[1]].blocks : Said(g, f) = g[f[1]].blocks[b]
    BY FactIs
  <2> QED BY <1>4, <2>1
<1>7. IsFiniteSet(Live(g))
  BY <1>1, <1>3, FS_Subset
<1>8. \A p \in Pages : p \in Live(g) <=> g[p] # Absent
  BY DEF Live
<1> QED BY <1>1, <1>2, <1>4, <1>5, <1>6, <1>7, <1>8

\* An entity is on one page, and a UUID at one block.
LEMMA OneFact ==
    ASSUME NEW g \in Graphs, NEW f \in Facts(g), NEW h \in Facts(g)
    PROVE  /\ f[2] = h[2] => f = h
           /\ f[2][1] = 1 /\ h[2][1] = 1 /\ Said(g, f).uuid # 0
                 /\ Said(g, f).uuid = Said(g, h).uuid => f = h
<1>1. WellFormed(g)
  BY GraphIs
<1>2. /\ f = <<f[1], f[2]>> /\ f[1] \in Live(g)
      /\ h = <<h[1], h[2]>> /\ h[1] \in Live(g)
  BY FactIs
<1>3. ASSUME f[2] = h[2] PROVE f = h
  <2>1. CASE f[2][1] = 0
    <3>1. f[2] = Page(f[1]) /\ h[2] = Page(h[1])
      BY <1>3, <2>1, KindsAre
    <3> QED BY <1>2, <1>3, <3>1 DEF Page
  <2>2. CASE f[2][1] = 1
    <3>1. f[2][2] \in DOMAIN g[f[1]].blocks /\ f[2][2] \in DOMAIN g[h[1]].blocks
      BY <1>3, <2>2, KindsAre
    <3>2. f[1] = h[1]
      BY <1>1, <1>2, <3>1 DEF WellFormed
    <3> QED BY <1>2, <1>3, <3>2
  <2> QED BY <2>1, <2>2, KindsAre
<1>4. ASSUME f[2][1] = 1, h[2][1] = 1, Said(g, f).uuid # 0, Said(g, f).uuid = Said(g, h).uuid
      PROVE f = h
  <2>1. /\ f[2][2] \in DOMAIN g[f[1]].blocks /\ h[2][2] \in DOMAIN g[h[1]].blocks
        /\ f[2] = Block(f[2][2]) /\ h[2] = Block(h[2][2])
    BY <1>4, KindsAre
  <2>2. /\ Said(g, <<f[1], Block(f[2][2])>>) = g[f[1]].blocks[f[2][2]]
        /\ Said(g, <<h[1], Block(h[2][2])>>) = g[h[1]].blocks[h[2][2]]
    BY <1>2, <2>1, BlockFact
  <2>3. /\ Said(g, f) = g[f[1]].blocks[f[2][2]] /\ Said(g, h) = g[h[1]].blocks[h[2][2]]
    BY <1>2, <2>1, <2>2
  <2>4. f[1] = h[1] /\ f[2][2] = h[2][2]
    BY <1>1, <1>2, <1>4, <2>1, <2>3 DEF WellFormed
  <2> QED BY <1>2, <2>1, <2>4
<1> QED BY <1>3, <1>4

-----------------------------------------------------------------------------
(* Writing rows.                                                           *)

\* The tables v are u but for the tables in C.
Alters(u, v, C) == IsTables(v) /\ \A x \in Fields \ C : v[x] = u[x]

LEMMA AltersTwice ==
    ASSUME NEW u, NEW v, NEW w, NEW B, NEW C, Alters(u, v, B), Alters(v, w, C)
    PROVE  Alters(u, w, B \cup C)
BY DEF Alters

Gains(u, v, table, row) == v[table] = u[table] \cup {row}

LEMMA PutIs ==
    ASSUME NEW u, IsTables(u), u.refused = FALSE, NEW table \in Fields \ {"refused"},
           NEW row, NEW taken, taken = FALSE
    PROVE  /\ Alters(u, Put(u, table, row, taken), {table})
           /\ Gains(u, Put(u, table, row, taken), table, row)
<1> DEFINE v == Put(u, table, row, taken)
<1>1. "refused" \in Fields /\ table \in Fields /\ table # "refused"
  BY DEF Fields
<1>2. \A x \in Fields : v[x] = IF x = "refused" THEN u.refused \/ taken
                               ELSE IF x = table THEN u[table] \cup {row} ELSE u[x]
  BY <1>1 DEF Put, IsTables
<1>3. v = [x \in Fields |-> v[x]]
  BY <1>1 DEF Put, IsTables
<1>4. v["refused"] = u["refused"]
  BY <1>1, <1>2
<1> HIDE DEF v
<1>5. Alters(u, v, {table}) /\ Gains(u, v, table, row)
  BY <1>1, <1>2, <1>3, <1>4 DEF Alters, IsTables, Gains
<1> QED BY <1>5 DEF v

LEMMA InsertReferencesIs ==
    ASSUME NEW u, IsTables(u), NEW e, NEW p, NEW targets
    PROVE  /\ Alters(u, InsertReferences(u, e, p, targets), {"refs"})
           /\ InsertReferences(u, e, p, targets).refs =
                  u.refs \cup {[source |-> e, page |-> p, target |-> x] : x \in targets}
BY DEF InsertReferences, Alters, IsTables, Fields

LEMMA InsertPropertiesIs ==
    ASSUME NEW u, IsTables(u), NEW e, NEW p, NEW names
    PROVE  /\ Alters(u, InsertProperties(u, e, p, names), {"properties"})
           /\ InsertProperties(u, e, p, names).properties =
                  u.properties \cup {[owner |-> e, page |-> p, name |-> n] : n \in names}
BY DEF InsertProperties, Alters, IsTables, Fields

\* The next rowid is above all others.
LEMMA RowidIs ==
    ASSUME NEW owners, IsFiniteSet(owners), \A o \in owners : o.rowid \in Nat
    PROVE  /\ 1 + Max({o.rowid : o \in owners} \cup {0}) \in Nat
           /\ \A o \in owners : o.rowid < 1 + Max({r.rowid : r \in owners} \cup {0})
<1> DEFINE S == {o.rowid : o \in owners}
           T == S \cup {0}
           f == [o \in owners |-> o.rowid]
<1>1. f \in Surjection(owners, S)
  BY DEF Surjection
<1>2. IsFiniteSet(S)
  <2> HIDE DEF f, S
  <2> QED BY <1>1, FS_Surjection
<1>3. IsFiniteSet(T)
  <2> HIDE DEF S
  <2> QED BY <1>2, FS_AddElement
<1>4. T \subseteq Nat /\ T # {}
  OBVIOUS
<1>5. \E x \in T : \A y \in T : y <= x
  <2> HIDE DEF T
  <2> QED BY <1>3, <1>4, GreatestExists
<1>6. Max(T) \in T /\ \A y \in T : y <= Max(T)
  <2>1. \E x \in T : \A y \in T : x >= y
    <3> HIDE DEF T
    <3> QED BY <1>4, <1>5
  <2>2. Max(T) \in T /\ \A y \in T : Max(T) >= y
    <3> HIDE DEF T
    <3> QED BY <2>1 DEF Max
  <2>3. \A y \in T : y \in Nat /\ Max(T) \in Nat
    <3> HIDE DEF T
    <3> QED BY <1>4, <2>2
  <2> HIDE DEF T
  <2> QED BY <2>2, <2>3
<1>7. \A o \in owners : o.rowid \in T
  OBVIOUS
<1> DEFINE m == Max(T)
<1>8. m \in Nat /\ \A o \in owners : o.rowid <= m /\ o.rowid \in Nat
  <2> HIDE DEF T
  <2> QED BY <1>4, <1>6, <1>7
<1>9. m = Max({r.rowid : r \in owners} \cup {0})
  OBVIOUS
<1> HIDE DEF m
<1>10. 1 + m \in Nat /\ \A o \in owners : o.rowid < 1 + m
  BY <1>8
<1> QED BY <1>9, <1>10

\* A fact whose entity has no owner yet gets one, and its search row.
LEMMA InsertFtsIs ==
    ASSUME NEW u, NEW g, NEW F, NEW e, NEW p, IsTables(u), u.refused = FALSE,
           Indexed(u, g, F), \A f \in F : f = <<f[1], f[2]>> /\ f[2] # e
    PROVE  LET v == InsertFts(u, e, p, Said(g, <<p, e>>).word)
           IN  Alters(u, v, {"owners", "fts"}) /\ Indexed(v, g, F \cup {<<p, e>>})
<1> DEFINE rowid == 1 + Max({r.rowid : r \in u.owners} \cup {0})
           word == Said(g, <<p, e>>).word
           row == [rowid |-> rowid, entity |-> e, page |-> p]
           found == [rowid |-> rowid, entity |-> e, page |-> p, word |-> word]
           had == \E r \in u.owners : r.entity = e
           full == \E r \in u.fts : r.rowid = rowid
           w == Put(u, "owners", row, had)
           v == Put(w, "fts", found, full)
<1>1. /\ IsFiniteSet(u.owners)
      /\ \A o \in u.owners :
            /\ o = [rowid |-> o.rowid, entity |-> o.entity, page |-> o.page]
            /\ o.rowid \in Nat /\ <<o.page, o.entity>> \in F
      /\ \A f \in F : \E o \in u.owners : <<o.page, o.entity>> = f
      /\ \A o, q \in u.owners : o.rowid = q.rowid \/ o.entity = q.entity => o = q
      /\ u.fts = {SearchRow(g, o) : o \in u.owners}
  BY DEF Indexed, IsOwner
<1>2. rowid \in Nat /\ \A o \in u.owners : o.rowid < rowid
  BY <1>1, RowidIs
<1>3. InsertFts(u, e, p, word) = v
  BY DEF InsertFts
<1>4. ASSUME NEW o \in u.owners PROVE o.rowid # rowid /\ o.entity # e
  <2>1. o.rowid \in Nat /\ o.rowid < rowid
    BY <1>1, <1>2
  <2>2. <<o.page, o.entity>> \in F
    BY <1>1
  <2>3. <<o.page, o.entity>>[2] # e
    BY <2>2
  <2> QED BY <1>2, <2>1, <2>3
<1> HIDE DEF rowid
<1>5. full = FALSE
  <2>1. ASSUME NEW o \in u.owners PROVE SearchRow(g, o).rowid # rowid
    BY <1>4 DEF SearchRow
  <2> QED BY <1>1, <2>1
<1>6. Alters(u, w, {"owners"}) /\ Gains(u, w, "owners", row)
  <2>1. "owners" \in Fields \ {"refused"}
    BY DEF Fields
  <2>2. had = FALSE
    BY <1>4
  <2> HIDE DEF row, had
  <2> QED BY <2>1, <2>2, PutIs
<1> HIDE DEF w, row, found, had
<1>7. IsTables(w) /\ w.refused = FALSE /\ w["fts"] = u["fts"]
  BY <1>6 DEF Alters, Fields
<1>8. Alters(w, v, {"fts"}) /\ Gains(w, v, "fts", found)
  <2>1. "fts" \in Fields \ {"refused"}
    BY DEF Fields
  <2> HIDE DEF full
  <2> QED BY <2>1, <1>5, <1>7, PutIs
<1> HIDE DEF v
<1>9. Alters(u, v, {"owners", "fts"}) /\ v.owners = u.owners \cup {row} /\ v.fts = u.fts \cup {found}
  <2>1. Alters(u, v, {"owners"} \cup {"fts"})
    BY <1>6, <1>8, AltersTwice
  <2>2. v["owners"] = w["owners"]
    BY <1>8 DEF Alters, Fields
  <2>3. {"owners"} \cup {"fts"} = {"owners", "fts"}
    OBVIOUS
  <2> QED BY <1>6, <1>7, <1>8, <2>1, <2>2, <2>3 DEF Gains
<1>10. row.rowid = rowid /\ row.entity = e /\ row.page = p /\ found = SearchRow(g, row)
       /\ row = [rowid |-> row.rowid, entity |-> row.entity, page |-> row.page]
  BY DEF row, found, SearchRow, word
<1>11. Indexed(v, g, F \cup {<<p, e>>})
  <2>1. IsFiniteSet(v.owners)
    BY <1>1, <1>9, FS_AddElement
  <2>2. \A o \in v.owners : IsOwner(o, F \cup {<<p, e>>})
    BY <1>1, <1>2, <1>9, <1>10 DEF IsOwner
  <2>3. ASSUME NEW f \in F \cup {<<p, e>>}
        PROVE  \E o \in v.owners : <<o.page, o.entity>> = f
    BY <1>1, <1>9, <1>10
  <2>4. ASSUME NEW o \in v.owners, NEW q \in v.owners, o.rowid = q.rowid \/ o.entity = q.entity
        PROVE  o = q
    BY <1>1, <1>4, <1>9, <1>10, <2>4
  <2>5. v.fts = {SearchRow(g, o) : o \in v.owners}
    BY <1>1, <1>9, <1>10
  <2> QED BY <2>1, <2>2, <2>3, <2>4, <2>5 DEF Indexed
<1> QED BY <1>3, <1>9, <1>11

\* What pages and blocks have in common.
Spoken(u, g, F) ==
    Indexed(u, g, F) /\ u.refs = RefRows(g, F) /\ u.properties = PropertyRows(g, F)
Fresh(F, e) == \A f \in F : f = <<f[1], f[2]>> /\ f[2] # e

LEMMA InsertFactsIs ==
    ASSUME NEW u, NEW g, NEW F, NEW e, NEW p, IsTables(u), u.refused = FALSE,
           Spoken(u, g, F), Fresh(F, e)
    PROVE  LET v == InsertFacts(u, e, p, Said(g, <<p, e>>), Entities(g))
           IN  /\ Alters(u, v, {"owners", "fts", "refs", "properties"})
               /\ Spoken(v, g, F \cup {<<p, e>>})
<1> DEFINE f == <<p, e>>
           says == Said(g, f)
           a == InsertFts(u, e, p, says.word)
           b == InsertReferences(a, e, p, says.links \cap Entities(g))
           v == InsertProperties(b, e, p, says.properties)
           G == F \cup {f}
<1>0. /\ Indexed(u, g, F) /\ u.refs = RefRows(g, F) /\ u.properties = PropertyRows(g, F)
      /\ \A h \in F : h = <<h[1], h[2]>> /\ h[2] # e
  BY DEF Spoken, Fresh
<1>1. InsertFacts(u, e, p, says, Entities(g)) = v
  BY DEF InsertFacts
<1>2. Alters(u, a, {"owners", "fts"}) /\ Indexed(a, g, G)
  BY <1>0, InsertFtsIs
<1> HIDE DEF a
<1>3. IsTables(a) /\ a.refs = u.refs /\ a.properties = u.properties
  BY <1>2 DEF Alters, Fields
<1>4. /\ Alters(a, b, {"refs"})
      /\ b.refs = a.refs \cup {[source |-> e, page |-> p, target |-> x] :
                                  x \in says.links \cap Entities(g)}
  BY <1>3, InsertReferencesIs
<1> HIDE DEF b
<1>5. IsTables(b) /\ b.properties = u.properties /\ b.owners = a.owners /\ b.fts = a.fts
  BY <1>3, <1>4 DEF Alters, Fields
<1>6. /\ Alters(b, v, {"properties"})
      /\ v.properties = b.properties \cup {[owner |-> e, page |-> p, name |-> n] :
                                              n \in says.properties}
  BY <1>5, InsertPropertiesIs
<1> HIDE DEF v
<1>7. v.refs = b.refs /\ v.owners = a.owners /\ v.fts = a.fts
  BY <1>5, <1>6 DEF Alters, Fields
<1>8. Alters(u, v, {"owners", "fts", "refs", "properties"})
  <2>1. Alters(u, b, {"owners", "fts"} \cup {"refs"})
    BY <1>2, <1>4, AltersTwice
  <2>2. Alters(u, v, ({"owners", "fts"} \cup {"refs"}) \cup {"properties"})
    BY <1>6, <2>1, AltersTwice
  <2>3. ({"owners", "fts"} \cup {"refs"}) \cup {"properties"} =
            {"owners", "fts", "refs", "properties"}
    OBVIOUS
  <2> QED BY <2>2, <2>3
<1>9. Indexed(v, g, G)
  BY <1>2, <1>7 DEF Indexed
<1>10. f[1] = p /\ f[2] = e
  OBVIOUS
<1> HIDE DEF f, says
<1>11. v.refs = RefRows(g, G)
  BY <1>0, <1>3, <1>4, <1>7, <1>10 DEF RefRows, says
<1>12. v.properties = PropertyRows(g, G)
  BY <1>0, <1>5, <1>6, <1>10 DEF PropertyRows, says
<1> QED BY <1>1, <1>8, <1>9, <1>11, <1>12 DEF f, says, Spoken

-----------------------------------------------------------------------------
(* Inserting pages.                                                        *)

RowFields == {"pages", "blocks", "tasks", "refs", "properties", "owners", "fts"}

LEMMA AltersMore ==
    ASSUME NEW u, NEW v, NEW B, NEW C, Alters(u, v, B), B \subseteq C
    PROVE  Alters(u, v, C)
BY DEF Alters

LEMMA AltersRows ==
    ASSUME NEW u, NEW v, NEW w, Alters(u, v, RowFields), Alters(v, w, RowFields)
    PROVE  Alters(u, w, RowFields)
BY DEF Alters

LEMMA FreshFact ==
    ASSUME NEW g \in Graphs, NEW F, F \subseteq Facts(g), NEW f \in Facts(g), f \notin F
    PROVE  \A h \in F : h = <<h[1], h[2]>> /\ h[2] # f[2]
<1>1. ASSUME NEW h \in F PROVE h = <<h[1], h[2]>> /\ h[2] # f[2]
  <2>1. h \in Facts(g)
    OBVIOUS
  <2>2. h = <<h[1], h[2]>> /\ (h[2] = f[2] => h = f)
    BY <2>1, FactIs, OneFact
  <2> QED BY <2>2
<1> QED BY <1>1

LEMMA RowsOfPage ==
    ASSUME NEW g, NEW F, NEW f, f[2][1] = 0
    PROVE  /\ PageRows(g, F \cup {f}) = PageRows(g, F) \cup {[id |-> f[1], path |-> g[f[1]].path]}
           /\ BlockRows(g, F \cup {f}) = BlockRows(g, F)
           /\ TaskRows(g, F \cup {f}) = TaskRows(g, F)
<1>1. {x \in F \cup {f} : x[2][1] = 0} = {x \in F : x[2][1] = 0} \cup {f}
  OBVIOUS
<1>2. {x \in F \cup {f} : x[2][1] = 1} = {x \in F : x[2][1] = 1}
  OBVIOUS
<1>3. {x \in F \cup {f} : x[2][1] = 1 /\ Said(g, x).marker # 0} =
          {x \in F : x[2][1] = 1 /\ Said(g, x).marker # 0}
  OBVIOUS
<1>4. PageRows(g, F \cup {f}) = PageRows(g, F) \cup {[id |-> f[1], path |-> g[f[1]].path]}
  BY <1>1 DEF PageRows
<1>5. BlockRows(g, F \cup {f}) = BlockRows(g, F)
  BY <1>2 DEF BlockRows
<1>6. TaskRows(g, F \cup {f}) = TaskRows(g, F)
  BY <1>3 DEF TaskRows
<1> QED BY <1>4, <1>5, <1>6

BlockRow(g, f) == [id |-> f[2][2], page |-> f[1], uuid |-> Said(g, f).uuid]
TaskRow(g, f) == [block |-> f[2][2], page |-> f[1], marker |-> Said(g, f).marker]

LEMMA RowsOfBlock ==
    ASSUME NEW g, NEW F, NEW f, f[2][1] = 1
    PROVE  /\ PageRows(g, F \cup {f}) = PageRows(g, F)
           /\ BlockRows(g, F \cup {f}) = BlockRows(g, F) \cup {BlockRow(g, f)}
           /\ TaskRows(g, F \cup {f}) = IF Said(g, f).marker = 0 THEN TaskRows(g, F)
                                        ELSE TaskRows(g, F) \cup {TaskRow(g, f)}
<1>1. {x \in F \cup {f} : x[2][1] = 0} = {x \in F : x[2][1] = 0}
  OBVIOUS
<1>2. {x \in F \cup {f} : x[2][1] = 1} = {x \in F : x[2][1] = 1} \cup {f}
  OBVIOUS
<1>3. {x \in F \cup {f} : x[2][1] = 1 /\ Said(g, x).marker # 0} =
          {x \in F : x[2][1] = 1 /\ Said(g, x).marker # 0}
              \cup IF Said(g, f).marker = 0 THEN {} ELSE {f}
  OBVIOUS
<1>4. PageRows(g, F \cup {f}) = PageRows(g, F)
  BY <1>1 DEF PageRows
<1>5. BlockRows(g, F \cup {f}) = BlockRows(g, F) \cup {BlockRow(g, f)}
  BY <1>2 DEF BlockRows, BlockRow
<1>6. TaskRows(g, F \cup {f}) = IF Said(g, f).marker = 0 THEN TaskRows(g, F)
                                ELSE TaskRows(g, F) \cup {TaskRow(g, f)}
  <2>1. CASE Said(g, f).marker = 0
    BY <1>3, <2>1 DEF TaskRows
  <2>2. CASE Said(g, f).marker # 0
    BY <1>3, <2>2 DEF TaskRows, TaskRow
  <2> QED BY <2>1, <2>2
<1> QED BY <1>4, <1>5, <1>6

\* A page comes with its own facts.
LEMMA PageInserted ==
    ASSUME NEW g \in Graphs, NEW F, F \subseteq Facts(g), NEW p \in Live(g),
           <<p, Page(p)>> \notin F, NEW u, Holds(u, g, F)
    PROVE  LET page == Put(u, "pages", [id |-> p, path |-> g[p].path],
                           \E r \in u.pages : r.id = p)
               v == InsertFacts(page, Page(p), p, g[p].own, Entities(g))
           IN  Alters(u, v, RowFields) /\ Holds(v, g, F \cup {<<p, Page(p)>>})
<1> DEFINE e == Page(p)
           f == <<p, e>>
           row == [id |-> p, path |-> g[p].path]
           had == \E r \in u.pages : r.id = p
           w == Put(u, "pages", row, had)
           v == InsertFacts(w, e, p, g[p].own, Entities(g))
<1>1. f \in Facts(g) /\ Said(g, f) = g[p].own /\ f[1] = p /\ f[2] = e /\ f[2][1] = 0
  <2>1. f[1] = p /\ f[2] = e /\ f[2][1] = 0
    BY DEF Page
  <2> QED BY <2>1, PageFact
<1>2. \A h \in F : h = <<h[1], h[2]>> /\ h[2] # e
  <2> HIDE DEF e
  <2>1. f \notin F
    BY DEF e
  <2> HIDE DEF f
  <2> QED BY <1>1, <2>1, FreshFact
<1>3. /\ IsTables(u) /\ u.refused = FALSE /\ Indexed(u, g, F)
      /\ u.pages = PageRows(g, F) /\ u.blocks = BlockRows(g, F) /\ u.tasks = TaskRows(g, F)
      /\ u.refs = RefRows(g, F) /\ u.properties = PropertyRows(g, F)
  BY DEF Holds
<1>4. had = FALSE
  <2>1. ASSUME NEW r \in u.pages, r.id = p PROVE FALSE
    <3>1. PICK h \in F : h[2][1] = 0 /\ r = [id |-> h[1], path |-> g[h[1]].path]
      BY <1>3 DEF PageRows
    <3>2. h[1] = p /\ h \in Facts(g)
      BY <2>1, <3>1
    <3>3. h[2] = Page(h[1])
      BY <3>1, <3>2, KindsAre
    <3> QED BY <1>2, <3>2, <3>3
  <2> QED BY <2>1
<1> HIDE DEF e, had, row
<1>5. Alters(u, w, {"pages"}) /\ Gains(u, w, "pages", row)
  <2>1. "pages" \in Fields \ {"refused"}
    BY DEF Fields
  <2> QED BY <1>3, <1>4, <2>1, PutIs
<1> HIDE DEF w
<1>6. /\ IsTables(w) /\ w.refused = FALSE /\ w.blocks = u.blocks /\ w.tasks = u.tasks
      /\ w.refs = u.refs /\ w.properties = u.properties
      /\ w.owners = u.owners /\ w.fts = u.fts
  BY <1>3, <1>5 DEF Alters, Fields
<1>7. Spoken(w, g, F) /\ Fresh(F, e)
  BY <1>2, <1>3, <1>6 DEF Indexed, Spoken, Fresh
<1>8. /\ Alters(w, v, {"owners", "fts", "refs", "properties"})
      /\ Indexed(v, g, F \cup {f})
      /\ v.refs = RefRows(g, F \cup {f}) /\ v.properties = PropertyRows(g, F \cup {f})
  <2>1. v = InsertFacts(w, e, p, Said(g, <<p, e>>), Entities(g))
    BY <1>1
  <2> HIDE DEF v
  <2>2. /\ Alters(w, v, {"owners", "fts", "refs", "properties"})
        /\ Spoken(v, g, F \cup {<<p, e>>})
    BY <1>6, <1>7, <2>1, InsertFactsIs
  <2> QED BY <2>2 DEF Spoken
<1> HIDE DEF v
<1>9. /\ IsTables(v) /\ v.refused = FALSE /\ v.blocks = u.blocks /\ v.tasks = u.tasks
      /\ v.pages = w.pages
  BY <1>6, <1>8 DEF Alters, Fields
<1>10. v.pages = u.pages \cup {row}
  BY <1>5, <1>9 DEF Gains
<1>11. Holds(v, g, F \cup {f})
  <2>1. /\ PageRows(g, F \cup {f}) = PageRows(g, F) \cup {[id |-> f[1], path |-> g[f[1]].path]}
        /\ BlockRows(g, F \cup {f}) = BlockRows(g, F)
        /\ TaskRows(g, F \cup {f}) = TaskRows(g, F)
    <3> HIDE DEF f
    <3> QED BY <1>1, RowsOfPage
  <2>2. row = [id |-> f[1], path |-> g[f[1]].path]
    BY <1>1 DEF row
  <2> HIDE DEF f
  <2> QED BY <1>3, <1>8, <1>9, <1>10, <2>1, <2>2 DEF Holds
<1>12. Alters(u, v, RowFields)
  <2>1. Alters(u, w, RowFields) /\ Alters(w, v, RowFields)
    BY <1>5, <1>8, AltersMore DEF RowFields
  <2> QED BY <2>1, AltersRows
<1> QED BY <1>11, <1>12 DEF v, w, e, row, had

LEMMA BlockInserted ==
    ASSUME NEW g \in Graphs, NEW F, F \subseteq Facts(g), NEW p \in Live(g),
           NEW b \in DOMAIN g[p].blocks, <<p, Block(b)>> \notin F, NEW u, Holds(u, g, F)
    PROVE  LET v == InsertBlock(u, p, b, g[p].blocks[b], Entities(g))
           IN  Alters(u, v, RowFields) /\ Holds(v, g, F \cup {<<p, Block(b)>>})
<1> DEFINE e == Block(b)
           f == <<p, e>>
           says == g[p].blocks[b]
           row == [id |-> b, page |-> p, uuid |-> says.uuid]
           had == \E r \in u.blocks : r.id = b \/ (r.uuid = says.uuid /\ r.uuid # 0)
           w == Put(u, "blocks", row, had)
           x == InsertFacts(w, e, p, says, Entities(g))
           task == [block |-> b, page |-> p, marker |-> says.marker]
           full == \E r \in x.tasks : r.block = b
           v == IF says.marker = 0 THEN x ELSE Put(x, "tasks", task, full)
<1>1. f \in Facts(g) /\ Said(g, f) = says /\ f[1] = p /\ f[2] = e /\ f[2][1] = 1 /\ f[2][2] = b
  <2>1. f[1] = p /\ f[2] = e /\ f[2][1] = 1 /\ f[2][2] = b
    BY DEF Block
  <2> QED BY <2>1, BlockFact
<1>2. \A h \in F : h = <<h[1], h[2]>> /\ h[2] # e
  <2> HIDE DEF e
  <2>1. f \notin F
    BY DEF e
  <2> HIDE DEF f
  <2> QED BY <1>1, <2>1, FreshFact
<1>3. /\ IsTables(u) /\ u.refused = FALSE /\ Indexed(u, g, F)
      /\ u.pages = PageRows(g, F) /\ u.blocks = BlockRows(g, F) /\ u.tasks = TaskRows(g, F)
      /\ u.refs = RefRows(g, F) /\ u.properties = PropertyRows(g, F)
  BY DEF Holds
<1>4. ASSUME NEW h \in F, h[2][1] = 1
      PROVE  h[2][2] # b /\ ~ (Said(g, h).uuid = says.uuid /\ Said(g, h).uuid # 0)
  <2>1. h \in Facts(g) /\ h[2] # e
    BY <1>2
  <2>2. h[2] = Block(h[2][2])
    BY <1>4, <2>1, KindsAre
  <2>3. h # f
    BY <1>1, <2>1
  <2> HIDE DEF f, e, says
  <2>4. ~ (Said(g, h).uuid = Said(g, f).uuid /\ Said(g, h).uuid # 0)
    BY <1>1, <1>4, <2>1, <2>3, OneFact
  <2> QED BY <1>1, <2>1, <2>2, <2>4 DEF e
<1>5. had = FALSE
  <2>1. ASSUME NEW r \in u.blocks, r.id = b \/ (r.uuid = says.uuid /\ r.uuid # 0) PROVE FALSE
    <3>1. PICK h \in F : /\ h[2][1] = 1
                         /\ r = [id |-> h[2][2], page |-> h[1], uuid |-> Said(g, h).uuid]
      BY <1>3 DEF BlockRows
    <3>2. r.id = h[2][2] /\ r.uuid = Said(g, h).uuid
      BY <3>1
    <3> QED BY <1>4, <2>1, <3>1, <3>2
  <2> QED BY <2>1
<1> HIDE DEF e, had, row, says
<1>6. Alters(u, w, {"blocks"}) /\ Gains(u, w, "blocks", row)
  <2>1. "blocks" \in Fields \ {"refused"}
    BY DEF Fields
  <2> QED BY <1>3, <1>5, <2>1, PutIs
<1> HIDE DEF w
<1>7. /\ IsTables(w) /\ w.refused = FALSE /\ w.pages = u.pages /\ w.tasks = u.tasks
      /\ w.refs = u.refs /\ w.properties = u.properties
      /\ w.owners = u.owners /\ w.fts = u.fts
  BY <1>3, <1>6 DEF Alters, Fields
<1>8. Spoken(w, g, F) /\ Fresh(F, e)
  BY <1>2, <1>3, <1>7 DEF Indexed, Spoken, Fresh
<1>9. /\ Alters(w, x, {"owners", "fts", "refs", "properties"})
      /\ Indexed(x, g, F \cup {f})
      /\ x.refs = RefRows(g, F \cup {f}) /\ x.properties = PropertyRows(g, F \cup {f})
  <2>1. x = InsertFacts(w, e, p, Said(g, <<p, e>>), Entities(g))
    BY <1>1
  <2> HIDE DEF x
  <2>2. /\ Alters(w, x, {"owners", "fts", "refs", "properties"})
        /\ Spoken(x, g, F \cup {<<p, e>>})
    BY <1>7, <1>8, <2>1, InsertFactsIs
  <2> QED BY <2>2 DEF Spoken
<1> HIDE DEF x
<1>10. /\ IsTables(x) /\ x.refused = FALSE /\ x.pages = u.pages /\ x.tasks = u.tasks
       /\ x.blocks = w.blocks
  BY <1>7, <1>9 DEF Alters, Fields
<1>11. x.blocks = u.blocks \cup {row}
  BY <1>6, <1>10 DEF Gains
<1>12. full = FALSE
  <2>1. ASSUME NEW r \in x.tasks, r.block = b PROVE FALSE
    <3>1. PICK h \in F : /\ h[2][1] = 1
                         /\ r = [block |-> h[2][2], page |-> h[1], marker |-> Said(g, h).marker]
      BY <1>3, <1>10 DEF TaskRows
    <3>2. r.block = h[2][2]
      BY <3>1
    <3> QED BY <1>4, <2>1, <3>1, <3>2
  <2> QED BY <2>1
<1> HIDE DEF full, task
<1>13. /\ Alters(x, v, {"tasks"})
       /\ v.tasks = IF says.marker = 0 THEN x.tasks ELSE x.tasks \cup {task}
  <2>1. CASE says.marker = 0
    BY <1>10, <2>1 DEF Alters
  <2>2. CASE says.marker # 0
    <3>1. "tasks" \in Fields \ {"refused"}
      BY DEF Fields
    <3>2. v = Put(x, "tasks", task, full)
      BY <2>2
    <3>3. Alters(x, v, {"tasks"}) /\ Gains(x, v, "tasks", task)
      BY <1>10, <1>12, <3>1, <3>2, PutIs
    <3> HIDE DEF v
    <3> QED BY <2>2, <3>3 DEF Gains
  <2> QED BY <2>1, <2>2
<1> HIDE DEF v
<1>14. /\ IsTables(v) /\ v.refused = FALSE /\ v.pages = u.pages /\ v.blocks = x.blocks
       /\ v.refs = x.refs /\ v.properties = x.properties /\ v.owners = x.owners /\ v.fts = x.fts
  BY <1>10, <1>13 DEF Alters, Fields
<1>15. Holds(v, g, F \cup {f})
  <2>1. /\ PageRows(g, F \cup {f}) = PageRows(g, F)
        /\ BlockRows(g, F \cup {f}) = BlockRows(g, F) \cup {BlockRow(g, f)}
        /\ TaskRows(g, F \cup {f}) = IF Said(g, f).marker = 0 THEN TaskRows(g, F)
                                     ELSE TaskRows(g, F) \cup {TaskRow(g, f)}
    <3> HIDE DEF f
    <3> QED BY <1>1, RowsOfBlock
  <2>2. row = BlockRow(g, f) /\ task = TaskRow(g, f)
    BY <1>1 DEF row, task, BlockRow, TaskRow
  <2>3. Indexed(v, g, F \cup {f})
    BY <1>9, <1>14 DEF Indexed
  <2> HIDE DEF f
  <2>4. v.tasks = TaskRows(g, F \cup {f})
    BY <1>1, <1>3, <1>10, <1>13, <2>1, <2>2
  <2> QED BY <1>3, <1>9, <1>11, <1>14, <2>1, <2>2, <2>3, <2>4 DEF Holds
<1>16. Alters(u, v, RowFields)
  <2>1. Alters(u, w, RowFields) /\ Alters(w, x, RowFields) /\ Alters(x, v, RowFields)
    BY <1>6, <1>9, <1>13, AltersMore DEF RowFields
  <2> QED BY <2>1, AltersRows
<1>17. InsertBlock(u, p, b, g[p].blocks[b], Entities(g)) = v
  BY DEF InsertBlock, v, x, w, e, row, had, task, full, says
<1> QED BY <1>15, <1>16, <1>17 DEF e

\* The facts on the pages P.
Of(g, P) == {f \in Facts(g) : f[1] \in P}

LEMMA InsertPageIs ==
    ASSUME NEW g \in Graphs, NEW F, F \subseteq Facts(g), NEW p \in Live(g),
           \A f \in F : f[1] # p, NEW u, Holds(u, g, F)
    PROVE  LET v == InsertPage(u, p, g[p], Entities(g))
           IN  Alters(u, v, RowFields) /\ Holds(v, g, F \cup Of(g, {p}))
<1> DEFINE blocks == DOMAIN g[p].blocks
           order == Sorted(blocks)
           n == Len(order)
           page == Put(u, "pages", [id |-> p, path |-> g[p].path], \E r \in u.pages : r.id = p)
           base == InsertFacts(page, Page(p), p, g[p].own, Entities(g))
           Step(h, x) == InsertBlock(x, p, order[h], g[p].blocks[order[h]], Entities(g))
<1>a. blocks \subseteq Nat /\ IsFiniteSet(blocks)
  BY GraphIs
<1>b. /\ order \in Seq(blocks) /\ n = Cardinality(blocks) /\ Cardinality(blocks) \in Nat
      /\ Rises(order, Cardinality(blocks))
      /\ \A x : x \in blocks <=> \E i \in 1..n : order[i] = x
  <2> HIDE DEF blocks
  <2> QED BY <1>a, SortedIs
<1>0. n \in Nat
  BY <1>b
<1> HIDE DEF n, order, blocks
<1> DEFINE Solves(f, m) == f = [h \in 0..m |-> IF h = 0 THEN base ELSE Step(h, f[h - 1])]
           Bad == {m \in 0..n : ~ \E f : Solves(f, m)}
<1>1. \E f : Solves(f, n)
  <2> HIDE DEF base, Step
  <2>1. ASSUME Bad # {} PROVE FALSE
    <3>1. PICK m \in Bad : \A j \in Bad : m <= j
      <4>1. Bad \subseteq Nat
        BY <1>0
      <4> HIDE DEF Bad
      <4> QED BY <2>1, <4>1, LeastExists, Zenon
    <3>2. m \in 0..n /\ ~ \E f : Solves(f, m)
      BY <3>1
    <3>3. m # 0
      <4>1. Solves([h \in 0..0 |-> base], 0)
        OBVIOUS
      <4> HIDE DEF Solves
      <4> QED BY <4>1, <3>2
    <3>4. PICK f : Solves(f, m - 1)
      <4>1. m - 1 \in 0..n /\ ~ (m <= m - 1)
        BY <1>0, <3>2, <3>3
      <4> HIDE DEF Solves
      <4> QED BY <4>1, <3>1
    <3> DEFINE longer == [h \in 0..m |-> IF h = m THEN Step(m, f[m - 1]) ELSE f[h]]
    <3>5. ASSUME NEW h \in 0..m
          PROVE  longer[h] = IF h = 0 THEN base ELSE Step(h, longer[h - 1])
      <4>1. h # 0 => longer[h - 1] = f[h - 1]
        BY <1>0, <3>2
      <4>2. h # m => h \in 0..(m - 1) /\ longer[h] = f[h]
        BY <1>0, <3>2
      <4>3. h = m => longer[h] = Step(m, f[m - 1])
        OBVIOUS
      <4> HIDE DEF longer
      <4> QED BY <4>1, <4>2, <4>3, <3>3, <3>4
    <3>6. Solves(longer, m)
      <4>1. longer = [h \in 0..m |-> longer[h]]
        OBVIOUS
      <4> HIDE DEF longer
      <4> QED BY <4>1, <3>5
    <3> HIDE DEF longer, Solves
    <3> QED BY <3>2, <3>6
  <2>2. n \in 0..n
    BY <1>0
  <2>3. n \notin Bad
    <3> HIDE DEF Bad
    <3> QED BY <2>1
  <2> HIDE DEF Solves
  <2> QED BY <2>2, <2>3
<1> DEFINE chosen == CHOOSE f : Solves(f, n)
<1>2. Solves(chosen, n)
  <2> HIDE DEF Solves
  <2> QED BY <1>1
<1> HIDE DEF chosen, base, Step
<1>3. chosen[0] = base
  BY <1>0, <1>2
<1>4. ASSUME NEW h \in 1..n PROVE chosen[h] = Step(h, chosen[h - 1])
  <2>1. h \in 0..n /\ h # 0
    BY <1>0
  <2> QED BY <1>2, <2>1
<1> USE DEF base, Step
<1>5. InsertPage(u, p, g[p], Entities(g)) = chosen[n]
  BY DEF InsertPage, chosen, n, order, blocks, base
<1> HIDE DEF base
<1> DEFINE Grown(h) == F \cup {<<p, Page(p)>>} \cup {<<p, Block(order[i])>> : i \in 1..h}
           Fine(h) == Alters(u, chosen[h], RowFields) /\ Holds(chosen[h], g, Grown(h))
           Worse == {h \in 0..n : ~ Fine(h)}
<1>6. <<p, Page(p)>> \in Facts(g) /\ <<p, Page(p)>> \notin F /\ <<p, Page(p)>>[1] = p
  BY PageFact
<1>7. ASSUME NEW h \in 0..n PROVE Grown(h) \subseteq Facts(g)
  <2>1. ASSUME NEW i \in 1..h PROVE <<p, Block(order[i])>> \in Facts(g)
    <3>1. i \in 1..n
      BY <1>0
    <3>2. order[i] \in DOMAIN g[p].blocks
      BY <1>b, <3>1 DEF blocks
    <3> QED BY <3>2, BlockFact
  <2> QED BY <1>6, <2>1
<1>8. Fine(0)
  <2>1. Grown(0) = F \cup {<<p, Page(p)>>}
    OBVIOUS
  <2>2. Alters(u, base, RowFields) /\ Holds(base, g, F \cup {<<p, Page(p)>>})
    BY <1>6, PageInserted DEF base
  <2> HIDE DEF Grown
  <2> QED BY <1>3, <2>1, <2>2
<1>9. ASSUME NEW h \in 1..n, Fine(h - 1) PROVE Fine(h)
  <2> DEFINE b == order[h]
             f == <<p, Block(b)>>
  <2>1. h - 1 \in 0..n /\ h \in 1..n
    BY <1>0
  <2>2. b \in DOMAIN g[p].blocks /\ b \in Nat
    BY <1>a, <1>b DEF blocks
  <2>3. f \notin Grown(h - 1)
    <3>1. f \notin F
      <4>1. f[1] = p
        OBVIOUS
      <4> QED BY <4>1
    <3>2. f # <<p, Page(p)>>
      BY DEF Page, Block
    <3>3. ASSUME NEW i \in 1..(h - 1) PROVE f # <<p, Block(order[i])>>
      <4>1. i \in 1..n /\ h \in 1..n /\ i < h
        BY <1>0
      <4>2. order[i] < order[h] /\ order[i] \in Nat /\ order[h] \in Nat
        <5>1. order[i] < order[h]
          BY <1>b, <4>1 DEF Rises
        <5>2. order[i] \in blocks /\ order[h] \in blocks
          BY <1>b, <4>1
        <5> QED BY <1>a, <5>1, <5>2
      <4>3. order[i] # b
        BY <4>2
      <4> HIDE DEF b
      <4> QED BY <4>3 DEF Block
    <3> HIDE DEF f
    <3> QED BY <3>1, <3>2, <3>3
  <2>4. Grown(h) = Grown(h - 1) \cup {f}
    <3>1. 1..h = 1..(h - 1) \cup {h}
      BY <1>0
    <3> QED BY <3>1
  <2>5. chosen[h] = InsertBlock(chosen[h - 1], p, b, g[p].blocks[b], Entities(g))
    BY <1>4 DEF Step
  <2>6. Grown(h - 1) \subseteq Facts(g)
    BY <1>7, <2>1
  <2>7. Alters(u, chosen[h - 1], RowFields) /\ Holds(chosen[h - 1], g, Grown(h - 1))
    BY <1>9
  <2> HIDE DEF b, Grown
  <2>8. /\ Alters(chosen[h - 1], chosen[h], RowFields)
        /\ Holds(chosen[h], g, Grown(h - 1) \cup {<<p, Block(b)>>})
    <3> DEFINE x == chosen[h - 1]
               G == Grown(h - 1)
    <3>1. /\ G \subseteq Facts(g) /\ <<p, Block(b)>> \notin G /\ Holds(x, g, G)
      BY <2>3, <2>6, <2>7
    <3> HIDE DEF x, G
    <3>2. /\ Alters(x, InsertBlock(x, p, b, g[p].blocks[b], Entities(g)), RowFields)
          /\ Holds(InsertBlock(x, p, b, g[p].blocks[b], Entities(g)), g, G \cup {<<p, Block(b)>>})
      BY <2>2, <3>1, BlockInserted
    <3> QED BY <2>5, <3>2 DEF x, G
  <2>9. Alters(u, chosen[h], RowFields)
    BY <2>7, <2>8, AltersRows
  <2> QED BY <2>4, <2>8, <2>9
<1> HIDE DEF Fine
<1>10. ASSUME Worse # {} PROVE FALSE
  <2>1. PICK h \in Worse : \A j \in Worse : h <= j
    <3>1. Worse \subseteq Nat
      BY <1>0
    <3> HIDE DEF Worse
    <3> QED BY <1>10, <3>1, LeastExists, Zenon
  <2>2. h \in 0..n /\ ~ Fine(h) /\ h # 0
    BY <1>8, <2>1
  <2>3. h \in 1..n /\ h - 1 \in 0..n /\ ~ (h <= h - 1)
    BY <1>0, <2>2
  <2>4. Fine(h - 1)
    BY <2>1, <2>3
  <2> QED BY <1>9, <2>2, <2>3, <2>4
<1>11. Fine(n)
  <2>1. n \in 0..n
    BY <1>0
  <2> QED BY <1>10, <2>1
<1>12. Grown(n) = F \cup Of(g, {p})
  <2>1. ASSUME NEW f \in Of(g, {p}) PROVE f \in Grown(n)
    <3>1. f \in Facts(g) /\ f[1] = p
      BY DEF Of
    <3>2. /\ f = <<p, f[2]>>
          /\ f[2] = Page(p) \/ \E b \in DOMAIN g[p].blocks : f[2] = Block(b)
      BY <3>1, FactIs
    <3>3. CASE f[2] = Page(p)
      BY <3>2, <3>3
    <3>4. CASE \E b \in DOMAIN g[p].blocks : f[2] = Block(b)
      <4>1. PICK b \in DOMAIN g[p].blocks : f[2] = Block(b)
        BY <3>4
      <4>2. PICK i \in 1..n : order[i] = b
        BY <1>b DEF blocks
      <4> QED BY <3>2, <4>1, <4>2
    <3> QED BY <3>2, <3>3, <3>4
  <2>2. ASSUME NEW f \in Grown(n) PROVE f \in F \cup Of(g, {p})
    <3>1. f \in Facts(g)
      <4>1. n \in 0..n
        BY <1>0
      <4> HIDE DEF Grown
      <4> QED BY <1>7, <4>1
    <3>2. f \in F \/ f[1] = p
      OBVIOUS
    <3> HIDE DEF Grown
    <3> QED BY <3>1, <3>2 DEF Of
  <2>3. F \subseteq Grown(n)
    OBVIOUS
  <2> HIDE DEF Grown
  <2> QED BY <2>1, <2>2, <2>3
<1> QED BY <1>5, <1>11, <1>12 DEF Fine

LEMMA InsertPagesIs ==
    ASSUME NEW g \in Graphs, NEW F, F \subseteq Facts(g), NEW pages, pages \subseteq Live(g),
           \A f \in F : f[1] \notin pages, NEW u, Holds(u, g, F)
    PROVE  LET v == InsertPages(u, g, pages)
           IN  Alters(u, v, RowFields) /\ Holds(v, g, F \cup Of(g, pages))
<1> DEFINE order == Sorted(pages)
           n == Len(order)
           base == u
           Step(h, x) == InsertPage(x, order[h], g[order[h]], Entities(g))
<1>a. pages \subseteq Nat /\ IsFiniteSet(pages)
  <2>1. Live(g) \subseteq Nat /\ IsFiniteSet(Live(g))
    BY GraphIs
  <2> QED BY <2>1, FS_Subset
<1>b. /\ order \in Seq(pages) /\ n = Cardinality(pages) /\ Cardinality(pages) \in Nat
      /\ Rises(order, Cardinality(pages))
      /\ \A x : x \in pages <=> \E i \in 1..n : order[i] = x
  BY <1>a, SortedIs
<1>0. n \in Nat
  BY <1>b
<1> HIDE DEF n, order
<1> DEFINE Solves(f, m) == f = [h \in 0..m |-> IF h = 0 THEN base ELSE Step(h, f[h - 1])]
           Bad == {m \in 0..n : ~ \E f : Solves(f, m)}
<1>1. \E f : Solves(f, n)
  <2> HIDE DEF base, Step
  <2>1. ASSUME Bad # {} PROVE FALSE
    <3>1. PICK m \in Bad : \A j \in Bad : m <= j
      <4>1. Bad \subseteq Nat
        BY <1>0
      <4> HIDE DEF Bad
      <4> QED BY <2>1, <4>1, LeastExists, Zenon
    <3>2. m \in 0..n /\ ~ \E f : Solves(f, m)
      BY <3>1
    <3>3. m # 0
      <4>1. Solves([h \in 0..0 |-> base], 0)
        OBVIOUS
      <4> HIDE DEF Solves
      <4> QED BY <4>1, <3>2
    <3>4. PICK f : Solves(f, m - 1)
      <4>1. m - 1 \in 0..n /\ ~ (m <= m - 1)
        BY <1>0, <3>2, <3>3
      <4> HIDE DEF Solves
      <4> QED BY <4>1, <3>1
    <3> DEFINE longer == [h \in 0..m |-> IF h = m THEN Step(m, f[m - 1]) ELSE f[h]]
    <3>5. ASSUME NEW h \in 0..m
          PROVE  longer[h] = IF h = 0 THEN base ELSE Step(h, longer[h - 1])
      <4>1. h # 0 => longer[h - 1] = f[h - 1]
        BY <1>0, <3>2
      <4>2. h # m => h \in 0..(m - 1) /\ longer[h] = f[h]
        BY <1>0, <3>2
      <4>3. h = m => longer[h] = Step(m, f[m - 1])
        OBVIOUS
      <4> HIDE DEF longer
      <4> QED BY <4>1, <4>2, <4>3, <3>3, <3>4
    <3>6. Solves(longer, m)
      <4>1. longer = [h \in 0..m |-> longer[h]]
        OBVIOUS
      <4> HIDE DEF longer
      <4> QED BY <4>1, <3>5
    <3> HIDE DEF longer, Solves
    <3> QED BY <3>2, <3>6
  <2>2. n \in 0..n
    BY <1>0
  <2>3. n \notin Bad
    <3> HIDE DEF Bad
    <3> QED BY <2>1
  <2> HIDE DEF Solves
  <2> QED BY <2>2, <2>3
<1> DEFINE chosen == CHOOSE f : Solves(f, n)
<1>2. Solves(chosen, n)
  <2> HIDE DEF Solves
  <2> QED BY <1>1
<1> HIDE DEF chosen, base, Step
<1>3. chosen[0] = base
  BY <1>0, <1>2
<1>4. ASSUME NEW h \in 1..n PROVE chosen[h] = Step(h, chosen[h - 1])
  <2>1. h \in 0..n /\ h # 0
    BY <1>0
  <2> QED BY <1>2, <2>1
<1> USE DEF base, Step
<1>5. InsertPages(u, g, pages) = chosen[n]
  BY DEF InsertPages, chosen, n, order
<1> DEFINE P(h) == {order[i] : i \in 1..h}
           Fine(h) == Alters(u, chosen[h], RowFields) /\ Holds(chosen[h], g, F \cup Of(g, P(h)))
           Worse == {h \in 0..n : ~ Fine(h)}
<1>8. Fine(0)
  <2>1. F \cup Of(g, P(0)) = F
    BY DEF Of
  <2>2. Alters(u, u, RowFields)
    BY DEF Holds, Alters
  <2> HIDE DEF P
  <2> QED BY <1>3, <2>1, <2>2
<1>9. ASSUME NEW h \in 1..n, Fine(h - 1) PROVE Fine(h)
  <2> DEFINE p == order[h]
             G == F \cup Of(g, P(h - 1))
  <2>1. p \in pages /\ p \in Live(g) /\ p \in Nat
    BY <1>a, <1>b
  <2>2. p \notin P(h - 1)
    <3>1. ASSUME NEW i \in 1..(h - 1) PROVE order[i] # p
      <4>1. i \in 1..n /\ h \in 1..n /\ i < h
        BY <1>0
      <4>2. order[i] < order[h]
        BY <1>b, <4>1 DEF Rises
      <4>3. order[i] \in Nat /\ order[h] \in Nat
        BY <1>a, <1>b, <4>1
      <4> QED BY <4>2, <4>3
    <3> QED BY <3>1
  <2>3. G \subseteq Facts(g) /\ \A f \in G : f[1] # p
    BY <2>1, <2>2 DEF Of
  <2>4. G \cup Of(g, {p}) = F \cup Of(g, P(h))
    <3>1. 1..h = 1..(h - 1) \cup {h}
      BY <1>0
    <3>2. P(h) = P(h - 1) \cup {p}
      BY <3>1
    <3> HIDE DEF P, p
    <3> QED BY <3>2 DEF Of
  <2>5. chosen[h] = InsertPage(chosen[h - 1], p, g[p], Entities(g))
    BY <1>4 DEF Step
  <2>6. Alters(u, chosen[h - 1], RowFields) /\ Holds(chosen[h - 1], g, G)
    BY <1>9
  <2> HIDE DEF p, G, P
  <2>7. Alters(chosen[h - 1], chosen[h], RowFields) /\ Holds(chosen[h], g, G \cup Of(g, {p}))
    BY <2>1, <2>3, <2>5, <2>6, InsertPageIs
  <2>8. Alters(u, chosen[h], RowFields)
    BY <2>6, <2>7, AltersRows
  <2> QED BY <2>4, <2>7, <2>8
<1> HIDE DEF Fine
<1>10. ASSUME Worse # {} PROVE FALSE
  <2>1. PICK h \in Worse : \A j \in Worse : h <= j
    <3>1. Worse \subseteq Nat
      BY <1>0
    <3> HIDE DEF Worse
    <3> QED BY <1>10, <3>1, LeastExists, Zenon
  <2>2. h \in 0..n /\ ~ Fine(h) /\ h # 0
    BY <1>8, <2>1
  <2>3. h \in 1..n /\ h - 1 \in 0..n /\ ~ (h <= h - 1)
    BY <1>0, <2>2
  <2>4. Fine(h - 1)
    BY <2>1, <2>3
  <2> QED BY <1>9, <2>2, <2>3, <2>4
<1>11. Fine(n)
  <2>1. n \in 0..n
    BY <1>0
  <2> QED BY <1>10, <2>1
<1>12. P(n) = pages
  BY <1>b
<1> HIDE DEF P
<1> QED BY <1>5, <1>11, <1>12 DEF Fine

-----------------------------------------------------------------------------
(* Deleting pages.                                                         *)

\* A reference to a page in I, or to a block of a page in P that is not in K, goes.
Stays(u, r, P, I, K) ==
    /\ r.page \notin P /\ \A p \in I : r.target # Page(p)
    /\ \A s \in u.blocks : s.page \in P /\ s.id \notin K => r.target # Block(s.id)

\* A search row goes with the owners of its rowid.
Kept(u, r, P) == \A o \in u.owners : o.page \in P => o.rowid # r.rowid

\* The tables v are u without the rows of the pages P.
Cleared(u, v, P, I, K) ==
    /\ Alters(u, v, RowFields)
    /\ v.pages = {r \in u.pages : r.id \notin P}
    /\ v.blocks = {r \in u.blocks : r.page \notin P}
    /\ v.tasks = {r \in u.tasks : r.page \notin P}
    /\ v.properties = {r \in u.properties : r.page \notin P}
    /\ v.refs = {r \in u.refs : Stays(u, r, P, I, K)}
    /\ v.owners = {r \in u.owners : Kept(u, r, P)}
    /\ v.fts = {r \in u.fts : Kept(u, r, P)}

LEMMA ClearedTwice ==
    ASSUME NEW u, NEW v, NEW w, NEW P, NEW I, NEW Q, NEW J, NEW K,
           Cleared(u, v, P, I, K), Cleared(v, w, Q, J, K)
    PROVE  Cleared(u, w, P \cup Q, I \cup J, K)
<1>1. Alters(u, w, RowFields)
  BY AltersRows DEF Cleared
<1>2. w.pages = {r \in u.pages : r.id \notin P \cup Q}
  BY DEF Cleared
<1>3. w.blocks = {r \in u.blocks : r.page \notin P \cup Q}
  BY DEF Cleared
<1>4. w.tasks = {r \in u.tasks : r.page \notin P \cup Q}
  BY DEF Cleared
<1>5. w.properties = {r \in u.properties : r.page \notin P \cup Q}
  BY DEF Cleared
<1>6. /\ w.owners = {r \in u.owners : Kept(u, r, P \cup Q)}
      /\ w.fts = {r \in u.fts : Kept(u, r, P \cup Q)}
  <2>1. /\ v.owners = {r \in u.owners : Kept(u, r, P)} /\ v.fts = {r \in u.fts : Kept(u, r, P)}
        /\ w.owners = {r \in v.owners : Kept(v, r, Q)} /\ w.fts = {r \in v.fts : Kept(v, r, Q)}
    BY DEF Cleared
  <2>2. ASSUME NEW r
        PROVE  Kept(u, r, P \cup Q) <=> Kept(u, r, P) /\ Kept(v, r, Q)
    <3>1. ASSUME Kept(u, r, P), Kept(v, r, Q), NEW o \in u.owners, o.page \in Q, o.rowid = r.rowid
          PROVE FALSE
      <4>1. Kept(u, o, P)
        BY <3>1 DEF Kept
      <4> QED BY <2>1, <3>1, <4>1 DEF Kept
    <3>2. ASSUME Kept(u, r, P \cup Q) PROVE Kept(u, r, P) /\ Kept(v, r, Q)
      BY <2>1, <3>2 DEF Kept
    <3>3. ASSUME Kept(u, r, P), Kept(v, r, Q) PROVE Kept(u, r, P \cup Q)
      BY <3>1, <3>3 DEF Kept
    <3> QED BY <3>2, <3>3
  <2> QED BY <2>1, <2>2
<1>7. w.refs = {r \in u.refs : Stays(u, r, P \cup Q, I \cup J, K)}
  <2>1. /\ v.blocks = {r \in u.blocks : r.page \notin P}
        /\ v.refs = {r \in u.refs : Stays(u, r, P, I, K)}
        /\ w.refs = {r \in v.refs : Stays(v, r, Q, J, K)}
    BY DEF Cleared
  <2>2. ASSUME NEW r
        PROVE  Stays(u, r, P \cup Q, I \cup J, K) <=> Stays(u, r, P, I, K) /\ Stays(v, r, Q, J, K)
    BY <2>1 DEF Stays
  <2> QED BY <2>1, <2>2
<1> QED BY <1>1, <1>2, <1>3, <1>4, <1>5, <1>6, <1>7 DEF Cleared

LEMMA ClearedNone ==
    ASSUME NEW u, NEW K, IsTables(u)
    PROVE  Cleared(u, u, {}, {}, K)
BY DEF Cleared, Alters, Stays, Kept

Incoming(incoming, pages) == IF incoming THEN pages ELSE {}

LEMMA DeletePageIs ==
    ASSUME NEW u, IsTables(u), NEW p, NEW incoming \in BOOLEAN, NEW K
    PROVE  Cleared(u, DeletePage(u, p, incoming, K), {p}, Incoming(incoming, {p}), K)
<1> DEFINE v == DeletePage(u, p, incoming, K)
           gone == {r.id : r \in {s \in u.blocks : s.page = p}} \ K
           rowids == {r.rowid : r \in {s \in u.owners : s.page = p}}
           a == Unindex(u, rowids)
<1>1. /\ IsTables(a) /\ a.fts = {r \in u.fts : r.rowid \notin rowids}
      /\ a.owners = {r \in u.owners : r.rowid \notin rowids}
      /\ \A x \in Fields \ {"owners", "fts"} : a[x] = u[x]
  <2> HIDE DEF rowids
  <2> QED BY DEF Unindex, IsTables, Fields
<1>2. v = [a EXCEPT !.refs = {r \in {s \in @ : s.page # p} :
                                 /\ ~ (incoming /\ r.target = Page(p))
                                 /\ \A b \in gone : r.target # Block(b)},
                    !.properties = {r \in @ : r.page # p}, !.tasks = {r \in @ : r.page # p},
                    !.blocks = {r \in @ : r.page # p}, !.pages = {r \in @ : r.id # p}]
  BY DEF DeletePage
<1> HIDE DEF a, gone
<1>3. /\ IsTables(v)
      /\ v.refs = {r \in {s \in a.refs : s.page # p} :
                                 /\ ~ (incoming /\ r.target = Page(p))
                                 /\ \A b \in gone : r.target # Block(b)}
      /\ v.properties = {r \in a.properties : r.page # p}
      /\ v.tasks = {r \in a.tasks : r.page # p}
      /\ v.blocks = {r \in a.blocks : r.page # p} /\ v.pages = {r \in a.pages : r.id # p}
      /\ \A x \in Fields \ {"refs", "properties", "tasks", "blocks", "pages"} : v[x] = a[x]
  <2> HIDE DEF v
  <2>1. IsTables(v)
    BY <1>1, <1>2 DEF IsTables, Fields
  <2>2. v.refs = {r \in {s \in a.refs : s.page # p} :
                                 /\ ~ (incoming /\ r.target = Page(p))
                                 /\ \A b \in gone : r.target # Block(b)}
    BY <1>1, <1>2 DEF IsTables, Fields
  <2>3. v.properties = {r \in a.properties : r.page # p}
    BY <1>1, <1>2 DEF IsTables, Fields
  <2>4. v.tasks = {r \in a.tasks : r.page # p}
    BY <1>1, <1>2 DEF IsTables, Fields
  <2>5. v.blocks = {r \in a.blocks : r.page # p} /\ v.pages = {r \in a.pages : r.id # p}
    BY <1>1, <1>2 DEF IsTables, Fields
  <2>6. \A x \in Fields \ {"refs", "properties", "tasks", "blocks", "pages"} : v[x] = a[x]
    BY <1>1, <1>2 DEF IsTables, Fields
  <2> QED BY <2>1, <2>2, <2>3, <2>4, <2>5, <2>6
<1> HIDE DEF v
<1>4. Alters(u, v, RowFields)
  BY <1>1, <1>3 DEF Alters, RowFields, Fields
<1>5. /\ v.owners = a.owners /\ v.fts = a.fts /\ a.refs = u.refs /\ a.properties = u.properties
      /\ a.tasks = u.tasks /\ a.blocks = u.blocks /\ a.pages = u.pages
  BY <1>1, <1>3 DEF Fields
<1>6. /\ v.pages = {r \in u.pages : r.id \notin {p}}
      /\ v.blocks = {r \in u.blocks : r.page \notin {p}}
      /\ v.tasks = {r \in u.tasks : r.page \notin {p}}
      /\ v.properties = {r \in u.properties : r.page \notin {p}}
  BY <1>3, <1>5
<1>7. ASSUME NEW r PROVE Kept(u, r, {p}) <=> r.rowid \notin rowids
  BY DEF Kept
<1>8. v.owners = {r \in u.owners : Kept(u, r, {p})} /\ v.fts = {r \in u.fts : Kept(u, r, {p})}
  <2> HIDE DEF rowids
  <2> QED BY <1>1, <1>5, <1>7
<1>9. ASSUME NEW r
      PROVE  Stays(u, r, {p}, Incoming(incoming, {p}), K) <=>
                 /\ r.page # p /\ ~ (incoming /\ r.target = Page(p))
                 /\ \A b \in gone : r.target # Block(b)
  BY DEF Stays, Incoming, gone
<1>10. v.refs = {r \in u.refs : Stays(u, r, {p}, Incoming(incoming, {p}), K)}
  BY <1>3, <1>5, <1>9
<1>11. Cleared(u, v, {p}, Incoming(incoming, {p}), K)
  BY <1>4, <1>6, <1>8, <1>10 DEF Cleared
<1> QED BY <1>11 DEF v

LEMMA DeletePagesIs ==
    ASSUME NEW u, IsTables(u), NEW pages, pages \subseteq Nat, IsFiniteSet(pages),
           NEW incoming \in BOOLEAN, NEW K
    PROVE  Cleared(u, DeletePages(u, pages, incoming, K), pages, Incoming(incoming, pages), K)
<1> DEFINE order == Sorted(pages)
           n == Len(order)
           base == u
           Step(h, x) == DeletePage(x, order[h], incoming, K)
<1>b. /\ order \in Seq(pages) /\ n = Cardinality(pages) /\ Cardinality(pages) \in Nat
      /\ \A x : x \in pages <=> \E i \in 1..n : order[i] = x
  BY SortedIs
<1>0. n \in Nat
  BY <1>b
<1> HIDE DEF n, order
<1> DEFINE Solves(f, m) == f = [h \in 0..m |-> IF h = 0 THEN base ELSE Step(h, f[h - 1])]
           Bad == {m \in 0..n : ~ \E f : Solves(f, m)}
<1>1. \E f : Solves(f, n)
  <2> HIDE DEF base, Step
  <2>1. ASSUME Bad # {} PROVE FALSE
    <3>1. PICK m \in Bad : \A j \in Bad : m <= j
      <4>1. Bad \subseteq Nat
        BY <1>0
      <4> HIDE DEF Bad
      <4> QED BY <2>1, <4>1, LeastExists, Zenon
    <3>2. m \in 0..n /\ ~ \E f : Solves(f, m)
      BY <3>1
    <3>3. m # 0
      <4>1. Solves([h \in 0..0 |-> base], 0)
        OBVIOUS
      <4> HIDE DEF Solves
      <4> QED BY <4>1, <3>2
    <3>4. PICK f : Solves(f, m - 1)
      <4>1. m - 1 \in 0..n /\ ~ (m <= m - 1)
        BY <1>0, <3>2, <3>3
      <4> HIDE DEF Solves
      <4> QED BY <4>1, <3>1
    <3> DEFINE longer == [h \in 0..m |-> IF h = m THEN Step(m, f[m - 1]) ELSE f[h]]
    <3>5. ASSUME NEW h \in 0..m
          PROVE  longer[h] = IF h = 0 THEN base ELSE Step(h, longer[h - 1])
      <4>1. h # 0 => longer[h - 1] = f[h - 1]
        BY <1>0, <3>2
      <4>2. h # m => h \in 0..(m - 1) /\ longer[h] = f[h]
        BY <1>0, <3>2
      <4>3. h = m => longer[h] = Step(m, f[m - 1])
        OBVIOUS
      <4> HIDE DEF longer
      <4> QED BY <4>1, <4>2, <4>3, <3>3, <3>4
    <3>6. Solves(longer, m)
      <4>1. longer = [h \in 0..m |-> longer[h]]
        OBVIOUS
      <4> HIDE DEF longer
      <4> QED BY <4>1, <3>5
    <3> HIDE DEF longer, Solves
    <3> QED BY <3>2, <3>6
  <2>2. n \in 0..n
    BY <1>0
  <2>3. n \notin Bad
    <3> HIDE DEF Bad
    <3> QED BY <2>1
  <2> HIDE DEF Solves
  <2> QED BY <2>2, <2>3
<1> DEFINE chosen == CHOOSE f : Solves(f, n)
<1>2. Solves(chosen, n)
  <2> HIDE DEF Solves
  <2> QED BY <1>1
<1> HIDE DEF chosen, base, Step
<1>3. chosen[0] = base
  BY <1>0, <1>2
<1>4. ASSUME NEW h \in 1..n PROVE chosen[h] = Step(h, chosen[h - 1])
  <2>1. h \in 0..n /\ h # 0
    BY <1>0
  <2> QED BY <1>2, <2>1
<1> USE DEF base, Step
<1>5. DeletePages(u, pages, incoming, K) = chosen[n]
  BY DEF DeletePages, chosen, n, order
<1> DEFINE P(h) == {order[i] : i \in 1..h}
           Fine(h) == Cleared(u, chosen[h], P(h), Incoming(incoming, P(h)), K)
           Worse == {h \in 0..n : ~ Fine(h)}
<1>8. Fine(0)
  <2>1. P(0) = {} /\ Incoming(incoming, {}) = {}
    BY DEF Incoming
  <2>2. Cleared(u, u, {}, {}, K)
    BY ClearedNone
  <2> HIDE DEF P
  <2> QED BY <1>3, <2>1, <2>2
<1>9. ASSUME NEW h \in 1..n, Fine(h - 1) PROVE Fine(h)
  <2> DEFINE p == order[h]
             x == chosen[h - 1]
  <2>1. P(h) = P(h - 1) \cup {p}
    <3>1. 1..h = 1..(h - 1) \cup {h}
      BY <1>0
    <3> QED BY <3>1
  <2>2. chosen[h] = DeletePage(x, p, incoming, K)
    BY <1>4 DEF Step
  <2>3. Cleared(u, x, P(h - 1), Incoming(incoming, P(h - 1)), K) /\ IsTables(x)
    BY <1>9 DEF Cleared, Alters
  <2> HIDE DEF p, P, x
  <2>4. Cleared(x, chosen[h], {p}, Incoming(incoming, {p}), K)
    BY <2>2, <2>3, DeletePageIs
  <2>5. Cleared(u, chosen[h], P(h - 1) \cup {p},
                Incoming(incoming, P(h - 1)) \cup Incoming(incoming, {p}), K)
    BY <2>3, <2>4, ClearedTwice
  <2>6. Incoming(incoming, P(h - 1)) \cup Incoming(incoming, {p}) = Incoming(incoming, P(h))
    BY <2>1 DEF Incoming
  <2> QED BY <2>1, <2>5, <2>6
<1> HIDE DEF Fine
<1>10. ASSUME Worse # {} PROVE FALSE
  <2>1. PICK h \in Worse : \A j \in Worse : h <= j
    <3>1. Worse \subseteq Nat
      BY <1>0
    <3> HIDE DEF Worse
    <3> QED BY <1>10, <3>1, LeastExists, Zenon
  <2>2. h \in 0..n /\ ~ Fine(h) /\ h # 0
    BY <1>8, <2>1
  <2>3. h \in 1..n /\ h - 1 \in 0..n /\ ~ (h <= h - 1)
    BY <1>0, <2>2
  <2>4. Fine(h - 1)
    BY <2>1, <2>3
  <2> QED BY <1>9, <2>2, <2>3, <2>4
<1>11. Fine(n)
  <2>1. n \in 0..n
    BY <1>0
  <2> QED BY <1>10, <2>1
<1>12. P(n) = pages
  BY <1>b
<1> HIDE DEF P
<1> QED BY <1>5, <1>11, <1>12 DEF Fine

-----------------------------------------------------------------------------
(* A change: what it does not touch stays, what it touches is written anew.*)

Handed(g, h) == Deleted(g, h) \cup Touched(g, h)
Rest(g, h) == {f \in Facts(h) : f[1] \notin Touched(g, h)}

LEMMA UntouchedAre ==
    ASSUME NEW g \in Graphs, NEW h \in Graphs
    PROVE  /\ Deleted(g, h) \subseteq Live(g) /\ Touched(g, h) \subseteq Live(h)
           /\ \A p : p \in Live(g) /\ p \notin Handed(g, h) <=> p \in Live(h) /\ p \notin Touched(g, h)
           /\ \A p : p \in Live(h) /\ p \notin Touched(g, h) => g[p] = h[p]
<1>1. Live(g) \subseteq Pages /\ Live(h) \subseteq Pages
  BY GraphIs
<1>2. \A p \in Live(h) : p \notin Touched(g, h) => g[p] = h[p]
  BY DEF Touched
<1>3. \A p \in Pages : (p \in Live(g) <=> g[p] # Absent) /\ (p \in Live(h) <=> h[p] # Absent)
  BY DEF Live
<1>4. Deleted(g, h) = Live(g) \ Live(h) /\ Touched(g, h) \subseteq Live(h)
  BY DEF Deleted, Touched
<1> QED BY <1>1, <1>2, <1>3, <1>4 DEF Handed

LEMMA RestIs ==
    ASSUME NEW g \in Graphs, NEW h \in Graphs, NEW f
    PROVE  /\ f \in Facts(g) /\ f[1] \notin Handed(g, h) <=> f \in Rest(g, h)
           /\ f \in Rest(g, h) => Said(g, f) = Said(h, f) /\ g[f[1]] = h[f[1]]
<1>1. ASSUME f \in Facts(g), f[1] \notin Handed(g, h) PROVE f \in Rest(g, h)
  <2>1. PICK p \in Live(g) : \E e \in DOMAIN Says(p, g[p]) : f = <<p, e>>
    BY <1>1 DEF Facts
  <2>2. PICK e \in DOMAIN Says(p, g[p]) : f = <<p, e>>
    BY <2>1
  <2>3. f[1] = p
    BY <2>2
  <2>4. p \in Live(h) /\ p \notin Touched(g, h) /\ g[p] = h[p]
    BY <1>1, <2>3, UntouchedAre
  <2>5. f \in Facts(h)
    BY <2>2, <2>4 DEF Facts
  <2> QED BY <2>3, <2>4, <2>5 DEF Rest
<1>2. ASSUME f \in Rest(g, h)
      PROVE  /\ f \in Facts(g) /\ f[1] \notin Handed(g, h)
             /\ Said(g, f) = Said(h, f) /\ g[f[1]] = h[f[1]]
  <2>0. f \in Facts(h) /\ f[1] \notin Touched(g, h)
    BY <1>2 DEF Rest
  <2>1. PICK p \in Live(h) : \E e \in DOMAIN Says(p, h[p]) : f = <<p, e>>
    BY <2>0 DEF Facts
  <2>2. PICK e \in DOMAIN Says(p, h[p]) : f = <<p, e>>
    BY <2>1
  <2>3. f[1] = p /\ f[2] = e
    BY <2>2
  <2>4. p \in Live(g) /\ p \notin Handed(g, h) /\ g[p] = h[p]
    BY <2>0, <2>3, UntouchedAre
  <2>5. f \in Facts(g)
    BY <2>2, <2>4 DEF Facts
  <2>6. Said(g, f) = Said(h, f)
    BY <2>3, <2>4 DEF Said
  <2> QED BY <2>3, <2>4, <2>5, <2>6
<1> QED BY <1>1, <1>2

\* Which references a change leaves: those whose target is still there.
LEMMA RefsStay ==
    ASSUME NEW g \in Graphs, NEW h \in Graphs, NEW u, u.blocks = BlockRows(g, Facts(g)),
           NEW r, NEW f \in Rest(g, h), NEW x \in Said(h, f).links,
           r = [source |-> f[2], page |-> f[1], target |-> x]
    PROVE  x \in Entities(g) /\ Stays(u, r, Handed(g, h), Deleted(g, h), Retained(h, Touched(g, h)))
               <=> x \in Entities(h)
<1> DEFINE S == Handed(g, h)
           D == Deleted(g, h)
           R == Touched(g, h)
           K == Retained(h, R)
<1>0. /\ f \in Facts(g) /\ f \in Facts(h) /\ f[1] \notin S /\ f[1] \notin R
      /\ f[1] \in Live(h) /\ f[2] \in DOMAIN Says(f[1], h[f[1]])
      /\ r.page = f[1] /\ r.target = x /\ Said(h, f) = Says(f[1], h[f[1]])[f[2]]
  <2>1. /\ f \in Facts(g) /\ f \in Facts(h) /\ f[1] \notin S /\ f[1] \notin R
    BY RestIs DEF Rest
  <2>2. f[1] \in Live(h) /\ f[2] \in DOMAIN Says(f[1], h[f[1]])
    BY <2>1 DEF Facts
  <2> QED BY <2>1, <2>2 DEF Said
<1>1. /\ R \subseteq Live(h) /\ D = Live(g) \ Live(h)
      /\ \A p : p \in Live(g) /\ p \notin S <=> p \in Live(h) /\ p \notin R
      /\ \A p : p \in Live(h) /\ p \notin R => g[p] = h[p]
  BY UntouchedAre DEF Deleted
<1>2. ASSUME NEW q \in Live(g), NEW b \in DOMAIN g[q].blocks
      PROVE  \E s \in u.blocks : s.id = b /\ s.page = q
  <2>1. <<q, Block(b)>> \in Facts(g)
    BY BlockFact
  <2>2. <<q, Block(b)>>[1] = q /\ <<q, Block(b)>>[2][1] = 1 /\ <<q, Block(b)>>[2][2] = b
    BY DEF Block
  <2> DEFINE k == <<q, Block(b)>>
  <2> HIDE DEF k
  <2>3. BlockRow(g, k) \in BlockRows(g, Facts(g)) /\ BlockRow(g, k).id = b /\ BlockRow(g, k).page = q
    <3>1. k \in Facts(g) /\ k[1] = q /\ k[2][1] = 1 /\ k[2][2] = b
      BY <2>1, <2>2 DEF k
    <3> QED BY <3>1 DEF BlockRows, BlockRow
  <2> QED BY <2>3
<1>3. ASSUME NEW s \in u.blocks PROVE s.page \in Live(g) /\ s.id \in DOMAIN g[s.page].blocks
  <2>1. PICK k \in Facts(g) : k[2][1] = 1 /\ s = [id |-> k[2][2], page |-> k[1], uuid |-> Said(g, k).uuid]
    BY DEF BlockRows
  <2>2. k[1] \in Live(g) /\ k[2][2] \in DOMAIN g[k[1]].blocks
    BY <2>1, FactIs, KindsAre
  <2> QED BY <2>1, <2>2
<1>4. \A p \in R : \A b \in DOMAIN h[p].blocks : b \in K
  BY DEF Retained
<1>5. ASSUME NEW b, b \in K PROVE \E p \in R : b \in DOMAIN h[p].blocks
  BY <1>5 DEF Retained
<1>6. \A y, z : (Page(y) = Page(z) => y = z) /\ (Block(y) = Block(z) => y = z) /\ Page(y) # Block(z)
  BY DEF Page, Block
<1>7. ASSUME NEW e
      PROVE  /\ e \in Entities(g) <=> \/ \E p \in Live(g) : e = Page(p)
                                      \/ \E p \in Live(g) : \E b \in DOMAIN g[p].blocks : e = Block(b)
             /\ e \in Entities(h) <=> \/ \E p \in Live(h) : e = Page(p)
                                      \/ \E p \in Live(h) : \E b \in DOMAIN h[p].blocks : e = Block(b)
  BY DEF Entities
<1>8. ASSUME x \in Entities(g), Stays(u, r, S, D, K) PROVE x \in Entities(h)
  <2>1. /\ \A p \in D : x # Page(p)
        /\ \A s \in u.blocks : s.page \in S /\ s.id \notin K => x # Block(s.id)
    BY <1>0, <1>8 DEF Stays
  <2>2. CASE \E p \in Live(g) : x = Page(p)
    BY <1>1, <1>7, <2>1, <2>2
  <2>3. CASE \E p \in Live(g) : \E b \in DOMAIN g[p].blocks : x = Block(b)
    <3>1. PICK p \in Live(g) : \E b \in DOMAIN g[p].blocks : x = Block(b)
      BY <2>3
    <3>2. PICK b \in DOMAIN g[p].blocks : x = Block(b)
      BY <3>1
    <3>3. PICK s \in u.blocks : s.id = b /\ s.page = p
      BY <1>2
    <3>4. CASE p \in S
      <4>1. b \in K
        BY <2>1, <3>2, <3>3, <3>4
      <4>2. PICK q \in R : b \in DOMAIN h[q].blocks
        BY <1>5, <4>1
      <4>3. q \in Live(h)
        BY <1>1
      <4> QED BY <1>7, <3>2, <4>2, <4>3
    <3>5. CASE p \notin S
      <4>1. p \in Live(h) /\ g[p] = h[p]
        BY <1>1, <3>5
      <4> QED BY <1>7, <3>2, <4>1
    <3> QED BY <3>4, <3>5
  <2> QED BY <1>7, <1>8, <2>2, <2>3
<1>9. ASSUME x \in Entities(h) PROVE x \in Entities(g)
  <2>1. ASSUME x \notin Entities(g) PROVE FALSE
    <3>1. x \in Says(f[1], h[f[1]])[f[2]].links \cap (Entities(h) \ Entities(g))
      BY <1>0, <1>9, <2>1
    <3>2. f[1] \in Touched(g, h)
      BY <1>0, <3>1 DEF Touched
    <3> QED BY <1>0, <3>2
  <2> QED BY <2>1
<1>10. ASSUME x \in Entities(h) PROVE Stays(u, r, S, D, K)
  <2>1. ASSUME NEW p \in D PROVE x # Page(p)
    BY <1>1, <1>6, <1>7, <1>10
  <2>2. ASSUME NEW s \in u.blocks, s.page \in S, s.id \notin K PROVE x # Block(s.id)
    <3>1. s.page \in Live(g) /\ s.id \in DOMAIN g[s.page].blocks
      BY <1>3
    <3>2. ASSUME x = Block(s.id) PROVE FALSE
      <4>1. PICK q \in Live(h) : \E b \in DOMAIN h[q].blocks : x = Block(b)
        BY <1>6, <1>7, <1>10, <3>2
      <4>2. s.id \in DOMAIN h[q].blocks
        BY <1>6, <3>2, <4>1
      <4>3. q \notin R
        BY <1>4, <2>2, <4>2
      <4>4. q \in Live(g) /\ q \notin S /\ g[q] = h[q]
        BY <1>1, <4>3
      <4>5. WellFormed(g)
        BY GraphIs
      <4>6. q = s.page
        BY <3>1, <4>2, <4>4, <4>5 DEF WellFormed
      <4> QED BY <2>2, <4>4, <4>6
    <3> QED BY <3>2
  <2>3. r.page \notin S /\ r.target = x
    BY <1>0
  <2> QED BY <2>1, <2>2, <2>3 DEF Stays
<1> QED BY <1>8, <1>9, <1>10

LEMMA ClearedHolds ==
    ASSUME NEW g \in Graphs, NEW h \in Graphs, NEW u, Holds(u, g, Facts(g)), NEW v,
           Cleared(u, v, Handed(g, h), Deleted(g, h), Retained(h, Touched(g, h)))
    PROVE  Holds(v, h, Rest(g, h))
<1> DEFINE S == Handed(g, h)
           D == Deleted(g, h)
           K == Retained(h, Touched(g, h))
           F == Facts(g)
           E == Rest(g, h)
<1>1. /\ IsTables(u) /\ u.refused = FALSE /\ Indexed(u, g, F)
      /\ u.pages = PageRows(g, F) /\ u.blocks = BlockRows(g, F) /\ u.tasks = TaskRows(g, F)
      /\ u.refs = RefRows(g, F) /\ u.properties = PropertyRows(g, F)
  BY DEF Holds
<1>2. /\ Alters(u, v, RowFields)
      /\ v.pages = {r \in u.pages : r.id \notin S}
      /\ v.blocks = {r \in u.blocks : r.page \notin S}
      /\ v.tasks = {r \in u.tasks : r.page \notin S}
      /\ v.properties = {r \in u.properties : r.page \notin S}
      /\ v.refs = {r \in u.refs : Stays(u, r, S, D, K)}
      /\ v.owners = {r \in u.owners : Kept(u, r, S)}
      /\ v.fts = {r \in u.fts : Kept(u, r, S)}
  BY DEF Cleared
<1>3. \A f : f \in F /\ f[1] \notin S <=> f \in E
  BY RestIs
<1>4. \A f \in E : Said(g, f) = Said(h, f) /\ g[f[1]] = h[f[1]]
  BY RestIs
<1> HIDE DEF S, D, K, F, E
<1>5. IsTables(v) /\ v.refused = FALSE
  BY <1>1, <1>2 DEF Alters, RowFields, Fields
<1>6. v.pages = PageRows(h, E)
  BY <1>1, <1>2, <1>3, <1>4 DEF PageRows
<1>7. v.blocks = BlockRows(h, E)
  <2>1. ASSUME NEW r \in v.blocks PROVE r \in BlockRows(h, E)
    <3>1. r \in BlockRows(g, F) /\ r.page \notin S
      BY <1>1, <1>2
    <3>2. PICK f \in F : f[2][1] = 1 /\ r = [id |-> f[2][2], page |-> f[1], uuid |-> Said(g, f).uuid]
      BY <3>1 DEF BlockRows
    <3>3. f \in E /\ Said(g, f) = Said(h, f)
      BY <1>3, <1>4, <3>1, <3>2
    <3> QED BY <3>2, <3>3 DEF BlockRows
  <2>2. ASSUME NEW r \in BlockRows(h, E) PROVE r \in v.blocks
    <3>1. PICK f \in E : f[2][1] = 1 /\ r = [id |-> f[2][2], page |-> f[1], uuid |-> Said(h, f).uuid]
      BY DEF BlockRows
    <3>2. f \in F /\ f[1] \notin S /\ Said(g, f) = Said(h, f) /\ r.page = f[1]
      BY <1>3, <1>4, <3>1
    <3>3. r \in BlockRows(g, F)
      BY <3>1, <3>2 DEF BlockRows
    <3> QED BY <1>1, <1>2, <3>2, <3>3
  <2> QED BY <2>1, <2>2
<1>8. v.tasks = TaskRows(h, E)
  <2>1. ASSUME NEW r \in v.tasks PROVE r \in TaskRows(h, E)
    <3>1. r \in TaskRows(g, F) /\ r.page \notin S
      BY <1>1, <1>2
    <3>2. PICK f \in F : /\ f[2][1] = 1 /\ Said(g, f).marker # 0
                         /\ r = [block |-> f[2][2], page |-> f[1], marker |-> Said(g, f).marker]
      BY <3>1 DEF TaskRows
    <3>3. f \in E /\ Said(g, f) = Said(h, f)
      BY <1>3, <1>4, <3>1, <3>2
    <3> QED BY <3>2, <3>3 DEF TaskRows
  <2>2. ASSUME NEW r \in TaskRows(h, E) PROVE r \in v.tasks
    <3>1. PICK f \in E : /\ f[2][1] = 1 /\ Said(h, f).marker # 0
                         /\ r = [block |-> f[2][2], page |-> f[1], marker |-> Said(h, f).marker]
      BY DEF TaskRows
    <3>2. f \in F /\ f[1] \notin S /\ Said(g, f) = Said(h, f) /\ r.page = f[1]
      BY <1>3, <1>4, <3>1
    <3>3. r \in TaskRows(g, F)
      BY <3>1, <3>2 DEF TaskRows
    <3> QED BY <1>1, <1>2, <3>2, <3>3
  <2> QED BY <2>1, <2>2
<1>9. v.properties = PropertyRows(h, E)
  <2>1. ASSUME NEW r \in v.properties PROVE r \in PropertyRows(h, E)
    <3>1. r \in PropertyRows(g, F) /\ r.page \notin S
      BY <1>1, <1>2
    <3>2. PICK f \in F : \E n \in Said(g, f).properties : r = [owner |-> f[2], page |-> f[1], name |-> n]
      BY <3>1 DEF PropertyRows
    <3>3. f \in E /\ Said(g, f) = Said(h, f)
      BY <1>3, <1>4, <3>1, <3>2
    <3> QED BY <3>2, <3>3 DEF PropertyRows
  <2>2. ASSUME NEW r \in PropertyRows(h, E) PROVE r \in v.properties
    <3>1. PICK f \in E : \E n \in Said(h, f).properties : r = [owner |-> f[2], page |-> f[1], name |-> n]
      BY DEF PropertyRows
    <3>2. f \in F /\ f[1] \notin S /\ Said(g, f) = Said(h, f) /\ r.page = f[1]
      BY <1>3, <1>4, <3>1
    <3>3. r \in PropertyRows(g, F)
      BY <3>1, <3>2 DEF PropertyRows
    <3> QED BY <1>1, <1>2, <3>2, <3>3
  <2> QED BY <2>1, <2>2
<1>10. v.refs = RefRows(h, E)
  <2>0. ASSUME NEW f \in E, NEW x \in Said(h, f).links, NEW r,
               r = [source |-> f[2], page |-> f[1], target |-> x]
        PROVE  x \in Entities(g) /\ Stays(u, r, S, D, K) <=> x \in Entities(h)
    BY <1>1, <2>0, RefsStay DEF S, D, K, E, F
  <2>1. ASSUME NEW r \in v.refs PROVE r \in RefRows(h, E)
    <3>1. r \in RefRows(g, F) /\ Stays(u, r, S, D, K)
      BY <1>1, <1>2
    <3>2. PICK f \in F : \E x \in Said(g, f).links \cap Entities(g) :
                            r = [source |-> f[2], page |-> f[1], target |-> x]
      BY <3>1 DEF RefRows
    <3>3. PICK x \in Said(g, f).links \cap Entities(g) :
                            r = [source |-> f[2], page |-> f[1], target |-> x]
      BY <3>2
    <3>4. f[1] \notin S
      BY <3>1, <3>3 DEF Stays
    <3>5. f \in E /\ Said(g, f) = Said(h, f)
      BY <1>3, <1>4, <3>4
    <3>6. x \in Entities(h)
      BY <2>0, <3>1, <3>3, <3>5
    <3> QED BY <3>3, <3>5, <3>6 DEF RefRows
  <2>2. ASSUME NEW r \in RefRows(h, E) PROVE r \in v.refs
    <3>1. PICK f \in E : \E x \in Said(h, f).links \cap Entities(h) :
                            r = [source |-> f[2], page |-> f[1], target |-> x]
      BY DEF RefRows
    <3>2. PICK x \in Said(h, f).links \cap Entities(h) :
                            r = [source |-> f[2], page |-> f[1], target |-> x]
      BY <3>1
    <3>3. x \in Entities(g) /\ Stays(u, r, S, D, K)
      BY <2>0, <3>2
    <3>4. f \in F /\ Said(g, f) = Said(h, f)
      BY <1>3, <1>4
    <3>5. r \in RefRows(g, F)
      BY <3>2, <3>3, <3>4 DEF RefRows
    <3> QED BY <1>1, <1>2, <3>3, <3>5
  <2> QED BY <2>1, <2>2
<1>11. Indexed(v, h, E)
  <2>1. /\ IsFiniteSet(u.owners)
        /\ \A o \in u.owners : IsOwner(o, F)
        /\ \A f \in F : \E o \in u.owners : <<o.page, o.entity>> = f
        /\ \A o, q \in u.owners : o.rowid = q.rowid \/ o.entity = q.entity => o = q
        /\ u.fts = {SearchRow(g, o) : o \in u.owners}
    BY <1>1 DEF Indexed
  <2>2. ASSUME NEW o \in u.owners PROVE Kept(u, o, S) <=> o.page \notin S
    BY <2>1 DEF Kept
  <2>3. ASSUME NEW o \in u.owners
        PROVE  /\ o.page \notin S <=> <<o.page, o.entity>> \in E
               /\ o.page \notin S => SearchRow(g, o) = SearchRow(h, o)
    <3>1. <<o.page, o.entity>> \in F /\ <<o.page, o.entity>>[1] = o.page
      BY <2>1 DEF IsOwner
    <3>2. o.page \notin S <=> <<o.page, o.entity>> \in E
      BY <1>3, <3>1
    <3>3. o.page \notin S => Said(g, <<o.page, o.entity>>) = Said(h, <<o.page, o.entity>>)
      BY <1>4, <3>2
    <3> QED BY <3>2, <3>3 DEF SearchRow
  <2>4. ASSUME NEW o \in u.owners PROVE Kept(u, SearchRow(g, o), S) <=> Kept(u, o, S)
    BY DEF Kept, SearchRow
  <2>5. v.owners = {o \in u.owners : o.page \notin S}
    BY <1>2, <2>2
  <2>6. IsFiniteSet(v.owners)
    <3>1. v.owners \in SUBSET u.owners
      BY <2>5
    <3> QED BY <2>1, <3>1, FS_Subset
  <2>7. \A o \in v.owners : IsOwner(o, E)
    BY <2>1, <2>3, <2>5 DEF IsOwner
  <2>8. ASSUME NEW f \in E PROVE \E o \in v.owners : <<o.page, o.entity>> = f
    <3>1. f \in F
      BY <1>3
    <3>2. PICK o \in u.owners : <<o.page, o.entity>> = f
      BY <2>1, <3>1
    <3> QED BY <2>3, <2>5, <3>2
  <2>9. \A o, q \in v.owners : o.rowid = q.rowid \/ o.entity = q.entity => o = q
    BY <2>1, <2>5
  <2>10. v.fts = {SearchRow(h, o) : o \in v.owners}
    <3>1. ASSUME NEW r \in v.fts PROVE \E o \in v.owners : r = SearchRow(h, o)
      <4>1. r \in u.fts /\ Kept(u, r, S)
        BY <1>2
      <4>2. PICK o \in u.owners : r = SearchRow(g, o)
        BY <2>1, <4>1
      <4>3. o.page \notin S
        BY <2>2, <2>4, <4>1, <4>2
      <4> QED BY <2>3, <2>5, <4>2, <4>3
    <3>2. ASSUME NEW o \in v.owners PROVE SearchRow(h, o) \in v.fts
      <4>1. o \in u.owners /\ o.page \notin S
        BY <2>5
      <4>2. SearchRow(h, o) \in u.fts /\ SearchRow(h, o) = SearchRow(g, o)
        BY <2>1, <2>3, <4>1
      <4>3. Kept(u, SearchRow(h, o), S)
        BY <2>2, <2>4, <4>1, <4>2
      <4> QED BY <1>2, <4>2, <4>3
    <3> QED BY <3>1, <3>2
  <2> QED BY <2>6, <2>7, <2>8, <2>9, <2>10 DEF Indexed
<1> QED BY <1>5, <1>6, <1>7, <1>8, <1>9, <1>10, <1>11 DEF Holds, E

LEMMA ApplyRowsIs ==
    ASSUME NEW g \in Graphs, NEW h \in Graphs, NEW u, Holds(u, g, Facts(g))
    PROVE  LET v == ApplyRows(u, h, Touched(g, h), Deleted(g, h))
           IN  Alters(u, v, RowFields) /\ Holds(v, h, Facts(h))
<1> DEFINE R == Touched(g, h)
           D == Deleted(g, h)
           K == Retained(h, R)
           a == DeletePages(u, D, TRUE, K)
           b == DeletePages(a, R, FALSE, K)
           v == InsertPages(b, h, R)
<1>1. /\ D \subseteq Nat /\ IsFiniteSet(D) /\ R \subseteq Nat /\ IsFiniteSet(R)
      /\ R \subseteq Live(h)
  <2>1. /\ Live(g) \subseteq Nat /\ IsFiniteSet(Live(g)) /\ Live(h) \subseteq Nat /\ IsFiniteSet(Live(h))
        /\ D \subseteq Live(g) /\ R \subseteq Live(h)
    BY GraphIs, UntouchedAre
  <2> HIDE DEF D, R
  <2> QED BY <2>1, FS_Subset
<1>2. IsTables(u)
  BY DEF Holds
<1>3. ApplyRows(u, h, R, D) = v
  BY DEF ApplyRows
<1> HIDE DEF K, R, D
<1>4. Cleared(u, a, D, D, K)
  <2>1. Cleared(u, a, D, Incoming(TRUE, D), K)
    BY <1>1, <1>2, DeletePagesIs
  <2>2. Incoming(TRUE, D) = D
    BY DEF Incoming
  <2> HIDE DEF a
  <2> QED BY <2>1, <2>2
<1> HIDE DEF a
<1>5. IsTables(a)
  BY <1>4 DEF Cleared, Alters
<1>6. Cleared(a, b, R, {}, K)
  <2>1. Cleared(a, b, R, Incoming(FALSE, R), K)
    BY <1>1, <1>5, DeletePagesIs
  <2>2. Incoming(FALSE, R) = {}
    BY DEF Incoming
  <2> HIDE DEF b
  <2> QED BY <2>1, <2>2
<1> HIDE DEF b
<1>7. Cleared(u, b, D \cup R, D, K)
  <2>1. Cleared(u, b, D \cup R, D \cup {}, K)
    BY <1>4, <1>6, ClearedTwice
  <2>2. D \cup {} = D
    OBVIOUS
  <2> QED BY <2>1, <2>2
<1>8. Holds(b, h, Rest(g, h))
  BY <1>7, ClearedHolds DEF K, D, R, Handed
<1>9. Rest(g, h) \subseteq Facts(h) /\ (\A f \in Rest(g, h) : f[1] \notin R)
  BY DEF Rest, R
<1>10. Alters(b, v, RowFields) /\ Holds(v, h, Rest(g, h) \cup Of(h, R))
  BY <1>1, <1>8, <1>9, InsertPagesIs
<1> HIDE DEF v
<1>11. Rest(g, h) \cup Of(h, R) = Facts(h)
  BY DEF Rest, Of, R
<1>12. Alters(u, v, RowFields)
  BY <1>7, <1>10, AltersRows DEF Cleared
<1> QED BY <1>3, <1>10, <1>11, <1>12 DEF R, D

LEMMA EmptyIs ==
    ASSUME NEW g
    PROVE  IsTables(Empty) /\ Holds(Empty, g, {}) /\ NoCatalog(Empty) /\ Empty.stamp = 0
<1>1. IsTables(Empty)
  BY DEF Empty, IsTables, Fields
<1>2. Indexed(Empty, g, {})
  BY FS_EmptySet DEF Empty, Indexed
<1>3. /\ Empty.pages = PageRows(g, {}) /\ Empty.blocks = BlockRows(g, {})
      /\ Empty.tasks = TaskRows(g, {}) /\ Empty.refs = RefRows(g, {})
      /\ Empty.properties = PropertyRows(g, {})
  BY DEF Empty, PageRows, BlockRows, TaskRows, RefRows, PropertyRows
<1> QED BY <1>1, <1>2, <1>3 DEF Holds, Empty, NoCatalog

LEMMA TerminalRowsIs ==
    ASSUME NEW g \in Graphs
    PROVE  LET v == InsertPages(Empty, g, Live(g))
           IN  Alters(Empty, v, RowFields) /\ Holds(v, g, Facts(g))
<1> DEFINE v == InsertPages(Empty, g, Live(g))
<1>1. Alters(Empty, v, RowFields) /\ Holds(v, g, {} \cup Of(g, Live(g)))
  <2>1. Holds(Empty, g, {})
    BY EmptyIs
  <2> QED BY <2>1, InsertPagesIs
<1>2. {} \cup Of(g, Live(g)) = Facts(g)
  <2>1. \A f \in Facts(g) : f[1] \in Live(g)
    BY FactIs
  <2> QED BY <2>1 DEF Of
<1> QED BY <1>1, <1>2

-----------------------------------------------------------------------------
(* The reference catalog.                                                  *)

CatalogFields == {"coverage", "postings", "aliases", "bindings"}

LEMMA SortedSet ==
    ASSUME NEW S, S \subseteq Nat, IsFiniteSet(S)
    PROVE  ToSet(Sorted(S)) = S
<1>1. /\ Sorted(S) \in Seq(S)
      /\ \A x : x \in S <=> \E i \in 1..Len(Sorted(S)) : Sorted(S)[i] = x
  BY SortedIs
<1>2. DOMAIN Sorted(S) = 1..Len(Sorted(S))
  BY <1>1
<1> QED BY <1>1, <1>2 DEF ToSet

\* D declares what the pages P of graph g declare.
Declares(D, g, P) ==
    /\ \A d \in D : d.page \in P /\ d.alias \in g[d.page].aliases
    /\ \A p \in P : \A a \in g[p].aliases : \E d \in D : d.page = p /\ d.alias = a

LEMMA DeclaredIs ==
    ASSUME NEW g, NEW P, NEW D, D = UNION {Declarations(p, g[p]) : p \in P}
    PROVE  Declares(D, g, P)
<1>1. ASSUME NEW d \in D PROVE d.page \in P /\ d.alias \in g[d.page].aliases
  <2>1. PICK p \in P : d \in Declarations(p, g[p])
    OBVIOUS
  <2>2. PICK a \in g[p].aliases : d = [page |-> p, alias |-> a]
    BY <2>1 DEF Declarations
  <2>3. d.page = p /\ d.alias = a
    BY <2>2
  <2> QED BY <2>3
<1>2. ASSUME NEW p \in P, NEW a \in g[p].aliases PROVE \E d \in D : d.page = p /\ d.alias = a
  <2> DEFINE d == [page |-> p, alias |-> a]
  <2>1. d \in Declarations(p, g[p]) /\ d.page = p /\ d.alias = a
    BY DEF Declarations
  <2> HIDE DEF d
  <2>2. d \in D
    BY <2>1
  <2> QED BY <2>1, <2>2
<1> QED BY <1>1, <1>2 DEF Declares

LEMMA PostingsOn ==
    ASSUME NEW p, NEW c
    PROVE  \A r \in Postings(p, c) : r.page = p
BY DEF Postings

LEMMA PostedIs ==
    ASSUME NEW g \in Graphs, NEW h \in Graphs
    PROVE  {r \in Posted(g) : r.page \notin Handed(g, h)}
               \cup UNION {Postings(p, h[p]) : p \in Touched(g, h)} = Posted(h)
<1> DEFINE S == Handed(g, h)
           R == Touched(g, h)
           P == UNION {Postings(p, h[p]) : p \in R}
<1>0. /\ R \subseteq Live(h)
      /\ \A p : p \in Live(g) /\ p \notin S <=> p \in Live(h) /\ p \notin R
      /\ \A p : p \in Live(h) /\ p \notin R => g[p] = h[p]
  BY UntouchedAre
<1>1. ASSUME NEW r \in Posted(g), r.page \notin S PROVE r \in Posted(h)
  <2>1. PICK p \in Live(g) : r \in Postings(p, g[p])
    BY DEF Posted
  <2>2. r.page = p
    BY <2>1, PostingsOn
  <2>3. p \in Live(h) /\ g[p] = h[p]
    BY <1>0, <1>1, <2>2
  <2> QED BY <2>1, <2>3 DEF Posted
<1>2. P \subseteq Posted(h)
  BY <1>0 DEF Posted
<1>3. ASSUME NEW r \in Posted(h) PROVE r \in P \/ (r \in Posted(g) /\ r.page \notin S)
  <2>1. PICK p \in Live(h) : r \in Postings(p, h[p])
    BY DEF Posted
  <2>2. r.page = p
    BY <2>1, PostingsOn
  <2>3. CASE p \in R
    <3>1. Postings(p, h[p]) \in {Postings(q, h[q]) : q \in R}
      BY <2>3
    <3>2. r \in P
      BY <2>1, <3>1
    <3> QED BY <3>2
  <2>4. CASE p \notin R
    <3>1. p \in Live(g) /\ p \notin S /\ g[p] = h[p]
      BY <1>0, <2>4
    <3> QED BY <2>1, <2>2, <3>1 DEF Posted
  <2> QED BY <2>3, <2>4
<1> HIDE DEF S, P, R
<1>4. {r \in Posted(g) : r.page \notin S} \cup P = Posted(h)
  BY <1>1, <1>2, <1>3
<1> QED BY <1>4 DEF S, P, R

LEMMA DeclaredAgain ==
    ASSUME NEW g \in Graphs, NEW h \in Graphs
    PROVE  {r \in Declared(g) : r.page \notin Handed(g, h)}
               \cup UNION {Declarations(p, h[p]) : p \in Touched(g, h)} = Declared(h)
<1> DEFINE S == Handed(g, h)
           R == Touched(g, h)
           P == UNION {Declarations(p, h[p]) : p \in R}
<1>0. /\ R \subseteq Live(h)
      /\ \A p : p \in Live(g) /\ p \notin S <=> p \in Live(h) /\ p \notin R
      /\ \A p : p \in Live(h) /\ p \notin R => g[p] = h[p]
  BY UntouchedAre
<1>a. ASSUME NEW p, NEW c PROVE \A r \in Declarations(p, c) : r.page = p
  BY DEF Declarations
<1>1. ASSUME NEW r \in Declared(g), r.page \notin S PROVE r \in Declared(h)
  <2>1. PICK p \in Live(g) : r \in Declarations(p, g[p])
    BY DEF Declared
  <2>2. r.page = p
    BY <1>a, <2>1
  <2>3. p \in Live(h) /\ g[p] = h[p]
    BY <1>0, <1>1, <2>2
  <2> QED BY <2>1, <2>3 DEF Declared
<1>2. P \subseteq Declared(h)
  BY <1>0 DEF Declared
<1>3. ASSUME NEW r \in Declared(h) PROVE r \in P \/ (r \in Declared(g) /\ r.page \notin S)
  <2>1. PICK p \in Live(h) : r \in Declarations(p, h[p])
    BY DEF Declared
  <2>2. r.page = p
    BY <1>a, <2>1
  <2>3. CASE p \in R
    <3>1. Declarations(p, h[p]) \in {Declarations(q, h[q]) : q \in R}
      BY <2>3
    <3>2. r \in P
      BY <2>1, <3>1
    <3> QED BY <3>2
  <2>4. CASE p \notin R
    <3>1. p \in Live(g) /\ p \notin S /\ g[p] = h[p]
      BY <1>0, <2>4
    <3> QED BY <2>1, <2>2, <3>1 DEF Declared
  <2> QED BY <2>3, <2>4
<1> HIDE DEF S, P, R
<1>4. {r \in Declared(g) : r.page \notin S} \cup P = Declared(h)
  BY <1>1, <1>2, <1>3
<1> QED BY <1>4 DEF S, P, R

LEMMA AliasIs ==
    ASSUME NEW g \in Graphs, NEW a
    PROVE  /\ a \in AliasesOf(g) <=> Declaring(g, a) # {}
           /\ Declaring(g, a) \subseteq Nat /\ IsFiniteSet(Declaring(g, a))
<1>1. Live(g) \subseteq Nat /\ IsFiniteSet(Live(g))
  BY GraphIs
<1>2. Declaring(g, a) \in SUBSET Live(g)
  BY DEF Declaring
<1>3. IsFiniteSet(Declaring(g, a))
  BY <1>1, <1>2, FS_Subset
<1> QED BY <1>1, <1>2, <1>3 DEF AliasesOf, Declaring

\* The candidates of an alias are found from those it was bound to and from what
\* the changed pages declare.
LEMMA BindIs ==
    ASSUME NEW g \in Graphs, NEW h \in Graphs, NEW u, Catalogs(u, g), NEW declared, NEW altered,
           declared = UNION {Declarations(p, h[p]) : p \in Touched(g, h)},
           altered = {r.alias : r \in declared \cup
                         (u.aliases \ {d \in u.aliases : d.page \notin Handed(g, h)})}
    PROVE  Bind(u, Handed(g, h), declared, altered) = [a \in AliasesOf(h) |-> Sorted(Declaring(h, a))]
<1> DEFINE S == Handed(g, h)
           R == Touched(g, h)
           Now(a) == Rebind(u, S, declared, a)
           kept == (DOMAIN u.bindings \ altered) \cup {a \in altered : Now(a) # {}}
<1>0. /\ R \subseteq Live(h)
      /\ \A p : p \in Live(g) /\ p \notin S <=> p \in Live(h) /\ p \notin R
      /\ \A p : p \in Live(h) /\ p \notin R => g[p] = h[p]
  BY UntouchedAre
<1>1. u.aliases = Declared(g) /\ u.bindings = [a \in AliasesOf(g) |-> Sorted(Declaring(g, a))]
  BY DEF Catalogs
<1>2. Declares(declared, h, R)
  <2> HIDE DEF R
  <2>1. declared = UNION {Declarations(p, h[p]) : p \in R}
    BY DEF R
  <2> QED BY <2>1, DeclaredIs
<1>3. Declares(Declared(g), g, Live(g))
  BY DeclaredIs DEF Declared
<1> HIDE DEF S, R
<1>4. ASSUME NEW a
      PROVE  a \in altered <=> \/ \E p \in R : a \in h[p].aliases
                               \/ \E p \in Live(g) : p \in S /\ a \in g[p].aliases
  <2>1. a \in altered <=> \/ \E d \in declared : d.alias = a
                          \/ \E d \in Declared(g) : d.page \in S /\ d.alias = a
    BY <1>1 DEF S
  <2>2. (\E d \in declared : d.alias = a) <=> \E p \in R : a \in h[p].aliases
    BY <1>2 DEF Declares
  <2>3. (\E d \in Declared(g) : d.page \in S /\ d.alias = a)
            <=> \E p \in Live(g) : p \in S /\ a \in g[p].aliases
    BY <1>3 DEF Declares
  <2> QED BY <2>1, <2>2, <2>3
<1>5. ASSUME NEW a PROVE Now(a) = Declaring(h, a)
  <2>1. (IF a \in DOMAIN u.bindings THEN ToSet(u.bindings[a]) ELSE {}) = Declaring(g, a)
    <3>1. CASE a \in AliasesOf(g)
      <4>1. ToSet(Sorted(Declaring(g, a))) = Declaring(g, a)
        BY AliasIs, SortedSet
      <4> QED BY <1>1, <3>1, <4>1
    <3>2. CASE a \notin AliasesOf(g)
      <4>1. Declaring(g, a) = {}
        BY <3>2, AliasIs
      <4> QED BY <1>1, <3>2, <4>1
    <3> QED BY <3>1, <3>2
  <2>2. {d.page : d \in {e \in declared : e.alias = a}} = {p \in R : a \in h[p].aliases}
    BY <1>2 DEF Declares
  <2>3. Now(a) = (Declaring(g, a) \ S) \cup {p \in R : a \in h[p].aliases}
    BY <2>1, <2>2 DEF Rebind
  <2> HIDE DEF Now
  <2> QED BY <1>0, <2>3 DEF Declaring, S, R
<1> HIDE DEF Now
<1>6. ASSUME NEW a, a \notin altered PROVE Declaring(g, a) = Declaring(h, a)
  BY <1>0, <1>4, <1>6 DEF Declaring, S, R
<1>7. kept = AliasesOf(h)
  <2>1. ASSUME NEW a PROVE a \in kept <=> a \in AliasesOf(h)
    <3>1. DOMAIN u.bindings = AliasesOf(g)
      BY <1>1
    <3>2. CASE a \in altered
      BY <1>5, <3>2, AliasIs
    <3>3. CASE a \notin altered
      <4>1. a \in AliasesOf(g) <=> a \in AliasesOf(h)
        BY <1>6, <3>3, AliasIs
      <4> QED BY <3>1, <3>3, <4>1
    <3> QED BY <3>2, <3>3
  <2> HIDE DEF kept
  <2> QED BY <2>1
<1>8. ASSUME NEW a \in kept
      PROVE  (IF a \in altered THEN Sorted(Now(a)) ELSE u.bindings[a]) = Sorted(Declaring(h, a))
  <2>1. CASE a \in altered
    BY <1>5, <2>1
  <2>2. CASE a \notin altered
    <3>1. a \in AliasesOf(g)
      BY <1>1, <2>2
    <3> QED BY <1>1, <1>6, <2>2, <3>1
  <2> QED BY <2>1, <2>2
<1>9. Bind(u, S, declared, altered) = [a \in kept |-> IF a \in altered THEN Sorted(Now(a)) ELSE u.bindings[a]]
  BY DEF Bind, Now
<1> HIDE DEF kept
<1>10. Bind(u, S, declared, altered) = [a \in AliasesOf(h) |-> Sorted(Declaring(h, a))]
  BY <1>7, <1>8, <1>9
<1> QED BY <1>10 DEF S

LEMMA ApplyCatalogIs ==
    ASSUME NEW g \in Graphs, NEW h \in Graphs, NEW u, IsTables(u), Catalogs(u, g)
    PROVE  LET v == ApplyCatalog(u, h, Touched(g, h), Deleted(g, h))
           IN  Alters(u, v, CatalogFields) /\ Catalogs(v, h)
<1> DEFINE R == Touched(g, h)
           D == Deleted(g, h)
           S == R \cup D
           declared == UNION {Declarations(p, h[p]) : p \in R}
           altered == {r.alias : r \in declared \cup (u.aliases \ {d \in u.aliases : d.page \notin S})}
           bindings == Bind(u, S, declared, altered)
           v == ApplyCatalog(u, h, R, D)
<1>1. /\ u.coverage = Live(g) /\ u.postings = Posted(g) /\ u.aliases = Declared(g)
  BY DEF Catalogs
<1>2. S = Handed(g, h)
  BY DEF Handed
<1>3. v = [u EXCEPT
              !.postings = {r \in @ : r.page \notin S} \cup UNION {Postings(p, h[p]) : p \in R},
              !.aliases = {r \in @ : r.page \notin S} \cup declared,
              !.coverage = (@ \ S) \cup R,
              !.bindings = bindings]
  BY DEF ApplyCatalog
<1>4. bindings = [a \in AliasesOf(h) |-> Sorted(Declaring(h, a))]
  <2>1. Bind(u, Handed(g, h), declared, altered) = [a \in AliasesOf(h) |-> Sorted(Declaring(h, a))]
    <3>1. altered = {r.alias : r \in declared \cup
                         (u.aliases \ {d \in u.aliases : d.page \notin Handed(g, h)})}
      BY <1>2
    <3> HIDE DEF altered
    <3>2. declared = UNION {Declarations(p, h[p]) : p \in Touched(g, h)}
      OBVIOUS
    <3> HIDE DEF declared
    <3> QED BY <3>1, <3>2, BindIs
  <2> HIDE DEF declared, altered
  <2> QED BY <1>2, <2>1
<1>5. ({r \in u.postings : r.page \notin S} \cup UNION {Postings(p, h[p]) : p \in R}) = Posted(h)
  BY <1>1, <1>2, PostedIs
<1>6. ({r \in u.aliases : r.page \notin S} \cup declared) = Declared(h)
  BY <1>1, <1>2, DeclaredAgain
<1>7. (u.coverage \ S) \cup R = Live(h)
  <2> HIDE DEF R, S
  <2>1. /\ R \subseteq Live(h)
        /\ \A p : p \in Live(g) /\ p \notin S <=> p \in Live(h) /\ p \notin R
    BY <1>2, UntouchedAre DEF R
  <2> QED BY <1>1, <2>1
<1> HIDE DEF v, bindings, declared, S
<1>8. v = [u EXCEPT !.postings = Posted(h), !.aliases = Declared(h), !.coverage = Live(h),
                    !.bindings = bindings]
  <2> HIDE DEF R
  <2> QED BY <1>3, <1>5, <1>6, <1>7
<1>9. /\ IsTables(v) /\ v.postings = Posted(h) /\ v.aliases = Declared(h)
      /\ v.coverage = Live(h) /\ v.bindings = bindings
      /\ \A x \in Fields \ CatalogFields : v[x] = u[x]
  BY <1>8 DEF IsTables, Fields, CatalogFields
<1>10. Alters(u, v, CatalogFields)
  BY <1>9 DEF Alters
<1> QED BY <1>4, <1>9, <1>10 DEF Catalogs, v

LEMMA TerminalIs ==
    ASSUME NEW g \in Graphs
    PROVE  Shows(Terminal(g), g) /\ Terminal(g).stamp = 0
<1> DEFINE rows == InsertPages(Empty, g, Live(g))
           declared == UNION {Declarations(p, g[p]) : p \in Live(g)}
           bound == [a \in {d.alias : d \in declared} |->
                        Sorted({d.page : d \in {e \in declared : e.alias = a}})]
           full == [rows EXCEPT !.coverage = Live(g),
                                !.postings = UNION {Postings(p, g[p]) : p \in Live(g)},
                                !.aliases = declared, !.bindings = bound]
<1>1. Alters(Empty, rows, RowFields) /\ Holds(rows, g, Facts(g))
  BY TerminalRowsIs
<1>2. Terminal(g) = IF mode = "rows" THEN rows ELSE full
  BY DEF Terminal
<1> HIDE DEF rows
<1>3. IsTables(rows) /\ NoCatalog(rows) /\ rows.stamp = 0
  BY <1>1, EmptyIs DEF Alters, NoCatalog, RowFields, Fields
<1>4. CASE mode = "rows"
  BY <1>1, <1>2, <1>3, <1>4 DEF Shows
<1>5. CASE mode # "rows"
  <2>1. /\ declared = Declared(g) /\ UNION {Postings(p, g[p]) : p \in Live(g)} = Posted(g)
    BY DEF Declared, Posted
  <2>2. bound = [a \in AliasesOf(g) |-> Sorted(Declaring(g, a))]
    <3>1. Declares(declared, g, Live(g))
      BY DeclaredIs
    <3> HIDE DEF declared
    <3>2. {d.alias : d \in declared} = AliasesOf(g)
      BY <3>1 DEF AliasesOf, Declares
    <3>3. ASSUME NEW a PROVE {d.page : d \in {e \in declared : e.alias = a}} = Declaring(g, a)
      BY <3>1 DEF Declaring, Declares
    <3> QED BY <3>2, <3>3
  <2> HIDE DEF declared, bound
  <2>3. /\ IsTables(full) /\ full.postings = Posted(g) /\ full.aliases = Declared(g)
        /\ full.coverage = Live(g) /\ full.bindings = bound
        /\ \A x \in Fields \ CatalogFields : full[x] = rows[x]
    BY <1>3, <2>1 DEF IsTables, Fields, CatalogFields
  <2> HIDE DEF full
  <2>4. Catalogs(full, g)
    BY <2>2, <2>3 DEF Catalogs
  <2>5. /\ full.refused = rows.refused /\ full.pages = rows.pages /\ full.blocks = rows.blocks
        /\ full.tasks = rows.tasks /\ full.refs = rows.refs /\ full.properties = rows.properties
        /\ full.owners = rows.owners /\ full.fts = rows.fts /\ full.stamp = rows.stamp
    BY <2>3 DEF Fields, CatalogFields
  <2>6. Holds(full, g, Facts(g))
    BY <1>1, <2>3, <2>5 DEF Holds, Indexed
  <2> QED BY <1>2, <1>3, <1>5, <2>4, <2>5, <2>6 DEF Shows
<1> QED BY <1>4, <1>5

-----------------------------------------------------------------------------
(* A change of the graph.                                                  *)

LEMMA HoldsCopy ==
    ASSUME NEW u, NEW v, NEW g, NEW F, Holds(u, g, F), IsTables(v),
           \A x \in RowFields \cup {"refused"} : v[x] = u[x]
    PROVE  Holds(v, g, F)
<1>1. /\ v.refused = u.refused /\ v.pages = u.pages /\ v.blocks = u.blocks
      /\ v.tasks = u.tasks /\ v.refs = u.refs /\ v.properties = u.properties
      /\ v.owners = u.owners /\ v.fts = u.fts
  BY DEF RowFields
<1> QED BY <1>1 DEF Holds, Indexed

LEMMA CatalogCopy ==
    ASSUME NEW u, NEW v, NEW g, \A x \in CatalogFields : v[x] = u[x]
    PROVE  (NoCatalog(u) <=> NoCatalog(v)) /\ (Catalogs(u, g) <=> Catalogs(v, g))
<1>1. /\ v.coverage = u.coverage /\ v.postings = u.postings
      /\ v.aliases = u.aliases /\ v.bindings = u.bindings
  BY DEF CatalogFields
<1> QED BY <1>1 DEF NoCatalog, Catalogs

LEMMA StampedShows ==
    ASSUME NEW u, NEW v, NEW g, NEW n, Shows(u, g), v = [u EXCEPT !.stamp = n]
    PROVE  Shows(v, g) /\ v.stamp = n /\ v.coverage = u.coverage /\ v.refused = FALSE
<1>1. IsTables(u) /\ u.refused = FALSE
  BY DEF Shows, Holds
<1>2. IsTables(v) /\ v.stamp = n /\ \A x \in Fields \ {"stamp"} : v[x] = u[x]
  BY <1>1 DEF IsTables, Fields
<1>3. /\ \A x \in RowFields \cup {"refused"} : v[x] = u[x]
      /\ \A x \in CatalogFields : v[x] = u[x]
  BY <1>2 DEF Fields, RowFields, CatalogFields
<1>4. v.coverage = u.coverage /\ v.refused = u.refused
  BY <1>2 DEF Fields
<1>5. Holds(v, g, Facts(g))
  BY <1>2, <1>3, HoldsCopy DEF Shows
<1>6. (NoCatalog(u) <=> NoCatalog(v)) /\ (Catalogs(u, g) <=> Catalogs(v, g))
  BY <1>3, CatalogCopy
<1> QED BY <1>1, <1>2, <1>4, <1>5, <1>6 DEF Shows

LEMMA ChangedIs ==
    ASSUME NEW g \in Graphs, NEW h \in Graphs, Shows(t, g)
    PROVE  Shows(Changed(g, h), h) /\ Changed(g, h).stamp = t.stamp + 1
<1> DEFINE R == Touched(g, h)
           D == Deleted(g, h)
           rows == ApplyRows(t, h, R, D)
           all == IF mode = "rows" THEN rows ELSE ApplyCatalog(rows, h, R, D)
<1>1. Alters(t, rows, RowFields) /\ Holds(rows, h, Facts(h))
  BY ApplyRowsIs DEF Shows
<1>2. (\A x \in CatalogFields : rows[x] = t[x]) /\ rows.stamp = t.stamp
  BY <1>1 DEF Alters, CatalogFields, RowFields, Fields
<1>3. (NoCatalog(t) <=> NoCatalog(rows)) /\ (Catalogs(t, g) <=> Catalogs(rows, g))
  BY <1>2, CatalogCopy
<1>4. Shows(all, h) /\ all.stamp = t.stamp
  <2> HIDE DEF rows
  <2>1. CASE mode = "rows"
    BY <1>1, <1>2, <1>3, <2>1 DEF Shows
  <2>2. CASE mode # "rows"
    <3>1. Catalogs(rows, g) /\ IsTables(rows)
      BY <1>1, <1>3, <2>2 DEF Shows, Alters
    <3> DEFINE v == ApplyCatalog(rows, h, R, D)
    <3>2. Alters(rows, v, CatalogFields) /\ Catalogs(v, h)
      BY <3>1, ApplyCatalogIs
    <3>3. all = v
      BY <2>2
    <3> HIDE DEF v
    <3>4. /\ IsTables(v) /\ v.stamp = rows.stamp
          /\ \A x \in RowFields \cup {"refused"} : v[x] = rows[x]
      BY <3>2 DEF Alters, CatalogFields, RowFields, Fields
    <3>5. Holds(v, h, Facts(h))
      BY <1>1, <3>4, HoldsCopy
    <3>6. Shows(v, h)
      BY <2>2, <3>2, <3>5 DEF Shows
    <3> HIDE DEF all
    <3> QED BY <1>2, <3>3, <3>4, <3>6
  <2> QED BY <2>1, <2>2
<1>5. Changed(g, h) = [all EXCEPT !.stamp = @ + 1]
  BY DEF Changed
<1> HIDE DEF all
<1> DEFINE n == all.stamp + 1
<1>6. Changed(g, h) = [all EXCEPT !.stamp = n]
  BY <1>5
<1>7. n = t.stamp + 1
  BY <1>4
<1> HIDE DEF n
<1>8. Shows(Changed(g, h), h)
  BY <1>4, <1>6, StampedShows
<1>9. Changed(g, h).stamp = n
  <2>1. all = [f \in Fields |-> all[f]]
    BY <1>4 DEF Shows, Holds, IsTables
  <2>2. "stamp" \in DOMAIN all
    BY <2>1 DEF Fields
  <2> QED BY <1>6, <2>2
<1> QED BY <1>7, <1>8, <1>9

\* The pages that come back and those that go account for the count.
LEMMA CountIs ==
    ASSUME NEW g \in Graphs, NEW h \in Graphs
    PROVE  Cardinality(Live(g)) - Cardinality(Live(g) \cap Handed(g, h))
               + Cardinality(Touched(g, h)) = Cardinality(Live(h))
<1> DEFINE S == Handed(g, h)
           R == Touched(g, h)
           G == Live(g)
           H == Live(h)
<1>1. /\ R \subseteq H
      /\ \A p : p \in G /\ p \notin S <=> p \in H /\ p \notin R
  BY UntouchedAre
<1>2. IsFiniteSet(G) /\ IsFiniteSet(H)
  BY GraphIs
<1> HIDE DEF S, R, G, H
<1>3. IsFiniteSet(R)
  BY <1>1, <1>2, FS_Subset
<1>4. IsFiniteSet(G \ S) /\ Cardinality(G \ S) = Cardinality(G) - Cardinality(G \cap S)
  BY <1>2, FS_Difference
<1>5. Cardinality((G \ S) \cup R) = Cardinality(G \ S) + Cardinality(R) - Cardinality((G \ S) \cap R)
  BY <1>3, <1>4, FS_Union
<1>6. (G \ S) \cup R = H /\ (G \ S) \cap R = {}
  BY <1>1
<1>7. /\ Cardinality(G) \in Int /\ Cardinality(G \cap S) \in Int /\ Cardinality(R) \in Int
      /\ Cardinality(H) \in Int
  <2>1. G \cap S \in SUBSET G
    OBVIOUS
  <2>2. IsFiniteSet(G \cap S)
    BY <1>2, <2>1, FS_Subset
  <2> QED BY <1>2, <1>3, <2>2, FS_CardinalityType
<1>8. Cardinality((G \ S) \cap R) = 0
  BY <1>6, FS_EmptySet
<1>9. Cardinality(H) = Cardinality(G \ S) + Cardinality(R)
  <2>1. Cardinality(G \ S) \in Int
    BY <1>4, <1>7
  <2>2. Cardinality(H) = Cardinality(G \ S) + Cardinality(R) - Cardinality((G \ S) \cap R)
    BY <1>5, <1>6
  <2> QED BY <1>7, <1>8, <2>1, <2>2
<1> QED BY <1>4, <1>7, <1>9 DEF S, R, G, H

LEMMA PathShown ==
    ASSUME NEW g \in Graphs, Shows(t, g), NEW p \in Live(g)
    PROVE  PathOf(t, p) = {g[p].path}
<1> DEFINE row == [id |-> p, path |-> g[p].path]
<1>1. t.pages = PageRows(g, Facts(g))
  BY DEF Shows, Holds
<1>2. row \in t.pages /\ row.id = p /\ row.path = g[p].path
  <2> DEFINE f == <<p, Page(p)>>
  <2>1. f \in Facts(g) /\ f[1] = p /\ f[2][1] = 0
    BY PageFact DEF Page
  <2> HIDE DEF f
  <2> QED BY <1>1, <2>1 DEF PageRows
<1>3. ASSUME NEW r \in t.pages, r.id = p PROVE r.path = g[p].path
  BY <1>1, <1>3 DEF PageRows
<1> HIDE DEF row
<1> QED BY <1>2, <1>3 DEF PathOf

\* No change that a host may hand over is refused.
LEMMA ChangeAccepted ==
    ASSUME NEW h \in Graphs, graph \in Graphs, Shows(t, graph),
           phase \in {"candidate", "live"}, mode \in {"catalog", "rows"},
           phase = "candidate" => counted = Sources(graph)
    PROVE  /\ Accepted(Changed(graph, h), h)
           /\ Count(Changed(graph, h), graph, h) = Sources(h)
<1> DEFINE v == Changed(graph, h)
<1>1. Shows(v, h)
  BY ChangedIs
<1>2. ~ v.refused
  BY <1>1 DEF Shows, Holds
<1>3. MetadataPreserved(graph, h)
  <2>1. ASSUME NEW p \in Touched(graph, h), graph[p] # Absent, graph[p].path = h[p].path
        PROVE  h[p].path \in PathOf(t, p)
    <3>1. p \in Pages
      BY DEF Touched, Live
    <3>2. p \in Live(graph)
      BY <2>1, <3>1, GraphIs
    <3> QED BY <2>1, <3>2, PathShown
  <2> QED BY <2>1 DEF MetadataPreserved
<1>4. Count(v, graph, h) = Sources(h)
  <2> HIDE DEF v
  <2>1. CASE mode = "rows"
    BY <2>1 DEF Count, Sources
  <2>2. CASE mode # "rows" /\ phase = "live"
    <3>1. v.coverage = Live(h)
      BY <1>1, <2>2 DEF Shows, Catalogs
    <3> QED BY <2>2, <3>1 DEF Count, Sources
  <2>3. CASE mode # "rows" /\ phase = "candidate"
    <3>1. t.coverage = Live(graph)
      BY <2>3 DEF Shows, Catalogs
    <3>2. counted = Cardinality(Live(graph))
      BY <2>3 DEF Sources
    <3>3. Inductive(t, counted, Touched(graph, h), Deleted(graph, h)) = Cardinality(Live(h))
      BY <3>1, <3>2, CountIs DEF Inductive, Handed
    <3> QED BY <2>3, <3>3 DEF Count, Sources
  <2> QED BY <2>1, <2>2, <2>3
<1> QED BY <1>2, <1>3, <1>4 DEF Accepted

-----------------------------------------------------------------------------
(* What two tables that show one graph have in common.                     *)

OwnersOf(g) == {[entity |-> f[2], page |-> f[1]] : f \in Facts(g)}
TextsOf(g) == {[entity |-> f[2], page |-> f[1], word |-> Said(g, f).word] : f \in Facts(g)}

LEMMA OwnersShown ==
    ASSUME NEW u, NEW g, Indexed(u, g, Facts(g))
    PROVE  {[entity |-> r.entity, page |-> r.page] : r \in u.owners} = OwnersOf(g)
<1> DEFINE left == {[entity |-> r.entity, page |-> r.page] : r \in u.owners}
<1>1. ASSUME NEW o \in u.owners PROVE [entity |-> o.entity, page |-> o.page] \in OwnersOf(g)
  <2> DEFINE f == <<o.page, o.entity>>
  <2>1. f \in Facts(g) /\ f[1] = o.page /\ f[2] = o.entity
    BY DEF Indexed, IsOwner
  <2> HIDE DEF f
  <2> QED BY <2>1 DEF OwnersOf
<1>2. ASSUME NEW f \in Facts(g) PROVE [entity |-> f[2], page |-> f[1]] \in left
  <2>1. PICK o \in u.owners : <<o.page, o.entity>> = f
    BY DEF Indexed
  <2>2. o.page = f[1] /\ o.entity = f[2]
    BY <2>1
  <2> QED BY <2>2
<1>3. left \subseteq OwnersOf(g)
  BY <1>1
<1>4. OwnersOf(g) \subseteq left
  BY <1>2 DEF OwnersOf
<1> QED BY <1>3, <1>4

LEMMA SearchRowIs ==
    ASSUME NEW g, NEW o
    PROVE  /\ SearchRow(g, o).rowid = o.rowid /\ SearchRow(g, o).entity = o.entity
           /\ SearchRow(g, o).page = o.page
           /\ SearchRow(g, o).word = Said(g, <<o.page, o.entity>>).word
BY DEF SearchRow

LEMMA TextsShown ==
    ASSUME NEW u, NEW g, Indexed(u, g, Facts(g))
    PROVE  {[entity |-> r.entity, page |-> r.page, word |-> r.word] : r \in u.fts} = TextsOf(g)
<1> DEFINE left == {[entity |-> r.entity, page |-> r.page, word |-> r.word] : r \in u.fts}
<1>0. u.fts = {SearchRow(g, o) : o \in u.owners}
  BY DEF Indexed
<1>1. ASSUME NEW r \in u.fts
      PROVE  [entity |-> r.entity, page |-> r.page, word |-> r.word] \in TextsOf(g)
  <2>1. PICK o \in u.owners : r = SearchRow(g, o)
    BY <1>0
  <2> DEFINE f == <<o.page, o.entity>>
  <2>2. f \in Facts(g) /\ f[1] = o.page /\ f[2] = o.entity
    BY DEF Indexed, IsOwner
  <2>3. r.entity = f[2] /\ r.page = f[1] /\ r.word = Said(g, f).word
    BY <2>1, <2>2, SearchRowIs
  <2> HIDE DEF f
  <2> QED BY <2>2, <2>3 DEF TextsOf
<1>2. ASSUME NEW f \in Facts(g)
      PROVE  [entity |-> f[2], page |-> f[1], word |-> Said(g, f).word] \in left
  <2>1. PICK o \in u.owners : <<o.page, o.entity>> = f
    BY DEF Indexed
  <2>2. o.page = f[1] /\ o.entity = f[2]
    BY <2>1
  <2> DEFINE r == SearchRow(g, o)
  <2>3. r \in u.fts
    BY <1>0
  <2>4. r.entity = f[2] /\ r.page = f[1] /\ r.word = Said(g, f).word
    BY <2>1, <2>2, SearchRowIs
  <2> HIDE DEF r
  <2> QED BY <2>3, <2>4
<1>3. left \subseteq TextsOf(g)
  BY <1>1
<1>4. TextsOf(g) \subseteq left
  BY <1>2 DEF TextsOf
<1> QED BY <1>3, <1>4

LEMMA ObservedIs ==
    ASSUME NEW u, NEW v, NEW g, Shows(u, g), Shows(v, g)
    PROVE  Observed(u) = Observed(v)
<1>1. /\ IsTables(u) /\ IsTables(v)
      /\ Indexed(u, g, Facts(g)) /\ Indexed(v, g, Facts(g))
      /\ u.refused = v.refused /\ u.pages = v.pages /\ u.blocks = v.blocks
      /\ u.tasks = v.tasks /\ u.refs = v.refs /\ u.properties = v.properties
  BY DEF Shows, Holds
<1>2. /\ u.coverage = v.coverage /\ u.postings = v.postings
      /\ u.aliases = v.aliases /\ u.bindings = v.bindings
  <2>1. CASE mode = "rows"
    BY <2>1 DEF Shows, NoCatalog
  <2>2. CASE mode # "rows"
    <3>1. Catalogs(u, g) /\ Catalogs(v, g)
      BY <2>2 DEF Shows
    <3> QED BY <3>1 DEF Catalogs
  <2> QED BY <2>1, <2>2
<1> DEFINE Seen(w) == [w EXCEPT !.owners = OwnersOf(g), !.fts = TextsOf(g), !.stamp = 0]
<1>3. Observed(u) = Seen(u) /\ Observed(v) = Seen(v)
  BY <1>1, OwnersShown, TextsShown DEF Observed
<1> DEFINE x == Seen(u)
           y == Seen(v)
<1>4. /\ x = [f \in Fields |-> x[f]] /\ y = [f \in Fields |-> y[f]]
      /\ \A f \in Fields \ {"owners", "fts", "stamp"} : x[f] = u[f] /\ y[f] = v[f]
      /\ \A f \in {"owners", "fts", "stamp"} : x[f] = y[f]
  BY <1>1 DEF IsTables, Fields
<1> HIDE DEF x, y
<1>5. \A f \in Fields \ {"owners", "fts", "stamp"} : u[f] = v[f]
  BY <1>1, <1>2 DEF Fields
<1>6. \A f \in Fields : x[f] = y[f]
  BY <1>4, <1>5
<1>7. x = y
  BY <1>4, <1>6
<1> QED BY <1>3, <1>7 DEF x, y

\* As many search rows as owners.
LEMMA SearchComplete ==
    ASSUME NEW u, NEW g, Indexed(u, g, Facts(g))
    PROVE  /\ Cardinality(u.owners) = Cardinality(u.fts)
           /\ \A o \in u.owners : \E r \in u.fts :
                 r.rowid = o.rowid /\ r.entity = o.entity /\ r.page = o.page
           /\ \A r \in u.fts : \E o \in u.owners :
                 r.rowid = o.rowid /\ r.entity = o.entity /\ r.page = o.page
<1>1. u.fts = {SearchRow(g, o) : o \in u.owners} /\ IsFiniteSet(u.owners)
  BY DEF Indexed
<1> DEFINE row == [o \in u.owners |-> SearchRow(g, o)]
<1>2. row \in [u.owners -> u.fts]
  BY <1>1
<1>3. ASSUME NEW o \in u.owners, NEW q \in u.owners, row[o] = row[q] PROVE o = q
  <2>1. SearchRow(g, o) = SearchRow(g, q)
    BY <1>3
  <2>2. SearchRow(g, o).rowid = o.rowid /\ SearchRow(g, q).rowid = q.rowid
    BY DEF SearchRow
  <2>3. o.rowid = q.rowid
    BY <2>1, <2>2
  <2> QED BY <2>3 DEF Indexed
<1>4. \A r \in u.fts : \E o \in u.owners : row[o] = r
  BY <1>1
<1> HIDE DEF row
<1>5. row \in Bijection(u.owners, u.fts)
  BY <1>2, <1>3, <1>4 DEF Bijection, Injection, Surjection, IsInjective
<1>6. Cardinality(u.fts) = Cardinality(u.owners)
  BY <1>1, <1>5, FS_Bijection DEF ExistsBijection
<1>7. ASSUME NEW o \in u.owners
      PROVE  \E r \in u.fts : r.rowid = o.rowid /\ r.entity = o.entity /\ r.page = o.page
  <2> DEFINE r == SearchRow(g, o)
  <2>1. r \in u.fts
    BY <1>1
  <2>2. r.rowid = o.rowid /\ r.entity = o.entity /\ r.page = o.page
    BY SearchRowIs
  <2> HIDE DEF r
  <2> QED BY <2>1, <2>2
<1>8. ASSUME NEW r \in u.fts
      PROVE  \E o \in u.owners : r.rowid = o.rowid /\ r.entity = o.entity /\ r.page = o.page
  <2>1. PICK o \in u.owners : r = SearchRow(g, o)
    BY <1>1
  <2>2. SearchRow(g, o).rowid = o.rowid /\ SearchRow(g, o).entity = o.entity
            /\ SearchRow(g, o).page = o.page
    BY SearchRowIs
  <2> QED BY <2>1, <2>2
<1> QED BY <1>6, <1>7, <1>8

\* The closing proof of a candidate.
LEMMA ProofHolds ==
    ASSUME Shows(t, graph), phase = "candidate" => counted = Sources(graph)
    PROVE  FinalProof
<1>1. Indexed(t, graph, Facts(graph))
  BY DEF Shows, Holds
<1>2. /\ Cardinality(t.owners) = Cardinality(t.fts)
      /\ \A o \in t.owners : \E r \in t.fts :
            r.rowid = o.rowid /\ r.entity = o.entity /\ r.page = o.page
      /\ \A r \in t.fts : \E o \in t.owners :
            r.rowid = o.rowid /\ r.entity = o.entity /\ r.page = o.page
  BY <1>1, SearchComplete
<1>3. Cardinality(t.coverage) = Sources(graph)
  <2>1. CASE mode = "rows"
    BY <2>1, FS_EmptySet DEF Shows, NoCatalog, Sources
  <2>2. CASE mode # "rows"
    BY <2>2 DEF Shows, Catalogs, Sources
  <2> QED BY <2>1, <2>2
<1>4. phase = "candidate" => Proven
  BY <1>2, <1>3 DEF Proven
<1> DEFINE A == {<<r.rowid, r.entity, r.page>> : r \in t.owners}
           B == {<<r.rowid, r.entity, r.page>> : r \in t.fts}
<1>5. A \subseteq B
  <2>1. ASSUME NEW o \in t.owners PROVE <<o.rowid, o.entity, o.page>> \in B
    BY <1>2
  <2> QED BY <2>1
<1>6. B \subseteq A
  <2>1. ASSUME NEW r \in t.fts PROVE <<r.rowid, r.entity, r.page>> \in A
    BY <1>2
  <2> QED BY <2>1
<1> QED BY <1>4, <1>5, <1>6 DEF FinalProof

-----------------------------------------------------------------------------
(* The reads of one call.                                                  *)

LEMMA ReferrersAre ==
    ASSUME NEW u, NEW g, Holds(u, g, Facts(g)), NEW e
    PROVE  ReferrersTo(u, e) =
               IF e \in Entities(g) THEN {f \in Facts(g) : e \in Said(g, f).links} ELSE {}
<1>0. u.refs = RefRows(g, Facts(g))
  BY DEF Holds
<1>1. ASSUME NEW r \in u.refs, r.target = e
      PROVE  /\ e \in Entities(g) /\ <<r.page, r.source>> \in Facts(g)
             /\ e \in Said(g, <<r.page, r.source>>).links
  <2>0. PICK f \in Facts(g) :
            r \in {[source |-> f[2], page |-> f[1], target |-> x] : x \in Said(g, f).links \cap Entities(g)}
    BY <1>0 DEF RefRows
  <2>1. PICK x \in Said(g, f).links \cap Entities(g) :
            r = [source |-> f[2], page |-> f[1], target |-> x]
    BY <2>0
  <2>2. r.page = f[1] /\ r.source = f[2] /\ x = e
    BY <1>1, <2>1
  <2>3. <<r.page, r.source>> = f
    BY <2>2, FactIs
  <2> QED BY <2>1, <2>2, <2>3
<1>2. ASSUME NEW f \in Facts(g), e \in Said(g, f).links, e \in Entities(g)
      PROVE  \E r \in u.refs : r.target = e /\ <<r.page, r.source>> = f
  <2> DEFINE r == [source |-> f[2], page |-> f[1], target |-> e]
  <2>1. r \in u.refs
    BY <1>0, <1>2 DEF RefRows
  <2>2. r.target = e /\ r.page = f[1] /\ r.source = f[2]
    OBVIOUS
  <2> HIDE DEF r
  <2>3. <<r.page, r.source>> = f
    BY <2>2, FactIs
  <2> QED BY <2>1, <2>2, <2>3
<1>3. ASSUME NEW f \in ReferrersTo(u, e) PROVE e \in Entities(g) /\ f \in Facts(g) /\ e \in Said(g, f).links
  <2>1. PICK r \in u.refs : r.target = e /\ f = <<r.page, r.source>>
    BY <1>3 DEF ReferrersTo
  <2> QED BY <1>1, <2>1
<1>4. ASSUME NEW f \in Facts(g), e \in Said(g, f).links, e \in Entities(g) PROVE f \in ReferrersTo(u, e)
  <2>1. PICK r \in u.refs : r.target = e /\ <<r.page, r.source>> = f
    BY <1>2, <1>4
  <2> QED BY <2>1 DEF ReferrersTo
<1> QED BY <1>3, <1>4

\* A block row and a task row come from a fact about a block.
LEMMA BlockRowsAre ==
    ASSUME NEW u, NEW g, Holds(u, g, Facts(g))
    PROVE  /\ \A r \in u.blocks : \E f \in Facts(g) :
                 f[2] = Block(r.id) /\ f[1] = r.page /\ Said(g, f).uuid = r.uuid
           /\ \A f \in Facts(g) : f[2][1] = 1 => \E r \in u.blocks :
                 f[2] = Block(r.id) /\ f[1] = r.page /\ Said(g, f).uuid = r.uuid
<1>0. u.blocks = BlockRows(g, Facts(g))
  BY DEF Holds
<1>1. ASSUME NEW r \in u.blocks
      PROVE  \E f \in Facts(g) : f[2] = Block(r.id) /\ f[1] = r.page /\ Said(g, f).uuid = r.uuid
  <2>1. PICK f \in Facts(g) : f[2][1] = 1 /\ r = BlockRow(g, f)
    BY <1>0 DEF BlockRows, BlockRow
  <2>2. r.id = f[2][2] /\ r.page = f[1] /\ r.uuid = Said(g, f).uuid
    BY <2>1 DEF BlockRow
  <2> QED BY <2>1, <2>2, KindsAre
<1>2. ASSUME NEW f \in Facts(g), f[2][1] = 1
      PROVE  \E r \in u.blocks : f[2] = Block(r.id) /\ f[1] = r.page /\ Said(g, f).uuid = r.uuid
  <2> DEFINE r == BlockRow(g, f)
  <2>1. r \in u.blocks
    BY <1>0, <1>2 DEF BlockRows, BlockRow
  <2>2. r.id = f[2][2] /\ r.page = f[1] /\ r.uuid = Said(g, f).uuid
    BY DEF BlockRow
  <2> HIDE DEF r
  <2> QED BY <1>2, <2>1, <2>2, KindsAre
<1> QED BY <1>1, <1>2

LEMMA TaskRowsAre ==
    ASSUME NEW u, NEW g, Holds(u, g, Facts(g))
    PROVE  /\ \A r \in u.tasks : r.marker # 0 /\ \E f \in Facts(g) :
                 f[2] = Block(r.block) /\ f[1] = r.page /\ Said(g, f).marker = r.marker
           /\ \A f \in Facts(g) : f[2][1] = 1 /\ Said(g, f).marker # 0 => \E r \in u.tasks :
                 f[2] = Block(r.block) /\ f[1] = r.page /\ Said(g, f).marker = r.marker
<1>0. u.tasks = TaskRows(g, Facts(g))
  BY DEF Holds
<1>1. ASSUME NEW r \in u.tasks
      PROVE  r.marker # 0 /\ \E f \in Facts(g) :
                 f[2] = Block(r.block) /\ f[1] = r.page /\ Said(g, f).marker = r.marker
  <2>1. PICK f \in Facts(g) : f[2][1] = 1 /\ Said(g, f).marker # 0 /\ r = TaskRow(g, f)
    BY <1>0 DEF TaskRows, TaskRow
  <2>2. r.block = f[2][2] /\ r.page = f[1] /\ r.marker = Said(g, f).marker
    BY <2>1 DEF TaskRow
  <2> QED BY <2>1, <2>2, KindsAre
<1>2. ASSUME NEW f \in Facts(g), f[2][1] = 1, Said(g, f).marker # 0
      PROVE  \E r \in u.tasks :
                 f[2] = Block(r.block) /\ f[1] = r.page /\ Said(g, f).marker = r.marker
  <2> DEFINE r == TaskRow(g, f)
  <2>1. r \in u.tasks
    BY <1>0, <1>2 DEF TaskRows, TaskRow
  <2>2. r.block = f[2][2] /\ r.page = f[1] /\ r.marker = Said(g, f).marker
    BY DEF TaskRow
  <2> HIDE DEF r
  <2> QED BY <1>2, <2>1, <2>2, KindsAre
<1> QED BY <1>1, <1>2

LEMMA PropertyRowsAre ==
    ASSUME NEW u, NEW g, Holds(u, g, Facts(g))
    PROVE  /\ \A r \in u.properties :
                 <<r.page, r.owner>> \in Facts(g)
                     /\ r.name \in Said(g, <<r.page, r.owner>>).properties
           /\ \A f \in Facts(g) : \A n \in Said(g, f).properties : \E r \in u.properties :
                 r.page = f[1] /\ r.owner = f[2] /\ r.name = n
<1>0. u.properties = PropertyRows(g, Facts(g))
  BY DEF Holds
<1>1. ASSUME NEW r \in u.properties
      PROVE  <<r.page, r.owner>> \in Facts(g) /\ r.name \in Said(g, <<r.page, r.owner>>).properties
  <2>0. PICK f \in Facts(g) :
            r \in {[owner |-> f[2], page |-> f[1], name |-> n] : n \in Said(g, f).properties}
    BY <1>0 DEF PropertyRows
  <2>1. PICK n \in Said(g, f).properties : r = [owner |-> f[2], page |-> f[1], name |-> n]
    BY <2>0
  <2>2. r.page = f[1] /\ r.owner = f[2] /\ r.name = n
    BY <2>1
  <2>3. <<r.page, r.owner>> = f
    BY <2>2, FactIs
  <2> QED BY <2>1, <2>2, <2>3
<1>2. ASSUME NEW f \in Facts(g), NEW n \in Said(g, f).properties
      PROVE  \E r \in u.properties : r.page = f[1] /\ r.owner = f[2] /\ r.name = n
  <2> DEFINE r == [owner |-> f[2], page |-> f[1], name |-> n]
  <2>1. r \in u.properties
    BY <1>0 DEF PropertyRows
  <2>2. r.page = f[1] /\ r.owner = f[2] /\ r.name = n
    OBVIOUS
  <2> HIDE DEF r
  <2> QED BY <2>1, <2>2
<1> QED BY <1>1, <1>2

LEMMA SearchRowsAre ==
    ASSUME NEW u, NEW g, Holds(u, g, Facts(g))
    PROVE  /\ \A r \in u.fts :
                 <<r.page, r.entity>> \in Facts(g) /\ r.word = Said(g, <<r.page, r.entity>>).word
           /\ \A f \in Facts(g) : \E o \in u.owners, r \in u.fts :
                 /\ r.rowid = o.rowid /\ o.page = f[1]
                 /\ <<r.page, r.entity>> = f /\ r.word = Said(g, f).word
           /\ \A o \in u.owners, r \in u.fts : r.rowid = o.rowid => r.page = o.page
<1>0. Indexed(u, g, Facts(g)) /\ u.fts = {SearchRow(g, o) : o \in u.owners}
  BY DEF Holds, Indexed
<1>1. ASSUME NEW r \in u.fts
      PROVE  <<r.page, r.entity>> \in Facts(g) /\ r.word = Said(g, <<r.page, r.entity>>).word
  <2>1. PICK o \in u.owners : r = SearchRow(g, o)
    BY <1>0
  <2>2. r.page = o.page /\ r.entity = o.entity /\ r.word = Said(g, <<o.page, o.entity>>).word
    BY <2>1 DEF SearchRow
  <2>3. <<o.page, o.entity>> \in Facts(g)
    BY <1>0 DEF Indexed, IsOwner
  <2> QED BY <2>2, <2>3
<1>2. ASSUME NEW f \in Facts(g)
      PROVE  \E o \in u.owners, r \in u.fts :
                 /\ r.rowid = o.rowid /\ o.page = f[1]
                 /\ <<r.page, r.entity>> = f /\ r.word = Said(g, f).word
  <2>1. PICK o \in u.owners : <<o.page, o.entity>> = f
    BY <1>0 DEF Indexed
  <2> DEFINE r == SearchRow(g, o)
  <2>2. r \in u.fts
    BY <1>0
  <2>3. /\ r.rowid = o.rowid /\ r.page = o.page /\ r.entity = o.entity
        /\ r.word = Said(g, <<o.page, o.entity>>).word
    BY DEF SearchRow
  <2>4. o.page = f[1]
    BY <2>1
  <2> HIDE DEF r
  <2>5. <<r.page, r.entity>> = f /\ r.word = Said(g, f).word
    BY <2>1, <2>3
  <2> QED BY <2>2, <2>3, <2>4, <2>5
<1>3. ASSUME NEW o \in u.owners, NEW r \in u.fts, r.rowid = o.rowid PROVE r.page = o.page
  <2>1. PICK q \in u.owners : r = SearchRow(g, q)
    BY <1>0
  <2>2. r.rowid = q.rowid /\ r.page = q.page
    BY <2>1 DEF SearchRow
  <2>3. q = o
    BY <1>0, <1>3, <2>2 DEF Indexed
  <2> QED BY <2>2, <2>3
<1> QED BY <1>1, <1>2, <1>3

NamePosting(f, v) == [page |-> f[1], source |-> f[2], kind |-> "name", value |-> v]
UuidPosting(f, v) == [page |-> f[1], source |-> f[2], kind |-> "uuid", value |-> v]

LEMMA PostingsAre ==
    ASSUME NEW g
    PROVE  /\ \A r \in Posted(g) : \E f \in Facts(g) : \E v \in Said(g, f).names \cup Said(g, f).claims :
                 \/ r = NamePosting(f, v) /\ v \in Said(g, f).names
                 \/ r = UuidPosting(f, v) /\ v \in Said(g, f).claims
           /\ \A f \in Facts(g) : \A v \in Said(g, f).names : NamePosting(f, v) \in Posted(g)
           /\ \A f \in Facts(g) : \A v \in Said(g, f).claims : UuidPosting(f, v) \in Posted(g)
<1>1. ASSUME NEW r \in Posted(g)
      PROVE  \E f \in Facts(g) : \E v \in Said(g, f).names \cup Said(g, f).claims :
                 \/ r = NamePosting(f, v) /\ v \in Said(g, f).names
                 \/ r = UuidPosting(f, v) /\ v \in Said(g, f).claims
  <2>1. PICK p \in Live(g) : r \in Postings(p, g[p])
    BY DEF Posted
  <2> DEFINE says == Says(p, g[p])
  <2>2. PICK e \in DOMAIN says :
            \/ r \in {[page |-> p, source |-> e, kind |-> "name", value |-> v] : v \in says[e].names}
            \/ r \in {[page |-> p, source |-> e, kind |-> "uuid", value |-> v] : v \in says[e].claims}
    BY <2>1 DEF Postings
  <2> DEFINE f == <<p, e>>
  <2>3. f \in Facts(g)
    BY <2>1, <2>2 DEF Facts
  <2>4. f[1] = p /\ f[2] = e /\ Said(g, f) = says[e]
    BY DEF Said
  <2> HIDE DEF f, says
  <2>5. CASE r \in {[page |-> p, source |-> e, kind |-> "name", value |-> v] : v \in says[e].names}
    <3>1. PICK v \in says[e].names : r = NamePosting(f, v)
      BY <2>4, <2>5 DEF NamePosting
    <3> QED BY <2>3, <2>4, <3>1
  <2>6. CASE r \in {[page |-> p, source |-> e, kind |-> "uuid", value |-> v] : v \in says[e].claims}
    <3>1. PICK v \in says[e].claims : r = UuidPosting(f, v)
      BY <2>4, <2>6 DEF UuidPosting
    <3> QED BY <2>3, <2>4, <3>1
  <2> QED BY <2>2, <2>5, <2>6
<1>2. ASSUME NEW f \in Facts(g)
      PROVE  /\ \A v \in Said(g, f).names : NamePosting(f, v) \in Posted(g)
             /\ \A v \in Said(g, f).claims : UuidPosting(f, v) \in Posted(g)
  <2>0. PICK p \in Live(g) : f \in {<<p, e>> : e \in DOMAIN Says(p, g[p])}
    BY DEF Facts
  <2>1. PICK e \in DOMAIN Says(p, g[p]) : f = <<p, e>>
    BY <2>0
  <2> DEFINE says == Says(p, g[p])
  <2>2. f[1] = p /\ f[2] = e /\ Said(g, f) = says[e]
    BY <2>1 DEF Said
  <2>3. ASSUME NEW v \in says[e].names PROVE NamePosting(f, v) \in Postings(p, g[p])
    BY <2>1, <2>2 DEF Postings, NamePosting
  <2>4. ASSUME NEW v \in says[e].claims PROVE UuidPosting(f, v) \in Postings(p, g[p])
    BY <2>1, <2>2 DEF Postings, UuidPosting
  <2> HIDE DEF says
  <2>5. Postings(p, g[p]) \subseteq Posted(g)
    BY <2>1 DEF Posted
  <2> QED BY <2>2, <2>3, <2>4, <2>5
<1> QED BY <1>1, <1>2

LEMMA ReferrersProved ==
    ASSUME Holds(t, graph, Facts(graph))
    PROVE  ReferrersShown
BY ReferrersAre DEF ReferrersShown

LEMMA PagesProved ==
    ASSUME graph \in Graphs, Shows(t, graph), mode \in {"catalog", "rows"}
    PROVE  PagesShown
<1>0. Holds(t, graph, Facts(graph))
  BY DEF Shows
<1>1. ASSUME NEW p \in Live(graph) PROVE BlocksOnPage(t, p) = DOMAIN graph[p].blocks
  <2>1. ASSUME NEW b \in DOMAIN graph[p].blocks PROVE b \in BlocksOnPage(t, p)
    <3> DEFINE f == <<p, Block(b)>>
    <3>1. f \in Facts(graph) /\ f[1] = p /\ f[2] = Block(b) /\ f[2][1] = 1
      BY BlockFact DEF Block
    <3> HIDE DEF f
    <3>2. PICK r \in t.blocks : f[2] = Block(r.id) /\ f[1] = r.page
      BY <1>0, <3>1, BlockRowsAre
    <3>3. r.id = b /\ r.page = p
      BY <3>1, <3>2 DEF Block
    <3> QED BY <3>2, <3>3 DEF BlocksOnPage
  <2>2. ASSUME NEW b \in BlocksOnPage(t, p) PROVE b \in DOMAIN graph[p].blocks
    <3>1. PICK r \in t.blocks : r.page = p /\ b = r.id
      BY <2>2 DEF BlocksOnPage
    <3>2. PICK f \in Facts(graph) : f[2] = Block(r.id) /\ f[1] = r.page
      BY <1>0, BlockRowsAre
    <3>3. f[2][1] = 1 /\ f[2][2] = b
      BY <3>1, <3>2 DEF Block
    <3> QED BY <3>1, <3>2, <3>3, KindsAre
  <2> QED BY <2>1, <2>2
<1>2. ASSUME NEW p \in Live(graph)
      PROVE  PagesByPath(t, graph[p].path) = {q \in Live(graph) : graph[q].path = graph[p].path}
  <2>0. t.pages = PageRows(graph, Facts(graph))
    BY <1>0 DEF Holds
  <2>1. ASSUME NEW r \in t.pages PROVE r.id \in Live(graph) /\ r.path = graph[r.id].path
    <3>1. PICK f \in Facts(graph) : r = [id |-> f[1], path |-> graph[f[1]].path]
      BY <2>0 DEF PageRows
    <3> QED BY <3>1, FactIs
  <2>2. ASSUME NEW q \in Live(graph) PROVE \E r \in t.pages : r.id = q
    <3> DEFINE f == <<q, Page(q)>>
    <3>1. f \in Facts(graph) /\ f[1] = q /\ f[2][1] = 0
      BY PageFact DEF Page
    <3> HIDE DEF f
    <3> DEFINE r == [id |-> f[1], path |-> graph[f[1]].path]
    <3>2. r \in t.pages /\ r.id = q
      BY <2>0, <3>1 DEF PageRows
    <3> QED BY <3>2
  <2> QED BY <2>1, <2>2 DEF PagesByPath
<1>3. ASSUME NEW p \in Live(graph), mode = "catalog", NEW a \in graph[p].aliases
      PROVE  PagesForAlias(t, a) = {q \in Live(graph) : a \in graph[q].aliases}
  <2>1. t.bindings = [x \in AliasesOf(graph) |-> Sorted(Declaring(graph, x))]
    BY <1>3 DEF Shows, Catalogs
  <2>2. a \in AliasesOf(graph)
    BY <1>3 DEF AliasesOf
  <2>3. ToSet(Sorted(Declaring(graph, a))) = Declaring(graph, a)
    BY AliasIs, SortedSet
  <2>4. PagesForAlias(t, a) = Declaring(graph, a)
    BY <2>1, <2>2, <2>3 DEF PagesForAlias
  <2> QED BY <2>4 DEF Declaring
<1> QED BY <1>1, <1>2, <1>3 DEF PagesShown

LEMMA TextProved ==
    ASSUME Holds(t, graph, Facts(graph))
    PROVE  TextShown
<1>1. ASSUME NEW w
      PROVE  LET facts == {f \in Facts(graph) : Said(graph, f).word = w}
             IN  Search(t, w) = facts /\ PlainText(t, w) = {<<f[1]>> : f \in facts}
  <2> DEFINE facts == {f \in Facts(graph) : Said(graph, f).word = w}
  <2>1. ASSUME NEW r \in t.fts, r.word = w PROVE <<r.page, r.entity>> \in facts
    BY <2>1, SearchRowsAre
  <2>2. ASSUME NEW f \in facts
        PROVE  \E o \in t.owners, r \in t.fts :
                  /\ r.rowid = o.rowid /\ o.page = f[1]
                  /\ <<r.page, r.entity>> = f /\ r.word = w
    BY SearchRowsAre
  <2>3. \A o \in t.owners, r \in t.fts : r.rowid = o.rowid => r.page = o.page
    BY SearchRowsAre
  <2> HIDE DEF facts
  <2>4. Search(t, w) = facts
    <3>1. Search(t, w) \subseteq facts
      BY <2>1 DEF Search
    <3>2. ASSUME NEW f \in facts PROVE f \in Search(t, w)
      <4>1. PICK o \in t.owners, r \in t.fts : <<r.page, r.entity>> = f /\ r.word = w
        BY <2>2
      <4> QED BY <4>1 DEF Search
    <3> QED BY <3>1, <3>2
  <2>5. PlainText(t, w) = {<<f[1]>> : f \in facts}
    <3>1. ASSUME NEW o \in t.owners, NEW r \in t.fts, r.rowid = o.rowid, r.word = w
          PROVE  <<o.page>> \in {<<f[1]>> : f \in facts}
      <4> DEFINE f == <<r.page, r.entity>>
      <4>1. f \in facts /\ f[1] = o.page
        BY <2>1, <2>3, <3>1
      <4> HIDE DEF f
      <4> QED BY <4>1
    <3>2. ASSUME NEW f \in facts PROVE <<f[1]>> \in PlainText(t, w)
      <4>1. PICK o \in t.owners, r \in t.fts : r.rowid = o.rowid /\ o.page = f[1] /\ r.word = w
        BY <2>2
      <4> QED BY <4>1 DEF PlainText
    <3>3. PlainText(t, w) \subseteq {<<f[1]>> : f \in facts}
      BY <3>1 DEF PlainText
    <3> QED BY <3>2, <3>3
  <2> QED BY <2>4, <2>5 DEF facts
<1> QED BY <1>1 DEF TextShown

LEMMA PropertiesProved ==
    ASSUME Holds(t, graph, Facts(graph))
    PROVE  PropertiesShown
<1>1. ASSUME NEW n
      PROVE  LET facts == {f \in Facts(graph) : n \in Said(graph, f).properties}
             IN  PropertiesNamed(t, n) = facts /\ BlockProperties(t, n) = OnBlocks(facts)
  <2> DEFINE facts == {f \in Facts(graph) : n \in Said(graph, f).properties}
  <2>1. ASSUME NEW r \in t.properties, r.name = n PROVE <<r.page, r.owner>> \in facts
    BY <2>1, PropertyRowsAre
  <2>2. ASSUME NEW f \in facts
        PROVE  \E r \in t.properties : r.page = f[1] /\ r.owner = f[2] /\ r.name = n
    BY PropertyRowsAre
  <2>3. \A f \in facts : f = <<f[1], f[2]>>
    BY FactIs
  <2> HIDE DEF facts
  <2>4. PropertiesNamed(t, n) = facts
    <3>1. PropertiesNamed(t, n) \subseteq facts
      BY <2>1 DEF PropertiesNamed
    <3>2. ASSUME NEW f \in facts PROVE f \in PropertiesNamed(t, n)
      <4>1. PICK r \in t.properties : r.page = f[1] /\ r.owner = f[2] /\ r.name = n
        BY <2>2
      <4>2. f = <<r.page, r.owner>>
        BY <2>3, <4>1
      <4> QED BY <4>1, <4>2 DEF PropertiesNamed
    <3> QED BY <3>1, <3>2
  <2>5. BlockProperties(t, n) = OnBlocks(facts)
    <3>1. ASSUME NEW r \in t.properties, r.owner[1] = 1, r.name = n
          PROVE  <<r.page, r.owner[2]>> \in OnBlocks(facts)
      <4> DEFINE f == <<r.page, r.owner>>
      <4>1. f \in facts /\ f[1] = r.page /\ f[2] = r.owner
        BY <2>1, <3>1
      <4> HIDE DEF f
      <4> QED BY <3>1, <4>1 DEF OnBlocks
    <3>2. ASSUME NEW f \in facts, f[2][1] = 1 PROVE <<f[1], f[2][2]>> \in BlockProperties(t, n)
      <4>1. PICK r \in t.properties : r.page = f[1] /\ r.owner = f[2] /\ r.name = n
        BY <2>2
      <4> QED BY <3>2, <4>1 DEF BlockProperties
    <3>3. BlockProperties(t, n) \subseteq OnBlocks(facts)
      BY <3>1 DEF BlockProperties
    <3>4. OnBlocks(facts) \subseteq BlockProperties(t, n)
      BY <3>2 DEF OnBlocks
    <3> QED BY <3>3, <3>4
  <2> QED BY <2>4, <2>5 DEF facts
<1> QED BY <1>1 DEF PropertiesShown

LEMMA UuidsProved ==
    ASSUME graph \in Graphs, Holds(t, graph, Facts(graph))
    PROVE  UuidsShown
<1>1. ASSUME NEW u, u # 0
      PROVE  {Block(b) : b \in BlockByUuid(t, u)} =
                 {f[2] : f \in {x \in Facts(graph) : Said(graph, x).uuid = u}}
  <2> DEFINE facts == {x \in Facts(graph) : Said(graph, x).uuid = u}
  <2>1. ASSUME NEW b \in BlockByUuid(t, u) PROVE \E f \in facts : f[2] = Block(b)
    <3>1. PICK r \in t.blocks : r.uuid = u /\ b = r.id
      BY <2>1 DEF BlockByUuid
    <3>2. PICK f \in Facts(graph) : f[2] = Block(r.id) /\ Said(graph, f).uuid = r.uuid
      BY BlockRowsAre
    <3> QED BY <3>1, <3>2
  <2>2. ASSUME NEW f \in facts PROVE \E b \in BlockByUuid(t, u) : f[2] = Block(b)
    <3>1. f[2][1] = 1
      <4>1. f[1] \in Live(graph) /\ (f[2] = Page(f[1]) => Said(graph, f) = graph[f[1]].own)
        BY FactIs DEF Page, Block
      <4>2. graph[f[1]].own.uuid = 0
        BY <4>1, GraphIs
      <4>3. f[2] # Page(f[1])
        BY <1>1, <4>1, <4>2
      <4> QED BY <4>3, KindsAre
    <3>2. PICK r \in t.blocks : f[2] = Block(r.id) /\ Said(graph, f).uuid = r.uuid
      BY <3>1, BlockRowsAre
    <3> QED BY <3>2 DEF BlockByUuid
  <2> HIDE DEF facts
  <2>3. {Block(b) : b \in BlockByUuid(t, u)} \subseteq {f[2] : f \in facts}
    BY <2>1
  <2>4. {f[2] : f \in facts} \subseteq {Block(b) : b \in BlockByUuid(t, u)}
    BY <2>2
  <2> QED BY <2>3, <2>4 DEF facts
<1> QED BY <1>1 DEF UuidsShown

LEMMA TasksProved ==
    ASSUME graph \in Graphs, Holds(t, graph, Facts(graph))
    PROVE  TasksShown
<1>1. ASSUME NEW m, m # 0
      PROVE  LET facts == {f \in Facts(graph) : Said(graph, f).marker = m}
             IN  /\ {Block(b) : b \in Tasks(t, m)} = {f[2] : f \in facts}
                 /\ TaskPages(t, m) = {<<f[1]>> : f \in facts}
  <2> DEFINE facts == {f \in Facts(graph) : Said(graph, f).marker = m}
  <2>1. ASSUME NEW r \in t.tasks, r.marker = m
        PROVE  \E f \in facts : f[2] = Block(r.block) /\ f[1] = r.page
    <3>1. PICK f \in Facts(graph) :
              f[2] = Block(r.block) /\ f[1] = r.page /\ Said(graph, f).marker = r.marker
      BY TaskRowsAre
    <3> QED BY <2>1, <3>1
  <2>2. ASSUME NEW f \in facts
        PROVE  \E r \in t.tasks : r.marker = m /\ f[2] = Block(r.block) /\ f[1] = r.page
    <3>1. f[2][1] = 1
      <4>1. f[1] \in Live(graph) /\ (f[2] = Page(f[1]) => Said(graph, f) = graph[f[1]].own)
        BY FactIs DEF Page, Block
      <4>2. graph[f[1]].own.marker = 0
        BY <4>1, GraphIs
      <4>3. f[2] # Page(f[1])
        BY <1>1, <4>1, <4>2
      <4> QED BY <4>3, KindsAre
    <3>2. PICK r \in t.tasks :
              f[2] = Block(r.block) /\ f[1] = r.page /\ Said(graph, f).marker = r.marker
      BY <1>1, <3>1, TaskRowsAre
    <3> QED BY <3>2
  <2> HIDE DEF facts
  <2>3. {Block(b) : b \in Tasks(t, m)} \subseteq {f[2] : f \in facts}
    <3>1. ASSUME NEW b \in Tasks(t, m) PROVE \E f \in facts : f[2] = Block(b)
      <4>1. PICK r \in t.tasks : r.marker = m /\ b = r.block
        BY <3>1 DEF Tasks
      <4> QED BY <2>1, <4>1
    <3> QED BY <3>1
  <2>4. {f[2] : f \in facts} \subseteq {Block(b) : b \in Tasks(t, m)}
    <3>1. ASSUME NEW f \in facts PROVE \E b \in Tasks(t, m) : f[2] = Block(b)
      BY <2>2 DEF Tasks
    <3> QED BY <3>1
  <2>5. TaskPages(t, m) \subseteq {<<f[1]>> : f \in facts}
    <3>1. ASSUME NEW r \in t.tasks, r.marker = m PROVE <<r.page>> \in {<<f[1]>> : f \in facts}
      BY <2>1, <3>1
    <3> QED BY <3>1 DEF TaskPages
  <2>6. {<<f[1]>> : f \in facts} \subseteq TaskPages(t, m)
    <3>1. ASSUME NEW f \in facts PROVE <<f[1]>> \in TaskPages(t, m)
      BY <2>2 DEF TaskPages
    <3> QED BY <3>1
  <2> QED BY <2>3, <2>4, <2>5, <2>6 DEF facts
<1> QED BY <1>1 DEF TasksShown

LEMMA ClaimsProved ==
    ASSUME t.postings = Posted(graph)
    PROVE  ClaimsShown
<1>1. ASSUME NEW u, NEW r \in t.postings, r.kind = "uuid", r.value = u
      PROVE  \E f \in Facts(graph) : u \in Said(graph, f).claims /\ r.page = f[1] /\ r.source = f[2]
  <2>1. PICK f \in Facts(graph) : \E v \in Said(graph, f).names \cup Said(graph, f).claims :
            \/ r = NamePosting(f, v) /\ v \in Said(graph, f).names
            \/ r = UuidPosting(f, v) /\ v \in Said(graph, f).claims
    BY PostingsAre
  <2>2. PICK v : \/ r = NamePosting(f, v)
                 \/ r = UuidPosting(f, v) /\ v \in Said(graph, f).claims
    BY <2>1
  <2>3. r = UuidPosting(f, v) /\ v \in Said(graph, f).claims
    BY <1>1, <2>2 DEF NamePosting
  <2>4. r.page = f[1] /\ r.source = f[2] /\ r.value = v
    BY <2>3 DEF UuidPosting
  <2> QED BY <1>1, <2>3, <2>4
<1>2. ASSUME NEW u, NEW f \in Facts(graph), u \in Said(graph, f).claims
      PROVE  \E r \in t.postings : r.kind = "uuid" /\ r.value = u /\ r.page = f[1] /\ r.source = f[2]
  <2> DEFINE r == UuidPosting(f, u)
  <2>1. r \in t.postings
    BY <1>2, PostingsAre
  <2>2. r.kind = "uuid" /\ r.value = u /\ r.page = f[1] /\ r.source = f[2]
    BY DEF UuidPosting
  <2> HIDE DEF r
  <2> QED BY <2>1, <2>2
<1>3. ASSUME NEW u
      PROVE  /\ BlockReferrers(t, u) = OnBlocks({f \in Facts(graph) : u \in Said(graph, f).claims})
             /\ <<u>> \in ReferenceCounts(t) <=> BlockReferrers(t, u) # {}
  <2> DEFINE facts == {f \in Facts(graph) : u \in Said(graph, f).claims}
             claims == {s \in t.postings : s.kind = "uuid" /\ s.value = u /\ s.source[1] = 1}
  <2>1. BlockReferrers(t, u) = {<<r.page, r.source[2]>> : r \in claims}
    BY DEF BlockReferrers
  <2>2. <<u>> \in ReferenceCounts(t) <=> claims # {}
    BY DEF ReferenceCounts
  <2>3. ASSUME NEW r \in claims PROVE \E f \in facts : r.page = f[1] /\ r.source = f[2] /\ f[2][1] = 1
    BY <1>1
  <2>4. ASSUME NEW f \in facts, f[2][1] = 1
        PROVE  \E r \in claims : r.page = f[1] /\ r.source = f[2]
    <3>1. PICK r \in t.postings : r.kind = "uuid" /\ r.value = u /\ r.page = f[1] /\ r.source = f[2]
      BY <1>2
    <3> QED BY <2>4, <3>1
  <2> HIDE DEF facts, claims
  <2>5. {<<r.page, r.source[2]>> : r \in claims} \subseteq OnBlocks(facts)
    <3>1. ASSUME NEW r \in claims PROVE <<r.page, r.source[2]>> \in OnBlocks(facts)
      BY <2>3 DEF OnBlocks
    <3> QED BY <3>1
  <2>6. OnBlocks(facts) \subseteq {<<r.page, r.source[2]>> : r \in claims}
    <3>1. ASSUME NEW f \in facts, f[2][1] = 1
          PROVE  <<f[1], f[2][2]>> \in {<<r.page, r.source[2]>> : r \in claims}
      BY <2>4, <3>1
    <3> QED BY <3>1 DEF OnBlocks
  <2>7. {<<r.page, r.source[2]>> : r \in claims} # {} <=> claims # {}
    OBVIOUS
  <2> QED BY <2>1, <2>2, <2>5, <2>6, <2>7 DEF facts
<1> QED BY <1>3 DEF ClaimsShown

LEMMA NamesProved ==
    ASSUME t.postings = Posted(graph)
    PROVE  NamesShown
<1>1. ASSUME NEW n, NEW r \in t.postings, r.kind = "name", r.value = n
      PROVE  \E f \in Facts(graph) : n \in Said(graph, f).names /\ r.page = f[1] /\ r.source = f[2]
  <2>1. PICK f \in Facts(graph) : \E v \in Said(graph, f).names \cup Said(graph, f).claims :
            \/ r = NamePosting(f, v) /\ v \in Said(graph, f).names
            \/ r = UuidPosting(f, v) /\ v \in Said(graph, f).claims
    BY PostingsAre
  <2>2. PICK v : \/ r = NamePosting(f, v) /\ v \in Said(graph, f).names
                 \/ r = UuidPosting(f, v)
    BY <2>1
  <2>3. r = NamePosting(f, v) /\ v \in Said(graph, f).names
    BY <1>1, <2>2 DEF UuidPosting
  <2>4. r.page = f[1] /\ r.source = f[2] /\ r.value = v
    BY <2>3 DEF NamePosting
  <2> QED BY <1>1, <2>3, <2>4
<1>2. ASSUME NEW n, NEW f \in Facts(graph), n \in Said(graph, f).names
      PROVE  \E r \in t.postings : r.kind = "name" /\ r.value = n /\ r.page = f[1] /\ r.source = f[2]
  <2> DEFINE r == NamePosting(f, n)
  <2>1. r \in t.postings
    BY <1>2, PostingsAre
  <2>2. r.kind = "name" /\ r.value = n /\ r.page = f[1] /\ r.source = f[2]
    BY DEF NamePosting
  <2> HIDE DEF r
  <2> QED BY <2>1, <2>2
<1>3. ASSUME NEW n
      PROVE  PageReferrers(t, n) = {<<f[1], f[2][1], f[2][2]>> :
                 f \in {x \in Facts(graph) : n \in Said(graph, x).names}}
  <2> DEFINE facts == {x \in Facts(graph) : n \in Said(graph, x).names}
             shown == {<<f[1], f[2][1], f[2][2]>> : f \in facts}
  <2>1. PageReferrers(t, n) \subseteq shown
    <3>1. ASSUME NEW r \in t.postings, r.kind = "name", r.value = n
          PROVE  <<r.page, r.source[1], r.source[2]>> \in shown
      BY <1>1, <3>1
    <3> QED BY <3>1 DEF PageReferrers
  <2>2. shown \subseteq PageReferrers(t, n)
    <3>1. ASSUME NEW f \in facts PROVE <<f[1], f[2][1], f[2][2]>> \in PageReferrers(t, n)
      BY <1>2 DEF PageReferrers
    <3> QED BY <3>1
  <2> QED BY <2>1, <2>2
<1> QED BY <1>3 DEF NamesShown

LEMMA ReadsProved ==
    ASSUME graph \in Graphs, Shows(t, graph), mode \in {"catalog", "rows"}
    PROVE  ReadsShowGraph
<1>1. Holds(t, graph, Facts(graph))
  BY DEF Shows
<1>2. ASSUME mode = "catalog" PROVE ClaimsShown /\ NamesShown
  <2>1. t.postings = Posted(graph)
    BY <1>2 DEF Shows, Catalogs
  <2> QED BY <2>1, ClaimsProved, NamesProved
<1> QED BY <1>1, <1>2, ReferrersProved, PagesProved, TextProved, PropertiesProved,
           UuidsProved, TasksProved DEF ReadsShowGraph

-----------------------------------------------------------------------------
(* Scans.                                                                  *)

LEMMA TupleIs ==
    /\ \A a \in Nat : <<a>> \in [1..1 -> Nat]
    /\ \A a, b \in Nat : <<a, b>> \in [1..2 -> Nat]
    /\ \A a, b, c \in Nat : <<a, b, c>> \in [1..3 -> Nat]
OBVIOUS

LEMMA FactNumbers ==
    ASSUME NEW g \in Graphs, NEW f \in Facts(g)
    PROVE  /\ f[1] \in Nat /\ f[2][1] \in Nat /\ f[2][2] \in Nat
           /\ Said(g, f).names \subseteq Nat /\ Said(g, f).claims \subseteq Nat
           /\ Said(g, f).properties \subseteq Nat
<1>1. Said(g, f).names \cup Said(g, f).claims \cup Said(g, f).properties \subseteq Nat
  BY GraphIs
<1>2. f[1] \in Live(g) /\ f[1] \in Nat
  BY FactIs, GraphIs
<1>3. CASE f[2] = Page(f[1])
  BY <1>1, <1>2, <1>3 DEF Page
<1>4. CASE f[2] # Page(f[1])
  <2>1. f[2][1] = 1 /\ f[2][2] \in DOMAIN g[f[1]].blocks
    BY <1>4, KindsAre
  <2>2. DOMAIN g[f[1]].blocks \subseteq Nat
    BY <1>2, GraphIs
  <2> QED BY <1>1, <1>2, <2>1, <2>2
<1> QED BY <1>3, <1>4

\* The numbers in the rows.
LEMMA NumbersIn ==
    ASSUME NEW u, NEW g \in Graphs, Shows(u, g), mode \in {"catalog", "rows"}
    PROVE  /\ \A r \in u.pages : r.id \in Nat /\ r.path \in Nat
           /\ \A r \in u.properties :
                 r.page \in Nat /\ r.owner[1] \in Nat /\ r.owner[2] \in Nat /\ r.name \in Nat
           /\ \A r \in u.tasks : r.page \in Nat /\ r.block \in Nat
           /\ \A r \in u.owners : r.page \in Nat
           /\ \A r \in u.postings :
                 r.page \in Nat /\ r.source[1] \in Nat /\ r.source[2] \in Nat /\ r.value \in Nat
           /\ \A r \in u.aliases : r.page \in Nat /\ r.alias \in Nat
<1>0. Holds(u, g, Facts(g))
  BY DEF Shows
<1>1. ASSUME NEW r \in u.pages PROVE r.path \in Nat /\ r.id \in Nat
  <2>1. PICK f \in Facts(g) : r = [id |-> f[1], path |-> g[f[1]].path]
    BY <1>0 DEF PageRows, Holds
  <2>2. f[1] \in Live(g)
    BY FactIs
  <2>3. f[1] \in Nat /\ g[f[1]].path \in Nat
    BY <2>2, GraphIs
  <2> QED BY <2>1, <2>3
<1>2. ASSUME NEW r \in u.properties
      PROVE  r.page \in Nat /\ r.owner[1] \in Nat /\ r.owner[2] \in Nat /\ r.name \in Nat
  <2> DEFINE f == <<r.page, r.owner>>
  <2>1. f \in Facts(g) /\ r.name \in Said(g, f).properties
    BY <1>0, PropertyRowsAre
  <2>2. f[1] = r.page /\ f[2] = r.owner
    OBVIOUS
  <2> HIDE DEF f
  <2>3. f[1] \in Nat /\ f[2][1] \in Nat /\ f[2][2] \in Nat /\ Said(g, f).properties \subseteq Nat
    BY <2>1, FactNumbers
  <2> QED BY <2>1, <2>2, <2>3
<1>3. ASSUME NEW r \in u.tasks PROVE r.page \in Nat /\ r.block \in Nat
  <2>1. PICK f \in Facts(g) : f[2] = Block(r.block) /\ f[1] = r.page
    BY <1>0, TaskRowsAre
  <2>2. f[1] \in Nat /\ f[2][2] \in Nat
    BY FactNumbers
  <2> QED BY <2>1, <2>2 DEF Block
<1>4. ASSUME NEW r \in u.owners PROVE r.page \in Nat
  <2> DEFINE f == <<r.page, r.entity>>
  <2>1. f \in Facts(g) /\ f[1] = r.page
    BY <1>0 DEF Holds, Indexed, IsOwner
  <2> HIDE DEF f
  <2>2. f[1] \in Nat
    BY <2>1, FactNumbers
  <2> QED BY <2>1, <2>2
<1>5. ASSUME NEW r \in u.postings
      PROVE  r.page \in Nat /\ r.source[1] \in Nat /\ r.source[2] \in Nat /\ r.value \in Nat
  <2>1. r \in Posted(g)
    BY DEF Shows, NoCatalog, Catalogs
  <2>2. PICK f \in Facts(g) : \E v \in Said(g, f).names \cup Said(g, f).claims :
            \/ r = NamePosting(f, v) /\ v \in Said(g, f).names
            \/ r = UuidPosting(f, v) /\ v \in Said(g, f).claims
    BY <2>1, PostingsAre
  <2>3. PICK v \in Said(g, f).names \cup Said(g, f).claims :
            r = NamePosting(f, v) \/ r = UuidPosting(f, v)
    BY <2>2
  <2>4. r.page = f[1] /\ r.source = f[2] /\ r.value = v
    BY <2>3 DEF NamePosting, UuidPosting
  <2>5. /\ f[1] \in Nat /\ f[2][1] \in Nat /\ f[2][2] \in Nat
        /\ Said(g, f).names \subseteq Nat /\ Said(g, f).claims \subseteq Nat
    BY FactNumbers
  <2> QED BY <2>3, <2>4, <2>5
<1>6. ASSUME NEW r \in u.aliases PROVE r.page \in Nat /\ r.alias \in Nat
  <2>1. r \in Declared(g)
    BY DEF Shows, NoCatalog, Catalogs
  <2>2. Declares(Declared(g), g, Live(g))
    BY DeclaredIs DEF Declared
  <2>3. r.page \in Live(g) /\ r.alias \in g[r.page].aliases
    BY <2>1, <2>2 DEF Declares
  <2>4. r.page \in Nat /\ g[r.page].aliases \subseteq Nat
    BY <2>3, GraphIs
  <2> QED BY <2>3, <2>4
<1> QED BY <1>1, <1>2, <1>3, <1>4, <1>5, <1>6

LEMMA RowsAre ==
    ASSUME NEW u, NEW g \in Graphs, Shows(u, g), mode \in {"catalog", "rows"}, NEW query \in Queries
    PROVE  Rows(u, query) \subseteq Tuples(query)
<1>n. /\ \A r \in u.pages : r.id \in Nat /\ r.path \in Nat
      /\ \A r \in u.properties :
            r.page \in Nat /\ r.owner[1] \in Nat /\ r.owner[2] \in Nat /\ r.name \in Nat
      /\ \A r \in u.tasks : r.page \in Nat /\ r.block \in Nat
      /\ \A r \in u.owners : r.page \in Nat
      /\ \A r \in u.postings :
            r.page \in Nat /\ r.source[1] \in Nat /\ r.source[2] \in Nat /\ r.value \in Nat
      /\ \A r \in u.aliases : r.page \in Nat /\ r.alias \in Nat
  BY NumbersIn
<1>p. \A p : PathOf(u, p) \subseteq Nat
  BY <1>n DEF PathOf
<1>1. PageInventory(u) \subseteq [1..2 -> Nat]
  <2>1. \A r \in u.pages : <<r.path, r.id>> \in [1..2 -> Nat]
    BY <1>n, TupleIs
  <2> QED BY <2>1 DEF PageInventory
<1>2. NavigationAliases(u) \subseteq [1..3 -> Nat]
  <2>1. ASSUME NEW d \in u.aliases, NEW path \in PathOf(u, d.page)
        PROVE  <<path, d.alias, d.page>> \in [1..3 -> Nat]
    <3>1. path \in Nat /\ d.alias \in Nat /\ d.page \in Nat
      BY <1>n, <1>p
    <3> QED BY <3>1, TupleIs
  <2> QED BY <2>1 DEF NavigationAliases
<1>3. ReferenceNames(u) \subseteq [1..3 -> Nat]
  <2>1. ASSUME NEW r \in u.postings, NEW path \in PathOf(u, r.page)
        PROVE  <<path, r.value, r.page>> \in [1..3 -> Nat]
    <3>1. path \in Nat /\ r.value \in Nat /\ r.page \in Nat
      BY <1>n, <1>p
    <3> QED BY <3>1, TupleIs
  <2> QED BY <2>1 DEF ReferenceNames
<1>4. ReferenceCounts(u) \subseteq [1..1 -> Nat]
  <2>1. \A r \in u.postings : <<r.value>> \in [1..1 -> Nat]
    BY <1>n, TupleIs
  <2> QED BY <2>1 DEF ReferenceCounts
<1>5. BlockReferrers(u, query.of) \subseteq [1..2 -> Nat]
  <2>1. \A r \in u.postings : <<r.page, r.source[2]>> \in [1..2 -> Nat]
    BY <1>n, TupleIs
  <2> QED BY <2>1 DEF BlockReferrers
<1>6. PageReferrers(u, query.of) \subseteq [1..3 -> Nat]
  <2>1. \A r \in u.postings : <<r.page, r.source[1], r.source[2]>> \in [1..3 -> Nat]
    BY <1>n, TupleIs
  <2> QED BY <2>1 DEF PageReferrers
<1>7. PlainText(u, query.of) \subseteq [1..1 -> Nat]
  <2>1. \A o \in u.owners : <<o.page>> \in [1..1 -> Nat]
    BY <1>n, TupleIs
  <2> QED BY <2>1 DEF PlainText
<1>8. BlockProperties(u, query.of) \subseteq [1..2 -> Nat]
  <2>1. \A r \in u.properties : <<r.page, r.owner[2]>> \in [1..2 -> Nat]
    BY <1>n, TupleIs
  <2> QED BY <2>1 DEF BlockProperties
<1>9. PropertyFacets(u) \subseteq [1..3 -> Nat]
  <2>1. \A r \in u.properties : <<r.owner[1], r.owner[2], r.name>> \in [1..3 -> Nat]
    BY <1>n, TupleIs
  <2> QED BY <2>1 DEF PropertyFacets
<1>10. TaskPages(u, query.of) \subseteq [1..1 -> Nat]
  <2>1. \A r \in u.tasks : <<r.page>> \in [1..1 -> Nat]
    BY <1>n, TupleIs
  <2> QED BY <2>1 DEF TaskPages
<1>11. TaskBlocks(u, query.of) \subseteq [1..2 -> Nat]
  <2>1. \A r \in u.tasks : <<r.page, r.block>> \in [1..2 -> Nat]
    BY <1>n, TupleIs
  <2> QED BY <2>1 DEF TaskBlocks
<1>12. query.read \in Reads
  BY QueryAssumption
<1>13. /\ query.read = "pages" => Rows(u, query) = PageInventory(u) /\ Tuples(query) = [1..2 -> Nat]
       /\ query.read = "aliases" => Rows(u, query) = NavigationAliases(u) /\ Tuples(query) = [1..3 -> Nat]
       /\ query.read = "names" => Rows(u, query) = ReferenceNames(u) /\ Tuples(query) = [1..3 -> Nat]
       /\ query.read = "counts" => Rows(u, query) = ReferenceCounts(u) /\ Tuples(query) = [1..1 -> Nat]
       /\ query.read = "blockReferrers" =>
             Rows(u, query) = BlockReferrers(u, query.of) /\ Tuples(query) = [1..2 -> Nat]
       /\ query.read = "pageReferrers" =>
             Rows(u, query) = PageReferrers(u, query.of) /\ Tuples(query) = [1..3 -> Nat]
  BY DEF Rows, Tuples, Width
<1>14. /\ query.read = "plainText" =>
              Rows(u, query) = PlainText(u, query.of) /\ Tuples(query) = [1..1 -> Nat]
       /\ query.read = "blockProperties" =>
             Rows(u, query) = BlockProperties(u, query.of) /\ Tuples(query) = [1..2 -> Nat]
       /\ query.read = "facets" => Rows(u, query) = PropertyFacets(u) /\ Tuples(query) = [1..3 -> Nat]
       /\ query.read = "taskPages" =>
             Rows(u, query) = TaskPages(u, query.of) /\ Tuples(query) = [1..1 -> Nat]
       /\ query.read = "taskBlocks" =>
             Rows(u, query) = TaskBlocks(u, query.of) /\ Tuples(query) = [1..2 -> Nat]
  BY DEF Rows, Tuples, Width
<1> QED BY <1>1, <1>2, <1>3, <1>4, <1>5, <1>6, <1>7, <1>8, <1>9, <1>10, <1>11, <1>12, <1>13,
           <1>14 DEF Reads

LEMMA LessTransitive ==
    ASSUME NEW n \in Nat, NEW a \in [1..n -> Nat], NEW b \in [1..n -> Nat], NEW c \in [1..n -> Nat],
           Less(a, b), Less(b, c)
    PROVE  Less(a, c)
<1>1. PICK i \in 1..n : a[i] < b[i] /\ \A j \in 1..(i - 1) : a[j] = b[j]
  BY DEF Less
<1>2. PICK k \in 1..n : b[k] < c[k] /\ \A j \in 1..(k - 1) : b[j] = c[j]
  BY DEF Less
<1>3. CASE i < k
  <2>1. b[i] = c[i]
    BY <1>2, <1>3
  <2>2. \A j \in 1..(i - 1) : a[j] = c[j]
    BY <1>1, <1>2, <1>3
  <2> QED BY <1>1, <2>1, <2>2 DEF Less
<1>4. CASE k < i
  <2>1. a[k] = b[k]
    BY <1>1, <1>4
  <2>2. \A j \in 1..(k - 1) : a[j] = c[j]
    BY <1>1, <1>2, <1>4
  <2> QED BY <1>2, <2>1, <2>2 DEF Less
<1>5. CASE i = k
  <2>1. a[i] \in Nat /\ b[i] \in Nat /\ c[i] \in Nat
    OBVIOUS
  <2>2. a[i] < c[i]
    BY <1>1, <1>2, <1>5, <2>1
  <2>3. \A j \in 1..(i - 1) : a[j] = c[j]
    BY <1>1, <1>2, <1>5
  <2> QED BY <2>2, <2>3 DEF Less
<1> QED BY <1>3, <1>4, <1>5

\* The tuples that agree so far: those least in the next component.
Narrower(T, S, k) ==
    /\ T \subseteq S /\ T # {}
    /\ \A x \in T, y \in T : x[k] = y[k]
    /\ \A x \in T, y \in S \ T : x[k] < y[k]

LEMMA Narrows ==
    ASSUME NEW n \in Nat, NEW k \in 1..n, NEW S, S \subseteq [1..n -> Nat], S # {}
    PROVE  \E T : Narrower(T, S, k)
<1> DEFINE values == {x[k] : x \in S}
<1>1. values \subseteq Nat /\ values # {}
  OBVIOUS
<1>2. PICK m \in values : \A v \in values : m <= v
  <2> HIDE DEF values
  <2> QED BY <1>1, LeastExists
<1> DEFINE T == {x \in S : x[k] = m}
<1>3. T # {}
  BY <1>2
<1>4. ASSUME NEW y \in S \ T PROVE m < y[k]
  <2>1. y[k] \in values /\ y[k] # m /\ m \in Nat /\ y[k] \in Nat
    BY <1>1, <1>2, <1>4
  <2>2. m <= y[k]
    BY <1>2, <2>1
  <2> QED BY <2>1, <2>2
<1>5. \A x \in T, y \in S \ T : x[k] < y[k]
  BY <1>4
<1>6. Narrower(T, S, k)
  BY <1>3, <1>5 DEF Narrower
<1> HIDE DEF T
<1> QED BY <1>6

LEMMA FirstExists ==
    ASSUME NEW n \in 1..3, NEW S, S \subseteq [1..n -> Nat], S # {}
    PROVE  \E r \in S : \A x \in S : x = r \/ Less(r, x)
<1>0. n \in Nat
  OBVIOUS
<1>1. PICK A : Narrower(A, S, 1)
  <2>1. 1 \in 1..n
    OBVIOUS
  <2> QED BY <1>0, <2>1, Narrows
<1>a. ASSUME NEW r \in A, NEW x \in S \ A PROVE Less(r, x)
  <2>1. DOMAIN r = 1..n
    BY <1>1 DEF Narrower
  <2> QED BY <1>1, <2>1 DEF Less, Narrower
<1>2. CASE n = 1
  <2>1. PICK r : r \in A
    BY <1>1 DEF Narrower
  <2>2. \A x \in A : x = r
    BY <1>1, <1>2, <2>1 DEF Narrower
  <2> QED BY <1>1, <1>a, <2>1, <2>2 DEF Narrower
<1>3. CASE n # 1
  <2>1. PICK B : Narrower(B, A, 2)
    <3>1. 2 \in 1..n /\ A \subseteq [1..n -> Nat] /\ A # {}
      BY <1>1, <1>3 DEF Narrower
    <3> QED BY <1>0, <1>1, <3>1, Narrows
  <2>a. ASSUME NEW r \in B, NEW x \in A \ B PROVE Less(r, x)
    <3>1. DOMAIN r = 1..n /\ 2 \in DOMAIN r
      BY <1>1, <1>3, <2>1 DEF Narrower
    <3>2. r[2] < x[2] /\ \A j \in 1..(2 - 1) : r[j] = x[j]
      BY <1>1, <2>1 DEF Narrower
    <3> QED BY <3>1, <3>2 DEF Less
  <2>2. CASE n = 2
    <3>1. PICK r : r \in B
      BY <2>1 DEF Narrower
    <3>2. \A x \in B : x = r
      BY <1>1, <2>1, <2>2, <3>1 DEF Narrower
    <3> QED BY <1>1, <1>a, <2>1, <2>a, <3>1, <3>2 DEF Narrower
  <2>3. CASE n = 3
    <3>1. PICK C : Narrower(C, B, 3)
      <4>1. 3 \in 1..n /\ B \subseteq [1..n -> Nat] /\ B # {}
        BY <1>1, <2>1, <2>3 DEF Narrower
      <4> QED BY <1>0, <2>1, <4>1, Narrows
    <3>a. ASSUME NEW r \in C, NEW x \in B \ C PROVE Less(r, x)
      <4>1. DOMAIN r = 1..n /\ 3 \in DOMAIN r
        BY <1>1, <2>1, <2>3, <3>1 DEF Narrower
      <4>2. r[3] < x[3] /\ \A j \in 1..(3 - 1) : r[j] = x[j]
        BY <1>1, <2>1, <3>1 DEF Narrower
      <4> QED BY <4>1, <4>2 DEF Less
    <3>2. PICK r : r \in C
      BY <3>1 DEF Narrower
    <3>3. \A x \in C : x = r
      BY <1>1, <2>1, <2>3, <3>1, <3>2 DEF Narrower
    <3> QED BY <1>1, <1>a, <2>1, <2>a, <3>1, <3>a, <3>2, <3>3 DEF Narrower
  <2> QED BY <1>3, <2>2, <2>3
<1> QED BY <1>2, <1>3

LEMMA FirstIs ==
    ASSUME NEW rows
    PROVE  First(rows, 1) =
               IF rows = {} THEN <<>>
               ELSE <<CHOOSE r \in rows : \A x \in rows : x = r \/ Less(r, x)>>
<1> DEFINE Behind(s) == {r \in rows : \A i \in DOMAIN s : Less(s[i], r)}
           Step(s) == IF Behind(s) = {} THEN s
                      ELSE Append(s, CHOOSE r \in Behind(s) : \A x \in Behind(s) : x = r \/ Less(r, x))
           Solves(f) == f = [i \in 0..1 |-> IF i = 0 THEN <<>> ELSE Step(f[i - 1])]
           made == [i \in 0..1 |-> IF i = 0 THEN <<>> ELSE Step(<<>>)]
<1>1. Solves(made)
  <2> HIDE DEF Step
  <2> QED OBVIOUS
<1> DEFINE upto == CHOOSE f : Solves(f)
<1>2. Solves(upto)
  <2> HIDE DEF Solves, made
  <2> QED BY <1>1
<1>3. First(rows, 1) = upto[1]
  BY DEF First
<1> HIDE DEF upto
<1>4. upto[1] = Step(<<>>)
  <2> HIDE DEF Step
  <2>1. upto[0] = <<>>
    BY <1>2
  <2>2. upto[1] = Step(upto[0])
    BY <1>2
  <2> QED BY <2>1, <2>2
<1>5. Behind(<<>>) = rows
  OBVIOUS
<1>6. \A r : Append(<<>>, r) = <<r>>
  OBVIOUS
<1> HIDE DEF Behind
<1> QED BY <1>3, <1>4, <1>5, <1>6

\* One row is fetched: the least behind the cursor.
LEMMA FetchedIs ==
    ASSUME NEW query \in Queries, NEW u, Rows(u, query) \subseteq Tuples(query), NEW cursor
    PROVE  LET behind == {r \in Rows(u, query) : Beyond(cursor, r)}
               got == PageAfter(u, query, cursor, 1)
           IN  \/ behind = {} /\ got = <<>>
               \/ \E r \in behind : got = <<r>> /\ \A x \in behind : x = r \/ Less(r, x)
<1> DEFINE behind == {r \in Rows(u, query) : Beyond(cursor, r)}
           n == Width(query)
<1>1. PageAfter(u, query, cursor, 1) = First(behind, 1)
  BY DEF PageAfter, Beyond
<1>2. behind \subseteq [1..n -> Nat]
  BY DEF Tuples
<1>3. n \in 1..3
  BY DEF Width
<1> HIDE DEF behind, n
<1>4. CASE behind = {}
  BY <1>1, <1>4, FirstIs DEF behind
<1>5. CASE behind # {}
  <2> DEFINE r == CHOOSE y \in behind : \A x \in behind : x = y \/ Less(y, x)
  <2>1. r \in behind /\ \A x \in behind : x = r \/ Less(r, x)
    BY <1>2, <1>3, <1>5, FirstExists
  <2>2. First(behind, 1) = <<r>>
    BY <1>5, FirstIs
  <2> HIDE DEF r
  <2> QED BY <1>1, <2>1, <2>2 DEF behind
<1> QED BY <1>4, <1>5

-----------------------------------------------------------------------------
(* The invariant.                                                          *)

LEMMA NoPagesShown ==
    ASSUME mode \in {"catalog", "rows"}
    PROVE  NoPages \in Graphs /\ Shows(Empty, NoPages) /\ Sources(NoPages) = 0
<1>1. Live(NoPages) = {}
  BY DEF Live, NoPages
<1>2. Facts(NoPages) = {}
  BY <1>1 DEF Facts
<1>3. NoPages \in Graphs
  <2>1. NoPages \in [Pages -> (UNION {Contents[p] : p \in Pages}) \cup {Absent}]
    BY DEF NoPages
  <2>2. WellFormed(NoPages)
    BY <1>1 DEF WellFormed
  <2> QED BY <1>1, <2>1, <2>2 DEF Graphs
<1>4. Holds(Empty, NoPages, Facts(NoPages)) /\ NoCatalog(Empty)
  BY <1>2, EmptyIs
<1>5. Catalogs(Empty, NoPages)
  <2>1. AliasesOf(NoPages) = {} /\ Posted(NoPages) = {} /\ Declared(NoPages) = {}
    BY <1>1 DEF AliasesOf, Posted, Declared
  <2>2. Empty.bindings = [a \in {} |-> Sorted(Declaring(NoPages, a))]
    BY <1>4 DEF NoCatalog
  <2> QED BY <1>1, <1>4, <2>1, <2>2 DEF Catalogs, NoCatalog
<1>6. Sources(NoPages) = 0
  BY <1>1, FS_EmptySet DEF Sources
<1> QED BY <1>3, <1>4, <1>5, <1>6 DEF Shows

Scanning ==
    /\ IsReader
    /\ reader.query = None => reader = NotReading
    /\ reader.query # None => Scans

\* A scan goes on in what is committed.
LEMMA FollowIs ==
    ASSUME Scanning, mode \in {"catalog", "rows"}, graph' \in Graphs, Shows(t', graph'),
           reader' = Follow(t')
    PROVE  Scanning' /\ reader'.query = reader.query
<1>1. CASE reader.query = None
  <2>1. reader' = reader
    BY <1>1 DEF Follow
  <2> QED BY <1>1, <2>1 DEF Scanning, IsReader
<1>2. CASE reader.query # None
  <2> DEFINE q == reader.query
             now == Rows(t', q)
  <2>0. Scans /\ IsReader
    BY <1>2 DEF Scanning
  <2>1. reader' = [reader EXCEPT !.always = @ \cap now, !.ever = @ \cup now]
    BY <1>2 DEF Follow
  <2>2. now \subseteq Tuples(q)
    BY <2>0, RowsAre DEF Scans
  <2>3. Rows(t, q)' = Rows(t', q')
    OBVIOUS
  <2> HIDE DEF now
  <2>4. /\ IsReader' /\ reader'.query = reader.query /\ reader'.got = reader.got
        /\ reader'.after = reader.after /\ reader'.done = reader.done
        /\ reader'.always = reader.always \cap now /\ reader'.ever = reader.ever \cup now
    BY <2>0, <2>1 DEF IsReader
  <2>5. Rows(t', reader'.query) = now
    BY <2>4 DEF now
  <2>6. reader.got \in Seq(reader.ever \cup now)
    BY <2>0 DEF Scans
  <2>7. Scans'
    BY <2>0, <2>2, <2>4, <2>5, <2>6 DEF Scans
  <2> QED BY <1>2, <2>4, <2>7 DEF Scanning
<1> QED BY <1>1, <1>2

LEMMA OpenIs ==
    ASSUME Scanning, mode \in {"catalog", "rows"}, graph \in Graphs, Shows(t, graph),
           NEW query \in Queries, OpenScan(query)
    PROVE  Scanning' /\ reader'.query # None
<1> DEFINE now == Rows(t, query)
<1>1. reader = NotReading
  BY DEF OpenScan, Scanning
<1>2. reader' = [NotReading EXCEPT !.view = graph, !.query = query, !.always = now, !.ever = now]
  BY <1>1 DEF OpenScan
<1>3. now \subseteq Tuples(query)
  BY RowsAre
<1>4. t' = t
  BY DEF OpenScan
<1> HIDE DEF now
<1>5. /\ IsReader' /\ reader'.query = query /\ reader'.got = <<>> /\ reader'.after = None
      /\ reader'.done = FALSE /\ reader'.always = now /\ reader'.ever = now
  BY <1>2 DEF NotReading, IsReader
<1>6. Rows(t', reader'.query) = now
  BY <1>4, <1>5 DEF now
<1>7. query # None
  BY QueryAssumption
<1>8. <<>> \in Seq(now) /\ Ascending(<<>>)
  BY DEF Ascending
<1>9. Scans'
  BY <1>3, <1>5, <1>6, <1>8 DEF Scans, Beyond
<1> QED BY <1>5, <1>7, <1>9 DEF Scanning

LEMMA ExtendIs ==
    ASSUME NEW S, NEW s \in Seq(S)
    PROVE  /\ s \o <<>> = s /\ Len(s) \in Nat
           /\ \A i \in 1..Len(s) : s[i] \in S
OBVIOUS

Extended(longer, s, r) ==
    /\ longer # <<>> /\ Len(longer) = Len(s) + 1
    /\ \A i \in 1..Len(s) : longer[i] = s[i]
    /\ longer[Len(s) + 1] = r

LEMMA ExtendedIs ==
    ASSUME NEW S, NEW s \in Seq(S), NEW r \in S
    PROVE  s \o <<r>> \in Seq(S) /\ Extended(s \o <<r>>, s, r)
BY DEF Extended

LEMMA FetchIs ==
    ASSUME Scanning, mode \in {"catalog", "rows"}, graph \in Graphs, Shows(t, graph), Fetch
    PROVE  Scanning' /\ reader'.query = reader.query
<1> DEFINE q == reader.query
           behind == {r \in Rows(t, q) : Beyond(reader.after, r)}
           fetched == PageAfter(t, q, reader.after, 1)
           n == Width(q)
<1>0. /\ Scans /\ IsReader /\ q # None
  BY DEF Fetch, Scanning
<1>1. /\ q \in Queries /\ reader.always \subseteq Rows(t, q) /\ Rows(t, q) \subseteq reader.ever
      /\ reader.ever \subseteq Tuples(q) /\ reader.got \in Seq(reader.ever) /\ Ascending(reader.got)
      /\ reader.after = IF reader.got = <<>> THEN None ELSE Last(reader.got)
      /\ \A r \in reader.always : ~ Beyond(reader.after, r) =>
            \E i \in 1..Len(reader.got) : reader.got[i] = r
  BY <1>0 DEF Scans
<1>2. /\ t' = t
      /\ reader' = [reader EXCEPT !.batch = fetched, !.got = @ \o fetched,
                        !.after = IF fetched = <<>> THEN @ ELSE Last(fetched),
                        !.done = fetched = <<>>]
  BY DEF Fetch
<1>3. \/ behind = {} /\ fetched = <<>>
      \/ \E r \in behind : fetched = <<r>> /\ \A x \in behind : x = r \/ Less(r, x)
  BY <1>1, RowsAre, FetchedIs
<1>4. /\ IsReader' /\ reader'.query = q /\ reader'.got = reader.got \o fetched
      /\ reader'.after = IF fetched = <<>> THEN reader.after ELSE Last(fetched)
      /\ reader'.done = (fetched = <<>>)
      /\ reader'.always = reader.always /\ reader'.ever = reader.ever
  <2> HIDE DEF fetched
  <2> QED BY <1>0, <1>2 DEF IsReader
<1>5. Rows(t', reader'.query) = Rows(t, q)
  BY <1>2, <1>4
<1> HIDE DEF behind, fetched, n
<1>6. CASE behind = {} /\ fetched = <<>>
  <2>1. reader'.got = reader.got /\ reader'.after = reader.after /\ reader'.done = TRUE
    <3>1. reader.got \o <<>> = reader.got
      BY <1>1, ExtendIs
    <3> QED BY <1>4, <1>6, <3>1
  <2>2. \A r \in reader.always : ~ Beyond(reader.after, r)
    BY <1>1, <1>6 DEF behind
  <2>3. Scans'
    <3> HIDE DEF q
    <3> QED BY <1>1, <1>4, <1>5, <2>1, <2>2 DEF Scans
  <2> QED BY <1>0, <1>4, <2>3 DEF Scanning
<1>7. CASE \E r \in behind : fetched = <<r>> /\ \A x \in behind : x = r \/ Less(r, x)
  <2>1. PICK r \in behind : fetched = <<r>> /\ \A x \in behind : x = r \/ Less(r, x)
    BY <1>7
  <2> DEFINE got == reader.got \o <<r>>
             m == Len(reader.got)
  <2>2. r \in Rows(t, q) /\ r \in reader.ever /\ Beyond(reader.after, r)
    BY <1>1 DEF behind
  <2>3. n \in Nat /\ r \in [1..n -> Nat] /\ \A x \in reader.ever : x \in [1..n -> Nat]
    BY <1>1, <2>2 DEF Tuples, n, Width
  <2>4. r # None
    <3>1. r \in Seq(Nat)
      BY <2>3
    <3> QED BY <3>1, QueryAssumption
  <2>5. /\ got \in Seq(reader.ever) /\ got # <<>> /\ m \in Nat /\ Len(got) = m + 1
        /\ \A i \in 1..m : got[i] = reader.got[i] /\ reader.got[i] \in reader.ever
        /\ got[m + 1] = r /\ Last(got) = r
    <3>1. /\ m \in Nat /\ \A i \in 1..m : reader.got[i] \in reader.ever
      BY <1>1, ExtendIs
    <3>2. /\ got \in Seq(reader.ever) /\ got # <<>> /\ Len(got) = m + 1
          /\ \A i \in 1..m : got[i] = reader.got[i]
          /\ got[m + 1] = r
      <4>1. got \in Seq(reader.ever) /\ Extended(got, reader.got, r)
        BY <1>1, <2>2, ExtendedIs
      <4> HIDE DEF got
      <4> QED BY <4>1 DEF Extended
    <3> HIDE DEF got, m
    <3> QED BY <3>1, <3>2 DEF Last
  <2>6. reader'.got = got /\ reader'.after = r /\ reader'.done = FALSE
    BY <1>4, <2>1 DEF Last
  <2>7. Ascending(got)
    <3>1. ASSUME NEW i \in 1..m PROVE Less(reader.got[i], r)
      <4>1. reader.got # <<>> /\ reader.after = reader.got[m] /\ m \in 1..m
        BY <1>1, <2>5 DEF Last
      <4>2. reader.got[m] \in reader.ever /\ reader.got[i] \in reader.ever
        BY <2>5, <4>1
      <4>3. reader.after # None
        <5>1. reader.after \in [1..n -> Nat]
          BY <2>3, <4>1, <4>2
        <5>2. reader.after \in Seq(Nat)
          BY <2>3, <5>1
        <5> QED BY <5>2, QueryAssumption
      <4>4. Less(reader.got[m], r)
        BY <2>2, <4>1, <4>3 DEF Beyond
      <4>5. CASE i = m
        BY <4>4, <4>5
      <4>6. CASE i # m
        <5>1. Less(reader.got[i], reader.got[m])
          BY <1>1, <2>5, <4>1, <4>6 DEF Ascending
        <5> QED BY <2>3, <4>2, <4>4, <5>1, LessTransitive
      <4> QED BY <4>5, <4>6
    <3>2. ASSUME NEW i \in 1..Len(got), NEW j \in 1..Len(got), i < j PROVE Less(got[i], got[j])
      <4>1. i \in 1..m /\ (j = m + 1 \/ j \in 1..m)
        BY <2>5, <3>2
      <4>2. CASE j = m + 1
        BY <2>5, <3>1, <4>1, <4>2
      <4>3. CASE j \in 1..m
        BY <1>1, <2>5, <3>2, <4>1, <4>3 DEF Ascending
      <4> QED BY <4>1, <4>2, <4>3
    <3> HIDE DEF got
    <3> QED BY <3>2 DEF Ascending
  <2>8. ASSUME NEW x \in reader.always, ~ Beyond(r, x)
        PROVE  \E i \in 1..Len(got) : got[i] = x
    <3>1. CASE Beyond(reader.after, x)
      <4>1. x \in behind
        BY <1>1, <3>1 DEF behind
      <4>2. x = r
        BY <2>1, <2>8, <4>1 DEF Beyond
      <4>3. m + 1 \in 1..Len(got)
        BY <2>5
      <4> QED BY <2>5, <4>2, <4>3
    <3>2. CASE ~ Beyond(reader.after, x)
      <4>1. PICK i \in 1..m : reader.got[i] = x
        BY <1>1, <3>2
      <4>2. i \in 1..Len(got) /\ got[i] = x
        BY <2>5, <4>1
      <4> QED BY <4>2
    <3> QED BY <3>1, <3>2
  <2> HIDE DEF got, m
  <2>9. Scans'
    <3> HIDE DEF q
    <3> QED BY <1>1, <1>4, <1>5, <2>5, <2>6, <2>7, <2>8 DEF Scans
  <2> QED BY <1>0, <1>4, <2>9 DEF Scanning
<1> QED BY <1>3, <1>6, <1>7

-----------------------------------------------------------------------------
(* Every step preserves the invariant.                                     *)

LEMMA InitIInv == Init => IInv
<1> SUFFICES ASSUME Init PROVE IInv
  OBVIOUS
<1>1. /\ mode \in {"catalog", "rows"} /\ phase = "candidate" /\ graph = NoPages /\ t = Empty
      /\ counted = 0 /\ refused = FALSE /\ reader = NotReading
  BY DEF Init
<1>2. NoPages \in Graphs /\ Shows(Empty, NoPages) /\ Sources(NoPages) = 0
  BY <1>1, NoPagesShown
<1>3. IsReader /\ reader.query = None
  BY <1>1 DEF IsReader, NotReading
<1> QED BY <1>1, <1>2, <1>3 DEF IInv

Database ==
    /\ mode \in {"catalog", "rows"} /\ phase \in {"candidate", "live"}
    /\ graph \in Graphs /\ Shows(t, graph) /\ refused = FALSE
    /\ phase = "candidate" => counted = Sources(graph)

LEMMA IInvIs ==
    IInv <=> Database /\ Scanning /\ (phase = "candidate" => reader.query = None)
BY DEF IInv, Database, Scanning

\* What the tables show does not depend on when one looks.
LEMMA LaterIs ==
    ASSUME mode' = mode
    PROVE  (Shows(t, graph))' <=> Shows(t', graph')
BY DEF Shows

LEMMA SourcesLater ==
    ASSUME mode' = mode
    PROVE  (Sources(graph))' = Sources(graph')
BY DEF Sources

LEMMA ChangeStep ==
    ASSUME Database, Scanning, phase = "candidate" => reader.query = None,
           NEW h \in Graphs, Change(h)
    PROVE  Database' /\ Scanning' /\ (phase' = "candidate" => reader'.query = None)
<1> DEFINE after == Changed(graph, h)
<1>1. Accepted(after, h) /\ Count(after, graph, h) = Sources(h)
  BY ChangeAccepted DEF Database
<1>2. Shows(after, h)
  BY ChangedIs DEF Database
<1>3. /\ refused' = FALSE /\ t' = after /\ graph' = h /\ reader' = Follow(t')
      /\ phase = "candidate" => counted' = Sources(h)
      /\ mode' = mode /\ phase' = phase
  <2> HIDE DEF after
  <2> QED BY <1>1 DEF Change, after
<1> HIDE DEF after
<1>4. Scanning' /\ reader'.query = reader.query
  BY <1>2, <1>3, FollowIs DEF Database
<1>5. (Shows(t, graph))' /\ (Sources(graph))' = Sources(h)
  BY <1>2, <1>3, LaterIs, SourcesLater
<1>6. Database'
  BY <1>3, <1>5 DEF Database
<1> QED BY <1>3, <1>4, <1>6

LEMMA ScanningStays ==
    ASSUME Scanning, reader' = reader, reader.query = None
    PROVE  Scanning' /\ reader'.query = None
<1>1. IsReader' /\ reader'.query = None /\ reader' = NotReading
  BY DEF Scanning, IsReader
<1> QED BY <1>1 DEF Scanning

LEMMA BuildStep ==
    ASSUME Database, Scanning, phase = "candidate" => reader.query = None,
           NEW h \in Graphs, BuildTerminal(h)
    PROVE  Database' /\ Scanning' /\ (phase' = "candidate" => reader'.query = None)
<1>1. /\ phase = "candidate" /\ t' = [Terminal(h) EXCEPT !.stamp = 1] /\ graph' = h
      /\ counted' = Sources(h)
      /\ mode' = mode /\ phase' = phase /\ refused' = refused /\ reader' = reader
  BY DEF BuildTerminal
<1>2. Shows(t', h)
  BY <1>1, TerminalIs, StampedShows
<1>3. (Shows(t, graph))' /\ (Sources(graph))' = Sources(h)
  BY <1>1, <1>2, LaterIs, SourcesLater
<1>4. Database'
  BY <1>1, <1>3 DEF Database
<1>5. Scanning' /\ reader'.query = None
  BY <1>1, ScanningStays
<1> QED BY <1>4, <1>5

LEMMA FinalizeStep ==
    ASSUME Database, Scanning, phase = "candidate" => reader.query = None, FinalizeBootstrap
    PROVE  Database' /\ Scanning' /\ (phase' = "candidate" => reader'.query = None)
<1>1. /\ phase = "candidate" /\ phase' = "live" /\ mode' = mode /\ graph' = graph /\ t' = t
      /\ counted' = counted /\ refused' = refused /\ reader' = reader
  BY DEF FinalizeBootstrap
<1>2. (Shows(t, graph))'
  BY <1>1, LaterIs DEF Database
<1>3. Database'
  BY <1>1, <1>2 DEF Database
<1>4. Scanning' /\ reader'.query = None
  BY <1>1, ScanningStays
<1> QED BY <1>3, <1>4

LEMMA ResetStep ==
    ASSUME Database, Scanning, Reset
    PROVE  Database' /\ Scanning' /\ (phase' = "candidate" => reader'.query = None)
<1> DEFINE n == t.stamp + 1
<1>1. /\ phase = "live" /\ t' = [Empty EXCEPT !.stamp = n] /\ graph' = NoPages
      /\ reader' = Follow(t') /\ mode' = mode /\ phase' = phase /\ refused' = refused
  BY DEF Reset
<1> HIDE DEF n
<1>2. NoPages \in Graphs /\ Shows(Empty, NoPages)
  BY NoPagesShown DEF Database
<1>3. Shows(t', NoPages)
  BY <1>1, <1>2, StampedShows
<1>4. (Shows(t, graph))'
  BY <1>1, <1>3, LaterIs
<1>5. Database'
  BY <1>1, <1>2, <1>4 DEF Database
<1>6. Scanning'
  BY <1>1, <1>2, <1>3, FollowIs DEF Database
<1> QED BY <1>1, <1>5, <1>6

LEMMA DatabaseStays ==
    ASSUME Database, UNCHANGED <<mode, phase, graph, t, counted, refused>>
    PROVE  Database'
<1>1. (Shows(t, graph))' /\ (Sources(graph))' = Sources(graph)
  BY LaterIs, SourcesLater DEF Database
<1> QED BY <1>1 DEF Database

LEMMA NextIInv ==
    ASSUME IInv, [Next]_vars
    PROVE  IInv'
<1>0. Database /\ Scanning /\ (phase = "candidate" => reader.query = None)
  BY IInvIs
<1>1. Database' /\ Scanning' /\ (phase' = "candidate" => reader'.query = None)
  <2>1. ASSUME NEW h \in Graphs, Change(h)
        PROVE  Database' /\ Scanning' /\ (phase' = "candidate" => reader'.query = None)
    BY <1>0, <2>1, ChangeStep
  <2>2. ASSUME NEW h \in Graphs, BuildTerminal(h)
        PROVE  Database' /\ Scanning' /\ (phase' = "candidate" => reader'.query = None)
    BY <1>0, <2>2, BuildStep
  <2>3. CASE FinalizeBootstrap
    BY <1>0, <2>3, FinalizeStep
  <2>4. CASE Reset
    BY <1>0, <2>4, ResetStep
  <2>5. CASE Fetch
    <3>1. UNCHANGED <<mode, phase, graph, t, counted, refused>> /\ reader.query # None
      BY <2>5 DEF Fetch
    <3>2. Scanning' /\ reader'.query = reader.query
      BY <1>0, <2>5, FetchIs DEF Database
    <3>3. Database'
      BY <1>0, <3>1, DatabaseStays
    <3> QED BY <1>0, <3>1, <3>2, <3>3
  <2>6. ASSUME NEW query \in Queries, OpenScan(query)
        PROVE  Database' /\ Scanning' /\ (phase' = "candidate" => reader'.query = None)
    <3>1. UNCHANGED <<mode, phase, graph, t, counted, refused>> /\ phase = "live"
      BY <2>6 DEF OpenScan
    <3>2. Scanning'
      BY <1>0, <2>6, OpenIs DEF Database
    <3>3. Database'
      BY <1>0, <3>1, DatabaseStays
    <3> QED BY <3>1, <3>2, <3>3
  <2>7. CASE UNCHANGED vars
    <3>1. UNCHANGED <<mode, phase, graph, t, counted, refused>> /\ reader' = reader
      BY <2>7 DEF vars
    <3>2. Scanning'
      BY <1>0, <3>1 DEF Scanning, IsReader, Scans
    <3>3. Database'
      BY <1>0, <3>1, DatabaseStays
    <3> QED BY <1>0, <3>1, <3>2, <3>3
  <2> QED BY <2>1, <2>2, <2>3, <2>4, <2>5, <2>6, <2>7 DEF Next
<1>2. IInv' <=> Database' /\ Scanning' /\ (phase' = "candidate" => reader'.query = None)
  BY DEF IInv, Database, Scanning
<1> QED BY <1>1, <1>2

LEMMA AlwaysIInv == Spec => []IInv
<1>1. Init => IInv
  BY InitIInv
<1>2. IInv /\ [Next]_vars => IInv'
  BY NextIInv
<1> QED BY <1>1, <1>2, PTL DEF Spec

-----------------------------------------------------------------------------
(* The properties.                                                         *)

\* The tables after any history are those of one terminal build of the graph
\* (apply_graph_projection_rows and apply_reference_catalog_change against the
\* terminal construction).
THEOREM IncrementalRebuilds == Spec => []IncrementalIsRebuild
<1>1. ASSUME IInv PROVE IncrementalIsRebuild
  <2>1. Shows(t, graph) /\ Shows(Terminal(graph), graph)
    BY <1>1, TerminalIs DEF IInv
  <2> QED BY <2>1, ObservedIs DEF IncrementalIsRebuild
<1>2. IInv => IncrementalIsRebuild
  BY <1>1
<1> QED BY <1>2, AlwaysIInv, PTL

\* No change between two graphs a host may have is refused: no key is taken, the
\* preserved metadata is there, and the coverage count, counted in a live database
\* and carried along by a candidate (CoverageValidation), is the number of pages.
THEOREM NothingRefused == Spec => []ChangesAccepted
<1>1. IInv => ChangesAccepted
  BY DEF IInv, ChangesAccepted
<1> QED BY <1>1, AlwaysIInv, PTL

\* finalize_fresh_bootstrap's proof succeeds on every candidate, and owners and
\* search rows stay paired.
THEOREM BootstrapProven == Spec => []FinalProof
<1>1. IInv => FinalProof
  BY ProofHolds DEF IInv
<1> QED BY <1>1, AlwaysIInv, PTL

\* The reads of one call return what the graph of the last change says.
THEOREM ReadsAnswer == Spec => []ReadsShowGraph
<1>1. IInv => ReadsShowGraph
  BY ReadsProved DEF IInv
<1> QED BY <1>1, AlwaysIInv, PTL

\* A paged scan across commits, for each of the eleven reads: in order, without a
\* duplicate, nothing that was always there is lost.
THEOREM ScansComplete == Spec => []ScanKeepsRows
<1>1. ASSUME IInv PROVE ScanKeepsRows
  <2>1. CASE reader.query = None
    <3>1. reader.got = <<>> /\ reader.done = FALSE
      BY <1>1, <2>1 DEF IInv, NotReading
    <3>2. ToSet(<<>>) = {}
      BY DEF ToSet
    <3> QED BY <3>1, <3>2 DEF ScanKeepsRows
  <2>2. CASE reader.query # None
    <3>1. Scans
      BY <1>1, <2>2 DEF IInv
    <3>2. reader.got \in Seq(reader.ever)
      BY <3>1 DEF Scans
    <3>3. \A x : x \in ToSet(reader.got) <=> \E i \in 1..Len(reader.got) : reader.got[i] = x
      BY <3>2 DEF ToSet
    <3>4. ToSet(reader.got) \subseteq reader.ever
      BY <3>2, <3>3, ExtendIs
    <3>5. reader.done => reader.always \subseteq ToSet(reader.got)
      BY <3>1, <3>3 DEF Scans
    <3> QED BY <3>1, <3>4, <3>5 DEF Scans, Ascending, ScanKeepsRows
  <2> QED BY <2>1, <2>2
<1>2. IInv => ScanKeepsRows
  BY <1>1
<1> QED BY <1>2, AlwaysIInv, PTL

\* Types: what bounds the stamp, the count and the view, and, from the invariant,
\* that every row belongs to a page and no two rows have one key.
Bounded ==
    t.stamp \in 0..MaxChanges /\ counted \in Nat /\ reader.view \in Graphs \cup {None}

LEMMA SourcesNumber ==
    ASSUME NEW g \in Graphs
    PROVE  Sources(g) \in Nat
BY GraphIs, FS_CardinalityType DEF Sources

LEMMA FollowView ==
    ASSUME IsReader, NEW u
    PROVE  Follow(u).view = reader.view
BY DEF Follow, IsReader

LEMMA NextBounded ==
    ASSUME IInv, Bounded, [Next]_vars
    PROVE  Bounded'
<1>0. Database /\ IsReader /\ graph \in Graphs /\ Shows(t, graph)
  BY DEF IInv, Database
<1>1. ASSUME NEW h \in Graphs, Change(h) PROVE Bounded'
  <2> DEFINE after == Changed(graph, h)
  <2>1. Accepted(after, h) /\ Count(after, graph, h) = Sources(h)
    BY <1>0, ChangeAccepted DEF Database
  <2>2. after.stamp = t.stamp + 1
    BY <1>0, ChangedIs
  <2>3. /\ t.stamp < MaxChanges /\ t' = after /\ reader' = Follow(t')
        /\ counted' = Sources(h) \/ counted' = counted
    <3> HIDE DEF after
    <3> QED BY <1>1, <2>1 DEF Change, after
  <2> HIDE DEF after
  <2>4. t'.stamp \in 0..MaxChanges
    BY <2>2, <2>3, BoundAssumption DEF Bounded
  <2>5. reader'.view = reader.view
    BY <1>0, <2>3, FollowView
  <2> QED BY <2>3, <2>4, <2>5, SourcesNumber DEF Bounded
<1>2. ASSUME NEW h \in Graphs, BuildTerminal(h) PROVE Bounded'
  <2>1. /\ MaxChanges > 0 /\ t' = [Terminal(h) EXCEPT !.stamp = 1] /\ counted' = Sources(h)
        /\ reader' = reader
    BY <1>2 DEF BuildTerminal
  <2>2. t'.stamp = 1
    BY <2>1, TerminalIs, StampedShows
  <2> QED BY <2>1, <2>2, SourcesNumber, BoundAssumption DEF Bounded
<1>3. CASE FinalizeBootstrap
  BY <1>3 DEF FinalizeBootstrap, Bounded
<1>4. CASE Reset
  <2> DEFINE n == t.stamp + 1
  <2>1. /\ t.stamp < MaxChanges /\ t' = [Empty EXCEPT !.stamp = n] /\ counted' = counted
        /\ reader' = Follow(t')
    BY <1>4 DEF Reset
  <2>2. n \in 0..MaxChanges
    BY <2>1, BoundAssumption DEF Bounded
  <2> HIDE DEF n
  <2>3. t'.stamp = n
    BY <2>1, <1>0, NoPagesShown, StampedShows DEF Database
  <2>4. reader'.view = reader.view
    BY <1>0, <2>1, FollowView
  <2> QED BY <2>1, <2>2, <2>3, <2>4 DEF Bounded
<1>5. CASE Fetch
  <2>1. reader'.view = reader.view
    BY <1>0, <1>5 DEF Fetch, IsReader
  <2> QED BY <1>5, <2>1 DEF Fetch, Bounded
<1>6. ASSUME NEW query \in Queries, OpenScan(query) PROVE Bounded'
  <2>1. reader'.view = graph
    BY <1>0, <1>6 DEF OpenScan, IsReader
  <2> QED BY <1>0, <1>6, <2>1 DEF OpenScan, Bounded
<1>7. CASE UNCHANGED vars
  BY <1>7 DEF vars, Bounded
<1> QED BY <1>1, <1>2, <1>3, <1>4, <1>5, <1>6, <1>7 DEF Next

LEMMA PagesKnown ==
    ASSUME NEW g \in Graphs, Holds(t, g, Facts(g))
    PROVE  /\ \A f \in Facts(g) : \E p \in t.pages : p.id = f[1]
           /\ \A p \in t.pages, q \in t.pages : p.id = q.id => p = q
<1>0. t.pages = PageRows(g, Facts(g))
  BY DEF Holds
<1>1. ASSUME NEW f \in Facts(g) PROVE \E p \in t.pages : p.id = f[1]
  <2> DEFINE p == f[1]
             e == <<p, Page(p)>>
  <2>1. p \in Live(g)
    BY FactIs
  <2>2. e \in Facts(g) /\ e[1] = p /\ e[2][1] = 0
    BY <2>1, PageFact DEF Page
  <2> HIDE DEF e, p
  <2> DEFINE row == [id |-> e[1], path |-> g[e[1]].path]
  <2>3. row \in t.pages /\ row.id = p
    BY <1>0, <2>2 DEF PageRows
  <2> QED BY <2>3 DEF p
<1>2. ASSUME NEW p \in t.pages, NEW q \in t.pages, p.id = q.id PROVE p = q
  <2>1. p = [id |-> p.id, path |-> g[p.id].path] /\ q = [id |-> q.id, path |-> g[q.id].path]
    BY <1>0 DEF PageRows
  <2> QED BY <1>2, <2>1
<1> QED BY <1>1, <1>2

LEMMA KeysHold ==
    ASSUME IInv, Bounded
    PROVE  TypeOK
<1>0. graph \in Graphs /\ Holds(t, graph, Facts(graph))
  BY DEF IInv, Shows
<1>1. /\ \A f \in Facts(graph) : \E p \in t.pages : p.id = f[1]
      /\ \A p \in t.pages, q \in t.pages : p.id = q.id => p = q
  BY <1>0, PagesKnown
<1>2. ASSUME NEW r \in t.refs PROVE \E p \in t.pages : p.id = r.page
  <2>1. PICK f \in Facts(graph) :
            r \in {[source |-> f[2], page |-> f[1], target |-> x] :
                      x \in Said(graph, f).links \cap Entities(graph)}
    BY <1>0 DEF Holds, RefRows
  <2>2. r.page = f[1]
    BY <2>1
  <2> QED BY <1>1, <2>2
<1>3. ASSUME NEW r \in t.properties PROVE \E p \in t.pages : p.id = r.page
  <2> DEFINE f == <<r.page, r.owner>>
  <2>1. f \in Facts(graph) /\ f[1] = r.page
    BY <1>0, PropertyRowsAre
  <2> HIDE DEF f
  <2> QED BY <1>1, <2>1
<1>4. ASSUME NEW r \in t.tasks PROVE \E p \in t.pages : p.id = r.page
  BY <1>0, <1>1, TaskRowsAre
<1>5. ASSUME NEW r \in t.blocks PROVE \E p \in t.pages : p.id = r.page
  BY <1>0, <1>1, BlockRowsAre
<1>6. ASSUME NEW r \in t.owners PROVE \E p \in t.pages : p.id = r.page
  <2> DEFINE f == <<r.page, r.entity>>
  <2>1. f \in Facts(graph) /\ f[1] = r.page
    BY <1>0 DEF Holds, Indexed, IsOwner
  <2> HIDE DEF f
  <2> QED BY <1>1, <2>1
<1>7. ASSUME NEW b \in t.blocks, NEW c \in t.blocks, b.id = c.id PROVE b = c
  <2>1. PICK f \in Facts(graph) : f[2][1] = 1 /\ b = BlockRow(graph, f)
    BY <1>0 DEF Holds, BlockRows, BlockRow
  <2>2. PICK e \in Facts(graph) : e[2][1] = 1 /\ c = BlockRow(graph, e)
    BY <1>0 DEF Holds, BlockRows, BlockRow
  <2>3. b.id = f[2][2] /\ c.id = e[2][2]
    BY <2>1, <2>2 DEF BlockRow
  <2>4. f[2] = Block(f[2][2]) /\ e[2] = Block(e[2][2])
    BY <2>1, <2>2, KindsAre
  <2>5. f[2] = e[2]
    BY <1>7, <2>3, <2>4
  <2>6. f = e
    BY <1>0, <2>5, OneFact
  <2> QED BY <2>1, <2>2, <2>6
<1>8. \A o \in t.owners, q \in t.owners : o.rowid = q.rowid \/ o.entity = q.entity => o = q
  BY <1>0 DEF Holds, Indexed
<1>9. reader.query \in Queries \cup {None}
  BY DEF IInv, Scans
<1>10. \A r \in t.refs \cup t.properties \cup t.tasks \cup t.blocks \cup t.owners :
          \E p \in t.pages : p.id = r.page
  BY <1>2, <1>3, <1>4, <1>5, <1>6
<1>11. /\ mode \in {"catalog", "rows"} /\ phase \in {"candidate", "live"}
       /\ refused \in BOOLEAN
  BY DEF IInv
<1> QED BY <1>0, <1>1, <1>7, <1>8, <1>9, <1>10, <1>11 DEF TypeOK, Bounded

\* The types: every row belongs to a page of the tables and no two rows of a table
\* have one key, whatever pages and blocks come, go and change places.
THEOREM TypeCorrect == Spec => []TypeOK
<1>1. Init => Bounded
  BY BoundAssumption DEF Init, Bounded, Empty, NotReading
<1>2. IInv /\ Bounded /\ [Next]_vars => Bounded'
  BY NextBounded
<1>3. IInv /\ Bounded => TypeOK
  BY KeysHold
<1> QED BY <1>1, <1>2, <1>3, AlwaysIInv, PTL DEF Spec

=============================================================================
