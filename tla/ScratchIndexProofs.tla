------------------------- MODULE ScratchIndexProofs -------------------------
(***************************************************************************)
(* For any keys, batches, levels, buffer and cache: every read of a root   *)
(* of the scratch index answers with its newest records, or needs a page   *)
(* that was lost, and a lookup session answers the same from its cache.    *)
(***************************************************************************)
EXTENDS ScratchIndex, FiniteSetTheorems, WellFoundedInduction, TLAPS

Roots == [generation : Nat, levels : [1..Levels -> Refs \cup {Empty}]]
Sessions == [root : Roots, map : Maps, cached : Seq(Refs), resident : Nat]

TypeInv ==
    /\ disk \in Seq(Pages \cup {Torn}) /\ pending \in Seq(Pages)
    /\ committed \in Nat /\ Len(pending) <= BufferSize
    /\ roots \subseteq [root : Roots, map : Maps]
    /\ session \in Sessions
    /\ isOpen \in BOOLEAN /\ lost \subseteq Refs /\ faults \in 0..MaxFaults

\* The lower a segment, the younger; and the map of a root is its newest records.
WellMade(r) ==
    /\ \A s \in Segments(r.root) : s.page.generation \in 1..r.root.generation
    /\ \A l, m \in Occupied(r.root) :
          l < m => r.root.levels[l].page.generation > r.root.levels[m].page.generation
    /\ \A k \in Keys : r.map[k] = Record(Segments(r.root), k)

RootInv ==
    /\ [root |-> EmptyRoot, map |-> NothingInserted] \in roots
    /\ \A r \in roots : WellMade(r)

\* A reference that is not lost reads, whatever the handle's length is.
ReadInv == \A r \in roots : \A s \in Segments(r.root) \ lost : Reads(s)

\* The cache holds segments of its root, each once, and its counter is right.
Distinct(c) == \A i, j \in 1..Len(c) : c[i] = c[j] => i = j

CacheOf(s, root) ==
    /\ s.cached \in Seq(Segments(root))
    /\ Distinct(s.cached)
    /\ s.resident = Weight(Range(s.cached))
    /\ s.resident <= Budget /\ Len(s.cached) <= Levels

SessionInv ==
    /\ [root |-> session.root, map |-> session.map] \in roots
    /\ CacheOf(session, session.root)

IInv == TypeInv /\ RootInv /\ ReadInv /\ SessionInv

-----------------------------------------------------------------------------
(* Least and greatest elements, and recursion over a range.                 *)

LEMMA Constants ==
    /\ Levels \in Nat \ {0} /\ BufferSize \in Nat \ {0} /\ Budget \in Nat
    /\ MaxPages \in Nat /\ MaxFaults \in Nat
    /\ Keys \subseteq Int /\ IsFiniteSet(Keys)
BY IndexAssumption

\* Every nonempty set of natural numbers has a least element.
LEMMA LeastExists ==
    ASSUME NEW T, T \subseteq Nat, T # {}
    PROVE  \E x \in T : \A y \in T : x <= y
<1> DEFINE Less == {p \in Nat \X Nat : p[1] < p[2]}
<1>1. IsWellFoundedOn(Less, Nat)
  <2>1. OpToRel(<, Nat) = Less
    BY DEF OpToRel
  <2> QED BY <2>1, NatLessThanWellFounded, Zenon
<1> HIDE DEF Less
<1>2. PICK x \in T : \A y \in T : ~ (<<y, x>> \in Less)
  BY <1>1, WFMin, Zenon
<1>3. \A y \in T : ~ (y < x)
  BY <1>2 DEF Less
<1> QED BY <1>3

LEMMA SmallestNat ==
    ASSUME NEW T, T \subseteq Nat, T # {}
    PROVE  Smallest(T) \in T /\ \A y \in T : Smallest(T) <= y
BY LeastExists DEF Smallest

\* A nonempty finite set of integers has both.
LEMMA BoundsExist ==
    ASSUME NEW D, D \subseteq Int, D # {}, IsFiniteSet(D)
    PROVE  /\ \E x \in D : \A y \in D : x <= y
           /\ \E x \in D : \A y \in D : x >= y
<1> DEFINE Bounded(E) == /\ \E x \in E : \A y \in E : x <= y
                         /\ \E x \in E : \A y \in E : x >= y
           Bad == {E \in FiniteSubsetsOf(D) : E # {} /\ ~ Bounded(E)}
<1>1. ASSUME Bad # {} PROVE FALSE
  <2>1. IsWellFoundedOn(StrictSubsetOrdering(D), FiniteSubsetsOf(D))
    BY FS_StrictSubsetOrderingWellFounded
  <2>2. PICK E \in Bad : \A F \in Bad : ~ (<<F, E>> \in StrictSubsetOrdering(D))
    <3>1. Bad \subseteq FiniteSubsetsOf(D)
      OBVIOUS
    <3> HIDE DEF Bad
    <3> QED BY <1>1, <2>1, <3>1, WFMin, Zenon
  <2>3. PICK x \in E : TRUE
    OBVIOUS
  <2> DEFINE F == E \ {x}
  <2>4. E \subseteq D /\ IsFiniteSet(E) /\ E # {} /\ ~ Bounded(E)
    BY DEF FiniteSubsetsOf
  <2>5. IsFiniteSet(F) /\ F \subseteq D
    BY <2>4, FS_RemoveElement, Zenon
  <2>6. F \in FiniteSubsetsOf(D)
    BY <2>5, Zenon DEF FiniteSubsetsOf
  <2>7. <<F, E>> \in StrictSubsetOrdering(D)
    BY <2>3, <2>4 DEF StrictSubsetOrdering
  <2>8. F = {} \/ Bounded(F)
    BY <2>2, <2>6, <2>7
  <2>9. CASE F = {}
    <3>1. E = {x}
      BY <2>9, <2>3
    <3>2. x \in Int
      BY <2>3, <2>4
    <3>3. Bounded(E)
      BY <3>1, <3>2
    <3> QED BY <3>3, <2>4
  <2>10. CASE Bounded(F)
    <3>1. PICK lo \in F : \A y \in F : lo <= y
      BY <2>10
    <3>2. PICK hi \in F : \A y \in F : hi >= y
      BY <2>10
    <3>3. E \subseteq Int /\ x \in Int /\ lo \in E /\ hi \in E
      BY <2>3, <2>4, <3>1, <3>2
    <3>4. \E z \in E : \A y \in E : z <= y
      <4>1. CASE x <= lo
        <5>1. \A y \in E : x <= y
          BY <4>1, <3>1, <3>3
        <5> QED BY <5>1, <2>3
      <4>2. CASE ~ (x <= lo)
        <5>1. \A y \in E : lo <= y
          BY <4>2, <3>1, <3>3
        <5> QED BY <5>1, <3>3
      <4> QED BY <4>1, <4>2
    <3>5. \E z \in E : \A y \in E : z >= y
      <4>1. CASE x >= hi
        <5>1. \A y \in E : x >= y
          BY <4>1, <3>2, <3>3
        <5> QED BY <5>1, <2>3
      <4>2. CASE ~ (x >= hi)
        <5>1. \A y \in E : hi >= y
          BY <4>2, <3>2, <3>3
        <5> QED BY <5>1, <3>3
      <4> QED BY <4>1, <4>2
    <3> QED BY <3>4, <3>5, <2>4
  <2> QED BY <2>8, <2>9, <2>10
<1>2. D \in FiniteSubsetsOf(D)
  BY Zenon DEF FiniteSubsetsOf
<1> QED BY <1>1, <1>2

LEMMA SmallestIs ==
    ASSUME NEW D, D \subseteq Int, D # {}, IsFiniteSet(D)
    PROVE  Smallest(D) \in D /\ \A y \in D : Smallest(D) <= y
BY BoundsExist DEF Smallest

LEMMA LargestIs ==
    ASSUME NEW D, D \subseteq Int, D # {}, IsFiniteSet(D)
    PROVE  Largest(D) \in D /\ \A y \in D : Largest(D) >= y
BY BoundsExist DEF Largest

\* A step applied to 0, 1, 2... stays in the set it maps to itself.
Chains(N, S) == [0..N -> S]
Steps(N, S) == [(1..N) \X S -> S]
Follows(f, N, base, step) == f[0] = base /\ \A n \in 1..N : f[n] = step[<<n, f[n - 1]>>]

LEMMA RecursionExists ==
    ASSUME NEW N \in Nat, NEW S, NEW base \in S, NEW step \in Steps(N, S)
    PROVE  \E f \in Chains(N, S) : Follows(f, N, base, step)
<1> USE DEF Chains, Steps, Follows
<1> DEFINE Solves(f, m) == f[0] = base /\ \A n \in 1..m : f[n] = step[<<n, f[n - 1]>>]
           Bad == {m \in 0..N : ~ \E f \in [0..m -> S] : Solves(f, m)}
<1>1. ASSUME Bad # {} PROVE FALSE
  <2>1. PICK m \in Bad : \A j \in Bad : m <= j
    <3>1. Bad \subseteq Nat
      OBVIOUS
    <3> HIDE DEF Bad
    <3> QED BY <1>1, <3>1, LeastExists, Zenon
  <2>2. m # 0
    <3>1. SUFFICES ASSUME m = 0 PROVE FALSE
      OBVIOUS
    <3> DEFINE f == [n \in 0..0 |-> base]
    <3>2. f \in [0..0 -> S]
      OBVIOUS
    <3>3. Solves(f, 0)
      OBVIOUS
    <3> HIDE DEF f, Solves
    <3> QED BY <3>1, <3>2, <3>3, <2>1
  <2>3. m - 1 \in 0..N /\ m \in 1..N /\ m - 1 \notin Bad
    BY <2>1, <2>2
  <2>4. PICK f \in [0..(m - 1) -> S] : Solves(f, m - 1)
    BY <2>3
  <2> DEFINE g == [n \in 0..m |-> IF n = m THEN step[<<m, f[m - 1]>>] ELSE f[n]]
  <2>5. f[m - 1] \in S /\ step[<<m, f[m - 1]>>] \in S
    BY <2>3, <2>4
  <2>6. g \in [0..m -> S]
    BY <2>3, <2>4, <2>5
  <2>7. ASSUME NEW n \in 1..m
        PROVE g[n] = step[<<n, g[n - 1]>>]
    <3>1. g[n - 1] = f[n - 1]
      BY <2>3
    <3>2. CASE n = m
      <4>1. g[m] = step[<<m, f[m - 1]>>]
        BY <2>3
      <4> HIDE DEF g
      <4> QED BY <3>1, <3>2, <4>1
    <3>3. CASE n # m
      <4>1. n \in 1..(m - 1) /\ g[n] = f[n]
        BY <3>3
      <4> QED BY <4>1, <3>1, <2>4
    <3> QED BY <3>2, <3>3
  <2>8. Solves(g, m)
    <3>1. g[0] = base
      BY <2>2, <2>3, <2>4
    <3> HIDE DEF g
    <3> QED BY <3>1, <2>7
  <2> HIDE DEF g, Solves
  <2> QED BY <2>1, <2>6, <2>8
<1>2. N \notin Bad
  BY <1>1
<1> QED BY <1>2

-----------------------------------------------------------------------------
(* The segments of a root.                                                  *)

LEMMA RefFacts ==
    ASSUME NEW s \in Refs
    PROVE  /\ s.at \in Nat /\ s.page \in Pages /\ s.page.generation \in Nat
           /\ s.page.entries \in Records
           /\ s.page.entries \in [DOMAIN s.page.entries -> Values \cup {Deleted}]
           /\ DOMAIN s.page.entries \subseteq Keys /\ DOMAIN s.page.entries # {}
           /\ IsFiniteSet(DOMAIN s.page.entries)
<1>1. s.at \in Nat /\ s.page \in Pages /\ s.page.generation \in Nat /\ s.page.entries \in Records
  BY DEF Refs, Pages
<1>2. PICK D \in (SUBSET Keys) \ {{}} : s.page.entries \in [D -> Values \cup {Deleted}]
  BY <1>1 DEF Records
<1>3. DOMAIN s.page.entries = D
  BY <1>2
<1>4. IsFiniteSet(D)
  BY <1>2, Constants, FS_Subset
<1> QED BY <1>1, <1>2, <1>3, <1>4

LEMMA SegmentFacts ==
    ASSUME NEW root \in Roots
    PROVE  /\ Segments(root) \subseteq Refs
           /\ Occupied(root) \subseteq 1..Levels
           /\ \A l \in Occupied(root) : root.levels[l] \in Segments(root)
           /\ \A s \in Segments(root) : \E l \in Occupied(root) : s = root.levels[l]
BY DEF Segments, Occupied, Roots

\* Among the segments of a root one is the newest, and all others are older.
LEMMA NewestIs ==
    ASSUME NEW S, S \subseteq Refs, NEW s \in S,
           \A t \in S : t = s \/ t.page.generation < s.page.generation
    PROVE  Newest(S) = s
<1>1. \A t \in S : t.page.generation \in Nat
  BY RefFacts
<1>2. \A t \in S : s.page.generation >= t.page.generation
  BY <1>1
<1>3. \A t \in S : (\A u \in S : t.page.generation >= u.page.generation) => t = s
  BY <1>1
<1> QED BY <1>2, <1>3 DEF Newest

LEMMA RootNewest ==
    ASSUME NEW r \in [root : Roots, map : Maps], WellMade(r),
           NEW S, S \subseteq Segments(r.root), S # {}
    PROVE  /\ Newest(S) \in S
           /\ \A t \in S : t = Newest(S) \/ t.page.generation < Newest(S).page.generation
<1> DEFINE T == {l \in Occupied(r.root) : r.root.levels[l] \in S}
<1>1. r.root \in Roots
  OBVIOUS
<1>2. T \subseteq Nat /\ T # {} /\ T \subseteq Occupied(r.root)
  BY <1>1, SegmentFacts
<1>3. PICK l \in T : \A m \in T : l <= m
  BY <1>2, LeastExists
<1> DEFINE s == r.root.levels[l]
<1>4. s \in S /\ S \subseteq Refs
  BY <1>1, <1>3, SegmentFacts
<1>5. ASSUME NEW t \in S PROVE t = s \/ t.page.generation < s.page.generation
  <2>1. PICK m \in Occupied(r.root) : t = r.root.levels[m]
    BY <1>1, SegmentFacts
  <2>2. m \in T
    BY <2>1
  <2>3. CASE m = l
    BY <2>1, <2>3
  <2>4. CASE m # l
    <3>1. l < m
      BY <1>2, <1>3, <2>2, <2>4
    <3>2. s.page.generation > t.page.generation
      BY <1>2, <1>3, <2>1, <3>1 DEF WellMade
    <3>3. s.page.generation \in Nat /\ t.page.generation \in Nat
      BY <1>4, RefFacts
    <3> QED BY <3>2, <3>3
  <2> QED BY <2>3, <2>4
<1> HIDE DEF s
<1>6. Newest(S) = s
  BY <1>4, <1>5, NewestIs
<1> QED BY <1>4, <1>5, <1>6

\* The range kept with a page never hides a record it has.
LEMMA RangeHas ==
    ASSUME NEW s \in Refs, NEW k \in DOMAIN s.page.entries
    PROVE  InRange(s, k)
<1> DEFINE D == DOMAIN s.page.entries
<1>1. D \subseteq Int /\ D # {} /\ IsFiniteSet(D) /\ k \in D
  BY RefFacts, Constants
<1> HIDE DEF D
<1>2. Smallest(D) <= k /\ Largest(D) >= k /\ k \in Int /\ Largest(D) \in Int
  BY <1>1, SmallestIs, LargestIs
<1> QED BY <1>2 DEF InRange, D

\* A lookup that stops at the first record it finds finds the newest.
LEMMA ConsultedEnough ==
    ASSUME NEW r \in [root : Roots, map : Maps], WellMade(r), NEW k \in Keys
    PROVE  /\ Consulted(r.root, k) \subseteq Segments(r.root)
           /\ Record(Consulted(r.root, k), k) = r.map[k]
<1> DEFINE all == Having(Segments(r.root), k)
           found == Having(Consulted(r.root, k), k)
<1>1. Consulted(r.root, k) \subseteq Segments(r.root)
  BY DEF Consulted, Candidates
<1>2. all \subseteq Segments(r.root) /\ found \subseteq all /\ Segments(r.root) \subseteq Refs
  <2>1. r.root \in Roots
    OBVIOUS
  <2> QED BY <1>1, <2>1, SegmentFacts DEF Having
<1>3. CASE all = {}
  <2>1. found = {}
    BY <1>2, <1>3
  <2>2. Record(Consulted(r.root, k), k) = Deleted /\ Record(Segments(r.root), k) = Deleted
    BY <1>3, <2>1 DEF Record
  <2> QED BY <1>1, <2>2 DEF WellMade
<1>4. CASE all # {}
  <2> DEFINE s == Newest(all)
  <2>1. s \in all /\ \A t \in all : t = s \/ t.page.generation < s.page.generation
    BY <1>2, <1>4, RootNewest
  <2>2. s \in Refs /\ k \in DOMAIN s.page.entries /\ s \in Segments(r.root)
    BY <1>2, <2>1 DEF Having
  <2>3. s \in Candidates(r.root, k)
    BY <2>2, RangeHas DEF Candidates
  <2>4. \A t \in Having(Candidates(r.root, k), k) : t \in all
    BY DEF Having, Candidates
  <2>5. s.page.generation \in Nat /\ \A t \in all : t.page.generation \in Nat
    BY <1>2, <2>2, RefFacts
  <2>6. \A t \in all : s.page.generation >= t.page.generation
    BY <2>1, <2>5
  <2>7. s \in found
    BY <2>2, <2>3, <2>4, <2>6 DEF Having, Consulted
  <2> HIDE DEF s
  <2>8. Newest(found) = s
    BY <1>2, <2>1, <2>7, NewestIs
  <2>9. Record(Consulted(r.root, k), k) = s.page.entries[k]
    BY <2>7, <2>8 DEF Record
  <2>10. Record(Segments(r.root), k) = s.page.entries[k]
    BY <1>4 DEF Record, s
  <2> QED BY <1>1, <2>9, <2>10 DEF WellMade
<1> QED BY <1>3, <1>4

-----------------------------------------------------------------------------
(* Reads of one root.                                                       *)

LEMMA Overrides ==
    ASSUME NEW e \in Records, NEW m \in Maps
    PROVE  /\ Overridden(m, e) \in Maps
           /\ \A k \in Keys : Overridden(m, e)[k] = IF k \in DOMAIN e THEN e[k] ELSE m[k]
<1>1. PICK D \in (SUBSET Keys) \ {{}} : e \in [D -> Values \cup {Deleted}]
  BY DEF Records
<1>2. DOMAIN e = D /\ DOMAIN m = Keys /\ D \cup Keys = Keys
  BY <1>1 DEF Maps
<1>3. Overridden(m, e) = [k \in Keys |-> IF k \in D THEN e[k] ELSE m[k]]
  BY <1>2 DEF Overridden
<1>4. \A k \in Keys : (IF k \in D THEN e[k] ELSE m[k]) \in Values \cup {Deleted}
  BY <1>1 DEF Maps
<1> QED BY <1>2, <1>3, <1>4 DEF Maps

\* What a scan has merged once it has read the segments up to a generation.
LEMMA ScanSolved ==
    ASSUME NEW r \in [root : Roots, map : Maps], WellMade(r),
           \A s \in Segments(r.root) : Reads(s)
    PROVE  \E f \in [0..r.root.generation -> Maps] :
              /\ Scan(r.root) = f[r.root.generation]
              /\ f[0] = NothingInserted
              /\ \A g \in 1..r.root.generation :
                    f[g] = IF MadeIn(Segments(r.root), g) = {} THEN f[g - 1]
                           ELSE Overridden(f[g - 1], Newest(MadeIn(Segments(r.root), g)).page.entries)
<1> DEFINE G == r.root.generation
           made(g) == MadeIn(Segments(r.root), g)
           step == [p \in (1..G) \X Maps |->
                      IF made(p[1]) = {} THEN p[2] ELSE Overridden(p[2], Newest(made(p[1])).page.entries)]
           Solves(f) == f = [g \in 0..G |->
                               IF g = 0 THEN NothingInserted
                               ELSE IF made(g) = {} THEN f[g - 1]
                               ELSE Overridden(f[g - 1], Newest(made(g)).page.entries)]
<1>1. G \in Nat /\ NothingInserted \in Maps
  BY DEF Roots, Maps, NothingInserted
<1>2. ASSUME NEW g \in 1..G, NEW m \in Maps, made(g) # {}
      PROVE  Overridden(m, Newest(made(g)).page.entries) \in Maps
  <2>1. made(g) \subseteq Segments(r.root) /\ Segments(r.root) \subseteq Refs
    <3>1. r.root \in Roots
      OBVIOUS
    <3> QED BY <3>1, SegmentFacts DEF MadeIn
  <2>2. Newest(made(g)) \in Refs
    BY <1>2, <2>1, RootNewest
  <2> QED BY <2>2, RefFacts, Overrides
<1>3. step \in [(1..G) \X Maps -> Maps]
  <2>1. \A p \in (1..G) \X Maps :
           (IF made(p[1]) = {} THEN p[2] ELSE Overridden(p[2], Newest(made(p[1])).page.entries)) \in Maps
    BY <1>2
  <2> QED BY <2>1
<1>4. PICK f \in Chains(G, Maps) : Follows(f, G, NothingInserted, step)
  <2>1. step \in Steps(G, Maps)
    BY <1>3 DEF Steps
  <2> HIDE DEF step, G
  <2> QED BY <1>1, <2>1, RecursionExists, Zenon
<1>5. Solves(f)
  <2> USE DEF Chains, Follows
  <2>1. ASSUME NEW n \in 1..G
        PROVE  f[n] = IF made(n) = {} THEN f[n - 1]
                      ELSE Overridden(f[n - 1], Newest(made(n)).page.entries)
    <3>1. n \in 1..G /\ f[n - 1] \in Maps
      <4> HIDE DEF G
      <4> QED BY <1>1, <1>4, <2>1
    <3> HIDE DEF made, G
    <3> QED BY <3>1, <1>4
  <2>2. f = [n \in 0..G |-> f[n]]
    BY <1>4, Zenon
  <2>3. \A n \in 0..G : n = 0 \/ n \in 1..G
    BY <1>1
  <2> HIDE DEF step, made, G
  <2>4. f = [n \in 0..G |-> IF n = 0 THEN NothingInserted
                            ELSE IF made(n) = {} THEN f[n - 1]
                            ELSE Overridden(f[n - 1], Newest(made(n)).page.entries)]
    BY <1>4, <2>1, <2>2, <2>3
  <2> QED BY <2>4
<1> DEFINE merged == CHOOSE g : Solves(g)
<1>6. Scan(r.root) = merged[G]
  BY DEF Scan
<1>7. Solves(merged)
  <2> HIDE DEF Solves
  <2> QED BY <1>5
<1>8. merged \in [0..G -> Maps]
  <2> DEFINE Bad == {n \in 0..G : merged[n] \notin Maps}
  <2> HIDE DEF merged, made, G
  <2>1. ASSUME Bad # {} PROVE FALSE
    <3>1. PICK n \in Bad : \A j \in Bad : n <= j
      <4>1. Bad \subseteq Nat
        BY <1>1
      <4> HIDE DEF Bad
      <4> QED BY <2>1, <4>1, LeastExists, Zenon
    <3>2. n \in 0..G /\ (n # 0 => n - 1 \in 0..G /\ n \in 1..G /\ n - 1 \notin Bad)
      BY <1>1, <3>1
    <3>3. merged[n] = IF n = 0 THEN NothingInserted
                      ELSE IF made(n) = {} THEN merged[n - 1]
                      ELSE Overridden(merged[n - 1], Newest(made(n)).page.entries)
      BY <1>7, <3>2
    <3> QED BY <1>1, <1>2, <3>1, <3>2, <3>3
  <2>2. \A n \in 0..G : merged[n] \in Maps
    BY <2>1
  <2> QED BY <1>7, <2>2
<1>9. merged[0] = NothingInserted
  <2> HIDE DEF merged, made, G
  <2> QED BY <1>1, <1>7
<1>10. \A g \in 1..G : merged[g] = IF made(g) = {} THEN merged[g - 1]
                                   ELSE Overridden(merged[g - 1], Newest(made(g)).page.entries)
  <2> HIDE DEF merged, made, G
  <2> QED BY <1>1, <1>7
<1> HIDE DEF merged
<1> QED BY <1>6, <1>8, <1>9, <1>10

\* A scan that reads every segment gives every key its newest record.
LEMMA ScanIs ==
    ASSUME NEW r \in [root : Roots, map : Maps], WellMade(r),
           \A s \in Segments(r.root) : Reads(s)
    PROVE  Scan(r.root) \in Maps /\ \A k \in Keys : Scan(r.root)[k] = r.map[k]
<1> DEFINE G == r.root.generation
           made(g) == MadeIn(Segments(r.root), g)
           upTo(g) == {s \in Segments(r.root) : s.page.generation <= g}
<1>1. PICK f \in [0..G -> Maps] :
         /\ Scan(r.root) = f[G]
         /\ f[0] = NothingInserted
         /\ \A g \in 1..G : f[g] = IF made(g) = {} THEN f[g - 1]
                                   ELSE Overridden(f[g - 1], Newest(made(g)).page.entries)
  BY ScanSolved
<1>2. G \in Nat /\ r.root \in Roots
  BY DEF Roots
<1>3. Segments(r.root) \subseteq Refs /\ \A s \in Segments(r.root) : s.page.generation \in 1..G
  BY <1>2, SegmentFacts DEF WellMade
<1> DEFINE Bad == {g \in 0..G : \E k \in Keys : f[g][k] # Record(upTo(g), k)}
<1>4. ASSUME Bad # {} PROVE FALSE
  <2>1. PICK g \in Bad : \A j \in Bad : g <= j
    <3>1. Bad \subseteq Nat
      BY <1>2
    <3> HIDE DEF Bad
    <3> QED BY <1>4, <3>1, LeastExists, Zenon
  <2> HIDE DEF G
  <2>2. PICK k \in Keys : f[g][k] # Record(upTo(g), k)
    BY <2>1
  <2>3. g \in 0..G
    BY <2>1
  <2>4. g # 0
    <3>1. SUFFICES ASSUME g = 0 PROVE FALSE
      OBVIOUS
    <3>2. upTo(0) = {}
      BY <1>3
    <3>3. Record(upTo(0), k) = Deleted
      BY <3>2 DEF Record, Having
    <3>4. f[0][k] = Deleted
      BY <1>1 DEF NothingInserted
    <3> QED BY <3>1, <3>3, <3>4, <2>2
  <2>5. g - 1 \in 0..G /\ g \in 1..G /\ ~ (g <= g - 1)
    BY <1>2, <2>3, <2>4
  <2>6. f[g - 1][k] = Record(upTo(g - 1), k) /\ f[g - 1] \in Maps
    BY <1>1, <2>1, <2>5
  <2>7. upTo(g) = upTo(g - 1) \cup made(g)
    BY <1>3, <2>5 DEF MadeIn
  <2>8. CASE made(g) = {}
    BY <1>1, <2>2, <2>5, <2>6, <2>7, <2>8
  <2>9. CASE made(g) # {}
    <3> DEFINE s == Newest(made(g))
    <3>1. made(g) \subseteq Segments(r.root)
      BY DEF MadeIn
    <3>2. s \in made(g) /\ \A t \in made(g) : t = s \/ t.page.generation < s.page.generation
      BY <2>9, <3>1, RootNewest
    <3>3. s \in Refs /\ s.page.generation = g /\ s \in Segments(r.root)
      BY <1>3, <3>2 DEF MadeIn
    <3>4. \A t \in made(g) : t = s
      BY <2>5, <3>2, <3>3 DEF MadeIn
    <3>5. f[g][k] = IF k \in DOMAIN s.page.entries THEN s.page.entries[k] ELSE f[g - 1][k]
      <4>1. f[g] = Overridden(f[g - 1], s.page.entries)
        BY <1>1, <2>5, <2>9
      <4>2. s.page.entries \in Records
        BY <3>3, RefFacts
      <4> HIDE DEF s
      <4> QED BY <2>6, <4>1, <4>2, Overrides
    <3> HIDE DEF s
    <3>6. CASE k \in DOMAIN s.page.entries
      <4>1. s \in Having(upTo(g), k)
        BY <2>5, <3>3, <3>6 DEF Having
      <4>2. \A t \in upTo(g) : t = s \/ t.page.generation < s.page.generation
        BY <1>3, <2>5, <2>7, <3>3, <3>4
      <4>3. Having(upTo(g), k) \subseteq upTo(g) /\ upTo(g) \subseteq Refs
        BY <1>3 DEF Having
      <4>4. Newest(Having(upTo(g), k)) = s
        <5> HIDE DEF upTo
        <5>1. Having(upTo(g), k) \subseteq Refs
          BY <4>3
        <5>2. \A t \in Having(upTo(g), k) : t = s \/ t.page.generation < s.page.generation
          BY <4>2, <4>3
        <5> QED BY <4>1, <5>1, <5>2, NewestIs
      <4>5. Record(upTo(g), k) = s.page.entries[k]
        BY <4>1, <4>4 DEF Record
      <4> QED BY <2>2, <3>5, <3>6, <4>5
    <3>7. CASE k \notin DOMAIN s.page.entries
      <4>1. Having(upTo(g), k) = Having(upTo(g - 1), k)
        BY <2>7, <3>4, <3>7 DEF Having
      <4>2. Record(upTo(g), k) = Record(upTo(g - 1), k)
        BY <4>1 DEF Record
      <4> QED BY <2>2, <2>6, <3>5, <3>7, <4>2
    <3> QED BY <3>6, <3>7
  <2> QED BY <2>8, <2>9
<1>5. \A k \in Keys : f[G][k] = Record(upTo(G), k)
  <2>1. Bad = {}
    <3> HIDE DEF Bad
    <3> QED BY <1>4
  <2>2. G \in 0..G
    BY <1>2
  <2> HIDE DEF G, upTo
  <2> QED BY <2>1, <2>2
<1>6. upTo(G) = Segments(r.root)
  BY <1>2, <1>3
<1>7. f[G] \in Maps
  BY <1>1, <1>2
<1> QED BY <1>1, <1>5, <1>6, <1>7 DEF WellMade

LEMMA MapValues ==
    ASSUME NEW m \in Maps
    PROVE  m # Failure /\ \A k \in Keys : m[k] # Failure
BY IndexAssumption DEF Maps

\* While what is not lost reads, every read of a root answers or needs what is.
LEMMA ReadsAnswer == TypeInv /\ RootInv /\ ReadInv => ReadsNewest
<1> SUFFICES ASSUME TypeInv, RootInv, ReadInv PROVE LookupAnswers /\ ScanAnswers
  BY DEF ReadsNewest
<1>1. ASSUME NEW r \in roots
      PROVE  /\ r \in [root : Roots, map : Maps] /\ WellMade(r)
             /\ \A s \in Segments(r.root) : Reads(s) \/ s \in lost
  BY DEF TypeInv, RootInv, ReadInv
<1>2. LookupAnswers
  <2> SUFFICES ASSUME NEW r \in roots, NEW k \in Keys
               PROVE  IF Lookup(r.root, k) = Failure THEN Consulted(r.root, k) \cap lost # {}
                      ELSE Lookup(r.root, k) = r.map[k]
    BY DEF LookupAnswers
  <2>1. /\ Consulted(r.root, k) \subseteq Segments(r.root)
        /\ Record(Consulted(r.root, k), k) = r.map[k]
    BY <1>1, ConsultedEnough
  <2>2. r.map[k] # Failure
    <3>1. r.map \in Maps
      BY <1>1
    <3> QED BY <3>1, MapValues
  <2> QED BY <1>1, <2>1, <2>2 DEF Lookup
<1>3. ScanAnswers
  <2> SUFFICES ASSUME NEW r \in roots
               PROVE  IF Scan(r.root) = Failure THEN Segments(r.root) \cap lost # {}
                      ELSE \A k \in Keys : Scan(r.root)[k] = r.map[k]
    BY DEF ScanAnswers
  <2>1. CASE \A s \in Segments(r.root) : Reads(s)
    BY <1>1, <2>1, ScanIs, MapValues
  <2>2. CASE ~ \A s \in Segments(r.root) : Reads(s)
    <3>1. Scan(r.root) = Failure
      BY <2>2 DEF Scan
    <3> QED BY <1>1, <2>2, <3>1
  <2> QED BY <2>1, <2>2
<1> QED BY <1>2, <1>3

-----------------------------------------------------------------------------
(* Insertion.                                                               *)

LEMMA TargetIs ==
    ASSUME NEW root \in Roots, Target(root) <= Levels
    PROVE  /\ Target(root) \in 1..Levels /\ Target(root) \notin Occupied(root)
           /\ \A l \in 1..(Target(root) - 1) : l \in Occupied(root)
<1> USE Constants
<1>1. Occupied(root) \subseteq 1..Levels
  BY SegmentFacts
<1>2. Occupied(root) # 1..Levels
  BY DEF Target
<1> DEFINE free == (1..Levels) \ Occupied(root)
<1>3. free \subseteq Nat /\ free # {}
  <2>1. free # {}
    BY <1>1, <1>2, Zenon
  <2>2. 1..Levels \subseteq Nat
    BY Constants
  <2> QED BY <2>1, <2>2
<1>4. Target(root) = Smallest(free)
  BY <1>2 DEF Target
<1>5. Smallest(free) \in free /\ \A y \in free : Smallest(free) <= y
  <2> HIDE DEF free
  <2> QED BY <1>3, SmallestNat
<1>6. ASSUME NEW l \in 1..(Target(root) - 1) PROVE l \in Occupied(root)
  <2>1. l \in 1..Levels /\ ~ (Target(root) <= l)
    BY <1>4, <1>5
  <2> QED BY <1>4, <1>5, <2>1
<1> QED BY <1>4, <1>5, <1>6

\* The record of a key in the new segment: of the batch, or of the lowest level
\* that has one.
LEMMA MergedIs ==
    ASSUME NEW root \in Roots, NEW batch \in Batches, Target(root) <= Levels
    PROVE  /\ Merged(root, batch) \in Records
           /\ \A k \in Keys :
                k \in DOMAIN Merged(root, batch) =>
                    /\ Smallest(With(root, batch, k)) \in With(root, batch, k)
                    /\ \A l \in With(root, batch, k) : Smallest(With(root, batch, k)) <= l
                    /\ Merged(root, batch)[k] =
                         Source(root, batch, Smallest(With(root, batch, k)))[k]
           /\ \A k \in Keys : k \in DOMAIN Merged(root, batch) <=> With(root, batch, k) # {}
<1> DEFINE D == {j \in Keys : With(root, batch, j) # {}}
<1>1. /\ Target(root) \in 1..Levels
      /\ \A l \in 1..(Target(root) - 1) : l \in Occupied(root)
  BY TargetIs
<1>2. \A l \in 0..(Target(root) - 1) : Source(root, batch, l) \in Records
  <2> SUFFICES ASSUME NEW l \in 0..(Target(root) - 1)
               PROVE  Source(root, batch, l) \in Records
    OBVIOUS
  <2>1. CASE l = 0
    BY <2>1, IndexAssumption DEF Source, Records
  <2>2. CASE l # 0
    <3>1. root.levels[l] \in Refs
      <4>1. l \in Occupied(root)
        BY <1>1, <2>2
      <4> QED BY <4>1, SegmentFacts
    <3> QED BY <2>2, <3>1, RefFacts DEF Source
  <2> QED BY <2>1, <2>2
<1>3. ASSUME NEW k \in Keys, With(root, batch, k) # {}
      PROVE  /\ Smallest(With(root, batch, k)) \in With(root, batch, k)
             /\ \A l \in With(root, batch, k) : Smallest(With(root, batch, k)) <= l
  <2>1. With(root, batch, k) \subseteq Nat
    BY <1>1, Constants DEF With
  <2> QED BY <1>3, <2>1, SmallestNat
<1>4. ASSUME NEW k \in Keys, NEW l \in With(root, batch, k)
      PROVE  Source(root, batch, l)[k] \in Values \cup {Deleted}
  <2>1. l \in 0..(Target(root) - 1) /\ k \in DOMAIN Source(root, batch, l)
    BY DEF With
  <2>2. Source(root, batch, l) \in Records
    BY <1>2, <2>1
  <2> QED BY <2>1, <2>2 DEF Records
<1>5. D # {}
  <2>1. batch \in Records
    BY IndexAssumption DEF Records
  <2>2. PICK k \in Keys : k \in DOMAIN batch
    BY <2>1 DEF Records
  <2>3. 0 \in With(root, batch, k)
    BY <1>1, <2>2, Constants DEF With, Source
  <2> QED BY <2>3
<1>6. Merged(root, batch) \in [D -> Values \cup {Deleted}]
  <2>1. \A k \in D : Source(root, batch, Smallest(With(root, batch, k)))[k] \in Values \cup {Deleted}
    BY <1>3, <1>4
  <2> QED BY <2>1 DEF Merged
<1>7. DOMAIN Merged(root, batch) = D
  BY DEF Merged
<1>8. \A k \in D : Merged(root, batch)[k] = Source(root, batch, Smallest(With(root, batch, k)))[k]
  BY DEF Merged
<1>9. Merged(root, batch) \in Records
  BY <1>5, <1>6 DEF Records
<1> QED BY <1>3, <1>7, <1>8, <1>9

LEMMA InsertedType ==
    ASSUME NEW r \in [root : Roots, map : Maps], NEW batch \in Batches, NEW at \in Nat,
           Target(r.root) <= Levels
    PROVE  /\ NewPage(r.root, batch) \in Pages
           /\ Inserted(r.root, batch, at) \in Roots
           /\ Overridden(r.map, batch) \in Maps
<1>1. r.root \in Roots /\ r.map \in Maps /\ batch \in Records
  BY IndexAssumption DEF Records
<1>2. NewPage(r.root, batch) \in Pages
  BY <1>1, MergedIs DEF NewPage, Pages, Roots
<1>3. [at |-> at, page |-> NewPage(r.root, batch)] \in Refs
  BY <1>2 DEF Refs
<1>4. Inserted(r.root, batch, at) \in Roots
  <2> DEFINE new == [at |-> at, page |-> NewPage(r.root, batch)]
             levels == [l \in 1..Levels |-> IF l < Target(r.root) THEN Empty
                                           ELSE IF l = Target(r.root) THEN new
                                           ELSE r.root.levels[l]]
  <2>1. new \in Refs
    BY <1>3
  <2>2. Inserted(r.root, batch, at) = [generation |-> r.root.generation + 1, levels |-> levels]
    BY DEF Inserted
  <2> HIDE DEF new
  <2>3. \A l \in 1..Levels : r.root.levels[l] \in Refs \cup {Empty}
    BY <1>1 DEF Roots
  <2>4. levels \in [1..Levels -> Refs \cup {Empty}]
    BY <2>1, <2>3
  <2>5. r.root.generation + 1 \in Nat
    BY <1>1 DEF Roots
  <2> HIDE DEF levels
  <2> QED BY <2>2, <2>4, <2>5 DEF Roots
<1> QED BY <1>1, <1>2, <1>4, Overrides

\* The levels of the new root: the merged ones are empty, and above the new
\* segment nothing changed.
LEMMA InsertedLevels ==
    ASSUME NEW root \in Roots, NEW batch \in Batches, NEW at \in Nat, Target(root) <= Levels
    PROVE  LET next == Inserted(root, batch, at)
               new == [at |-> at, page |-> NewPage(root, batch)]
           IN  /\ next.generation = root.generation + 1
               /\ next.levels[Target(root)] = new /\ new \in Refs
               /\ Occupied(next) = {Target(root)} \cup {l \in Occupied(root) : l > Target(root)}
               /\ \A l \in Occupied(root) : l > Target(root) => next.levels[l] = root.levels[l]
               /\ Segments(next) = {new} \cup {root.levels[l] : l \in {m \in Occupied(root) : m > Target(root)}}
<1> DEFINE next == Inserted(root, batch, at)
           new == [at |-> at, page |-> NewPage(root, batch)]
           t == Target(root)
           above == {m \in Occupied(root) : m > t}
<1>1. t \in 1..Levels /\ t \notin Occupied(root) /\ Occupied(root) \subseteq 1..Levels
  BY TargetIs, SegmentFacts
<1>2. new \in Refs /\ new # Empty
  <2>1. NewPage(root, batch) \in Pages
    BY MergedIs DEF NewPage, Pages, Roots
  <2>2. new \in Refs
    BY <2>1 DEF Refs
  <2> QED BY <2>2, EmptyAssumption
<1> HIDE DEF new
<1>3. /\ next.generation = root.generation + 1
      /\ next.levels = [l \in 1..Levels |-> IF l < t THEN Empty
                                            ELSE IF l = t THEN new ELSE root.levels[l]]
  BY DEF Inserted, new
<1> HIDE DEF next, t
<1>4. next.levels[t] = new
  BY <1>1, <1>3
<1>5. \A l \in Occupied(root) : l > t => next.levels[l] = root.levels[l]
  BY <1>1, <1>3
<1>6. Occupied(next) = {t} \cup above
  <2>1. \A l \in 1..Levels : next.levels[l] # Empty <=> l = t \/ (l > t /\ root.levels[l] # Empty)
    BY <1>1, <1>2, <1>3
  <2>2. Occupied(next) = {l \in 1..Levels : next.levels[l] # Empty}
    BY DEF Occupied
  <2>3. Occupied(root) = {l \in 1..Levels : root.levels[l] # Empty}
    BY DEF Occupied
  <2> QED BY <1>1, <2>1, <2>2, <2>3
<1>7. Segments(next) = {new} \cup {root.levels[l] : l \in above}
  BY <1>4, <1>5, <1>6 DEF Segments
<1> QED BY <1>2, <1>3, <1>4, <1>5, <1>6, <1>7 DEF next, new, t

\* The new root stands for the old map with the batch over it.
LEMMA InsertedWellMade ==
    ASSUME NEW r \in [root : Roots, map : Maps], WellMade(r), NEW batch \in Batches,
           NEW at \in Nat, Target(r.root) <= Levels
    PROVE  WellMade([root |-> Inserted(r.root, batch, at), map |-> Overridden(r.map, batch)])
<1> DEFINE root == r.root
           next == Inserted(root, batch, at)
           new == [at |-> at, page |-> NewPage(root, batch)]
           t == Target(root)
           above == {l \in Occupied(root) : l > t}
           map == Overridden(r.map, batch)
<1>1. root \in Roots /\ r.map \in Maps /\ root.generation \in Nat /\ batch \in Records
  BY IndexAssumption DEF Roots, Records
<1>2. /\ next.generation = root.generation + 1
      /\ next.levels[t] = new /\ new \in Refs
      /\ Occupied(next) = {t} \cup above
      /\ \A l \in above : next.levels[l] = root.levels[l]
      /\ Segments(next) = {new} \cup {root.levels[l] : l \in above}
  BY <1>1, InsertedLevels
<1>3. new.page.generation = root.generation + 1 /\ new.page.entries = Merged(root, batch)
  BY DEF NewPage
<1>4. /\ t \in 1..Levels /\ t \notin Occupied(root) /\ Occupied(root) \subseteq 1..Levels
      /\ \A l \in 1..(t - 1) : l \in Occupied(root)
  BY <1>1, TargetIs, SegmentFacts
<1>5. ASSUME NEW l \in Occupied(root)
      PROVE  /\ root.levels[l] \in Refs /\ root.levels[l] \in Segments(root)
             /\ root.levels[l].page.generation \in 1..root.generation
  BY <1>1, SegmentFacts DEF WellMade
<1>6. \A l, m \in Occupied(root) :
          l < m => root.levels[l].page.generation > root.levels[m].page.generation
  BY DEF WellMade
<1> HIDE DEF root, next, new, t
<1>7. \A s \in Segments(next) : s.page.generation \in 1..next.generation
  BY <1>1, <1>2, <1>3, <1>5
<1>8. ASSUME NEW l \in Occupied(next), NEW m \in Occupied(next), l < m
      PROVE  next.levels[l].page.generation > next.levels[m].page.generation
  <2>1. m \in above
    BY <1>2, <1>4, <1>8
  <2>2. next.levels[m].page.generation \in 1..root.generation
    BY <1>2, <1>5, <2>1
  <2>3. CASE l = t
    BY <1>1, <1>2, <1>3, <2>2, <2>3
  <2>4. CASE l \in above
    BY <1>2, <1>6, <1>8, <2>1, <2>4
  <2> QED BY <1>2, <2>3, <2>4
\* What is newest in the new root.
<1>9. Segments(next) \subseteq Refs
  BY <1>2, <1>5
<1>10. \A s \in Segments(next) : s = new \/ s.page.generation < new.page.generation
  BY <1>1, <1>2, <1>3, <1>5
<1>11. \A k \in Keys : map[k] = IF k \in DOMAIN batch THEN batch[k] ELSE r.map[k]
  BY <1>1, Overrides
<1>12. ASSUME NEW k \in Keys, k \in DOMAIN new.page.entries
       PROVE  Record(Segments(next), k) = new.page.entries[k]
  <2>1. new \in Having(Segments(next), k)
    BY <1>2, <1>12 DEF Having
  <2>2. Having(Segments(next), k) \subseteq Segments(next)
    BY DEF Having
  <2>3. Newest(Having(Segments(next), k)) = new
    BY <1>9, <1>10, <2>1, <2>2, NewestIs
  <2> QED BY <2>1, <2>3 DEF Record
<1>13. /\ \A k \in Keys : k \in DOMAIN new.page.entries <=> With(root, batch, k) # {}
       /\ \A k \in Keys : k \in DOMAIN new.page.entries =>
             /\ Smallest(With(root, batch, k)) \in With(root, batch, k)
             /\ \A l \in With(root, batch, k) : Smallest(With(root, batch, k)) <= l
             /\ new.page.entries[k] = Source(root, batch, Smallest(With(root, batch, k)))[k]
  BY <1>1, <1>3, MergedIs DEF t, root
<1>14. ASSUME NEW k \in Keys PROVE map[k] = Record(Segments(next), k)
  <2> DEFINE least == Smallest(With(root, batch, k))
  <2>1. CASE k \in DOMAIN batch
    <3>1. 0 \in With(root, batch, k)
      BY <1>4, <2>1, Constants DEF With, Source, t
    <3>2. k \in DOMAIN new.page.entries /\ least \in 0..(t - 1) /\ least <= 0
      BY <1>13, <3>1 DEF With, t
    <3>3. least = 0
      BY <1>4, <3>2, Constants
    <3>4. new.page.entries[k] = batch[k]
      BY <1>13, <3>2, <3>3 DEF Source
    <3> QED BY <1>11, <1>12, <2>1, <3>2, <3>4
  <2>2. CASE k \notin DOMAIN batch /\ k \in DOMAIN new.page.entries
    <3>1. least \in With(root, batch, k) /\ \A l \in With(root, batch, k) : least <= l
      BY <1>13, <2>2
    <3>2. least \in 1..(t - 1)
      BY <1>4, <2>2, <3>1, Constants DEF With, Source, t
    <3>3. least \in Occupied(root) /\ least \in 1..Levels
      BY <1>4, <3>2, Constants
    <3> DEFINE s == root.levels[least]
    <3>4. new.page.entries[k] = s.page.entries[k] /\ k \in DOMAIN s.page.entries
      BY <1>13, <2>2, <3>1, <3>2 DEF Source, With
    <3>5. s \in Having(Segments(root), k)
      BY <1>5, <3>3, <3>4 DEF Having
    <3>6. ASSUME NEW u \in Having(Segments(root), k)
          PROVE  u = s \/ u.page.generation < s.page.generation
      <4>1. PICK l \in Occupied(root) : u = root.levels[l]
        BY <1>1, SegmentFacts DEF Having
      <4>2. k \in DOMAIN u.page.entries
        BY DEF Having
      <4>3. CASE l < least
        <5>1. l \in With(root, batch, k)
          BY <1>4, <3>2, <4>1, <4>2, <4>3, Constants DEF With, Source, t
        <5> QED BY <1>4, <3>1, <3>3, <4>3, <5>1, Constants
      <4>4. CASE l = least
        BY <4>1, <4>4
      <4>5. CASE least < l
        <5>1. s.page.generation > u.page.generation
          BY <1>6, <3>3, <4>1, <4>5
        <5>2. s.page.generation \in Nat /\ u.page.generation \in Nat
          BY <1>5, <3>3, <4>1
        <5> HIDE DEF s
        <5> QED BY <5>1, <5>2
      <4> QED BY <1>4, <3>3, <4>3, <4>4, <4>5, Constants
    <3>7. Having(Segments(root), k) \subseteq Refs
      BY <1>1, SegmentFacts DEF Having
    <3> HIDE DEF s
    <3>8. Newest(Having(Segments(root), k)) = s
      BY <3>5, <3>6, <3>7, NewestIs
    <3>9. r.map[k] = s.page.entries[k]
      BY <3>5, <3>8 DEF WellMade, Record, root
    <3> QED BY <1>11, <1>12, <2>2, <3>4, <3>9
  <2>3. CASE k \notin DOMAIN batch /\ k \notin DOMAIN new.page.entries
    <3>1. With(root, batch, k) = {}
      BY <1>13, <2>3
    <3>2. ASSUME NEW l \in Occupied(root), k \in DOMAIN root.levels[l].page.entries
          PROVE  l \in above
      <4>1. l \in 1..Levels /\ l # t
        BY <1>4
      <4>2. ~ (l < t)
        <5>1. SUFFICES ASSUME l < t PROVE FALSE
          OBVIOUS
        <5>2. l \in With(root, batch, k)
          BY <1>4, <3>2, <4>1, <5>1, Constants DEF With, Source, t
        <5> QED BY <3>1, <5>2
      <4> QED BY <1>4, <4>1, <4>2, Constants
    <3>3. Having(Segments(next), k) = Having(Segments(root), k)
      <4>1. \A s \in Segments(root) : \E l \in Occupied(root) : s = root.levels[l]
        BY <1>1, SegmentFacts
      <4>2. \A s \in Having(Segments(root), k) : s \in Segments(next)
        BY <1>2, <3>2, <4>1 DEF Having
      <4>3. \A s \in Having(Segments(next), k) : s \in Segments(root)
        BY <1>2, <1>5, <2>3 DEF Having
      <4> QED BY <4>2, <4>3 DEF Having
    <3> QED BY <1>11, <2>3, <3>3 DEF WellMade, Record, root
  <2> QED BY <2>1, <2>2, <2>3
<1> QED
  <2> DEFINE q == [root |-> next, map |-> map]
  <2>1. q.root = next /\ q.map = map
    OBVIOUS
  <2> HIDE DEF q
  <2>2. WellMade(q)
    BY <1>7, <1>8, <1>14, <2>1 DEF WellMade
  <2> QED BY <2>2 DEF q, next, root

-----------------------------------------------------------------------------
(* The cache of a session.                                                  *)

Pairs(S) == {e \in S \X Keys : e[2] \in DOMAIN e[1].page.entries}

LEMMA WeightType ==
    ASSUME NEW S, IsFiniteSet(S)
    PROVE  IsFiniteSet(Pairs(S)) /\ Weight(S) = Cardinality(Pairs(S)) /\ Weight(S) \in Nat
<1>1. IsFiniteSet(S \X Keys)
  BY Constants, FS_Product
<1>2. Pairs(S) \in SUBSET (S \X Keys)
  BY DEF Pairs
<1>3. IsFiniteSet(Pairs(S))
  BY <1>1, <1>2, FS_Subset
<1>4. Weight(S) = Cardinality(Pairs(S))
  BY DEF Weight, Pairs
<1> QED BY <1>3, <1>4, FS_CardinalityType

LEMMA WeightUnion ==
    ASSUME NEW S, IsFiniteSet(S), NEW T, IsFiniteSet(T), S \cap T = {}
    PROVE  Weight(S \cup T) = Weight(S) + Weight(T)
<1>1. IsFiniteSet(S \cup T)
  BY FS_Union
<1>2. Pairs(S \cup T) = Pairs(S) \cup Pairs(T) /\ Pairs(S) \cap Pairs(T) = {}
  BY DEF Pairs
<1>3. Cardinality({}) = 0
  BY FS_EmptySet
<1>4. Cardinality(Pairs(S) \cup Pairs(T)) =
          Cardinality(Pairs(S)) + Cardinality(Pairs(T)) - Cardinality(Pairs(S) \cap Pairs(T))
  BY WeightType, FS_Union
<1>5. /\ Weight(S) = Cardinality(Pairs(S)) /\ Weight(S) \in Nat
      /\ Weight(T) = Cardinality(Pairs(T)) /\ Weight(T) \in Nat
      /\ Weight(S \cup T) = Cardinality(Pairs(S \cup T))
  BY <1>1, WeightType
<1>6. Cardinality(Pairs(S \cup T)) = Cardinality(Pairs(S)) + Cardinality(Pairs(T)) - 0
  BY <1>2, <1>3, <1>4, Zenon
<1> QED BY <1>5, <1>6

LEMMA WeightOne ==
    ASSUME NEW s \in Refs
    PROVE  Weight({s}) = Charge(s) /\ Charge(s) \in Nat
<1> DEFINE D == DOMAIN s.page.entries
<1>1. IsFiniteSet(D) /\ D \subseteq Keys
  BY RefFacts
<1>2. IsFiniteSet({s}) /\ Cardinality({s}) = 1
  BY FS_Singleton
<1>3. Pairs({s}) = {s} \X D
  BY <1>1 DEF Pairs
<1> HIDE DEF D
<1>4. Cardinality({s} \X D) = Cardinality({s}) * Cardinality(D)
  BY <1>1, <1>2, FS_Product
<1>5. Cardinality(D) \in Nat
  BY <1>1, FS_CardinalityType
<1>6. Cardinality({s} \X D) = Cardinality(D)
  BY <1>2, <1>4, <1>5
<1>7. Weight({s}) = Cardinality(D)
  BY <1>2, <1>3, <1>6, WeightType
<1> QED BY <1>5, <1>7 DEF Charge, D

LEMMA RangeFinite ==
    ASSUME NEW T, NEW c \in Seq(T)
    PROVE  IsFiniteSet(Range(c)) /\ Range(c) \subseteq T /\ Range(c) = {c[i] : i \in 1..Len(c)}
<1>1. DOMAIN c = 1..Len(c) /\ Len(c) \in Nat /\ \A i \in 1..Len(c) : c[i] \in T
  OBVIOUS
<1>2. Range(c) = {c[i] : i \in 1..Len(c)}
  BY <1>1 DEF Range
<1>3. IsFiniteSet(1..Len(c))
  BY <1>1, FS_Interval
<1> DEFINE f == [i \in 1..Len(c) |-> c[i]]
<1>4. f \in Surjection(1..Len(c), Range(c))
  BY <1>2 DEF Surjection
<1> HIDE DEF f
<1>5. IsFiniteSet(Range(c))
  BY <1>3, <1>4, FS_Surjection
<1> QED BY <1>1, <1>2, <1>5

\* Dropping the oldest entries and adding one.
LEMMA AdmitRange ==
    ASSUME NEW T, NEW c \in Seq(T), Distinct(c), NEW n \in 0..Len(c), NEW s \in T,
           s \notin Range(c)
    PROVE  LET d == Append(SubSeq(c, n + 1, Len(c)), s)
               gone == Range(SubSeq(c, 1, n))
           IN  /\ d \in Seq(T) /\ Distinct(d) /\ Len(d) = Len(c) - n + 1
               /\ gone \subseteq Range(c)
               /\ Range(d) = (Range(c) \ gone) \cup {s}
<1> DEFINE tail == SubSeq(c, n + 1, Len(c))
           d == Append(tail, s)
           front == SubSeq(c, 1, n)
           L == Len(c)
<1>1. L \in Nat /\ \A i \in 1..L : c[i] \in T
  OBVIOUS
<1>2. tail \in Seq(T) /\ Len(tail) = L - n /\ \A i \in 1..(L - n) : tail[i] = c[n + i]
  OBVIOUS
<1>3. front \in Seq(T) /\ Len(front) = n /\ \A i \in 1..n : front[i] = c[i]
  OBVIOUS
<1>4. Range(c) = {c[i] : i \in 1..L} /\ Range(front) = {front[i] : i \in 1..n}
  <2> HIDE DEF front
  <2> QED BY <1>3, RangeFinite
<1> HIDE DEF tail, front
<1>5. /\ d \in Seq(T) /\ Len(d) = L - n + 1
      /\ \A i \in 1..(L - n) : d[i] = c[n + i] 
      /\ d[L - n + 1] = s
  BY <1>1, <1>2
<1> HIDE DEF d, L
<1>6. Range(d) = {d[i] : i \in 1..(L - n + 1)}
  BY <1>5, RangeFinite
<1>7. \A i, j \in 1..L : c[i] = c[j] => i = j
  BY DEF Distinct, L
<1>8. \A i \in 1..L : c[i] # s
  BY <1>4
<1>9. n \in 0..L
  BY DEF L
<1>10. ASSUME NEW i \in 1..(L - n + 1), NEW j \in 1..(L - n + 1), d[i] = d[j]
       PROVE  i = j
  <2>1. CASE i \in 1..(L - n) /\ j \in 1..(L - n)
    <3>1. n + i \in 1..L /\ n + j \in 1..L /\ c[n + i] = c[n + j]
      BY <1>1, <1>5, <1>9, <1>10, <2>1
    <3>2. n + i = n + j
      BY <1>7, <3>1
    <3> QED BY <3>2, <1>9
  <2>2. CASE i \in 1..(L - n) /\ j = L - n + 1
    <3>1. n + i \in 1..L /\ c[n + i] = s
      BY <1>1, <1>5, <1>9, <1>10, <2>2
    <3> QED BY <1>8, <3>1
  <2>3. CASE j \in 1..(L - n) /\ i = L - n + 1
    <3>1. n + j \in 1..L /\ c[n + j] = s
      BY <1>1, <1>5, <1>9, <1>10, <2>3
    <3> QED BY <1>8, <3>1
  <2> QED BY <1>1, <1>9, <2>1, <2>2, <2>3
<1>11. Distinct(d)
  BY <1>5, <1>10 DEF Distinct
<1>12. Range(front) \subseteq Range(c)
  BY <1>1, <1>3, <1>4, <1>9
<1>13. ASSUME NEW x \in Range(d) PROVE x \in (Range(c) \ Range(front)) \cup {s}
  <2>1. PICK i \in 1..(L - n + 1) : x = d[i]
    BY <1>6
  <2>2. CASE i = L - n + 1
    BY <1>5, <2>1, <2>2
  <2>3. CASE i \in 1..(L - n)
    <3>1. x = c[n + i] /\ n + i \in 1..L
      BY <1>1, <1>5, <1>9, <2>1, <2>3
    <3>2. \A j \in 1..n : front[j] # x
      <4> SUFFICES ASSUME NEW j \in 1..n, front[j] = x PROVE FALSE
        OBVIOUS
      <4>1. c[j] = c[n + i] /\ j \in 1..L
        BY <1>1, <1>3, <1>9, <3>1
      <4>2. j = n + i
        BY <1>7, <3>1, <4>1
      <4> QED BY <2>3, <4>2, <1>9
    <3> QED BY <1>4, <3>1, <3>2
  <2> QED BY <1>1, <1>9, <2>2, <2>3
<1>14. ASSUME NEW x \in (Range(c) \ Range(front)) \cup {s} PROVE x \in Range(d)
  <2>1. CASE x = s
    <3>1. L - n + 1 \in 1..(L - n + 1)
      BY <1>1, <1>9
    <3> QED BY <1>5, <1>6, <2>1, <3>1
  <2>2. CASE x \in Range(c) \ Range(front)
    <3>1. PICK j \in 1..L : x = c[j]
      BY <1>4, <2>2
    <3>2. j \notin 1..n
      BY <1>3, <1>4, <2>2, <3>1
    <3>3. j - n \in 1..(L - n) /\ n + (j - n) = j
      BY <1>1, <1>9, <3>1, <3>2
    <3>4. d[j - n] = x /\ j - n \in 1..(L - n + 1)
      BY <1>1, <1>5, <1>9, <3>1, <3>3
    <3> QED BY <1>6, <3>4
  <2> QED BY <2>1, <2>2
<1>15. Range(d) = (Range(c) \ Range(front)) \cup {s}
  BY <1>13, <1>14
<1> QED BY <1>5, <1>11, <1>12, <1>15 DEF d, tail, front, L

\* Moving an entry to the end.
LEMMA TouchRange ==
    ASSUME NEW T, NEW c \in Seq(T), Distinct(c), NEW i \in 1..Len(c)
    PROVE  LET d == Append(RemoveAt(c, i), c[i])
           IN  d \in Seq(T) /\ Distinct(d) /\ Len(d) = Len(c) /\ Range(d) = Range(c)
<1> DEFINE L == Len(c)
           q == RemoveAt(c, i)
           d == Append(q, c[i])
           from(j) == IF j < i THEN j ELSE IF j < L THEN j + 1 ELSE i
<1>1. L \in Nat /\ i \in 1..L /\ \A j \in 1..L : c[j] \in T
  OBVIOUS
<1>2. /\ q \in Seq(T) /\ Len(q) = L - 1
      /\ \A j \in 1..(L - 1) : q[j] = IF j < i THEN c[j] ELSE c[j + 1]
  <2> DEFINE a == SubSeq(c, 1, i - 1)
             b == SubSeq(c, i + 1, L)
  <2>1. a \in Seq(T) /\ Len(a) = i - 1 /\ \A j \in 1..(i - 1) : a[j] = c[j]
    OBVIOUS
  <2>2. b \in Seq(T) /\ Len(b) = L - i /\ \A j \in 1..(L - i) : b[j] = c[i + j]
    OBVIOUS
  <2>3. q = a \o b
    BY DEF RemoveAt
  <2> HIDE DEF a, b, L
  <2>4. a \o b \in Seq(T) /\ Len(a \o b) = (i - 1) + (L - i)
    BY <1>1, <2>1, <2>2
  <2>5. ASSUME NEW j \in 1..(L - 1)
        PROVE  (a \o b)[j] = IF j < i THEN c[j] ELSE c[j + 1]
    <3>1. CASE j < i
      BY <1>1, <2>1, <2>2, <3>1
    <3>2. CASE ~ (j < i)
      <4>1. j - (i - 1) \in 1..(L - i) /\ i + (j - (i - 1)) = j + 1
        BY <1>1, <3>2
      <4>2. (a \o b)[j] = b[j - (i - 1)]
        BY <1>1, <2>1, <2>2, <3>2
      <4> QED BY <2>2, <3>2, <4>1, <4>2
    <3> QED BY <3>1, <3>2
  <2> QED BY <1>1, <2>3, <2>4, <2>5
<1> HIDE DEF q, L
<1>3. d \in Seq(T) /\ Len(d) = L
  BY <1>1, <1>2
<1>4. \A j \in 1..L : d[j] = c[from(j)] /\ from(j) \in 1..L
  BY <1>1, <1>2
<1>5. \A j, k \in 1..L : from(j) = from(k) => j = k
  BY <1>1
<1>6. \A k \in 1..L : \E j \in 1..L : from(j) = k
  <2> SUFFICES ASSUME NEW k \in 1..L PROVE \E j \in 1..L : from(j) = k
    OBVIOUS
  <2>1. CASE k < i
    BY <1>1, <2>1
  <2>2. CASE k = i
    <3>1. from(L) = k /\ L \in 1..L
      BY <1>1, <2>2
    <3> QED BY <3>1
  <2>3. CASE k > i
    <3>1. from(k - 1) = k /\ k - 1 \in 1..L
      BY <1>1, <2>3
    <3> QED BY <3>1
  <2> QED BY <1>1, <2>1, <2>2, <2>3
<1> HIDE DEF from, d
<1>7. Range(d) = {d[j] : j \in 1..L} /\ Range(c) = {c[j] : j \in 1..L}
  BY <1>3, RangeFinite DEF L
<1>8. Range(d) = Range(c)
  <2>1. \A x \in Range(d) : x \in Range(c)
    BY <1>4, <1>7
  <2>2. ASSUME NEW x \in Range(c) PROVE x \in Range(d)
    <3>1. PICK k \in 1..L : x = c[k]
      BY <1>7
    <3>2. PICK j \in 1..L : from(j) = k
      BY <1>6
    <3>3. d[j] = x
      BY <1>4, <3>1, <3>2
    <3> QED BY <1>7, <3>3
  <2> QED BY <2>1, <2>2
<1>9. Distinct(d)
  BY <1>3, <1>4, <1>5 DEF Distinct, L
<1> QED BY <1>3, <1>8, <1>9 DEF d, q, L

\* Using a segment keeps the cache what it is: its counter is its weight, within
\* the budget, and there is a slot for every entry.
LEMMA UsedKeeps ==
    ASSUME NEW s \in Sessions, NEW root, CacheOf(s, root), NEW ref \in Segments(root),
           Segments(root) \subseteq Refs
    PROVE  /\ Used(s, ref) \in Sessions /\ CacheOf(Used(s, ref), root)
           /\ Used(s, ref).root = s.root /\ Used(s, ref).map = s.map
<1> USE Constants
<1> DEFINE c == s.cached
           T == Segments(root)
<1>1. /\ c \in Seq(T) /\ Distinct(c) /\ s.resident = Weight(Range(c)) /\ s.resident <= Budget
      /\ Len(c) <= Levels /\ s.resident \in Nat /\ Len(c) \in Nat
  BY DEF CacheOf, Sessions
<1>2. ref \in Refs /\ ref \in T /\ T \subseteq Refs
  OBVIOUS
<1>3. \A d \in Seq(T) : d \in Seq(Refs)
  <2> HIDE DEF T
  <2> QED BY <1>2
<1>4. IsFiniteSet(Range(c)) /\ Range(c) = {c[i] : i \in 1..Len(c)}
  <2> HIDE DEF T, c
  <2> QED BY <1>1, RangeFinite
<1>5. CASE Contains(c, ref)
  <2> DEFINE i == CHOOSE i \in DOMAIN c : c[i] = ref
             d == Append(RemoveAt(c, i), ref)
  <2>1. i \in 1..Len(c) /\ c[i] = ref
    <3>1. \E j \in DOMAIN c : c[j] = ref
      BY <1>1, <1>5 DEF Contains
    <3>2. DOMAIN c = 1..Len(c)
      BY <1>1
    <3> QED BY <3>1, <3>2
  <2> HIDE DEF i
  <2>2. d \in Seq(T) /\ Distinct(d) /\ Len(d) = Len(c) /\ Range(d) = Range(c)
    <3> HIDE DEF c, T
    <3> QED BY <1>1, <2>1, TouchRange
  <2>3. Used(s, ref) = [s EXCEPT !.cached = d]
    BY <1>5 DEF Used, i
  <2> HIDE DEF d
  <2>4. /\ Used(s, ref).cached = d /\ Used(s, ref).resident = s.resident
        /\ Used(s, ref).root = s.root /\ Used(s, ref).map = s.map /\ Used(s, ref) \in Sessions
    BY <1>3, <2>2, <2>3 DEF Sessions
  <2>5. CacheOf(Used(s, ref), root)
    BY <1>1, <2>2, <2>4 DEF CacheOf
  <2> QED BY <2>4, <2>5
<1>6. CASE ~ Contains(c, ref) /\ Charge(ref) > Budget
  BY <1>6 DEF Used
<1>7. CASE ~ Contains(c, ref) /\ ~ (Charge(ref) > Budget)
  <2> DEFINE gone(n) == Range(SubSeq(c, 1, n))
             fits(n) == Remaining(s, n) + Charge(ref) <= Budget /\ Len(c) - n < Levels
             n == Evictions(s, ref)
             d == Append(SubSeq(c, n + 1, Len(c)), ref)
  <2>1. Charge(ref) \in Nat /\ Weight({ref}) = Charge(ref) /\ IsFiniteSet({ref})
    BY <1>2, WeightOne, FS_Singleton
  <2>2. ref \notin Range(c)
    BY <1>4, <1>7 DEF Contains
  <2>3. ASSUME NEW m \in 0..Len(c)
        PROVE  /\ gone(m) \subseteq Range(c) /\ IsFiniteSet(gone(m))
               /\ Remaining(s, m) = s.resident - Weight(gone(m)) /\ Remaining(s, m) \in Nat
               /\ Remaining(s, m) = Weight(Range(c) \ gone(m))
    <3>1. gone(m) \subseteq Range(c)
      <4> HIDE DEF c, T
      <4> QED BY <1>1, <1>2, <2>2, AdmitRange
    <3> DEFINE rest == Range(c) \ gone(m)
    <3>2. IsFiniteSet(gone(m)) /\ IsFiniteSet(rest)
      BY <1>4, <3>1, FS_Subset
    <3>3. gone(m) \cup rest = Range(c) /\ gone(m) \cap rest = {}
      BY <3>1
    <3>4. Weight(Range(c)) = Weight(gone(m)) + Weight(rest)
      <4> HIDE DEF gone, rest
      <4>1. Weight(gone(m) \cup rest) = Weight(gone(m)) + Weight(rest)
        BY <3>2, <3>3, WeightUnion
      <4> QED BY <3>3, <4>1
    <3>5. Weight(gone(m)) \in Nat /\ Weight(rest) \in Nat
      BY <3>2, WeightType
    <3>6. Remaining(s, m) = IF Weight(gone(m)) > s.resident THEN 0 ELSE s.resident - Weight(gone(m))
      BY DEF Remaining
    <3> HIDE DEF gone, rest
    <3>7. Remaining(s, m) = Weight(rest)
      BY <1>1, <3>4, <3>5, <3>6
    <3> QED BY <1>1, <3>1, <3>2, <3>4, <3>5, <3>7 DEF rest
  <2>4. fits(Len(c))
    <3>1. gone(Len(c)) = Range(c)
      <4>1. SubSeq(c, 1, Len(c)) = c
        BY <1>1
      <4> QED BY <4>1
    <3>2. Remaining(s, Len(c)) = 0
      <4>1. Len(c) \in 0..Len(c)
        BY <1>1
      <4> HIDE DEF gone, c
      <4>2. Remaining(s, Len(c)) = s.resident - Weight(gone(Len(c)))
        BY <2>3, <4>1
      <4> QED BY <1>1, <3>1, <4>2
    <3> QED BY <1>1, <1>7, <2>1, <3>2
  <2>5. n \in 0..Len(c) /\ fits(n)
    <3> DEFINE F == {m \in 0..Len(c) : fits(m)}
    <3>1. F \subseteq Nat /\ Len(c) \in F
      BY <1>1, <2>4
    <3>2. n = Smallest(F)
      BY DEF Evictions
    <3>3. Smallest(F) \in F
      <4> HIDE DEF F
      <4> QED BY <3>1, SmallestNat
    <3> HIDE DEF n
    <3> QED BY <3>2, <3>3
  <2> HIDE DEF n
  <2>6. /\ d \in Seq(T) /\ Distinct(d) /\ Len(d) = Len(c) - n + 1
        /\ Range(d) = (Range(c) \ gone(n)) \cup {ref}
    <3> HIDE DEF c, T
    <3> QED BY <1>1, <1>2, <2>2, <2>5, AdmitRange
  <2>7. Weight(Range(d)) = Remaining(s, n) + Charge(ref)
    <3> DEFINE rest == Range(c) \ gone(n)
    <3>1. IsFiniteSet(rest) /\ rest \cap {ref} = {}
      <4>1. rest \in SUBSET Range(c)
        OBVIOUS
      <4> HIDE DEF rest
      <4> QED BY <1>4, <2>2, <4>1, FS_Subset
    <3>2. Weight(rest \cup {ref}) = Weight(rest) + Weight({ref})
      <4> HIDE DEF rest
      <4> QED BY <2>1, <3>1, WeightUnion
    <3>3. Remaining(s, n) = Weight(rest)
      BY <2>3, <2>5
    <3> HIDE DEF rest, d
    <3> QED BY <2>1, <2>6, <3>2, <3>3 DEF rest
  <2>8. Used(s, ref) = [s EXCEPT !.cached = d, !.resident = Remaining(s, n) + Charge(ref)]
    BY <1>7 DEF Used, n
  <2>9. Remaining(s, n) \in Nat
    BY <2>3, <2>5
  <2> HIDE DEF d
  <2>10. /\ Used(s, ref).cached = d /\ Used(s, ref).resident = Remaining(s, n) + Charge(ref)
         /\ Used(s, ref).root = s.root /\ Used(s, ref).map = s.map /\ Used(s, ref) \in Sessions
    <3>1. d \in Seq(Refs)
      BY <1>3, <2>6
    <3> DEFINE total == Remaining(s, n) + Charge(ref)
    <3>2. total \in Nat
      BY <2>1, <2>9
    <3> HIDE DEF total
    <3>3. Used(s, ref) = [s EXCEPT !.cached = d, !.resident = total]
      BY <2>8 DEF total
    <3>4. /\ Used(s, ref).cached = d /\ Used(s, ref).resident = total
          /\ Used(s, ref).root = s.root /\ Used(s, ref).map = s.map /\ Used(s, ref) \in Sessions
      BY <3>1, <3>2, <3>3 DEF Sessions
    <3> QED BY <3>4 DEF total
  <2>11. CacheOf(Used(s, ref), root)
    <3>1. Len(d) <= Levels
      BY <1>1, <2>5, <2>6
    <3> QED BY <2>5, <2>6, <2>7, <2>10, <3>1 DEF CacheOf
  <2> QED BY <2>10, <2>11
<1> QED BY <1>5, <1>6, <1>7

\* A batched lookup keeps the session's root and its cache in order, and fails
\* only when some page it wants does not read.
Outcomes(W) ==
    {a \in [session : Sessions, failed : BOOLEAN, missed : BOOLEAN] :
        /\ CacheOf(a.session, session.root)
        /\ a.session.root = session.root /\ a.session.map = session.map
        /\ a.failed => \E s \in W : ~ Reads(s)}

LEMMA ReadKeeps ==
    ASSUME NEW W \in SUBSET Segments(session.root), NEW a \in Outcomes(W), NEW ref \in W,
           session.root \in Roots
    PROVE  ReadSegment(a, ref) \in Outcomes(W)
<1> DEFINE used == Used(a.session, ref)
<1>1. /\ a \in [session : Sessions, failed : BOOLEAN, missed : BOOLEAN]
      /\ CacheOf(a.session, session.root)
      /\ a.session.root = session.root /\ a.session.map = session.map
      /\ a.failed => \E s \in W : ~ Reads(s)
  BY DEF Outcomes
<1>2. Segments(session.root) \subseteq Refs
  BY SegmentFacts
<1>3. used \in Sessions /\ CacheOf(used, session.root)
      /\ used.root = session.root /\ used.map = session.map
  BY <1>1, <1>2, UsedKeeps
<1> HIDE DEF used
<1>4. CASE a.failed
  BY <1>4 DEF ReadSegment
<1>5. CASE ~ a.failed /\ Contains(a.session.cached, ref)
  <2>1. ReadSegment(a, ref) = [a EXCEPT !.session = used]
    BY <1>5 DEF ReadSegment, used
  <2>2. [a EXCEPT !.session = used] \in Outcomes(W)
    BY <1>1, <1>3, <1>5 DEF Outcomes
  <2> QED BY <2>1, <2>2
<1>6. CASE ~ a.failed /\ ~ Contains(a.session.cached, ref) /\ Reads(ref)
  <2>1. ReadSegment(a, ref) = [a EXCEPT !.session = used, !.missed = TRUE]
    BY <1>6 DEF ReadSegment, used
  <2>2. [a EXCEPT !.session = used, !.missed = TRUE] \in Outcomes(W)
    BY <1>1, <1>3, <1>6 DEF Outcomes
  <2> QED BY <2>1, <2>2
<1>7. CASE ~ a.failed /\ ~ Contains(a.session.cached, ref) /\ ~ Reads(ref)
  <2>1. ReadSegment(a, ref) = [a EXCEPT !.failed = TRUE, !.missed = TRUE]
    BY <1>7 DEF ReadSegment
  <2>2. [a EXCEPT !.failed = TRUE, !.missed = TRUE] \in Outcomes(W)
    BY <1>1, <1>7 DEF Outcomes
  <2> QED BY <2>1, <2>2
<1> QED BY <1>4, <1>5, <1>6, <1>7

LEMMA BatchedKeeps ==
    ASSUME TypeInv, RootInv, SessionInv, NEW keys \in SUBSET Keys
    PROVE  Batched(keys) \in Outcomes(Wanted(keys))
<1> DEFINE W == Wanted(keys)
           r == [root |-> session.root, map |-> session.map]
           G == session.root.generation
           made(n) == MadeIn(Wanted(keys), G + 1 - n)
           start == [session |-> session, failed |-> FALSE, missed |-> FALSE]
           step == [p \in (1..G) \X Outcomes(W) |->
                      IF made(p[1]) = {} THEN p[2] ELSE ReadSegment(p[2], Newest(made(p[1])))]
           Solves(f) == f = [n \in 0..G |->
                               IF n = 0 THEN start
                               ELSE IF made(n) = {} THEN f[n - 1]
                               ELSE ReadSegment(f[n - 1], Newest(made(n)))]
<1>1. r \in [root : Roots, map : Maps] /\ WellMade(r) /\ session \in Sessions
  BY DEF TypeInv, RootInv, SessionInv
<1>2. session.root \in Roots /\ session.map \in Maps /\ r.root = session.root /\ G \in Nat
  BY <1>1 DEF Sessions, Roots
<1>3. W \subseteq Segments(session.root)
  <2>1. \A k \in keys : Consulted(session.root, k) \subseteq Segments(session.root)
    BY <1>1, <1>2, ConsultedEnough
  <2> QED BY <2>1 DEF Wanted
<1>4. start \in Outcomes(W)
  BY <1>1 DEF Outcomes, SessionInv
<1>5. ASSUME NEW n \in 1..G, made(n) # {} PROVE Newest(made(n)) \in W
  <2>1. made(n) \subseteq W /\ made(n) \subseteq Segments(session.root)
    BY <1>3 DEF MadeIn
  <2>2. Newest(made(n)) \in made(n)
    <3> HIDE DEF made, r, W
    <3> QED BY <1>1, <1>2, <1>5, <2>1, RootNewest
  <2> HIDE DEF made, W
  <2> QED BY <2>1, <2>2
<1>6. step \in Steps(G, Outcomes(W))
  <2>1. ASSUME NEW n \in 1..G, NEW a \in Outcomes(W)
        PROVE  (IF made(n) = {} THEN a ELSE ReadSegment(a, Newest(made(n)))) \in Outcomes(W)
    <3> HIDE DEF made, W
    <3> QED BY <1>2, <1>3, <1>5, ReadKeeps
  <2> HIDE DEF made, G
  <2> QED BY <2>1 DEF Steps
<1>7. PICK f \in Chains(G, Outcomes(W)) : Follows(f, G, start, step)
  <2> HIDE DEF step, G, start
  <2> QED BY <1>2, <1>4, <1>6, RecursionExists, Zenon
<1>8. Solves(f)
  <2> USE DEF Chains, Follows
  <2> HIDE DEF made, G, start
  <2>1. ASSUME NEW n \in 1..G
        PROVE  f[n] = IF made(n) = {} THEN f[n - 1] ELSE ReadSegment(f[n - 1], Newest(made(n)))
    <3>1. f[n - 1] \in Outcomes(W)
      BY <1>2, <1>7, <2>1
    <3> QED BY <3>1, <1>7
  <2>2. f = [n \in 0..G |-> f[n]]
    BY <1>7, Zenon
  <2>3. \A n \in 0..G : n = 0 \/ n \in 1..G
    BY <1>2
  <2> HIDE DEF step
  <2>4. f = [n \in 0..G |-> IF n = 0 THEN start
                            ELSE IF made(n) = {} THEN f[n - 1]
                            ELSE ReadSegment(f[n - 1], Newest(made(n)))]
    BY <1>7, <2>1, <2>2, <2>3
  <2> QED BY <2>4
<1> DEFINE after == CHOOSE g : Solves(g)
<1>9. Batched(keys) = after[G]
  BY DEF Batched
<1>10. Solves(after)
  <2> HIDE DEF Solves
  <2> QED BY <1>8
<1> DEFINE Bad == {n \in 0..G : after[n] \notin Outcomes(W)}
<1> HIDE DEF after, made, G, start
<1>11. ASSUME Bad # {} PROVE FALSE
  <2>1. PICK n \in Bad : \A j \in Bad : n <= j
    <3>1. Bad \subseteq Nat
      BY <1>2
    <3> HIDE DEF Bad
    <3> QED BY <1>11, <3>1, LeastExists, Zenon
  <2>2. n \in 0..G /\ (n # 0 => n - 1 \in 0..G /\ n \in 1..G /\ n - 1 \notin Bad)
    BY <1>2, <2>1
  <2>3. after[n] = IF n = 0 THEN start
                   ELSE IF made(n) = {} THEN after[n - 1]
                   ELSE ReadSegment(after[n - 1], Newest(made(n)))
    BY <1>10, <2>2
  <2> HIDE DEF W
  <2> QED BY <1>2, <1>3, <1>4, <1>5, <2>1, <2>2, <2>3, ReadKeeps
<1>12. after[G] \in Outcomes(W)
  <2>1. Bad = {}
    <3> HIDE DEF Bad
    <3> QED BY <1>11
  <2>2. G \in 0..G
    BY <1>2
  <2> QED BY <2>1, <2>2
<1> QED BY <1>9, <1>12 DEF G

\* What a session answers follows.
LEMMA SessionAnswers == TypeInv /\ RootInv /\ ReadInv /\ SessionInv => SessionBounded
<1> SUFFICES ASSUME TypeInv, RootInv, ReadInv, SessionInv,
                    NEW keys \in SUBSET Keys, NEW k \in keys
             PROVE  IF SessionAnswer(keys, k) = Failure THEN Wanted(keys) \cap lost # {}
                    ELSE SessionAnswer(keys, k) = session.map[k]
  BY DEF SessionBounded, SessionInv, CacheOf
<1> DEFINE r == [root |-> session.root, map |-> session.map]
           wanted == Wanted(keys)
<1>1. r \in roots /\ r \in [root : Roots, map : Maps] /\ WellMade(r) /\ r.root = session.root
      /\ r.map = session.map
  BY DEF TypeInv, RootInv, SessionInv
<1>2. Batched(keys).failed => \E s \in wanted : ~ Reads(s)
  BY BatchedKeeps DEF Outcomes
<1>3. Record(Consulted(session.root, k), k) = session.map[k]
  <2> HIDE DEF r
  <2> QED BY <1>1, ConsultedEnough
<1>4. session.map[k] # Failure
  <2> HIDE DEF r
  <2>1. session.map \in Maps
    BY <1>1
  <2> QED BY <2>1, MapValues
<1>5. CASE Batched(keys).failed
  <2>1. wanted \subseteq Segments(session.root)
    <3>1. \A j \in keys : Consulted(session.root, j) \subseteq Segments(session.root)
      <4> HIDE DEF r
      <4> QED BY <1>1, ConsultedEnough
    <3> QED BY <3>1 DEF Wanted
  <2>3. wanted \cap lost # {}
    <3> HIDE DEF wanted
    <3> QED BY <1>1, <1>2, <1>5, <2>1 DEF ReadInv
  <2>2. SessionAnswer(keys, k) = Failure
    BY <1>5 DEF SessionAnswer
  <2> QED BY <2>2, <2>3
<1>6. CASE ~ Batched(keys).failed
  BY <1>3, <1>4, <1>6 DEF SessionAnswer
<1> QED BY <1>5, <1>6

-----------------------------------------------------------------------------
(* The page file.                                                           *)

Cells == Pages \cup {Torn}

LEMMA FileFacts ==
    TypeInv => /\ disk \in Seq(Cells) /\ pending \in Seq(Cells) /\ File \in Seq(Cells)
               /\ Len(disk) \in Nat /\ Len(pending) \in Nat
               /\ Len(File) = Len(disk) + Len(pending) /\ DOMAIN File = 1..Len(File)
<1> SUFFICES ASSUME TypeInv PROVE
               /\ disk \in Seq(Cells) /\ pending \in Seq(Cells) /\ File \in Seq(Cells)
               /\ Len(disk) \in Nat /\ Len(pending) \in Nat
               /\ Len(File) = Len(disk) + Len(pending) /\ DOMAIN File = 1..Len(File)
  OBVIOUS
<1>1. disk \in Seq(Cells)
  BY DEF TypeInv, Cells
<1>2. pending \in Seq(Cells)
  <2>1. pending \in Seq(Pages) /\ Pages \subseteq Cells
    BY DEF TypeInv, Cells
  <2> HIDE DEF Cells
  <2> QED BY <2>1
<1> QED BY <1>1, <1>2 DEF File

\* What was in the file reads as before when something is put behind it.
LEMMA PrefixReads ==
    ASSUME NEW f \in Seq(Cells), NEW m \in Seq(Cells), File' = f \o m,
           NEW s, s.at \in 1..Len(f), f[s.at] = s.page
    PROVE  Reads(s)'
<1>1. s.at \in DOMAIN (f \o m) /\ (f \o m)[s.at] = s.page
  <2> HIDE DEF Cells
  <2> QED OBVIOUS
<1> HIDE DEF File
<1> QED BY <1>1 DEF Reads

LEMMA GrowsReads ==
    ASSUME TypeInv, NEW m \in Seq(Cells), File' = File \o m, NEW s, Reads(s)
    PROVE  Reads(s)'
<1>1. File \in Seq(Cells) /\ s.at \in 1..Len(File) /\ File[s.at] = s.page
  BY FileFacts DEF Reads
<1> HIDE DEF File
<1> QED BY <1>1, PrefixReads

\* When the buffer is lost, the pages that were on disk go on reading.
LEMMA DiskReads ==
    ASSUME TypeInv, NEW m \in Seq(Cells), File' = disk \o m,
           NEW s \in Refs, Reads(s), ~ (s.at > Len(disk))
    PROVE  Reads(s)'
<1>1. /\ File \in Seq(Cells) /\ s.at \in 1..Len(File) /\ File[s.at] = s.page
      /\ disk \in Seq(Cells) /\ pending \in Seq(Cells) /\ Len(disk) \in Nat
  BY FileFacts DEF Reads
<1>2. s.at \in 1..Len(disk)
  <2>1. s.at \in Nat
    BY RefFacts
  <2> QED BY <1>1, <2>1
<1>3. disk[s.at] = s.page
  <2>1. (disk \o pending)[s.at] = disk[s.at]
    <3> HIDE DEF Cells
    <3> QED BY <1>1, <1>2
  <2> QED BY <1>1, <2>1 DEF File
<1> QED BY <1>1, <1>2, <1>3, PrefixReads

LEMMA FlushFacts ==
    ASSUME TypeInv, Flush \/ WithFile
    PROVE  /\ disk' \in Seq(Cells) /\ pending' = <<>> /\ committed' \in Nat
           /\ File' = File
<1>1. /\ File \in Seq(Cells) /\ Len(File) \in Nat /\ committed \in Nat
      /\ disk' = File /\ pending' = <<>> /\ committed' \in {committed, Len(File)}
  BY FileFacts DEF Flush, WithFile, TypeInv
<1>2. File' = File
  <2>1. File' = disk' \o pending'
    BY DEF File
  <2>2. File \o <<>> = File
    <3> HIDE DEF File
    <3> QED BY <1>1
  <2> QED BY <1>1, <2>1, <2>2
<1> QED BY <1>1, <1>2

\* What a failed write leaves behind.
LEMMA PartialWrite ==
    ASSUME TypeInv, PartOfBuffer
    PROVE  /\ \E m \in Seq(Cells) : disk' = disk \o m
           /\ disk' \in Seq(Cells) /\ committed' \in Nat /\ faults' \in 0..MaxFaults
<1>1. disk \in Seq(Cells) /\ pending \in Seq(Cells) /\ Len(pending) \in Nat /\ Len(disk) \in Nat
  BY FileFacts
<1>2. PICK n \in 0..(Len(pending) - 1), tail \in {<<>>, <<Torn>>} :
          disk' = disk \o SubSeq(pending, 1, n) \o tail
  BY DEF PartOfBuffer
<1>3. tail \in Seq(Cells)
  <2>1. Torn \in Cells
    BY DEF Cells
  <2>2. <<>> \in Seq(Cells) /\ <<Torn>> \in Seq(Cells)
    <3> HIDE DEF Cells
    <3> QED BY <2>1
  <2> QED BY <2>2
<1>4. SubSeq(pending, 1, n) \o tail \in Seq(Cells)
      /\ disk' = disk \o (SubSeq(pending, 1, n) \o tail) /\ disk' \in Seq(Cells)
  <2> HIDE DEF Cells
  <2>1. SubSeq(pending, 1, n) \in Seq(Cells)
    BY <1>1
  <2>2. ASSUME NEW d \in Seq(Cells), NEW u \in Seq(Cells), NEW v \in Seq(Cells)
        PROVE  /\ u \o v \in Seq(Cells) /\ d \o u \o v \in Seq(Cells)
               /\ d \o u \o v = d \o (u \o v)
    OBVIOUS
  <2> QED BY <1>1, <1>2, <1>3, <2>1, <2>2
<1>5. committed' \in Nat /\ faults' \in 0..MaxFaults
  BY <1>1, Constants DEF PartOfBuffer, Fault, TypeInv
<1> QED BY <1>4, <1>5

\* A large page whose write fails leaves the file as it was, or torn at its end.
LEMMA WriteFailsFacts ==
    ASSUME TypeInv, NEW page \in Pages, WriteFails(page)
    PROVE  /\ \E m \in Seq(Cells) : File' = File \o m
           /\ disk' \in Seq(Cells) /\ pending' = <<>> /\ committed' \in Nat
           /\ faults' \in 0..MaxFaults
<1>1. File \in Seq(Cells) /\ Len(File) \in Nat
  BY FileFacts
<1>2. PICK tail \in {<<>>, <<Torn>>} : disk' = File \o tail
  BY DEF WriteFails
<1>3. tail \in Seq(Cells)
  <2>1. Torn \in Cells
    BY DEF Cells
  <2>2. <<>> \in Seq(Cells) /\ <<Torn>> \in Seq(Cells)
    <3> HIDE DEF Cells
    <3> QED BY <2>1
  <2> QED BY <2>2
<1>4. pending' = <<>> /\ committed' = Len(File) /\ faults' \in 0..MaxFaults
  BY Constants DEF WriteFails, Fault, TypeInv
<1>5. File' = disk' \o pending'
  BY DEF File
<1> HIDE DEF Cells, File
<1>6. disk' \in Seq(Cells)
  BY <1>1, <1>2, <1>3
<1>7. disk' \o <<>> = disk'
  BY <1>6
<1>8. File' = File \o tail
  BY <1>2, <1>4, <1>5, <1>7
<1> QED BY <1>1, <1>3, <1>4, <1>6, <1>8

LEMMA AppendedFacts ==
    ASSUME TypeInv, NEW page \in Pages, NEW hasRead, Appended(page, hasRead)
    PROVE  /\ disk' \in Seq(Cells) /\ pending' \in Seq(Pages) /\ committed' \in Nat
           /\ Len(pending') <= BufferSize
           /\ File' = Append(File, page)
<1> USE Constants
<1>1. /\ disk \in Seq(Cells) /\ pending \in Seq(Cells) /\ File \in Seq(Cells)
      /\ Len(disk) \in Nat /\ Len(pending) \in Nat /\ Len(File) \in Nat
      /\ pending \in Seq(Pages) /\ committed \in Nat /\ Len(pending) <= BufferSize
      /\ page \in Cells
  BY FileFacts DEF TypeInv, Cells
<1>2. /\ File \o <<page>> = Append(File, page) /\ Append(File, page) \in Seq(Cells)
      /\ Append(File, page) \o <<>> = Append(File, page) /\ Len(Append(File, page)) \in Nat
  <2> HIDE DEF File, Cells
  <2> QED BY <1>1
<1>3. /\ <<page>> \in Seq(Pages) /\ Len(<<page>>) = 1 /\ <<>> \in Seq(Pages) /\ Len(<<>>) = 0
  <2> HIDE DEF Pages
  <2> QED OBVIOUS
<1>4. File' = disk' \o pending'
  BY DEF File
<1>5. CASE /\ disk' = Append(File, page) /\ committed' = Len(disk') /\ pending' = <<>>
  <2> HIDE DEF File, Cells, Pages
  <2> QED BY <1>1, <1>2, <1>3, <1>4, <1>5
<1>6. CASE /\ disk' = File /\ committed' = Len(disk') /\ pending' = <<page>>
  <2> HIDE DEF File, Cells, Pages
  <2> QED BY <1>1, <1>2, <1>3, <1>4, <1>6
<1>7. CASE /\ Len(pending) < BufferSize
           /\ pending' = Append(pending, page) /\ UNCHANGED <<disk, committed>>
  <2>1. Append(pending, page) \in Seq(Pages) /\ Len(Append(pending, page)) = Len(pending) + 1
    <3> HIDE DEF Pages
    <3> QED BY <1>1
  <2>2. disk \o Append(pending, page) = Append(disk \o pending, page)
    <3> HIDE DEF Cells
    <3> QED BY <1>1
  <2>3. File' = Append(File, page)
    BY <1>4, <1>7, <2>2 DEF File
  <2> HIDE DEF File, Cells, Pages
  <2> QED BY <1>1, <1>7, <2>1, <2>3
<1> QED BY <1>5, <1>6, <1>7 DEF Appended

-----------------------------------------------------------------------------
(* The invariant.                                                           *)

LEMMA EmptyRootFacts ==
    LET r == [root |-> EmptyRoot, map |-> NothingInserted]
    IN  r \in [root : Roots, map : Maps] /\ WellMade(r) /\ Segments(EmptyRoot) = {}
<1> DEFINE r == [root |-> EmptyRoot, map |-> NothingInserted]
<1>1. r.root = EmptyRoot /\ r.map = NothingInserted
  OBVIOUS
<1>2. EmptyRoot \in Roots /\ NothingInserted \in Maps
  BY Constants DEF EmptyRoot, Roots, NothingInserted, Maps
<1>3. Occupied(EmptyRoot) = {} /\ Segments(EmptyRoot) = {}
  BY DEF Occupied, EmptyRoot, Segments
<1>4. \A k \in Keys : NothingInserted[k] = Record(Segments(EmptyRoot), k)
  BY <1>3 DEF Record, Having, NothingInserted
<1>5. r \in [root : Roots, map : Maps]
  BY <1>2
<1> HIDE DEF r
<1>6. WellMade(r)
  BY <1>1, <1>3, <1>4 DEF WellMade
<1> QED BY <1>3, <1>5, <1>6 DEF r

LEMMA EmptyCache ==
    ASSUME NEW s, s.cached = <<>>, s.resident = 0, NEW root
    PROVE  CacheOf(s, root)
<1> USE Constants
<1>1. Range(<<>>) = {}
  BY DEF Range
<1>2. Weight({}) = 0
  <2>1. Pairs({}) = {}
    BY DEF Pairs
  <2>2. IsFiniteSet({}) /\ Cardinality({}) = 0
    BY FS_EmptySet
  <2>3. Weight({}) = Cardinality(Pairs({}))
    BY <2>2, WeightType
  <2> QED BY <2>1, <2>2, <2>3
<1>3. <<>> \in Seq(Segments(root)) /\ Len(<<>>) = 0
  OBVIOUS
<1>4. Distinct(<<>>)
  BY <1>3 DEF Distinct
<1>5. s.resident = Weight(Range(s.cached)) /\ s.cached \in Seq(Segments(root))
  BY <1>1, <1>2, <1>3
<1>6. s.resident <= Budget /\ Len(s.cached) <= Levels
  BY <1>3
<1>7. Distinct(s.cached)
  BY <1>4
<1> HIDE DEF CacheOf
<1> QED BY <1>5, <1>6, <1>7 DEF CacheOf

LEMMA InitInv == Init => IInv
<1> SUFFICES ASSUME Init PROVE IInv
  OBVIOUS
<1> USE DEF Init
<1>1. /\ [root |-> EmptyRoot, map |-> NothingInserted] \in [root : Roots, map : Maps]
      /\ WellMade([root |-> EmptyRoot, map |-> NothingInserted]) /\ Segments(EmptyRoot) = {}
  BY EmptyRootFacts
<1>2. NoSession \in Sessions
  BY <1>1 DEF NoSession, Sessions
<1>3. TypeInv
  <2>1. <<>> \in Seq(Pages \cup {Torn}) /\ <<>> \in Seq(Pages) /\ Len(<<>>) = 0
    OBVIOUS
  <2>2. disk \in Seq(Pages \cup {Torn}) /\ pending \in Seq(Pages) /\ Len(pending) <= BufferSize
    BY <2>1, Constants
  <2>3. roots \subseteq [root : Roots, map : Maps] /\ session \in Sessions
    BY <1>1, <1>2
  <2>4. committed \in Nat /\ faults \in 0..MaxFaults
    BY Constants
  <2> QED BY <2>2, <2>3, <2>4 DEF TypeInv
<1>4. RootInv
  BY <1>1 DEF RootInv
<1>5. ReadInv
  BY <1>1 DEF ReadInv
<1>6. SessionInv
  <2>1. NoSession.cached = <<>> /\ NoSession.resident = 0
        /\ NoSession.root = EmptyRoot /\ NoSession.map = NothingInserted
    BY DEF NoSession
  <2>2. CacheOf(NoSession, EmptyRoot)
    BY <2>1, EmptyCache
  <2> QED BY <2>1, <2>2 DEF SessionInv
<1> QED BY <1>3, <1>4, <1>5, <1>6 DEF IInv

\* A step that keeps the roots keeps what the roots are; one that keeps the
\* session too keeps the session.
LEMMA SameRoots ==
    ASSUME IInv, roots' = roots
    PROVE  /\ RootInv'
           /\ session' = session => SessionInv'
           /\ session' = NoSession => SessionInv'
<1>1. RootInv'
  BY DEF IInv, RootInv
<1>2. ASSUME session' = session PROVE SessionInv'
  BY <1>2 DEF IInv, SessionInv
<1>3. ASSUME session' = NoSession PROVE SessionInv'
  <2>1. NoSession.cached = <<>> /\ NoSession.resident = 0
        /\ NoSession.root = EmptyRoot /\ NoSession.map = NothingInserted
    BY DEF NoSession
  <2>2. CacheOf(NoSession, EmptyRoot)
    BY <2>1, EmptyCache
  <2>3. [root |-> EmptyRoot, map |-> NothingInserted] \in roots'
    BY DEF IInv, RootInv
  <2>4. session'.root = EmptyRoot /\ session'.map = NothingInserted /\ CacheOf(session', session'.root)
    BY <1>3, <2>1, <2>2
  <2> QED BY <2>3, <2>4 DEF SessionInv
<1> QED BY <1>1, <1>2, <1>3

\* A step that keeps what reads, but for what it loses, keeps the promise.
LEMMA SameReads ==
    ASSUME ReadInv, roots' = roots, lost \subseteq lost',
           \A r \in roots : \A s \in Segments(r.root) \ lost' : Reads(s) => Reads(s)'
    PROVE  ReadInv'
BY DEF ReadInv

LEMMA GrowsKeeps ==
    ASSUME TypeInv, ReadInv, roots' = roots, lost' = lost, NEW m \in Seq(Cells), File' = File \o m
    PROVE  ReadInv'
<1>1. ASSUME NEW s, Reads(s) PROVE Reads(s)'
  BY <1>1, GrowsReads
<1> QED BY <1>1, SameReads

LEMMA SameFile ==
    ASSUME ReadInv, roots' = roots, lost' = lost, File' = File
    PROVE  ReadInv'
<1>1. ASSUME NEW s, Reads(s) PROVE Reads(s)'
  BY <1>1 DEF Reads
<1> QED BY <1>1, SameReads

\* A step that loses the buffer and no more.
LEMMA LosesBuffer ==
    ASSUME IInv, roots' = roots, lost' = lost \cup InBuffer, NEW m \in Seq(Cells), File' = disk \o m
    PROVE  ReadInv' /\ lost' \subseteq Refs
<1>1. ASSUME NEW r \in roots PROVE Segments(r.root) \subseteq Refs
  BY SegmentFacts DEF IInv, TypeInv
<1>2. ASSUME NEW r \in roots, NEW s \in Segments(r.root) \ lost', Reads(s) PROVE Reads(s)'
  <2>1. s \in Refs /\ ~ (s.at > Len(disk))
    BY <1>1, <1>2 DEF InBuffer
  <2> QED BY <1>2, <2>1, DiskReads DEF IInv
<1>3. ReadInv'
  BY <1>2, SameReads DEF IInv
<1>4. InBuffer \subseteq Refs /\ lost \subseteq Refs
  BY <1>1 DEF InBuffer, IInv, TypeInv
<1> QED BY <1>3, <1>4

LEMMA FlushKeeps ==
    ASSUME IInv, Flush \/ WithFile, UNCHANGED <<roots, lost, faults>>,
           session' \in Sessions, isOpen' \in BOOLEAN
    PROVE  TypeInv' /\ ReadInv'
<1>1. disk' \in Seq(Cells) /\ pending' = <<>> /\ committed' \in Nat /\ File' = File
  BY FlushFacts DEF IInv
<1>2. TypeInv'
  <2>1. <<>> \in Seq(Pages) /\ Len(<<>>) = 0
    OBVIOUS
  <2>2. disk' \in Seq(Pages \cup {Torn}) /\ pending' \in Seq(Pages) /\ Len(pending') <= BufferSize
    BY <1>1, <2>1, Constants DEF Cells
  <2> QED BY <1>1, <2>2 DEF IInv, TypeInv
<1>3. ReadInv'
  BY <1>1, SameFile DEF IInv
<1> QED BY <1>2, <1>3

LEMMA InsertManyKeeps ==
    ASSUME IInv, NEW r \in roots, NEW batch \in Batches, InsertMany(r, batch)
    PROVE  IInv'
<1> DEFINE page == NewPage(r.root, batch)
           hasRead == HasRead(r.root)
           at == NewOffset(r.root)
           ref == [at |-> at, page |-> page]
           new == [root |-> Inserted(r.root, batch, at), map |-> Overridden(r.map, batch)]
<1>1. /\ Target(r.root) <= Levels /\ Appended(page, hasRead) /\ roots' = roots \cup {new}
      /\ session' = session /\ isOpen' = isOpen /\ faults' = faults
      /\ lost' = IF hasRead \/ committed = Len(disk) THEN lost ELSE lost \cup {ref}
  BY DEF InsertMany, Insertable, NewRef
<1>2. TypeInv /\ RootInv /\ ReadInv /\ SessionInv
  BY DEF IInv
<1>3. r \in [root : Roots, map : Maps] /\ WellMade(r) /\ r.root \in Roots
  BY <1>2 DEF TypeInv, RootInv
<1>4. /\ Len(File) \in Nat /\ Len(pending) \in Nat /\ committed \in Nat /\ Len(disk) \in Nat
      /\ Len(File) = Len(disk) + Len(pending) /\ File \in Seq(Cells)
  BY <1>2, FileFacts DEF TypeInv
<1>5. at \in Nat /\ (hasRead \/ committed = Len(disk) => at = Len(File) + 1)
  BY <1>4 DEF NewOffset, NextOffset
<1> HIDE DEF at
<1>6. page \in Pages /\ Inserted(r.root, batch, at) \in Roots /\ Overridden(r.map, batch) \in Maps
  BY <1>1, <1>3, <1>5, InsertedType
<1>7. /\ disk' \in Seq(Cells) /\ pending' \in Seq(Pages) /\ committed' \in Nat
      /\ Len(pending') <= BufferSize /\ File' = Append(File, page)
  <2> HIDE DEF page, hasRead
  <2> QED BY <1>1, <1>2, <1>6, AppendedFacts
<1>8. new \in [root : Roots, map : Maps] /\ WellMade(new)
  BY <1>1, <1>3, <1>5, <1>6, InsertedWellMade
<1>9. Segments(new.root) = {ref} \cup
          {r.root.levels[l] : l \in {m \in Occupied(r.root) : m > Target(r.root)}}
  BY <1>1, <1>3, <1>5, InsertedLevels
<1>10. ASSUME NEW s \in Segments(new.root) PROVE s = ref \/ s \in Segments(r.root)
  BY <1>9 DEF Segments
<1>11. ref \in Refs /\ ref.at = at /\ ref.page = page
  BY <1>5, <1>6 DEF Refs
<1> HIDE DEF page, hasRead, new, ref
<1>12. TypeInv'
  <2>1. disk' \in Seq(Pages \cup {Torn})
    BY <1>7 DEF Cells
  <2>2. roots' \subseteq [root : Roots, map : Maps]
    BY <1>1, <1>2, <1>8 DEF TypeInv
  <2>3. lost' \subseteq Refs
    BY <1>1, <1>2, <1>11 DEF TypeInv
  <2> QED BY <1>1, <1>2, <1>7, <2>1, <2>2, <2>3 DEF TypeInv
<1>13. RootInv'
  BY <1>1, <1>2, <1>8 DEF RootInv
<1>14. SessionInv'
  BY <1>1, <1>2 DEF SessionInv
<1>15. ReadInv'
  <2>1. page \in Cells
    BY <1>6 DEF Cells
  <2>2. File' = File \o <<page>> /\ <<page>> \in Seq(Cells)
    <3> HIDE DEF File, Cells
    <3> QED BY <1>4, <1>7, <2>1
  <2>3. ASSUME NEW q \in roots, NEW s \in Segments(q.root) \ lost' PROVE Reads(s)'
    <3>1. Reads(s)
      BY <1>1, <1>2 DEF ReadInv
    <3> QED BY <1>2, <2>2, <3>1, GrowsReads
  <2>4. ASSUME NEW s, s = ref PROVE s \in lost' \/ Reads(s)'
    <3>1. CASE hasRead \/ committed = Len(disk)
      <4>1. at \in DOMAIN Append(File, page) /\ Append(File, page)[at] = page
        <5>1. at = Len(File) + 1
          BY <1>5, <3>1
        <5> HIDE DEF File, Cells
        <5> QED BY <1>4, <2>1, <5>1
      <4>2. s.at \in DOMAIN File' /\ File'[s.at] = s.page
        <5>1. s.at = at /\ s.page = page
          BY <1>11, <2>4
        <5> HIDE DEF File
        <5> QED BY <1>7, <4>1, <5>1
      <4> QED BY <4>2 DEF Reads
    <3>2. CASE ~ (hasRead \/ committed = Len(disk))
      BY <1>1, <2>4, <3>2
    <3> QED BY <3>1, <3>2
  <2>5. ASSUME NEW s \in Segments(new.root) \ lost' PROVE Reads(s)'
    BY <1>10, <2>3, <2>4
  <2> QED BY <1>1, <2>3, <2>5 DEF ReadInv
<1> QED BY <1>12, <1>13, <1>14, <1>15 DEF IInv

LEMMA InsertFailsKeeps ==
    ASSUME IInv, NEW r \in roots, NEW batch \in Batches, InsertFails(r, batch)
    PROVE  IInv'
<1>1. /\ Target(r.root) <= Levels /\ WriteFails(NewPage(r.root, batch))
      /\ UNCHANGED <<roots, session, isOpen, lost>>
  BY DEF InsertFails, Insertable
<1>2. r \in [root : Roots, map : Maps]
  BY DEF IInv, TypeInv
<1>3. NewPage(r.root, batch) \in Pages
  BY <1>1, <1>2, InsertedType
<1>4. /\ \E m \in Seq(Cells) : File' = File \o m
      /\ disk' \in Seq(Cells) /\ pending' = <<>> /\ committed' \in Nat
      /\ faults' \in 0..MaxFaults
  BY <1>1, <1>3, WriteFailsFacts DEF IInv
<1>5. <<>> \in Seq(Pages) /\ Len(<<>>) = 0
  OBVIOUS
<1>6. TypeInv'
  <2>1. disk' \in Seq(Pages \cup {Torn}) /\ pending' \in Seq(Pages) /\ Len(pending') <= BufferSize
    BY <1>4, <1>5, Constants DEF Cells
  <2> QED BY <1>1, <1>4, <2>1 DEF IInv, TypeInv
<1>7. ReadInv'
  BY <1>1, <1>4, GrowsKeeps DEF IInv
<1>8. RootInv' /\ SessionInv'
  BY <1>1, SameRoots
<1> QED BY <1>6, <1>7, <1>8 DEF IInv

LEMMA OpenSessionKeeps ==
    ASSUME IInv, NEW r \in roots, OpenSession(r)
    PROVE  IInv'
<1> DEFINE s == [root |-> r.root, map |-> r.map, cached |-> <<>>, resident |-> 0]
<1>1. /\ session' = s
      /\ UNCHANGED <<disk, committed, pending, roots, isOpen, lost, faults>>
  BY DEF OpenSession
<1>2. r \in [root : Roots, map : Maps]
  BY DEF IInv, TypeInv
<1>3. s \in Sessions /\ s.root = r.root /\ s.map = r.map /\ s.cached = <<>> /\ s.resident = 0
  <2>1. <<>> \in Seq(Refs)
    OBVIOUS
  <2> QED BY <1>2, <2>1 DEF Sessions
<1>4. r = [root |-> r.root, map |-> r.map]
  BY <1>2
<1> HIDE DEF s
<1>5. CacheOf(s, s.root)
  BY <1>3, EmptyCache
<1>6. SessionInv'
  BY <1>1, <1>3, <1>4, <1>5 DEF SessionInv
<1>7. TypeInv'
  BY <1>1, <1>3 DEF IInv, TypeInv
<1>8. RootInv' /\ ReadInv'
  <2>1. File' = File
    BY <1>1 DEF File
  <2> QED BY <1>1, <2>1, SameRoots, SameFile DEF IInv
<1> QED BY <1>6, <1>7, <1>8 DEF IInv

LEMMA SessionLookupKeeps ==
    ASSUME IInv, NEW keys \in SUBSET Keys, SessionLookup(keys)
    PROVE  IInv'
<1>1. TypeInv /\ RootInv /\ SessionInv
  BY DEF IInv
<1> DEFINE b == Batched(keys)
<1>2. b \in Outcomes(Wanted(keys))
  BY <1>1, BatchedKeeps
<1>3. /\ session' = b.session /\ roots' = roots /\ isOpen' = isOpen
      /\ UNCHANGED <<lost, faults>>
      /\ IF b.missed THEN WithFile ELSE UNCHANGED <<disk, committed, pending>>
  BY DEF SessionLookup
<1> HIDE DEF b
<1>4. /\ session' \in Sessions /\ CacheOf(session', session.root)
      /\ session'.root = session.root /\ session'.map = session.map
  BY <1>2, <1>3 DEF Outcomes
<1>5. SessionInv'
  BY <1>1, <1>3, <1>4 DEF SessionInv
<1>6. RootInv'
  BY <1>3, SameRoots
<1>7. TypeInv' /\ ReadInv'
  <2>1. CASE b.missed
    BY <1>1, <1>3, <1>4, <2>1, FlushKeeps DEF TypeInv
  <2>2. CASE ~ b.missed
    <3>1. UNCHANGED <<disk, committed, pending, lost, faults>>
      BY <1>3, <2>2
    <3>2. TypeInv'
      BY <1>1, <1>3, <1>4, <3>1 DEF TypeInv
    <3>3. File' = File
      BY <3>1 DEF File
    <3> QED BY <1>3, <3>1, <3>2, <3>3, SameFile DEF IInv
  <2> QED BY <2>1, <2>2
<1> QED BY <1>5, <1>6, <1>7 DEF IInv

LEMMA FlushFailsKeeps ==
    ASSUME IInv, FlushFails, UNCHANGED <<roots, session, isOpen>>
    PROVE  IInv'
<1>1. /\ pending' = pending /\ PartOfBuffer
      /\ lost' = IF disk' = disk THEN lost ELSE lost \cup InBuffer
  BY DEF FlushFails
<1>2. disk' \in Seq(Cells) /\ committed' \in Nat /\ faults' \in 0..MaxFaults
  BY <1>1, PartialWrite DEF IInv
<1>3. PICK m \in Seq(Cells) : disk' = disk \o m
  BY <1>1, PartialWrite DEF IInv
<1>4. disk \in Seq(Cells) /\ pending \in Seq(Cells)
  BY FileFacts DEF IInv
<1>5. ReadInv' /\ lost' \subseteq Refs
  <2>1. CASE disk' = disk
    <3>1. lost' = lost /\ File' = File /\ lost \subseteq Refs
      BY <1>1, <2>1 DEF File, IInv, TypeInv
    <3> QED BY <3>1, SameFile DEF IInv
  <2>2. CASE disk' # disk
    <3>1. m \o pending \in Seq(Cells) /\ (disk \o m) \o pending = disk \o (m \o pending)
      <4> HIDE DEF Cells
      <4> QED BY <1>3, <1>4
    <3>2. File' = disk \o (m \o pending)
      BY <1>1, <1>3, <3>1 DEF File
    <3> QED BY <1>1, <2>2, <3>1, <3>2, LosesBuffer
  <2> QED BY <2>1, <2>2
<1>6. TypeInv'
  BY <1>1, <1>2, <1>5 DEF IInv, TypeInv, Cells
<1> QED BY <1>5, <1>6, SameRoots DEF IInv

LEMMA DropKeeps ==
    ASSUME IInv, Drop
    PROVE  IInv'
<1>1. isOpen' = FALSE /\ session' = NoSession /\ roots' = roots
  BY DEF Drop
<1>2. session' \in Sessions
  BY <1>1, EmptyRootFacts DEF NoSession, Sessions
<1>3. RootInv' /\ SessionInv'
  BY <1>1, SameRoots
<1>4. CASE Flush /\ UNCHANGED <<lost, faults>>
  <2>1. TypeInv' /\ ReadInv'
    BY <1>1, <1>2, <1>4, FlushKeeps
  <2> QED BY <1>3, <2>1 DEF IInv
<1>5. CASE PartOfBuffer /\ pending' = <<>> /\ lost' = lost \cup InBuffer
  <2>1. disk' \in Seq(Cells) /\ committed' \in Nat /\ faults' \in 0..MaxFaults
    BY <1>5, PartialWrite DEF IInv
  <2>2. PICK m \in Seq(Cells) : disk' = disk \o m
    BY <1>5, PartialWrite DEF IInv
  <2>3. File' = disk \o m
    <3>1. disk' \o <<>> = disk'
      <4> HIDE DEF Cells
      <4> QED BY <2>1
    <3> QED BY <1>5, <2>2, <3>1 DEF File
  <2>4. ReadInv' /\ lost' \subseteq Refs
    BY <1>1, <1>5, <2>3, LosesBuffer
  <2>5. <<>> \in Seq(Pages) /\ Len(<<>>) = 0
    OBVIOUS
  <2>6. pending' \in Seq(Pages) /\ Len(pending') <= BufferSize
    BY <1>5, <2>5, Constants
  <2>7. TypeInv'
    BY <1>1, <1>2, <2>1, <2>4, <2>6 DEF IInv, TypeInv, Cells
  <2> QED BY <1>3, <2>4, <2>7 DEF IInv
<1> QED BY <1>4, <1>5 DEF Drop

LEMMA DieKeeps ==
    ASSUME IInv, Die
    PROVE  IInv'
<1>1. /\ isOpen' = FALSE /\ session' = NoSession /\ pending' = <<>>
      /\ lost' = lost \cup InBuffer /\ faults < MaxFaults /\ faults' = faults + 1
      /\ UNCHANGED <<disk, committed, roots>>
  BY DEF Die, Fault
<1>2. session' \in Sessions
  BY <1>1, EmptyRootFacts DEF NoSession, Sessions
<1>3. <<>> \in Seq(Pages) /\ Len(<<>>) = 0 /\ <<>> \in Seq(Cells)
  OBVIOUS
<1>4. ReadInv' /\ lost' \subseteq Refs
  <2>1. File' = disk \o <<>>
    BY <1>1 DEF File
  <2> QED BY <1>1, <1>3, <2>1, LosesBuffer
<1>5. pending' \in Seq(Pages) /\ Len(pending') <= BufferSize /\ faults' \in 0..MaxFaults
  BY <1>1, <1>3, Constants DEF IInv, TypeInv
<1>6. TypeInv'
  BY <1>1, <1>2, <1>4, <1>5 DEF IInv, TypeInv
<1>7. RootInv' /\ SessionInv'
  BY <1>1, SameRoots
<1> QED BY <1>4, <1>6, <1>7 DEF IInv

LEMMA AdoptKeeps ==
    ASSUME IInv, Adopt
    PROVE  IInv'
<1>1. /\ committed' = Len(disk) /\ isOpen' = TRUE
      /\ UNCHANGED <<disk, pending, roots, session, lost, faults>>
  BY DEF Adopt
<1>2. Len(disk) \in Nat
  BY FileFacts DEF IInv
<1>3. TypeInv'
  BY <1>1, <1>2 DEF IInv, TypeInv
<1>4. ReadInv'
  <2>1. File' = File
    BY <1>1 DEF File
  <2> QED BY <1>1, <2>1, SameFile DEF IInv
<1>5. RootInv' /\ SessionInv'
  BY <1>1, SameRoots
<1> QED BY <1>3, <1>4, <1>5 DEF IInv

LEMMA NextInv == IInv /\ [Next]_vars => IInv'
<1> SUFFICES ASSUME IInv, [Next]_vars PROVE IInv'
  OBVIOUS
<1>1. ASSUME NEW r \in roots, NEW batch \in Batches, InsertMany(r, batch) PROVE IInv'
  BY <1>1, InsertManyKeeps
<1>12. ASSUME NEW r \in roots, NEW batch \in Batches, InsertFails(r, batch) PROVE IInv'
  BY <1>12, InsertFailsKeeps
<1>2. ASSUME WithFile, UNCHANGED <<roots, session, isOpen, lost, faults>> PROVE IInv'
  <2>1. TypeInv' /\ ReadInv'
    BY <1>2, FlushKeeps DEF IInv, TypeInv
  <2>2. RootInv' /\ SessionInv'
    BY <1>2, SameRoots
  <2> QED BY <2>1, <2>2 DEF IInv
<1>3. ASSUME NEW r \in roots, InsertRefused(r) PROVE IInv'
  BY <1>2, <1>3 DEF InsertRefused
<1>4. ASSUME NEW r \in roots, OpenSession(r) PROVE IInv'
  BY <1>4, OpenSessionKeeps
<1>5. ASSUME NEW keys \in (SUBSET Keys) \ {{}}, SessionLookup(keys) PROVE IInv'
  BY <1>5, SessionLookupKeeps
<1>6. CASE ReadPages
  BY <1>2, <1>6 DEF ReadPages
<1>7. CASE ReadFails
  BY <1>7, FlushFailsKeeps DEF ReadFails
<1>8. CASE Drop
  BY <1>8, DropKeeps
<1>9. CASE Die
  BY <1>9, DieKeeps
<1>10. CASE Adopt
  BY <1>10, AdoptKeeps
<1>11. CASE UNCHANGED vars
  <2>1. /\ UNCHANGED <<disk, committed, pending, roots, session, isOpen, lost, faults>>
        /\ File' = File
    BY <1>11 DEF vars, File
  <2>2. TypeInv'
    BY <2>1 DEF IInv, TypeInv
  <2>3. ReadInv'
    BY <2>1, SameFile DEF IInv
  <2>4. RootInv' /\ SessionInv'
    BY <2>1, SameRoots
  <2> QED BY <2>2, <2>3, <2>4 DEF IInv
<1> QED BY <1>1, <1>3, <1>4, <1>5, <1>6, <1>7, <1>8, <1>9, <1>10, <1>11, <1>12 DEF Next

\* The types, and that every level of a root has a segment or none, as
\* validate_lsm_root demands.
LEMMA TypeFollows == IInv => TypeOK
<1> SUFFICES ASSUME IInv PROVE TypeOK
  OBVIOUS
<1>1. \A i \in DOMAIN File : File[i] \in Pages \cup {Torn}
  <2>1. File \in Seq(Cells)
    BY FileFacts DEF IInv
  <2> QED BY <2>1 DEF Cells
<1>2. ASSUME NEW r \in roots PROVE IsRoot(r.root) /\ r.map \in Maps
  <2>1. r \in [root : Roots, map : Maps] /\ WellMade(r)
    BY DEF IInv, TypeInv, RootInv
  <2> QED BY <2>1 DEF IsRoot, WellMade, Roots
<1>3. IsRoot(session.root)
  <2>1. PICK r \in roots : r.root = session.root
    BY DEF IInv, SessionInv
  <2> QED BY <1>2, <2>1
<1> QED BY <1>1, <1>2, <1>3 DEF IInv, TypeInv, TypeOK

LEMMA Invariant == Spec => []IInv
<1>1. Init => IInv
  BY InitInv
<1>2. IInv /\ [Next]_vars => IInv'
  BY NextInv
<1> QED BY <1>1, <1>2, PTL DEF Spec

\* Every value has its type, and every root is one that validate_lsm_root accepts.
THEOREM TypeCorrect == Spec => []TypeOK
<1>1. IInv => TypeOK
  BY TypeFollows
<1> QED BY <1>1, Invariant, PTL

\* Whatever was merged, deleted and inserted again, a lookup and a scan of any
\* root answer with the newest records, or need a page that was lost.
THEOREM ReadsAlwaysNewest == Spec => []ReadsNewest
<1>1. IInv => ReadsNewest
  BY ReadsAnswer DEF IInv
<1> QED BY <1>1, Invariant, PTL

\* A session answers like its root whatever it evicted, its counter is the
\* weight of what it caches, and it keeps to its budget and its slots.
THEOREM SessionAlwaysBounded == Spec => []SessionBounded
<1>1. IInv => SessionBounded
  BY SessionAnswers DEF IInv
<1> QED BY <1>1, Invariant, PTL
=============================================================================
