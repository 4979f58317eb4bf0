--------------------------- MODULE MatchingProofs ---------------------------
(* Theorems about Matching, for every value of the constants, the number of  *)
(* calls at work among them: what the union-find computes, that the clusters *)
(* a call ends with are the components of the graph of links, and what is    *)
(* asked about pairs.                                                        *)
EXTENDS Matching, FiniteSetTheorems, WellFoundedInduction, TLAPS

(* The union-find: every row hangs, in finitely many steps, from a root.      *)

\* g gives every row the root it hangs from.
Roots(forest, g) == g = [x \in Rows |-> IF forest[x] = x THEN x ELSE g[forest[x]]]

\* A row ranks above the row it hangs from.
Ranked(forest, rank) ==
  /\ rank \in [Rows -> Nat]
  /\ \A x \in Rows : forest[x] # x => rank[forest[x]] < rank[x]

Rooted(forest) ==
  forest \in [Rows -> Rows] /\ \E g, rank : Roots(forest, g) /\ Ranked(forest, rank)

\* Some rows have a lowest one.
LEMMA Lowest ==
  ASSUME NEW S \in SUBSET Rows, S # {}, NEW rank \in [Rows -> Nat]
  PROVE  \E x \in S : \A y \in S : ~(rank[y] < rank[x])
  <1> DEFINE ranks == {rank[x] : x \in S}
  <1>1. ranks \subseteq Nat /\ ranks # {}
    OBVIOUS
  <1> HIDE DEF ranks
  <1>2. PICK n \in ranks : \A m \in ranks : ~ (<<m, n>> \in OpToRel(<, Nat))
    BY <1>1, NatLessThanWellFounded, WFMin
  <1>3. n \in Nat /\ \A m \in ranks : m \in Nat /\ ~(m < n)
    BY <1>1, <1>2 DEF OpToRel
  <1> QED
    BY <1>2, <1>3 DEF ranks

\* There is one way to give the rows their roots.
LEMMA RootsUnique ==
  ASSUME NEW forest \in [Rows -> Rows], NEW rank, Ranked(forest, rank),
         NEW g, Roots(forest, g), NEW h, Roots(forest, h)
  PROVE  g = h
  <1> DEFINE S == {x \in Rows : g[x] # h[x]}
  <1>1. \A x \in Rows : /\ g[x] = IF forest[x] = x THEN x ELSE g[forest[x]]
                        /\ h[x] = IF forest[x] = x THEN x ELSE h[forest[x]]
    BY DEF Roots
  <1>2. S = {}
    <2> SUFFICES ASSUME S # {} PROVE FALSE
      OBVIOUS
    <2>1. PICK x \in S : \A y \in S : ~(rank[y] < rank[x])
      BY Lowest DEF Ranked
    <2>2. x \in Rows /\ g[x] # h[x] /\ forest[x] \in Rows
      OBVIOUS
    <2>3. forest[x] # x /\ g[forest[x]] # h[forest[x]]
      BY <1>1, <2>2
    <2>4. forest[x] \in S /\ rank[forest[x]] < rank[x]
      BY <2>2, <2>3 DEF Ranked
    <2> QED
      BY <2>1, <2>4
  <1>3. \A x \in Rows : g[x] = h[x]
    BY <1>2
  <1>4. g = [x \in Rows |-> g[x]] /\ h = [x \in Rows |-> h[x]]
    BY DEF Roots
  <1> QED
    BY <1>3, <1>4

LEMMA FindIs ==
  ASSUME NEW forest \in [Rows -> Rows], NEW rank, Ranked(forest, rank),
         NEW g, Roots(forest, g)
  PROVE  \A x \in Rows : Find(forest, x) = g[x]
  <1> DEFINE root == CHOOSE f : f = [x \in Rows |-> IF forest[x] = x THEN x ELSE f[forest[x]]]
  <1>1. Roots(forest, root)
    BY DEF Roots
  <1>2. root = g
    BY <1>1, RootsUnique
  <1>3. \A x \in Rows : Find(forest, x) = root[x]
    BY DEF Find
  <1> QED
    BY <1>2, <1>3

\* What find returns is a root, and the same all along the way to it.
LEMMA FindRoot ==
  ASSUME NEW forest, Rooted(forest)
  PROVE  \A x \in Rows :
           /\ Find(forest, x) \in Rows /\ forest[Find(forest, x)] = Find(forest, x)
           /\ Find(forest, x) = IF forest[x] = x THEN x ELSE Find(forest, forest[x])
  <1>1. PICK g, rank : Roots(forest, g) /\ Ranked(forest, rank)
    BY DEF Rooted
  <1>2. forest \in [Rows -> Rows] /\ \A x \in Rows : Find(forest, x) = g[x]
    BY <1>1, FindIs DEF Rooted
  <1>3. \A x \in Rows : g[x] = IF forest[x] = x THEN x ELSE g[forest[x]]
    BY <1>1 DEF Roots
  <1> DEFINE S == {x \in Rows : ~(g[x] \in Rows /\ forest[g[x]] = g[x])}
  <1>4. S = {}
    <2> SUFFICES ASSUME S # {} PROVE FALSE
      OBVIOUS
    <2>1. PICK x \in S : \A y \in S : ~(rank[y] < rank[x])
      BY <1>1, Lowest DEF Ranked
    <2>2. forest[x] # x /\ forest[x] \in S
      BY <1>2, <1>3
    <2> QED
      BY <1>1, <2>1, <2>2 DEF Ranked
  <1> QED
    BY <1>2, <1>3, <1>4

\* union joins two trees and leaves the others alone.
THEOREM UnionJoins ==
  ASSUME NEW forest, Rooted(forest), NEW a \in Rows, NEW b \in Rows
  PROVE  /\ Rooted(Union(forest, a, b))
         /\ \A x \in Rows : Find(Union(forest, a, b), x) =
              IF Find(forest, x) = Find(forest, a) THEN Find(forest, b) ELSE Find(forest, x)
  <1> DEFINE ra == Find(forest, a)
             rb == Find(forest, b)
  <1>1. CASE ra = rb
    BY <1>1 DEF Union
  <1>2. CASE ra # rb
    <2>1. PICK g, rank : Roots(forest, g) /\ Ranked(forest, rank)
      BY DEF Rooted
    <2>2. /\ forest \in [Rows -> Rows] /\ rank \in [Rows -> Nat]
          /\ \A x \in Rows : Find(forest, x) = g[x]
      BY <2>1, FindIs DEF Rooted, Ranked
    <2>3. /\ ra \in Rows /\ rb \in Rows /\ forest[ra] = ra /\ forest[rb] = rb
          /\ g[ra] = ra /\ g[rb] = rb
      BY <2>2, FindRoot
    <2>4. \A x \in Rows : /\ g[x] \in Rows /\ forest[x] \in Rows
                          /\ g[x] = IF forest[x] = x THEN x ELSE g[forest[x]]
      BY <2>2, FindRoot
    <2> HIDE DEF ra, rb
    <2> DEFINE new == [forest EXCEPT ![ra] = rb]
               h == [x \in Rows |-> IF g[x] = ra THEN rb ELSE g[x]]
               up == [x \in Rows |-> IF g[x] = ra THEN rank[x] + rank[rb] + 1 ELSE rank[x]]
    <2>5. new \in [Rows -> Rows] /\ \A x \in Rows : new[x] = IF x = ra THEN rb ELSE forest[x]
      BY <2>2, <2>3
    <2>6. Roots(new, h)
      <3> SUFFICES ASSUME NEW x \in Rows
                   PROVE  h[x] = IF new[x] = x THEN x ELSE h[new[x]]
        BY DEF Roots
      <3>1. CASE x = ra
        BY <1>2, <2>3, <2>5, <3>1
      <3>2. CASE x # ra
        <4>1. new[x] = forest[x]
          BY <2>5, <3>2
        <4>2. CASE forest[x] = x
          BY <2>4, <3>2, <4>1, <4>2
        <4>3. CASE forest[x] # x
          <5>1. g[x] = g[forest[x]] /\ forest[x] \in Rows
            BY <2>4, <4>3
          <5> QED
            BY <4>1, <4>3, <5>1
        <4> QED
          BY <4>2, <4>3
      <3> QED
        BY <3>1, <3>2
    <2>7. Ranked(new, up)
      <3>1. up \in [Rows -> Nat]
        BY <2>2, <2>3
      <3>2. ASSUME NEW x \in Rows, new[x] # x  PROVE up[new[x]] < up[x]
        <4>1. CASE x = ra
          <5>1. new[x] = rb /\ up[rb] = rank[rb] /\ up[x] = rank[ra] + rank[rb] + 1
            BY <1>2, <2>3, <2>5, <4>1
          <5> QED
            BY <2>2, <2>3, <5>1
        <4>2. CASE x # ra
          <5>1. new[x] = forest[x] /\ forest[x] # x /\ forest[x] \in Rows
            BY <2>4, <2>5, <3>2, <4>2
          <5>2. g[x] = g[forest[x]] /\ rank[forest[x]] < rank[x]
            BY <2>1, <2>4, <5>1 DEF Ranked
          <5>3. rank[x] \in Nat /\ rank[forest[x]] \in Nat /\ rank[rb] \in Nat
            BY <2>2, <2>3, <5>1
          <5>4. up[x] = (IF g[x] = ra THEN rank[x] + rank[rb] + 1 ELSE rank[x])
            OBVIOUS
          <5>5. up[new[x]] = (IF g[x] = ra THEN rank[forest[x]] + rank[rb] + 1
                                           ELSE rank[forest[x]])
            BY <5>1, <5>2
          <5> QED
            BY <5>2, <5>3, <5>4, <5>5
        <4> QED
          BY <4>1, <4>2
      <3> QED
        BY <3>1, <3>2 DEF Ranked
    <2> HIDE DEF new, h, up
    <2>8. \A x \in Rows : Find(new, x) = h[x]
      BY <2>5, <2>6, <2>7, FindIs
    <2>9. Rooted(new)
      BY <2>5, <2>6, <2>7 DEF Rooted
    <2>10. Union(forest, a, b) = new
      BY <1>2 DEF Union, ra, rb, new
    <2> QED
      BY <2>2, <2>8, <2>9, <2>10 DEF h, ra, rb
  <1> QED
    BY <1>1, <1>2

\* Alone, each row is its own root.
LEMMA SingleRooted == Rooted([r \in Rows |-> r])
  <1> DEFINE f == [r \in Rows |-> r]
  <1>1. Roots(f, f) /\ Ranked(f, [r \in Rows |-> 0])
    BY DEF Roots, Ranked
  <1> QED
    BY <1>1 DEF Rooted

\* Of some of finitely many rows one comes last.
LEMMA LastRow ==
  ASSUME NEW S \in SUBSET Rows, S # {}
  PROVE  \E m \in S : \A x \in S : x <= m
  <1>1. S \subseteq Nat /\ IsFiniteSet(S)
    BY RowsAssumption, FS_Subset
  <1>2. PICK n \in Nat : \E b : b \in Bijection(1..n, S)
    BY <1>1, FS_NatBijection DEF ExistsBijection
  <1>3. PICK b : b \in Bijection(1..n, S)
    BY <1>2
  <1>4. /\ b \in [1..n -> S] /\ \A x \in S : \E i \in 1..n : b[i] = x
    BY <1>3 DEF Bijection, Injection, Surjection
  <1>n. \A i \in 1..n : b[i] \in Nat
    BY <1>1, <1>4
  <1>5. n # 0
    BY <1>4
  <1> DEFINE Last(k) == \E i \in 1..k : \A j \in 1..k : b[j] <= b[i]
             bad == {k \in 1..n : ~Last(k)}
  <1>6. bad = {}
    <2> SUFFICES ASSUME bad # {} PROVE FALSE
      OBVIOUS
    <2>1. bad \subseteq Nat
      OBVIOUS
    <2> HIDE DEF bad
    <2>2. PICK k \in bad : \A m \in bad : ~ (<<m, k>> \in OpToRel(<, Nat))
      BY <2>1, NatLessThanWellFounded, WFMin
    <2>3. \A m \in bad : ~(m < k)
      BY <2>1, <2>2 DEF OpToRel
    <2>4. k \in 1..n /\ ~Last(k)
      BY <2>2 DEF bad
    <2>5. k # 1
      <3> SUFFICES ASSUME k = 1 PROVE Last(k)
        BY <2>4
      <3>1. 1 \in 1..k /\ b[1] \in Nat /\ \A j \in 1..k : j = 1
        BY <1>n, <2>4
      <3> QED
        BY <3>1
    <2>6. k - 1 \in 1..n /\ k - 1 < k
      BY <2>4, <2>5
    <2>7. Last(k - 1)
      BY <2>3, <2>6 DEF bad
    <2>8. PICK i \in 1..(k - 1) : \A j \in 1..(k - 1) : b[j] <= b[i]
      BY <2>7
    <2>9. b[i] \in Nat /\ b[k] \in Nat /\ \A j \in 1..k : b[j] \in Nat /\ (j = k \/ j \in 1..(k - 1))
      <3>1. i \in 1..n /\ k \in 1..n /\ \A j \in 1..k : j \in 1..n /\ (j = k \/ j \in 1..(k - 1))
        BY <2>4, <2>6
      <3> QED
        BY <1>n, <3>1
    <2>10. CASE b[k] <= b[i]
      BY <2>4, <2>6, <2>8, <2>9, <2>10
    <2>11. CASE b[i] <= b[k]
      <3>1. \A j \in 1..k : b[j] <= b[k]
        BY <2>8, <2>9, <2>11
      <3> QED
        BY <2>4, <3>1
    <2> QED
      BY <2>9, <2>10, <2>11
  <1>7. Last(n)
    BY <1>5, <1>6
  <1>8. PICK i \in 1..n : \A j \in 1..n : b[j] <= b[i]
    BY <1>7
  <1> QED
    BY <1>4, <1>8

\* The rows of one natural key are one tree from the start, and no others.
SameId(x, y) == row[x].id # Blank /\ row[x].id = row[y].id

LEMMA GroupedRooted ==
  /\ Rooted(Grouped)
  /\ \A x, y \in Rows : Find(Grouped, x) = Find(Grouped, y) <=> x = y \/ SameId(x, y)
  <1> DEFINE G == [x \in Rows |-> Grouped[x]]
             Class(r) == {s \in Rows : row[s].id = row[r].id}
             Head(r) == CHOOSE s \in Rows : /\ row[s].id = row[r].id
                                            /\ \A t \in Rows : row[t].id = row[r].id => t <= s
  <1>1. \A r \in Rows : Grouped[r] = IF row[r].id = Blank THEN r ELSE Head(r)
    BY DEF Grouped
  <1>2. \A r \in Rows : Head(r) \in Rows /\ row[Head(r)].id = row[r].id
    <2> SUFFICES ASSUME NEW r \in Rows PROVE Head(r) \in Rows /\ row[Head(r)].id = row[r].id
      OBVIOUS
    <2>1. PICK m \in Class(r) : \A x \in Class(r) : x <= m
      <3>1. Class(r) \in SUBSET Rows /\ Class(r) # {}
        OBVIOUS
      <3> HIDE DEF Class
      <3> QED
        BY <3>1, LastRow
    <2>2. \E s \in Rows : /\ row[s].id = row[r].id
                          /\ \A t \in Rows : row[t].id = row[r].id => t <= s
      BY <2>1
    <2> QED
      BY <2>2
  <1>3. \A x, y \in Rows : row[x].id = row[y].id => Head(x) = Head(y)
    OBVIOUS
  <1> HIDE DEF Head, Class
  <1>4. Grouped \in [Rows -> Rows] /\ Grouped = [x \in Rows |-> Grouped[x]]
    <2>1. Grouped = [x \in Rows |-> Grouped[x]]
      BY DEF Grouped
    <2> QED
      BY <1>1, <1>2, <2>1
  <1>5. \A x \in Rows : Grouped[Grouped[x]] = Grouped[x]
    BY <1>1, <1>2, <1>3
  <1>6. Roots(Grouped, Grouped)
    BY <1>4, <1>5 DEF Roots
  <1>7. Ranked(Grouped, [x \in Rows |-> IF Grouped[x] = x THEN 0 ELSE 1])
    BY <1>4, <1>5 DEF Ranked
  <1>8. \A x \in Rows : Find(Grouped, x) = Grouped[x]
    BY <1>4, <1>6, <1>7, FindIs
  <1>9. \A x, y \in Rows : Grouped[x] = Grouped[y] <=> x = y \/ SameId(x, y)
    BY <1>1, <1>2, <1>3 DEF SameId
  <1> QED
    BY <1>4, <1>6, <1>7, <1>8, <1>9 DEF Rooted


-----------------------------------------------------------------------------
(* What a call knows: which rows it has put together and why, and what it has *)
(* made of the pairs too close to call.  The rows never change, so the calls  *)
(* of which all this is true are one set from beginning to end.               *)

\* No tree reaches out of a set of rows that no link leads out of.
TreesFollowLinks(j) ==
  \A S \in SUBSET Rows : Sealed(j, S) =>
    \A x, y \in Rows : Find(j.parent, x) = Find(j.parent, y) => (x \in S <=> y \in S)

\* A link that has been looked at joins its rows, and a natural key always.
LinksJoin(j) ==
  \A p \in Pairs :
    (p \notin j.todo /\ Linked(j, p)) \/ SameId(p[1], p[2]) => Together(j.parent, p)

\* A pair in the band that has been compared is one person, ruled on, or kept.
Banded(j) ==
  \A p \in Compared \ j.todo : PairScore(p) = "ask" =>
    Together(j.parent, p) \/ p \in j.band \/ Ruled(j, p) # {}

Known(j) ==
  /\ Rooted(j.parent) /\ j.unseen \cup j.separated \subseteq j.band
  /\ j.todo \subseteq Compared
  /\ j.pc \in {"judging", "merging"} => j.todo = {}
  /\ j.pc # "idle" => TreesFollowLinks(j) /\ LinksJoin(j) /\ Banded(j)

Sound == {j \in Call : Known(j)}

\* The pairs of a block are pairs of rows.
LEMMA PairRows == /\ Compared \subseteq Pairs
                  /\ \A p \in Pairs : p[1] \in Rows /\ p[2] \in Rows
  BY DEF Compared, Pairs

\* What depends on the rows alone stays.
LEMMA RowsStay ==
  ASSUME row' = row
  PROVE  /\ Compared' = Compared /\ Answer_' = Answer_ /\ Call' = Call /\ Idle' = Idle
         /\ \A p : PairScore(p)' = PairScore(p)
         /\ \A i, p : ScopeKey(i, p)' = ScopeKey(i, p)
         /\ Sound' = Sound
  <1>1. Compared' = Compared
    BY DEF Compared, BlockingKey
  <1>2. \A p : PairScore(p)' = PairScore(p)
    BY DEF PairScore
  <1>3. \A i, p : ScopeKey(i, p)' = ScopeKey(i, p)
    BY DEF ScopeKey, Identity
  <1>4. Answer_' = Answer_
    BY DEF Answer_, ScopeKey, Identity
  <1>5. Call' = Call
    BY <1>4 DEF Call
  <1>6. Idle' = Idle
    BY DEF Idle
  <1>7. \A j, p : Ruled(j, p)' = Ruled(j, p)
    BY <1>3 DEF Ruled, About
  <1>8. \A j, p : Linked(j, p)' <=> Linked(j, p)
    BY <1>1, <1>2, <1>7 DEF Linked, Joins
  <1>9. \A j, S : Sealed(j, S)' <=> Sealed(j, S)
    BY <1>8 DEF Sealed
  <1>10. \A x, y : SameId(x, y)' <=> SameId(x, y)
    BY DEF SameId
  <1>11. \A j : Known(j)' <=> Known(j)
    <2> SUFFICES ASSUME NEW j PROVE Known(j)' <=> Known(j)
      OBVIOUS
    <2>1. Rooted(j.parent)' <=> Rooted(j.parent)
      BY DEF Rooted, Roots, Ranked
    <2>2. /\ \A x : Find(j.parent, x)' = Find(j.parent, x)
          /\ \A p : Together(j.parent, p)' <=> Together(j.parent, p)
      BY DEF Find, Together
    <2>3. TreesFollowLinks(j)' <=> TreesFollowLinks(j)
      BY <1>9, <2>2 DEF TreesFollowLinks
    <2>4. LinksJoin(j)' <=> LinksJoin(j)
      BY <1>8, <1>10, <2>2 DEF LinksJoin
    <2>5. Banded(j)' <=> Banded(j)
      BY <1>1, <1>2, <1>7, <2>2 DEF Banded
    <2> QED
      BY <1>1, <2>1, <2>3, <2>4, <2>5 DEF Known
  <1>12. Sound' = Sound
    BY <1>5, <1>11 DEF Sound
  <1> QED
    BY <1>1, <1>2, <1>3, <1>4, <1>5, <1>6, <1>12

\* What two calls that have read the same take for a link.
LEMMA SameReading ==
  ASSUME NEW j, NEW k, k.import = j.import, k.prior = j.prior
  PROVE  /\ \A p : Ruled(k, p) = Ruled(j, p) /\ (Linked(k, p) <=> Linked(j, p))
         /\ \A S : Sealed(k, S) <=> Sealed(j, S)
  <1>1. \A p : Ruled(k, p) = Ruled(j, p)
    BY DEF Ruled
  <1>2. \A p : Linked(k, p) <=> Linked(j, p)
    BY <1>1 DEF Linked, Joins
  <1> QED
    BY <1>1, <1>2 DEF Sealed

\* A call that is not at work knows nothing.
LEMMA IdleIsSound == Idle \in Sound /\ Idle.pc = "idle" /\ Idle.prior = {}
  <1>1. Idle = [pc |-> "idle", import |-> 1, prior |-> {}, parent |-> [r \in Rows |-> r],
                todo |-> {}, band |-> {}, unseen |-> {}, separated |-> {}]
    BY DEF Idle
  <1>2. 1 \in Imports
    BY BoundsAssumption DEF Imports
  <1>3. Idle \in Call
    BY <1>1, <1>2 DEF Call
  <1>4. Known(Idle)
    BY <1>1, SingleRooted DEF Known
  <1> QED
    BY <1>1, <1>3, <1>4 DEF Sound

\* A call that begins has put together the rows of one natural key.
LEMMA BegunIsSound ==
  ASSUME NEW i \in Imports, decisions \subseteq Answer_
  PROVE  /\ Begun(i) \in Sound /\ Begun(i).pc = "comparing" /\ Begun(i).import = i
         /\ Begun(i).prior = decisions
  <1> DEFINE j == Begun(i)
  <1>1. /\ j.pc = "comparing" /\ j.import = i /\ j.prior = decisions /\ j.parent = Grouped
        /\ j.todo = Compared /\ j.band = {} /\ j.unseen = {} /\ j.separated = {}
        /\ j = [pc |-> "comparing", import |-> i, prior |-> decisions, parent |-> Grouped,
                todo |-> Compared, band |-> {}, unseen |-> {}, separated |-> {}]
    BY DEF Begun
  <1> HIDE DEF j
  <1>2. Rooted(Grouped) /\ Grouped \in [Rows -> Rows]
    BY GroupedRooted DEF Rooted
  <1>3. j \in Call
    BY <1>1, <1>2, PairRows DEF Call
  <1>4. \A x, y \in Rows : Find(j.parent, x) = Find(j.parent, y) <=> x = y \/ SameId(x, y)
    BY <1>1, GroupedRooted
  <1>5. \A p \in Pairs : SameId(p[1], p[2]) => Linked(j, p)
    BY DEF SameId, Linked
  <1>6. TreesFollowLinks(j)
    <2> SUFFICES ASSUME NEW S \in SUBSET Rows, Sealed(j, S), NEW x \in Rows, NEW y \in Rows,
                        SameId(x, y), x # y
                 PROVE  x \in S <=> y \in S
      BY <1>4 DEF TreesFollowLinks
    <2>1. \A p \in Pairs : SameId(p[1], p[2]) => (p[1] \in S <=> p[2] \in S)
      BY <1>5 DEF Sealed
    <2>2. SameId(y, x) /\ (x < y \/ y < x)
      BY RowsAssumption DEF SameId
    <2>3. CASE x < y
      <3>1. <<x, y>> \in Pairs
        BY <2>3 DEF Pairs
      <3> QED
        BY <2>1, <3>1
    <2>4. CASE y < x
      <3>1. <<y, x>> \in Pairs
        BY <2>4 DEF Pairs
      <3> QED
        BY <2>1, <2>2, <3>1
    <2> QED
      BY <2>2, <2>3, <2>4
  <1>7. LinksJoin(j)
    <2> SUFFICES ASSUME NEW p \in Pairs, (p \notin Compared /\ Linked(j, p)) \/ SameId(p[1], p[2])
                 PROVE  Together(j.parent, p)
      BY <1>1 DEF LinksJoin
    <2>1. SameId(p[1], p[2])
      BY DEF Linked, SameId
    <2> QED
      BY <1>4, <2>1, PairRows DEF Together
  <1>8. Banded(j)
    BY <1>1 DEF Banded
  <1>9. Known(j)
    BY <1>1, <1>2, <1>6, <1>7, <1>8 DEF Known
  <1> QED
    BY <1>1, <1>3, <1>9 DEF Sound, j

\* A union leaves together what is together.
LEMMA StillTogether ==
  ASSUME NEW forest, Rooted(forest), NEW p \in Pairs
  PROVE  /\ Together(Union(forest, p[1], p[2]), p)
         /\ \A q \in Pairs : Together(forest, q) => Together(Union(forest, p[1], p[2]), q)
  <1> DEFINE new == Union(forest, p[1], p[2])
  <1>1. \A q \in Pairs : q[1] \in Rows /\ q[2] \in Rows
    BY PairRows
  <1>2. p[1] \in Rows /\ p[2] \in Rows
    BY <1>1
  <1>3. \A x \in Rows : Find(new, x) =
          IF Find(forest, x) = Find(forest, p[1]) THEN Find(forest, p[2]) ELSE Find(forest, x)
    BY <1>2, UnionJoins
  <1> HIDE DEF new
  <1>4. Together(new, p)
    BY <1>2, <1>3 DEF Together
  <1>5. \A q \in Pairs : Together(forest, q) => Together(new, q)
    BY <1>1, <1>3 DEF Together
  <1> QED
    BY <1>4, <1>5 DEF new

\* Another call that has compared one pair more.
OneMore(j, k, p) ==
  /\ k \in Call /\ k.pc = j.pc /\ k.import = j.import /\ k.prior = j.prior
  /\ k.todo = j.todo \ {p} /\ k.unseen = j.unseen /\ k.separated = j.separated

\* A pair that joins nothing: its rows are together or are not linked, and a
\* pair of the band is together, ruled on or kept.
LEMMA NothingJoined ==
  ASSUME NEW j \in Sound, NEW p \in j.todo, NEW k, j.pc = "comparing", OneMore(j, k, p),
         k.parent = j.parent, j.band \subseteq k.band,
         Linked(j, p) => Together(j.parent, p),
         PairScore(p) = "ask" => Together(j.parent, p) \/ p \in k.band \/ Ruled(j, p) # {}
  PROVE  k \in Sound
  <1>1. Known(j)
    BY DEF Sound
  <1>2. /\ \A q : Ruled(k, q) = Ruled(j, q) /\ (Linked(k, q) <=> Linked(j, q))
        /\ \A S : Sealed(k, S) <=> Sealed(j, S)
    BY SameReading DEF OneMore
  <1>3. TreesFollowLinks(k)
    BY <1>1, <1>2 DEF Known, TreesFollowLinks
  <1>4. LinksJoin(k)
    BY <1>1, <1>2 DEF Known, LinksJoin, OneMore
  <1>5. Banded(k)
    BY <1>1, <1>2 DEF Known, Banded, OneMore
  <1> QED
    BY <1>1, <1>3, <1>4, <1>5 DEF Known, Sound, OneMore

\* A pair that is linked, and whose trees are joined.
LEMMA PairJoined ==
  ASSUME NEW j \in Sound, NEW p \in j.todo, NEW k, j.pc = "comparing", OneMore(j, k, p),
         k.parent = Union(j.parent, p[1], p[2]), k.band = j.band, Linked(j, p)
  PROVE  k \in Sound
  <1>1. Known(j) /\ p \in Pairs
    BY PairRows DEF Sound, Known
  <1>2. /\ \A q : Ruled(k, q) = Ruled(j, q) /\ (Linked(k, q) <=> Linked(j, q))
        /\ \A S : Sealed(k, S) <=> Sealed(j, S)
    BY SameReading DEF OneMore
  <1>3. Rooted(j.parent) /\ p[1] \in Rows /\ p[2] \in Rows
    BY <1>1, PairRows DEF Known
  <1>4. /\ Rooted(k.parent)
        /\ \A x \in Rows : Find(k.parent, x) =
             IF Find(j.parent, x) = Find(j.parent, p[1]) THEN Find(j.parent, p[2])
             ELSE Find(j.parent, x)
    BY <1>3, UnionJoins
  <1>5. /\ Together(k.parent, p)
        /\ \A q \in Pairs : Together(j.parent, q) => Together(k.parent, q)
    BY <1>1, <1>3, StillTogether
  <1>6. TreesFollowLinks(k)
    <2> SUFFICES ASSUME NEW S \in SUBSET Rows, Sealed(j, S), NEW x \in Rows, NEW y \in Rows,
                        Find(k.parent, x) = Find(k.parent, y)
                 PROVE  x \in S <=> y \in S
      BY <1>2 DEF TreesFollowLinks
    <2>1. \A u, v \in Rows : Find(j.parent, u) = Find(j.parent, v) => (u \in S <=> v \in S)
      BY <1>1 DEF Known, TreesFollowLinks
    <2>2. p[1] \in S <=> p[2] \in S
      BY <1>1 DEF Sealed
    <2> QED
      BY <1>3, <1>4, <2>1, <2>2
  <1>7. LinksJoin(k)
    <2> SUFFICES ASSUME NEW q \in Pairs, (q \notin k.todo /\ Linked(j, q)) \/ SameId(q[1], q[2])
                 PROVE  Together(k.parent, q)
      BY <1>2 DEF LinksJoin
    <2>1. CASE q = p
      BY <1>5, <2>1
    <2>2. CASE q # p
      <3>1. Together(j.parent, q)
        BY <1>1, <2>2 DEF Known, LinksJoin, OneMore
      <3> QED
        BY <1>5, <3>1
    <2> QED
      BY <2>1, <2>2
  <1>8. Banded(k)
    <2> SUFFICES ASSUME NEW q \in Compared \ k.todo, PairScore(q) = "ask"
                 PROVE  Together(k.parent, q) \/ q \in k.band \/ Ruled(j, q) # {}
      BY <1>2 DEF Banded
    <2>1. CASE q = p
      BY <1>5, <2>1
    <2>2. CASE q # p
      BY <1>1, <1>5, <2>2, PairRows DEF Known, Banded, OneMore
    <2> QED
      BY <2>1, <2>2
  <1> QED
    BY <1>1, <1>4, <1>6, <1>7, <1>8 DEF Known, Sound, OneMore

\* The next pair of a block is compared.
LEMMA ComparedIsSound ==
  ASSUME NEW j \in Sound, NEW p \in j.todo, j.pc = "comparing"
  PROVE  /\ Together(j.parent, p) => OneMore(j, Passed(j, p), p) /\ Passed(j, p) \in Sound
         /\ ~Together(j.parent, p) /\ Joins(j, p) =>
              OneMore(j, Joined(j, p), p) /\ Joined(j, p) \in Sound
         /\ ~Together(j.parent, p) /\ ~Joins(j, p) =>
              OneMore(j, Left(j, p), p) /\ Left(j, p) \in Sound
  <1>1. j \in Call /\ Known(j) /\ p \in Compared /\ p \in Pairs
    BY PairRows DEF Sound, Known
  <1>2. Rooted(j.parent) /\ p[1] \in Rows /\ p[2] \in Rows
    BY <1>1, PairRows DEF Known
  <1>3. Union(j.parent, p[1], p[2]) \in [Rows -> Rows]
    BY <1>2, UnionJoins DEF Rooted
  <1>4. Passed(j, p) = [j EXCEPT !.todo = j.todo \ {p}]
    BY DEF Passed
  <1>5. /\ OneMore(j, Passed(j, p), p)
        /\ Passed(j, p).parent = j.parent /\ Passed(j, p).band = j.band
    BY <1>1, <1>4 DEF Call, OneMore
  <1>6. CASE Together(j.parent, p)
    BY <1>5, <1>6, NothingJoined
  <1>7. CASE ~Together(j.parent, p) /\ Joins(j, p)
    <2> DEFINE k == Joined(j, p)
    <2>1. k = [Passed(j, p) EXCEPT !.parent = Union(j.parent, p[1], p[2])]
      BY <1>5 DEF Joined
    <2>2. Passed(j, p) \in Call
      BY <1>5 DEF OneMore
    <2> HIDE DEF k
    <2>3. /\ k \in Call /\ k.parent = Union(j.parent, p[1], p[2]) /\ k.band = Passed(j, p).band
          /\ k.pc = Passed(j, p).pc /\ k.import = Passed(j, p).import
          /\ k.prior = Passed(j, p).prior /\ k.todo = Passed(j, p).todo
          /\ k.unseen = Passed(j, p).unseen /\ k.separated = Passed(j, p).separated
      BY <1>3, <2>1, <2>2 DEF Call
    <2>4. OneMore(j, k, p)
      BY <1>5, <2>3 DEF OneMore
    <2>5. Linked(j, p)
      BY <1>1, <1>7 DEF Linked
    <2>6. k \in Sound
      BY <1>5, <2>3, <2>4, <2>5, PairJoined
    <2> QED
      BY <1>7, <2>4, <2>6 DEF k
  <1>8. CASE ~Together(j.parent, p) /\ ~Joins(j, p)
    <2> DEFINE k == Left(j, p)
               kept == IF Ruled(j, p) = {} /\ PairScore(p) = "ask"
                       THEN j.band \cup {p} ELSE j.band
    <2>1. k = [Passed(j, p) EXCEPT !.band = kept]
      BY <1>5 DEF Left
    <2>2. Passed(j, p) \in Call
      BY <1>5 DEF OneMore
    <2>3. kept \subseteq Pairs /\ j.band \subseteq kept
      BY <1>1 DEF Call
    <2>4. PairScore(p) = "ask" => p \in kept \/ Ruled(j, p) # {}
      OBVIOUS
    <2> HIDE DEF k, kept
    <2>5. /\ k \in Call /\ k.parent = Passed(j, p).parent /\ k.band = kept
          /\ k.pc = Passed(j, p).pc /\ k.import = Passed(j, p).import
          /\ k.prior = Passed(j, p).prior /\ k.todo = Passed(j, p).todo
          /\ k.unseen = Passed(j, p).unseen /\ k.separated = Passed(j, p).separated
      BY <2>1, <2>2, <2>3 DEF Call
    <2>6. OneMore(j, k, p)
      BY <1>5, <2>5 DEF OneMore
    <2>7. ~Linked(j, p)
      <3>1. ~SameId(p[1], p[2])
        BY <1>1, <1>8 DEF Known, LinksJoin
      <3> QED
        BY <1>8, <3>1 DEF Linked, SameId
    <2>8. k \in Sound
      BY <1>5, <2>3, <2>4, <2>5, <2>6, <2>7, NothingJoined
    <2> QED
      BY <1>8, <2>6, <2>8 DEF k
  <1> QED
    BY <1>6, <1>7, <1>8

\* A call that has compared its pairs, and goes on with its judging or to its
\* merge: it joins nothing more.
LEMMA JudgedIsSound ==
  ASSUME NEW j \in Sound, j.pc # "idle", j.todo = {}, NEW k \in Call,
         k.pc \in {"judging", "merging"}, k.import = j.import, k.prior = j.prior,
         k.parent = j.parent, k.todo = j.todo, k.band = j.band,
         k.unseen \cup k.separated \subseteq k.band
  PROVE  k \in Sound
  <1>1. Known(j)
    BY DEF Sound
  <1>2. /\ \A q : Ruled(k, q) = Ruled(j, q) /\ (Linked(k, q) <=> Linked(j, q))
        /\ \A S : Sealed(k, S) <=> Sealed(j, S)
    BY SameReading
  <1>3. TreesFollowLinks(k) /\ LinksJoin(k) /\ Banded(k)
    BY <1>1, <1>2 DEF Known, TreesFollowLinks, LinksJoin, Banded
  <1> QED
    BY <1>1, <1>3 DEF Known, Sound

\* What a call at work may become, whatever the other calls are at.
LEMMA JudgingSteps ==
  ASSUME NEW j \in Sound, j.todo = {}
  PROVE  /\ j.pc = "comparing" =>
              \A u \in {{}, j.band} : [j EXCEPT !.pc = "judging", !.unseen = u] \in Sound
         /\ j.pc = "judging" =>
              /\ \A p \in j.unseen : \A s \in {{}, {p}} :
                   [j EXCEPT !.unseen = @ \ {p}, !.separated = @ \cup s] \in Sound
              /\ [j EXCEPT !.pc = "merging"] \in Sound
  <1>1. j \in Call /\ j.unseen \cup j.separated \subseteq j.band
    BY DEF Sound, Known
  <1>2. ASSUME j.pc = "comparing", NEW u \in {{}, j.band}
        PROVE  [j EXCEPT !.pc = "judging", !.unseen = u] \in Sound
    <2> DEFINE k == [j EXCEPT !.pc = "judging", !.unseen = u]
    <2>1. /\ k \in Call /\ k.pc = "judging" /\ k.import = j.import /\ k.prior = j.prior
          /\ k.parent = j.parent /\ k.todo = j.todo /\ k.band = j.band
          /\ k.unseen = u /\ k.separated = j.separated
      BY <1>1 DEF Call
    <2> HIDE DEF k
    <2>2. k \in Sound
      BY <1>1, <1>2, <2>1, JudgedIsSound
    <2> QED
      BY <2>2 DEF k
  <1>3. ASSUME j.pc = "judging", NEW p \in j.unseen, NEW s \in {{}, {p}}
        PROVE  [j EXCEPT !.unseen = @ \ {p}, !.separated = @ \cup s] \in Sound
    <2> DEFINE k == [j EXCEPT !.unseen = @ \ {p}, !.separated = @ \cup s]
    <2>1. /\ k \in Call /\ k.pc = "judging" /\ k.import = j.import /\ k.prior = j.prior
          /\ k.parent = j.parent /\ k.todo = j.todo /\ k.band = j.band
          /\ k.unseen = j.unseen \ {p} /\ k.separated = j.separated \cup s
      BY <1>1, <1>3 DEF Call
    <2> HIDE DEF k
    <2>2. k.unseen \cup k.separated \subseteq k.band
      BY <1>1, <2>1
    <2>3. k \in Sound
      BY <1>3, <2>1, <2>2, JudgedIsSound
    <2> QED
      BY <2>3 DEF k
  <1>4. ASSUME j.pc = "judging" PROVE [j EXCEPT !.pc = "merging"] \in Sound
    <2> DEFINE k == [j EXCEPT !.pc = "merging"]
    <2>1. /\ k \in Call /\ k.pc = "merging" /\ k.import = j.import /\ k.prior = j.prior
          /\ k.parent = j.parent /\ k.todo = j.todo /\ k.band = j.band
          /\ k.unseen = j.unseen /\ k.separated = j.separated
      BY <1>1 DEF Call
    <2> HIDE DEF k
    <2>2. k \in Sound
      BY <1>1, <1>4, <2>1, JudgedIsSound
    <2> QED
      BY <2>2 DEF k
  <1> QED
    BY <1>2, <1>3, <1>4

-----------------------------------------------------------------------------
(* The calls together, and the questions they ask.                            *)

StateType ==
  /\ row \in [Rows -> Candidates] /\ import \in Imports
  /\ stage \in [Imports -> {"validated", "reconciled"}]
  /\ call \in [Callers -> Sound] /\ calls \in 0..MaxCalls
  /\ found \in [Imports -> [Rows -> SUBSET Rows]]
  /\ apart \in [Imports -> SUBSET Pairs]
  /\ questions \subseteq Question /\ IsFiniteSet(questions)
  /\ decisions \subseteq Answer_ /\ answers \in 0..MaxAnswers
  /\ died \subseteq Imports /\ overlapped \subseteq Imports

\* What a person's answers, a call's questions and its verdicts have settled.
Dealt ==
  {x \in Imports \X Pairs :
     \/ x[2] \in apart[x[1]] \/ About(decisions, x[1], x[2]) # {}
     \/ Copies(x[1], x[2]) # {}}

\* The calls of which every ruling they have read is still on file, under
\* another answer perhaps, ...
Filed == {j \in Call : \A d \in j.prior : \E e \in decisions : e.key = d.key}

\* ... and those which leave no pair open.
Decided ==
  {j \in Call : \A p \in Compared : PairScore(p) = "ask" =>
                  Together(j.parent, p) \/ <<j.import, p>> \in Dealt}

CallsKept == \A c \in Callers : /\ call[c] \in Filed
                                /\ call[c].pc = "merging" => call[c] \in Decided

\* A question that is closed was answered, and its answer is on file.
ResolvedIsRuled ==
  \A q \in questions : q.status = "resolved" => About(decisions, q.import, q.pair) # {}

At(c, i) == call[c].pc # "idle" /\ call[c].import = i

\* Of an import without overlapping calls one is at work at most, and the
\* import still to be matched.
SoleCall ==
  \A i \in Imports \ overlapped : \A c, d \in Callers :
    At(c, i) => stage[i] = "validated" /\ (At(d, i) => c = d)

\* The questions of an import are raised by a call that goes on to its merge.
AskedAtTheEnd ==
  \A q \in questions :
    \/ stage[q.import] = "reconciled" \/ q.import \in died
    \/ \E c \in Callers : call[c].pc = "merging" /\ call[c].import = q.import

MInv ==
  /\ StateType /\ CallsKept /\ NothingUndecided
  /\ ResolvedIsRuled /\ SoleCall /\ AskedAtTheEnd /\ AskedOnceByOneCall

LEMMA CallsAre ==
  ASSUME StateType, NEW c \in Callers
  PROVE  /\ call[c] \in Sound /\ call[c] \in Call /\ Known(call[c])
         /\ call[c].import \in Imports /\ call[c].prior \subseteq Answer_
  BY DEF StateType, Sound, Call

\* One call is another, and the others are what they were.
LEMMA OneCallChanges ==
  ASSUME StateType, NEW c \in Callers, NEW k \in Sound, call' = [call EXCEPT ![c] = k],
         row' = row
  PROVE  /\ (call \in [Callers -> Sound])'
         /\ \A d \in Callers : call'[d] = IF d = c THEN k ELSE call[d]
  <1>1. call' \in [Callers -> Sound]
    BY DEF StateType
  <1>2. Sound' = Sound
    BY RowsStay
  <1>3. \A d \in Callers : call'[d] = IF d = c THEN k ELSE call[d]
    BY DEF StateType
  <1> QED
    BY <1>1, <1>2, <1>3

\* What a function makes of a finite set is finite.
LEMMA ImageFinite ==
  ASSUME NEW S, IsFiniteSet(S), NEW f
  PROVE  IsFiniteSet({f[x] : x \in S})
  <1> DEFINE T == {f[x] : x \in S}
             g == [x \in S |-> f[x]]
  <1>1. g \in Surjection(S, T)
    BY DEF Surjection
  <1> HIDE DEF g, T
  <1>2. IsFiniteSet(T)
    BY <1>1, FS_Surjection
  <1> QED
    BY <1>2 DEF T

\* The questions of Ask: a new one for each pair.
LEMMA AskStep ==
  ASSUME StateType, NEW c \in Callers, Ask(c)
  PROVE  /\ questions \subseteq questions'
         /\ questions' \subseteq Question /\ IsFiniteSet(questions')
         /\ \A q \in questions' \ questions :
              /\ q.pair \in Undecided(call[c]) /\ q.import = call[c].import
              /\ q.status = "open" /\ q = NewQuestion(call[c].import, q.pair)
         /\ \A p \in Undecided(call[c]) : NewQuestion(call[c].import, p) \in questions'
  <1> DEFINE i == call[c].import
             U == Undecided(call[c])
             new == {NewQuestion(i, p) : p \in U}
  <1>1. i \in Imports /\ U \subseteq Pairs
    BY CallsAre DEF Undecided, Call
  <1>2. questions' = questions \cup new
    BY DEF Ask
  <1> HIDE DEF i, U
  <1>3. IsFiniteSet(U)
    <2>1. IsFiniteSet(Rows \X Rows)
      BY FS_Product, RowsAssumption
    <2> QED
      BY <1>1, <2>1, FS_Subset DEF Pairs
  <1>4. new \subseteq Question
    <2> SUFFICES ASSUME NEW p \in U
                 PROVE  NewQuestion(i, p) \in Question
      OBVIOUS
    <2>1. Copies(i, p) \subseteq questions
      BY DEF Copies
    <2>2. Cardinality(Copies(i, p)) \in Nat
      BY <2>1, FS_Subset, FS_CardinalityType DEF StateType
    <2> QED
      BY <1>1, <2>2 DEF NewQuestion, Question
  <1>5. IsFiniteSet(new)
    <2> DEFINE f == [p \in U |-> NewQuestion(i, p)]
    <2>1. new = {f[p] : p \in U}
      OBVIOUS
    <2> HIDE DEF f
    <2> QED
      BY <1>3, <2>1, ImageFinite
  <1>6. \A q \in new : q.pair \in U /\ q.import = i /\ q.status = "open"
                       /\ q = NewQuestion(i, q.pair)
    BY DEF NewQuestion
  <1>7. \A p \in U : NewQuestion(i, p) \in new
    OBVIOUS
  <1> HIDE DEF new
  <1> QED
    BY <1>2, <1>4, <1>5, <1>6, <1>7, FS_Union DEF StateType, i, U

\* The questions an answer closes have its key; the others stay.
Closing(q, all) == IF all THEN SameSignature(q) ELSE {q}
After(e, closed) == IF e \in closed THEN [e EXCEPT !.status = "resolved"] ELSE e

LEMMA AnswerStep ==
  ASSUME StateType, NEW q \in questions, NEW action \in Actions, NEW value \in Values,
         NEW all \in BOOLEAN, Answer(q, action, value, all)
  PROVE  /\ questions' = {After(e, Closing(q, all)) : e \in questions}
         /\ questions' \subseteq Question /\ IsFiniteSet(questions')
         /\ \A e \in questions :
              LET n == After(e, Closing(q, all)) IN
              /\ n.import = e.import /\ n.pair = e.pair
              /\ \/ n = e /\ e \notin Closing(q, all)
                 \/ n.status = "resolved" /\ ScopeKey(e.import, e.pair) = ScopeKey(q.import, q.pair)
  <1> DEFINE closed == Closing(q, all)
  <1>1. closed \subseteq questions
    BY DEF Closing, SameSignature
  <1>2. questions' = (questions \ closed) \cup {[e EXCEPT !.status = "resolved"] : e \in closed}
    BY DEF Answer, Closing
  <1>3. questions' = {After(e, closed) : e \in questions}
    BY <1>1, <1>2 DEF After
  <1>4. \A e \in closed : ScopeKey(e.import, e.pair) = ScopeKey(q.import, q.pair)
    BY DEF Closing, SameSignature
  <1> HIDE DEF closed
  <1>5. \A e \in questions :
          LET n == After(e, closed) IN
          /\ n \in Question /\ n.import = e.import /\ n.pair = e.pair
          /\ (n = e /\ e \notin closed) \/ (n.status = "resolved" /\ e \in closed)
    <2> SUFFICES ASSUME NEW e \in questions
                 PROVE  LET n == After(e, closed) IN
                        /\ n \in Question /\ n.import = e.import /\ n.pair = e.pair
                        /\ (n = e /\ e \notin closed) \/ (n.status = "resolved" /\ e \in closed)
      OBVIOUS
    <2>1. e \in Question
      BY DEF StateType
    <2>2. CASE e \in closed
      <3>1. After(e, closed) = [e EXCEPT !.status = "resolved"]
        BY <2>2 DEF After
      <3> QED
        BY <2>1, <2>2, <3>1 DEF Question
    <2>3. CASE e \notin closed
      <3>1. After(e, closed) = e
        BY <2>3 DEF After
      <3> QED
        BY <2>1, <2>3, <3>1
    <2> QED
      BY <2>2, <2>3
  <1>6. IsFiniteSet(questions')
    <2> DEFINE f == [e \in questions |-> After(e, closed)]
    <2>1. questions' = {f[e] : e \in questions}
      BY <1>3
    <2> HIDE DEF f
    <2>2. IsFiniteSet(questions)
      BY DEF StateType
    <2> QED
      BY <2>1, <2>2, ImageFinite
  <1>7. questions' \subseteq Question
    BY <1>3, <1>5
  <1> QED
    BY <1>3, <1>4, <1>5, <1>6, <1>7 DEF closed

\* What is on file under a key stays on file, under another answer perhaps.
LEMMA RulingsStay ==
  ASSUME NEW q, NEW action, NEW value, NEW all, Answer(q, action, value, all),
         NEW i, NEW p, About(decisions, i, p) # {} \/ ScopeKey(i, p) = ScopeKey(q.import, q.pair)
  PROVE  About(decisions, i, p)' # {}
  <1> DEFINE key == ScopeKey(q.import, q.pair)
             ruling == [key |-> key, action |-> action, value |-> value]
  <1>1. decisions' = {d \in decisions : d.key # key} \cup {ruling}
    BY DEF Answer, Recorded
  <1>2. ScopeKey(i, p)' = ScopeKey(i, p)
    BY DEF Answer, ScopeKey, Identity
  <1>3. CASE ScopeKey(i, p) = key
    <2>1. ruling \in About(decisions, i, p)'
      BY <1>1, <1>2, <1>3 DEF About
    <2> QED
      BY <2>1
  <1>4. CASE ScopeKey(i, p) # key
    <2>1. PICK d \in About(decisions, i, p) : TRUE
      BY <1>4
    <2>2. d \in About(decisions, i, p)'
      BY <1>1, <1>2, <1>4, <2>1 DEF About
    <2> QED
      BY <2>2
  <1> QED
    BY <1>3, <1>4

\* What a step never takes back: what is on file, dealt with, or merged.
LEMMA NothingTakenBack ==
  ASSUME StateType, [Next]_vars
  PROVE  /\ row' = row
         /\ \A d \in decisions : \E e \in decisions' : e.key = d.key
         /\ Dealt \subseteq Dealt'
         /\ \A i \in Imports : \A r \in Rows : found[i][r] \subseteq found'[i][r]
  <1>0. row' = row
    BY DEF Next, Begin, Compare, Goes, BeginJudging, Judge, Ask, Merge, Die, Reimport, Human,
           Answer, vars
  <1>1. \A d \in decisions : \E e \in decisions' : e.key = d.key
    <2>1. CASE decisions' = decisions
      BY <2>1
    <2>2. CASE Human
      <3>1. PICK key, action, value : decisions' = Recorded(key, action, value)
        BY <2>2 DEF Human, Answer
      <3> DEFINE ruling == [key |-> key, action |-> action, value |-> value]
      <3>2. decisions' = {d \in decisions : d.key # key} \cup {ruling} /\ ruling.key = key
        BY <3>1 DEF Recorded
      <3> HIDE DEF ruling
      <3> QED
        BY <3>2
    <2> QED
      BY <2>1, <2>2 DEF Next, Begin, Compare, Goes, BeginJudging, Judge, Ask, Merge, Die,
                        Reimport, vars
  <1>2. \A e \in questions : \E n \in questions' : n.import = e.import /\ n.pair = e.pair
    <2>1. CASE questions \subseteq questions'
      BY <2>1
    <2>2. ASSUME NEW q \in questions, NEW action \in Actions, NEW value \in Values,
                 NEW all \in BOOLEAN, Answer(q, action, value, all)
          PROVE  \A e \in questions : \E n \in questions' : n.import = e.import /\ n.pair = e.pair
      <3> SUFFICES ASSUME NEW e \in questions
                   PROVE  \E n \in questions' : n.import = e.import /\ n.pair = e.pair
        OBVIOUS
      <3>1. PICK n : n = After(e, Closing(q, all))
        OBVIOUS
      <3>2. n \in questions' /\ n.import = e.import /\ n.pair = e.pair
        BY <2>2, <3>1, AnswerStep
      <3> QED
        BY <3>2
    <2> QED
      BY <2>1, <2>2 DEF Next, Begin, Compare, Goes, BeginJudging, Judge, Ask, Merge, Die,
                        Reimport, vars, Human
  <1>3. \A i \in Imports : apart[i] \subseteq apart'[i]
    <2>1. CASE apart' = apart
      BY <2>1
    <2>2. ASSUME NEW c \in Callers, Ask(c)
          PROVE  \A i \in Imports : apart[i] \subseteq apart'[i]
      BY <2>2 DEF Ask, StateType
    <2> QED
      BY <2>1, <2>2 DEF Next, Begin, Compare, Goes, BeginJudging, Judge, Merge, Die, Reimport,
                        vars, Human, Answer
  <1>4. Dealt \subseteq Dealt'
    <2> SUFFICES ASSUME NEW i \in Imports, NEW p \in Pairs, <<i, p>> \in Dealt
                 PROVE  <<i, p>> \in Dealt'
      BY DEF Dealt
    <2>1. p \in apart[i] => p \in apart'[i]
      BY <1>3
    <2>2. About(decisions, i, p) # {} => About(decisions, i, p)' # {}
      <3>1. About(decisions, i, p)' = {d \in decisions' : d.key = ScopeKey(i, p)}
        BY <1>0, RowsStay DEF About
      <3> QED
        BY <1>1, <3>1 DEF About
    <2>3. Copies(i, p) # {} => Copies(i, p)' # {}
      BY <1>2 DEF Copies
    <2> QED
      BY <2>1, <2>2, <2>3 DEF Dealt
  <1>5. \A i \in Imports : \A r \in Rows : found[i][r] \subseteq found'[i][r]
    <2>1. CASE found' = found
      BY <2>1
    <2>2. ASSUME NEW c \in Callers, Merge(c)
          PROVE  \A i \in Imports : \A r \in Rows : found[i][r] \subseteq found'[i][r]
      BY <2>2 DEF Merge, StateType
    <2> QED
      BY <2>1, <2>2 DEF Next, Begin, Compare, Goes, BeginJudging, Judge, Ask, Die, Reimport,
                        vars, Human, Answer
  <1> QED
    BY <1>0, <1>1, <1>4, <1>5

\* A call that compares or judges becomes another that has read the same.
LEMMA GoesOn ==
  ASSUME StateType, NEW c \in Callers,
         BeginJudging(c) \/ \E p \in Pairs : Compare(c, p) \/ Judge(c, p)
  PROVE  \E k \in Sound : /\ Goes(c, k) /\ k.import = call[c].import /\ k.prior = call[c].prior
                          /\ {call[c].pc, k.pc} \subseteq {"comparing", "judging"}
  <1> DEFINE j == call[c]
             Goal == \E k \in Sound :
                       /\ Goes(c, k) /\ k.import = call[c].import /\ k.prior = call[c].prior
                       /\ {call[c].pc, k.pc} \subseteq {"comparing", "judging"}
  <1>1. j \in Sound /\ j \in Call /\ Known(j)
    BY CallsAre
  <1>2. ASSUME NEW p \in Pairs, Compare(c, p) PROVE Goal
    <2>1. j.pc = "comparing" /\ p \in j.todo
      BY <1>2 DEF Compare
    <2>2. \/ Together(j.parent, p) /\ Goes(c, Passed(j, p))
          \/ ~Together(j.parent, p) /\ Joins(j, p) /\ Goes(c, Joined(j, p))
          \/ ~Together(j.parent, p) /\ ~Joins(j, p) /\ Goes(c, Left(j, p))
      BY <1>2 DEF Compare
    <2> HIDE DEF j
    <2>3. \E k \in Sound : OneMore(j, k, p) /\ Goes(c, k)
      BY <1>1, <2>1, <2>2, ComparedIsSound
    <2> QED
      BY <2>1, <2>3 DEF OneMore, j
  <1>3. CASE BeginJudging(c)
    <2> DEFINE u == IF Cardinality(j.band) > Cap THEN {} ELSE j.band
               k == [j EXCEPT !.pc = "judging", !.unseen = u]
    <2>1. j.pc = "comparing" /\ j.todo = {} /\ Goes(c, k)
      BY <1>3 DEF BeginJudging
    <2>2. u \in {{}, j.band}
      OBVIOUS
    <2> HIDE DEF j, u
    <2>3. k \in Sound
      BY <1>1, <2>1, <2>2, JudgingSteps
    <2>4. k.import = j.import /\ k.prior = j.prior /\ k.pc = "judging"
      BY <1>1 DEF Call
    <2> QED
      BY <2>1, <2>3, <2>4 DEF j
  <1>4. ASSUME NEW p \in Pairs, Judge(c, p) PROVE Goal
    <2>1. j.pc = "judging" /\ p \in j.unseen
      BY <1>4 DEF Judge
    <2>2. PICK s \in {{}, {p}} :
            Goes(c, [j EXCEPT !.unseen = @ \ {p}, !.separated = @ \cup s])
      BY <1>4 DEF Judge
    <2> DEFINE k == [j EXCEPT !.unseen = @ \ {p}, !.separated = @ \cup s]
    <2> HIDE DEF j
    <2>3. k \in Sound
      BY <1>1, <2>1, JudgingSteps DEF Known
    <2>4. k.import = j.import /\ k.prior = j.prior /\ k.pc = "judging"
      BY <1>1, <2>1 DEF Call
    <2> QED
      BY <2>1, <2>2, <2>3, <2>4 DEF j
  <1> QED
    BY <1>2, <1>3, <1>4

\* The types stay.
LEMMA TypesStay ==
  ASSUME StateType, [Next]_vars
  PROVE  StateType'
  <1>0. row' = row /\ Answer_' = Answer_ /\ Sound' = Sound
    BY NothingTakenBack, RowsStay
  <1>1. ASSUME NEW c \in Callers, NEW k \in Sound, Goes(c, k) PROVE StateType'
    BY <1>0, <1>1, OneCallChanges DEF Goes, StateType, Question
  <1>2. ASSUME NEW c \in Callers, NEW i \in Imports, Begin(c, i) PROVE StateType'
    <2>1. Begun(i) \in Sound
      BY BegunIsSound DEF StateType
    <2>2. (call \in [Callers -> Sound])'
      BY <1>2, <2>1, OneCallChanges DEF Begin
    <2>3. calls' \in 0..MaxCalls
      BY <1>2, BoundsAssumption DEF Begin, StateType
    <2>4. overlapped' \subseteq Imports
      BY <1>2 DEF Begin, StateType
    <2> QED
      BY <1>0, <1>2, <2>2, <2>3, <2>4 DEF Begin, StateType, Question
  <1>3. ASSUME NEW c \in Callers, Ask(c) PROVE StateType'
    <2>1. call[c].pc = "judging" /\ call[c].unseen = {} /\ call[c] \in Sound
      BY <1>3, CallsAre DEF Ask
    <2>2. call' = [call EXCEPT ![c] = [call[c] EXCEPT !.pc = "merging"]]
      BY <1>3 DEF Ask
    <2>3. [call[c] EXCEPT !.pc = "merging"] \in Sound
      BY <2>1, CallsAre, JudgingSteps DEF Known
    <2>4. (call \in [Callers -> Sound])'
      BY <1>0, <2>2, <2>3, OneCallChanges
    <2>5. apart' \in [Imports -> SUBSET Pairs]
      <3>1. call[c].separated \subseteq Pairs
        BY CallsAre DEF Call
      <3>2. apart' = [apart EXCEPT ![call[c].import] = @ \cup call[c].separated]
        BY <1>3 DEF Ask
      <3> QED
        BY <3>1, <3>2 DEF StateType
    <2>6. questions' \subseteq Question /\ IsFiniteSet(questions')
      BY <1>3, AskStep
    <2>7. UNCHANGED <<row, import, stage, calls, found, decisions, answers, died, overlapped>>
      BY <1>3 DEF Ask
    <2>8. Question' = Question /\ IsFiniteSet(questions)'
      BY <2>6 DEF Question
    <2> QED
      BY <1>0, <2>4, <2>5, <2>6, <2>7, <2>8 DEF StateType
  <1>4. ASSUME NEW c \in Callers, Merge(c) PROVE StateType'
    <2>1. (call \in [Callers -> Sound])'
      BY <1>0, <1>4, IdleIsSound, OneCallChanges DEF Merge
    <2>2. found' \in [Imports -> [Rows -> SUBSET Rows]]
      <3> DEFINE clusters(i) == [r \in Rows |-> found[i][r] \cup Cluster(call[c].parent, r)]
      <3>1. found' = [found EXCEPT ![call[c].import] = clusters(call[c].import)]
        BY <1>4 DEF Merge
      <3>2. \A i \in Imports : clusters(i) \in [Rows -> SUBSET Rows]
        BY DEF StateType, Cluster
      <3> HIDE DEF clusters
      <3> QED
        BY <3>1, <3>2, CallsAre DEF StateType
    <2>3. stage' \in [Imports -> {"validated", "reconciled"}]
      BY <1>4 DEF Merge, StateType
    <2> QED
      BY <1>0, <1>4, <2>1, <2>2, <2>3 DEF Merge, StateType, Question
  <1>5. ASSUME NEW c \in Callers, Die(c) PROVE StateType'
    <2>1. (call \in [Callers -> Sound])'
      BY <1>0, <1>5, IdleIsSound, OneCallChanges DEF Die
    <2>2. died' \subseteq Imports
      BY <1>5, CallsAre DEF Die, StateType
    <2> QED
      BY <1>0, <1>5, <2>1, <2>2 DEF Die, StateType, Question
  <1>6. CASE Reimport
    <2>1. import' \in Imports
      BY <1>6, BoundsAssumption DEF Reimport, StateType, Imports
    <2> QED
      BY <1>0, <1>6, <2>1 DEF Reimport, StateType, Question
  <1>7. ASSUME NEW q \in questions, NEW action \in Actions, NEW value \in Values,
               NEW all \in BOOLEAN, Answer(q, action, value, all)
        PROVE  StateType'
    <2>1. decisions' \subseteq Answer_
      <3>1. ScopeKey(q.import, q.pair) \in {ScopeKey(i, p) : i \in Imports, p \in Pairs}
        BY DEF StateType, Question
      <3>2. [key |-> ScopeKey(q.import, q.pair), action |-> action, value |-> value] \in Answer_
        BY <3>1 DEF Answer_
      <3>3. decisions' = Recorded(ScopeKey(q.import, q.pair), action, value)
        BY <1>7 DEF Answer
      <3> QED
        BY <3>2, <3>3 DEF StateType, Recorded
    <2>2. answers' \in 0..MaxAnswers
      BY <1>7, BoundsAssumption DEF Answer, StateType
    <2>3. questions' \subseteq Question /\ IsFiniteSet(questions')
      BY <1>7, AnswerStep
    <2>4. UNCHANGED <<row, import, stage, call, calls, found, apart, died, overlapped>>
      BY <1>7 DEF Answer
    <2>5. Question' = Question /\ IsFiniteSet(questions)'
      BY <2>3 DEF Question
    <2> QED
      BY <1>0, <2>1, <2>2, <2>3, <2>4, <2>5 DEF StateType
  <1>8. CASE UNCHANGED vars
    BY <1>0, <1>8 DEF vars, StateType, Question
  <1> QED
    BY <1>1, <1>2, <1>3, <1>4, <1>5, <1>6, <1>7, <1>8, GoesOn DEF Next, Human

\* A ruling that was read stays on file, and a call that is to merge leaves
\* no pair open.
LEMMA CallsKeptStay ==
  ASSUME StateType, CallsKept, [Next]_vars
  PROVE  CallsKept'
  <1>1. /\ row' = row /\ Dealt \subseteq Dealt'
        /\ \A d \in decisions : \E e \in decisions' : e.key = d.key
    BY NothingTakenBack
  <1>2. Filed \subseteq Filed'
    <2>1. Filed' = {j \in Call : \A d \in j.prior : \E e \in decisions' : e.key = d.key}
      BY <1>1, RowsStay DEF Filed
    <2> QED
      BY <1>1, <2>1 DEF Filed
  <1>3. Decided \subseteq Decided'
    <2>1. \A j, p : Together(j.parent, p)' <=> Together(j.parent, p)
      BY DEF Together, Find
    <2>2. Compared' = Compared /\ Call' = Call /\ \A p : PairScore(p)' = PairScore(p)
      BY <1>1, RowsStay
    <2> QED
      BY <1>1, <2>1, <2>2 DEF Decided
  <1> DEFINE Kept(k) == k \in Filed' /\ (k.pc = "merging" => k \in Decided')
  <1>4. \A d \in Callers : Kept(call[d])
    BY <1>2, <1>3 DEF CallsKept
  <1>5. ASSUME NEW c \in Callers, NEW k, Kept(k), \A d \in Callers : call'[d] = IF d = c THEN k ELSE call[d]
        PROVE  \A d \in Callers : Kept(call'[d])
    BY <1>4, <1>5
  <1>6. (\A d \in Callers : Kept(call'[d])) => CallsKept'
    BY DEF CallsKept
  <1>7. ASSUME call' = call PROVE CallsKept'
    BY <1>4, <1>6, <1>7
  <1>8. ASSUME NEW c \in Callers, NEW k \in Sound, Kept(k), call' = [call EXCEPT ![c] = k]
        PROVE  CallsKept'
    <2>1. \A d \in Callers : call'[d] = IF d = c THEN k ELSE call[d]
      BY <1>1, <1>8, OneCallChanges
    <2> HIDE DEF Kept
    <2> QED
      BY <1>5, <1>6, <1>8, <2>1
  <1>9. ASSUME NEW c \in Callers, NEW k \in Sound, Goes(c, k), k.prior = call[c].prior,
               k.pc \in {"comparing", "judging"}
        PROVE  CallsKept'
    <2>1. k \in Filed
      BY <1>9 DEF Sound, Filed, CallsKept
    <2> QED
      BY <1>2, <1>8, <1>9, <2>1 DEF Goes
  <1>10. ASSUME NEW c \in Callers, NEW i \in Imports, Begin(c, i) PROVE CallsKept'
    <2>1. Begun(i) \in Sound /\ Begun(i).pc = "comparing" /\ Begun(i).prior = decisions
      BY BegunIsSound DEF StateType
    <2>2. Begun(i) \in Filed
      BY <2>1 DEF Sound, Filed
    <2> QED
      BY <1>2, <1>8, <1>10, <2>1, <2>2 DEF Begin
  <1>11. ASSUME NEW c \in Callers, Ask(c) PROVE CallsKept'
    <2> DEFINE j == call[c]
               k == [j EXCEPT !.pc = "merging"]
    <2>1. /\ call' = [call EXCEPT ![c] = k] /\ j.pc = "judging"
          /\ apart' = [apart EXCEPT ![j.import] = @ \cup j.separated]
          /\ decisions' = decisions
      BY <1>11 DEF Ask
    <2>2. /\ j \in Sound /\ j \in Call /\ Known(j) /\ j.todo = {}
          /\ j \in Filed /\ j.import \in Imports
      BY <2>1, CallsAre DEF Known, CallsKept
    <2>u. \A p \in Undecided(j) : NewQuestion(j.import, p) \in questions'
      BY <1>11, AskStep
    <2>v. \A p \in j.separated : p \in apart'[j.import]
      BY <2>1, <2>2 DEF StateType
    <2>w. \A i, p : About(decisions, i, p)' = About(decisions, i, p)
      BY <1>1, <2>1, RowsStay DEF About
    <2> HIDE DEF j
    <2>3. /\ k \in Sound /\ k.import = j.import /\ k.prior = j.prior /\ k.parent = j.parent
          /\ k \in Call
      BY <2>1, <2>2, JudgingSteps DEF Call
    <2> HIDE DEF k
    <2>4. k \in Filed
      BY <2>2, <2>3 DEF Filed
    <2>5. ASSUME NEW p \in Compared, PairScore(p) = "ask", ~Together(j.parent, p)
          PROVE  <<j.import, p>> \in Dealt'
      <3>1. p \in j.band \/ Ruled(j, p) # {}
        BY <2>1, <2>2, <2>5 DEF Known, Banded
      <3>2. CASE About(decisions, j.import, p) # {}
        BY <2>2, <2>w, <3>2, PairRows DEF Dealt
      <3>3. CASE p \in j.separated
        BY <2>2, <2>v, <3>3, PairRows DEF Dealt
      <3>4. CASE About(decisions, j.import, p) = {} /\ p \notin j.separated
        <4>1. Ruled(j, p) = {}
          <5> SUFFICES ASSUME NEW d \in Ruled(j, p) PROVE FALSE
            OBVIOUS
          <5>1. d \in j.prior /\ d.key = ScopeKey(j.import, p)
            BY DEF Ruled, About
          <5>2. \E e \in decisions : e.key = d.key
            BY <2>2, <5>1 DEF Filed
          <5> QED
            BY <3>4, <5>1, <5>2 DEF About
        <4>2. p \in Undecided(j)
          BY <3>1, <3>4, <4>1 DEF Undecided
        <4>3. PICK i \in Imports : i = j.import
          BY <2>2
        <4>4. PICK q : q = NewQuestion(j.import, p)
          OBVIOUS
        <4>5. q \in questions' /\ q.import = i /\ q.pair = p
          BY <2>u, <4>2, <4>3, <4>4 DEF NewQuestion
        <4>6. Copies(i, p)' # {}
          BY <4>5 DEF Copies
        <4> QED
          BY <4>3, <4>6, PairRows DEF Dealt
      <3> QED
        BY <3>2, <3>3, <3>4
    <2>6. k \in Decided'
      <3>1. \A f, p : Together(f, p)' <=> Together(f, p)
        BY DEF Together, Find
      <3>2. Compared' = Compared /\ Call' = Call /\ \A p : PairScore(p)' = PairScore(p)
        BY <1>1, RowsStay
      <3>3. PICK l : l = k
        OBVIOUS
      <3>4. l \in Decided'
        BY <2>3, <2>5, <3>1, <3>2, <3>3 DEF Decided
      <3> QED
        BY <3>3, <3>4
    <2> QED
      BY <1>2, <1>8, <2>1, <2>3, <2>4, <2>6
  <1>12. ASSUME NEW c \in Callers, call' = [call EXCEPT ![c] = Idle] PROVE CallsKept'
    <2>1. Idle \in Filed
      BY IdleIsSound DEF Filed, Sound
    <2>2. Kept(Idle)
      BY <1>2, <2>1, IdleIsSound
    <2> HIDE DEF Kept
    <2> QED
      BY <1>8, <1>12, <2>2, IdleIsSound
  <1>13. ASSUME NEW c \in Callers,
                BeginJudging(c) \/ \E p \in Pairs : Compare(c, p) \/ Judge(c, p)
         PROVE  CallsKept'
    BY <1>9, <1>13, GoesOn
  <1>14. CASE Reimport \/ Human \/ UNCHANGED vars
    BY <1>7, <1>14 DEF Reimport, Human, Answer, vars
  <1> QED
    BY <1>10, <1>11, <1>12, <1>13, <1>14 DEF Next, Merge, Die

\* A call that merges leaves no pair open, and nothing is opened again.
LEMMA NothingFallsThrough ==
  ASSUME StateType, CallsKept, NothingUndecided, [Next]_vars
  PROVE  NothingUndecided'
  <1>1. /\ row' = row /\ Dealt \subseteq Dealt'
        /\ \A i \in Imports : \A r \in Rows : found[i][r] \subseteq found'[i][r]
    BY NothingTakenBack
  <1>2. Compared' = Compared /\ \A p : PairScore(p)' = PairScore(p)
    BY <1>1, RowsStay
  <1>3. SUFFICES ASSUME NEW i \in Imports, stage'[i] = "reconciled",
                        NEW p \in Compared, PairScore(p) = "ask"
                 PROVE  p[2] \in found'[i][p[1]] \/ <<i, p>> \in Dealt'
    BY <1>2 DEF NothingUndecided, Dealt
  <1>4. p \in Pairs /\ p[1] \in Rows /\ p[2] \in Rows
    BY PairRows
  <1>5. CASE stage[i] = "reconciled"
    <2>1. p[2] \in found[i][p[1]] \/ <<i, p>> \in Dealt
      BY <1>3, <1>4, <1>5 DEF NothingUndecided, Dealt
    <2> QED
      BY <1>1, <1>4, <2>1
  <1>6. ASSUME NEW c \in Callers, Merge(c), stage[i] # "reconciled"
        PROVE  p[2] \in found'[i][p[1]] \/ <<i, p>> \in Dealt'
    <2> DEFINE j == call[c]
    <2>1. /\ j.pc = "merging" /\ stage' = [stage EXCEPT ![j.import] = "reconciled"]
          /\ found' = [found EXCEPT ![j.import] =
                         [r \in Rows |-> @[r] \cup Cluster(j.parent, r)]]
      BY <1>6 DEF Merge
    <2>2. j.import = i
      BY <1>3, <1>6, <2>1 DEF StateType
    <2>3. Together(j.parent, p) \/ <<i, p>> \in Dealt
      BY <1>3, <2>1, <2>2 DEF CallsKept, Decided
    <2>4. ASSUME Together(j.parent, p) PROVE p[2] \in found'[i][p[1]]
      <3>1. p[2] \in Cluster(j.parent, p[1])
        BY <1>4, <2>4 DEF Cluster, Together
      <3> DEFINE merged == [r \in Rows |-> found[i][r] \cup Cluster(j.parent, r)]
      <3>2. found' = [found EXCEPT ![i] = merged]
        BY <2>1, <2>2
      <3>3. merged[p[1]] = found[i][p[1]] \cup Cluster(j.parent, p[1])
        BY <1>4
      <3> HIDE DEF merged
      <3>4. found'[i] = merged
        BY <3>2 DEF StateType
      <3> QED
        BY <3>1, <3>3, <3>4
    <2> QED
      BY <1>1, <2>3, <2>4
  <1>7. stage' = stage \/ \E c \in Callers : Merge(c)
    BY DEF Next, Begin, Compare, Goes, BeginJudging, Judge, Ask, Die, Reimport, Human, Answer,
           vars
  <1> QED
    BY <1>3, <1>5, <1>6, <1>7

\* A closed question stays answered.
LEMMA ResolvedStaysRuled ==
  ASSUME StateType, ResolvedIsRuled, [Next]_vars
  PROVE  ResolvedIsRuled'
  <1>1. row' = row /\ \A d \in decisions : \E e \in decisions' : e.key = d.key
    BY NothingTakenBack
  <1>2. \A i, p : About(decisions, i, p) # {} => About(decisions, i, p)' # {}
    <2> SUFFICES ASSUME NEW i, NEW p, About(decisions, i, p) # {}
                 PROVE  About(decisions, i, p)' # {}
      OBVIOUS
    <2>1. About(decisions, i, p)' = {d \in decisions' : d.key = ScopeKey(i, p)}
      BY <1>1, RowsStay DEF About
    <2> QED
      BY <1>1, <2>1 DEF About
  <1>3. ASSUME \A e \in questions' : e \in questions \/ e.status = "open" PROVE ResolvedIsRuled'
    BY <1>2, <1>3 DEF ResolvedIsRuled
  <1>4. ASSUME NEW c \in Callers, Ask(c) PROVE ResolvedIsRuled'
    BY <1>3, <1>4, AskStep
  <1>5. ASSUME NEW q \in questions, NEW action \in Actions, NEW value \in Values,
               NEW all \in BOOLEAN, Answer(q, action, value, all)
        PROVE  ResolvedIsRuled'
    <2> SUFFICES ASSUME NEW n \in questions', n.status = "resolved"
                 PROVE  About(decisions, n.import, n.pair)' # {}
      BY DEF ResolvedIsRuled
    <2>1. PICK e \in questions : n = After(e, Closing(q, all))
      BY <1>5, AnswerStep
    <2>2. /\ n.import = e.import /\ n.pair = e.pair
          /\ \/ n = e
             \/ ScopeKey(e.import, e.pair) = ScopeKey(q.import, q.pair)
      BY <1>5, <2>1, AnswerStep
    <2> QED
      BY <1>5, <2>2, RulingsStay DEF ResolvedIsRuled
  <1>6. questions' = questions \/ Human \/ \E c \in Callers : Ask(c)
    BY DEF Next, Begin, Compare, Goes, BeginJudging, Judge, Merge, Die, Reimport, vars
  <1> QED
    BY <1>3, <1>4, <1>5, <1>6 DEF Human

\* The part of the invariant about which call asks.
AskInv == SoleCall /\ AskedAtTheEnd /\ AskedOnceByOneCall

\* A call that goes on is still at work on its import.
LEMMA AskInvGoes ==
  ASSUME StateType, AskInv, NEW c \in Callers,
         BeginJudging(c) \/ \E p \in Pairs : Compare(c, p) \/ Judge(c, p)
  PROVE  AskInv'
  <1>1. PICK k \in Sound : /\ Goes(c, k) /\ k.import = call[c].import
                           /\ {call[c].pc, k.pc} \subseteq {"comparing", "judging"}
    BY GoesOn
  <1>2. /\ UNCHANGED <<stage, questions, died, overlapped>>
        /\ \A d \in Callers : call'[d] = IF d = c THEN k ELSE call[d]
    BY <1>1, OneCallChanges DEF Goes
  <1>3. \A d \in Callers : \A i : At(d, i)' <=> At(d, i)
    BY <1>1, <1>2 DEF At
  <1>4. SoleCall'
    BY <1>2, <1>3 DEF AskInv, SoleCall
  <1>5. AskedAtTheEnd'
    BY <1>1, <1>2 DEF AskInv, AskedAtTheEnd
  <1>6. AskedOnceByOneCall'
    BY <1>2 DEF AskInv, AskedOnceByOneCall
  <1> QED
    BY <1>4, <1>5, <1>6 DEF AskInv

\* A call that begins is alone with its import, or the import is overlapped.
LEMMA AskInvBegin ==
  ASSUME StateType, AskInv, NEW c \in Callers, NEW i \in Imports, Begin(c, i)
  PROVE  AskInv'
  <1> DEFINE k == Begun(i)
  <1>1. k \in Sound /\ k.pc = "comparing" /\ k.import = i
    BY BegunIsSound DEF StateType
  <1>2. /\ call[c].pc = "idle" /\ stage[i] = "validated"
        /\ overlapped' = IF AtWork(i) = {} THEN overlapped ELSE overlapped \cup {i}
        /\ UNCHANGED <<stage, questions, died>>
        /\ call' = [call EXCEPT ![c] = k] /\ row' = row
    BY DEF Begin
  <1> HIDE DEF k
  <1>3. \A d \in Callers : call'[d] = IF d = c THEN k ELSE call[d]
    BY <1>1, <1>2, OneCallChanges
  <1>4. SoleCall'
    <2> SUFFICES ASSUME NEW h \in Imports \ overlapped', NEW d \in Callers, NEW e \in Callers,
                        At(d, h)'
                 PROVE  stage'[h] = "validated" /\ (At(e, h)' => d = e)
      BY DEF SoleCall
    <2>1. \A x \in Callers : At(x, h)' <=> (x = c /\ h = i) \/ (x # c /\ At(x, h))
      BY <1>1, <1>3 DEF At
    <2>2. CASE h = i
      <3>1. \A x \in Callers : ~At(x, h)
        BY <1>2, <2>2 DEF AtWork, At
      <3> QED
        BY <1>2, <2>1, <2>2, <3>1
    <2>3. CASE h # i
      BY <1>2, <2>1, <2>3 DEF AskInv, SoleCall
    <2> QED
      BY <2>2, <2>3
  <1>5. AskedAtTheEnd'
    BY <1>2, <1>3 DEF AskInv, AskedAtTheEnd
  <1>6. AskedOnceByOneCall'
    BY <1>2 DEF AskInv, AskedOnceByOneCall
  <1> QED
    BY <1>4, <1>5, <1>6 DEF AskInv

\* A call that asks, alone with its import and none having died, is the first.
LEMMA AskInvAsk ==
  ASSUME StateType, AskInv, NEW c \in Callers, Ask(c)
  PROVE  AskInv'
  <1> DEFINE i == call[c].import
             k == [call[c] EXCEPT !.pc = "merging"]
  <1>1. /\ call[c].pc = "judging" /\ UNCHANGED <<stage, died, overlapped, row>>
        /\ call' = [call EXCEPT ![c] = k]
    BY DEF Ask
  <1>2. i \in Imports /\ k.pc = "merging" /\ k.import = i /\ call' \in [Callers -> {call[d] : d \in Callers} \cup {k}]
    BY <1>1, CallsAre DEF Call, StateType
  <1>3. \A d \in Callers : call'[d] = IF d = c THEN k ELSE call[d]
    BY <1>1 DEF StateType
  <1>4. \A q \in questions' : q \in questions \/ q.import = i
    BY AskStep
  <1>5. At(c, i)
    BY <1>1 DEF At
  <1>u. \A q \in questions' \ questions :
          q.import = i /\ q = NewQuestion(i, q.pair)
    BY AskStep
  <1> HIDE DEF k, i
  <1>6. \A d \in Callers : \A h : At(d, h)' <=> At(d, h)
    <2>1. call[c].pc # "idle" /\ call[c].import = i
      BY <1>1 DEF i
    <2> QED
      BY <1>2, <1>3, <2>1 DEF At
  <1>7. SoleCall'
    BY <1>1, <1>6 DEF AskInv, SoleCall
  <1>8. AskedAtTheEnd'
    <2> SUFFICES ASSUME NEW q \in questions'
                 PROVE  \/ stage[q.import] = "reconciled" \/ q.import \in died
                        \/ \E d \in Callers : call'[d].pc = "merging" /\ call'[d].import = q.import
      BY <1>1 DEF AskedAtTheEnd
    <2>1. CASE q.import = i
      BY <1>2, <1>3, <2>1
    <2>2. CASE q.import # i
      <3>1. q \in questions
        BY <1>4, <2>2
      <3>2. \A d \in Callers : call[d].pc = "merging" => d # c
        BY <1>1
      <3> QED
        BY <1>3, <3>1, <3>2 DEF AskInv, AskedAtTheEnd
    <2> QED
      BY <2>1, <2>2
  <1>9. AskedOnceByOneCall'
    <2> SUFFICES ASSUME NEW q \in questions', NEW e \in questions',
                        q.import = e.import, q.pair = e.pair, q # e,
                        q.import \notin died, q.import \notin overlapped
                 PROVE  FALSE
      BY <1>1 DEF AskedOnceByOneCall
    <2>1. CASE q \in questions /\ e \in questions
      BY <2>1 DEF AskInv, AskedOnceByOneCall
    <2>2. CASE q \notin questions \/ e \notin questions
      <3>1. q.import = i /\ e.import = i
        BY <1>u, <2>2
      <3>2. \A d \in Callers : At(d, i) => d = c
        BY <1>2, <1>5, <3>1 DEF AskInv, SoleCall
      <3>3. stage[i] # "reconciled"
        BY <1>2, <1>5, <3>1 DEF AskInv, SoleCall
      <3>4. \A x \in questions : x.import # i
        <4> SUFFICES ASSUME NEW x \in questions, x.import = i PROVE FALSE
          OBVIOUS
        <4>1. PICK d \in Callers : call[d].pc = "merging" /\ call[d].import = i
          BY <3>1, <3>3 DEF AskInv, AskedAtTheEnd
        <4>2. d = c
          BY <3>2, <4>1 DEF At
        <4> QED
          BY <1>1, <4>1, <4>2
      <3>5. q = NewQuestion(i, q.pair) /\ e = NewQuestion(i, e.pair)
        BY <1>u, <3>1, <3>4
      <3> QED
        BY <3>5
    <2> QED
      BY <2>1, <2>2
  <1> QED
    BY <1>7, <1>8, <1>9 DEF AskInv

\* A call ends, with its merge or before it.
LEMMA AskInvEnd ==
  ASSUME StateType, AskInv, NEW c \in Callers, Merge(c) \/ Die(c)
  PROVE  AskInv'
  <1>1. call' = [call EXCEPT ![c] = Idle] /\ UNCHANGED <<row, questions, overlapped>>
    BY DEF Merge, Die
  <1>2. \A d \in Callers : call'[d] = IF d = c THEN Idle ELSE call[d]
    BY <1>1, IdleIsSound, OneCallChanges
  <1>3. \A d \in Callers : \A h : At(d, h)' <=> d # c /\ At(d, h)
    BY <1>2, IdleIsSound DEF At
  <1>4. /\ call[c].import \in Imports /\ call[c].pc # "idle"
        /\ \A h \in Imports : h # call[c].import => stage'[h] = stage[h]
        /\ Die(c) => stage' = stage
        /\ \A h \in Imports : stage[h] = "reconciled" => stage'[h] = "reconciled"
        /\ died \subseteq died'
        /\ call[c].pc = "merging" =>
             stage'[call[c].import] = "reconciled" \/ call[c].import \in died'
    BY CallsAre DEF Merge, Die, StateType
  <1>5. SoleCall'
    <2> SUFFICES ASSUME NEW h \in Imports \ overlapped, NEW d \in Callers, NEW e \in Callers,
                        d # c, At(d, h)
                 PROVE  stage'[h] = "validated" /\ (e # c /\ At(e, h) => d = e)
      BY <1>1, <1>3 DEF SoleCall
    <2>1. \A x \in Callers : At(x, h) => x = d
      BY DEF AskInv, SoleCall
    <2>2. h # call[c].import
      BY <1>4, <2>1 DEF At
    <2> QED
      BY <1>4, <2>1, <2>2 DEF AskInv, SoleCall
  <1>6. AskedAtTheEnd'
    <2> SUFFICES ASSUME NEW q \in questions
                 PROVE  \/ stage'[q.import] = "reconciled" \/ q.import \in died'
                        \/ \E d \in Callers : call'[d].pc = "merging" /\ call'[d].import = q.import
      BY <1>1 DEF AskedAtTheEnd
    <2>1. q.import \in Imports
      BY DEF StateType, Question
    <2>2. CASE stage[q.import] = "reconciled" \/ q.import \in died
      BY <1>4, <2>1, <2>2
    <2>3. ASSUME NEW d \in Callers, call[d].pc = "merging", call[d].import = q.import
          PROVE  \/ stage'[q.import] = "reconciled" \/ q.import \in died'
                 \/ \E x \in Callers : call'[x].pc = "merging" /\ call'[x].import = q.import
      BY <1>2, <1>4, <2>3
    <2> QED
      BY <2>2, <2>3 DEF AskInv, AskedAtTheEnd
  <1>7. AskedOnceByOneCall'
    BY <1>1, <1>4 DEF AskInv, AskedOnceByOneCall
  <1> QED
    BY <1>5, <1>6, <1>7 DEF AskInv

\* An answer closes questions and asks none.
LEMMA AskInvAnswer ==
  ASSUME StateType, AskInv, NEW q \in questions, NEW action \in Actions, NEW value \in Values,
         NEW all \in BOOLEAN, Answer(q, action, value, all)
  PROVE  AskInv'
  <1>1. UNCHANGED <<stage, call, died, overlapped>>
    BY DEF Answer
  <1>2. \A n \in questions' : \E e \in questions :
          /\ n = After(e, Closing(q, all)) /\ n.import = e.import /\ n.pair = e.pair
    BY AnswerStep
  <1>3. SoleCall'
    BY <1>1 DEF AskInv, SoleCall, At
  <1>4. AskedAtTheEnd'
    BY <1>1, <1>2 DEF AskInv, AskedAtTheEnd
  <1>5. AskedOnceByOneCall'
    <2> SUFFICES ASSUME NEW n \in questions', NEW m \in questions',
                        n.import = m.import, n.pair = m.pair, n # m
                 PROVE  n.import \in died \cup overlapped
      BY <1>1 DEF AskedOnceByOneCall
    <2>1. PICK e \in questions :
            n = After(e, Closing(q, all)) /\ n.import = e.import /\ n.pair = e.pair
      BY <1>2
    <2>2. PICK f \in questions :
            m = After(f, Closing(q, all)) /\ m.import = f.import /\ m.pair = f.pair
      BY <1>2
    <2>3. e # f
      BY <2>1, <2>2
    <2> QED
      BY <2>1, <2>2, <2>3 DEF AskInv, AskedOnceByOneCall
  <1> QED
    BY <1>3, <1>4, <1>5 DEF AskInv

LEMMA AskInvStep ==
  ASSUME StateType, AskInv, [Next]_vars
  PROVE  AskInv'
  <1>1. CASE Reimport \/ UNCHANGED vars
    BY <1>1 DEF Reimport, vars, AskInv, SoleCall, At, AskedAtTheEnd, AskedOnceByOneCall
  <1>2. ASSUME NEW q \in questions, NEW action \in Actions, NEW value \in Values,
               NEW all \in BOOLEAN, Answer(q, action, value, all)
        PROVE  AskInv'
    BY <1>2, AskInvAnswer
  <1> QED
    BY <1>1, <1>2, AskInvGoes, AskInvBegin, AskInvAsk, AskInvEnd DEF Next, Human

LEMMA MInvInit == Init => MInv
  <1> SUFFICES ASSUME Init PROVE MInv
    OBVIOUS
  <1>1. call \in [Callers -> Sound] /\ \A c \in Callers : call[c] = Idle
    BY IdleIsSound DEF Init
  <1>2. found \in [Imports -> [Rows -> SUBSET Rows]]
    <2> DEFINE own == [r \in Rows |-> {r}]
    <2>1. own \in [Rows -> SUBSET Rows] /\ found = [i \in Imports |-> own]
      BY DEF Init
    <2> HIDE DEF own
    <2> QED
      BY <2>1
  <1>3. StateType
    BY <1>1, <1>2, BoundsAssumption, FS_EmptySet DEF Init, StateType, Imports
  <1>4. CallsKept
    <2>1. Idle \in Filed /\ Idle.pc = "idle"
      BY IdleIsSound DEF Filed, Sound
    <2> QED
      BY <1>1, <2>1 DEF CallsKept
  <1>5. SoleCall
    BY <1>1, IdleIsSound DEF SoleCall, At
  <1> QED
    BY <1>3, <1>4, <1>5
       DEF Init, MInv, NothingUndecided, ResolvedIsRuled, AskedAtTheEnd, AskedOnceByOneCall

LEMMA MInvStep ==
  ASSUME MInv, [Next]_vars
  PROVE  MInv'
  <1>1. StateType'
    BY TypesStay DEF MInv
  <1>2. CallsKept'
    BY CallsKeptStay DEF MInv
  <1>3. NothingUndecided'
    BY NothingFallsThrough DEF MInv
  <1>4. ResolvedIsRuled'
    BY ResolvedStaysRuled DEF MInv
  <1>5. AskInv'
    BY AskInvStep DEF MInv, AskInv
  <1> QED
    BY <1>1, <1>2, <1>3, <1>4, <1>5 DEF MInv, AskInv

\* What the steps keep about the calls, the questions and the decisions.
LEMMA MInvHolds == Spec => []MInv
  <1>1. MInv /\ [Next]_vars => MInv'
    BY MInvStep
  <1> QED
    BY MInvInit, <1>1, PTL DEF Spec

\* Type correctness: the trees of every call's union-find stay trees of rows.
THEOREM MatchingTypes == Spec => []TypeOK
  <1>1. MInv => TypeOK
    <2> SUFFICES ASSUME MInv PROVE TypeOK
      OBVIOUS
    <2>1. \A c \in Callers : /\ call[c] \in Call
                             /\ call[c].unseen \cup call[c].separated \subseteq call[c].band
      BY CallsAre DEF MInv, Known
    <2> QED
      BY <2>1 DEF MInv, StateType, TypeOK
  <1> QED
    BY MInvHolds, <1>1, PTL

\* Of however many calls, the clusters of rows each ends with are the
\* components of the graph of the links it has read, whatever order it compared
\* the pairs in.
THEOREM ClustersCorrect == Spec => []ClustersAreComponents
  <1>1. MInv => ClustersAreComponents
    <2> SUFFICES ASSUME MInv, NEW c \in Callers, call[c].pc \in {"judging", "merging"},
                        NEW r \in Rows
                 PROVE  Cluster(call[c].parent, r) = Reached(call[c], r)
      BY DEF ClustersAreComponents
    <2> DEFINE j == call[c]
               tree == Cluster(j.parent, r)
    <2>1. j.todo = {} /\ TreesFollowLinks(j) /\ LinksJoin(j)
      BY CallsAre DEF MInv, Known
    <2> HIDE DEF j
    <2>2. tree \subseteq Reached(j, r)
      <3> SUFFICES ASSUME NEW s \in tree, NEW S \in SUBSET Rows, Sealed(j, S), r \in S, s \notin S
                   PROVE  FALSE
        BY DEF Reached, Cluster
      <3> QED
        BY <2>1 DEF TreesFollowLinks, Cluster
    <2>3. Reached(j, r) \subseteq tree
      <3>1. r \in tree /\ tree \in SUBSET Rows
        BY DEF Cluster
      <3>2. \A p \in Pairs : Linked(j, p) => Find(j.parent, p[1]) = Find(j.parent, p[2])
        BY <2>1 DEF LinksJoin, Together
      <3>3. Sealed(j, tree)
        BY <3>2, PairRows DEF Sealed, Cluster
      <3> HIDE DEF tree
      <3> QED
        BY <3>1, <3>3 DEF Reached
    <2> QED
      BY <2>2, <2>3 DEF j
  <1> QED
    BY MInvHolds, <1>1, PTL

\* Once an import is matched, by however many calls and whichever of them was
\* first to end the stage, no pair too close to call has fallen between the cap,
\* the model, the decisions read at the start and those looked up at the end.
THEOREM NoneUndecided == Spec => []NothingUndecided
  <1>1. MInv => NothingUndecided
    BY DEF MInv
  <1> QED
    BY MInvHolds, <1>1, PTL

\* A second question of an import about one pair betrays a call that stopped
\* before its merge or two calls at work at once: the guard on the stage, which
\* only reads it, is enough for calls that follow one another, and no more.
THEOREM PairsAskedOnce == Spec => []AskedOnceByOneCall
  <1>1. MInv => AskedOnceByOneCall
    BY DEF MInv
  <1> QED
    BY MInvHolds, <1>1, PTL

\* What a person has ruled on about two rows with an id or an email is not
\* asked again, in this import or a later one, by any call at work meanwhile.
THEOREM AnswersHold == Spec => AnsweredIsNotAskedAgain
  <1> DEFINE Again ==
        \A q \in questions' : q.status = "open" /\ q \notin questions /\ Stable(q.pair) =>
          ~ \E e \in questions : e.pair = q.pair /\ e.status = "resolved"
  <1>1. MInv /\ [Next]_vars => [Again]_vars
    <2> SUFFICES ASSUME MInv, Next,
                        NEW q \in questions', q.status = "open", q \notin questions,
                        Stable(q.pair),
                        NEW e \in questions, e.pair = q.pair, e.status = "resolved"
                 PROVE  FALSE
      OBVIOUS
    <2>1. ASSUME NEW c \in Callers, Ask(c) PROVE FALSE
      <3>1. q.pair \in Undecided(call[c]) /\ call[c].import \in Imports /\ e.import \in Imports
        BY <2>1, AskStep, CallsAre DEF MInv, StateType, Question
      <3>2. About(decisions, call[c].import, q.pair) = {}
        BY <3>1 DEF Undecided
      <3>3. ScopeKey(e.import, q.pair) = ScopeKey(call[c].import, q.pair)
        BY DEF Stable, ScopeKey, Identity
      <3>4. About(decisions, e.import, q.pair) # {}
        BY DEF MInv, ResolvedIsRuled
      <3> QED
        BY <3>2, <3>3, <3>4 DEF About
    <2>2. ASSUME NEW x \in questions, NEW action \in Actions, NEW value \in Values,
                 NEW all \in BOOLEAN, Answer(x, action, value, all)
          PROVE  FALSE
      BY <2>2, AnswerStep DEF MInv
    <2>3. questions' = questions \/ (\E c \in Callers : Ask(c)) \/ Human
      BY DEF Next, Begin, Compare, Goes, BeginJudging, Judge, Merge, Die, Reimport
    <2> QED
      BY <2>1, <2>2, <2>3 DEF Human
  <1> QED
    BY MInvHolds, <1>1, PTL DEF Spec, AnsweredIsNotAskedAgain
=============================================================================
