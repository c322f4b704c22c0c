------------------------------ MODULE ListProofs ------------------------------
(***************************************************************************)
(* The lists, proved for any number of lists and items and all values:     *)
(* the links of the lists stay whole under every command, merging keeps    *)
(* what its runs must satisfy, and the commands do as they are told.       *)
(* After them the hash table, whose buckets are lists, for any hash        *)
(* function: it finds what it holds, whatever it grows and shrinks to.     *)
(***************************************************************************)
EXTENDS List, HashTable, FiniteSetTheorems, WellFoundedInduction, TLAPS

LEMMA HasLeast ==
  ASSUME NEW S \in SUBSET Nat, S # {}
  PROVE  \E e0 \in S : \A k \in S : e0 <= k
<1>1. PICK e0 \in S : \A k \in S : ~(<<k, e0>> \in OpToRel(<, Nat))
  <2>1. IsWellFoundedOn(OpToRel(<, Nat), Nat)
    BY NatLessThanWellFounded
  <2> QED
    BY <2>1, WFMin
<1>2. \A k \in S : ~(k < e0)
  BY <1>1 DEF OpToRel
<1> QED
  BY <1>2

\* What the nodes are: all that is used of how head and tail are made.
LEMMA EndFacts ==
  \A l \in Lists : /\ head(l) \in Node /\ tail(l) \in Node
                   /\ head(l) \notin Items /\ tail(l) \notin Items
<1>1. \A l \in Lists : head(l) \in Ends /\ tail(l) \in Ends
  BY DEF Ends
<1> QED
  BY <1>1, ListAssumption DEF Node

LEMMA EndsDiffer ==
  \A l, m \in Lists : /\ head(l) # tail(m)
                      /\ head(l) = head(m) => l = m
                      /\ tail(l) = tail(m) => l = m
BY DEF head, tail

LEMMA NodeFacts ==
  /\ \A x \in Node : x \notin Items => \E l \in Lists : x = head(l) \/ x = tail(l)
  /\ Items \subseteq Node /\ NULL \notin Node /\ NULL \notin Lists
<1>1. \A x \in Ends : \E l \in Lists : x = head(l) \/ x = tail(l)
  BY DEF Ends
<1> QED
  BY <1>1, ListAssumption DEF Node

LEMMA IndexType == MaxIndex \in Nat /\ MaxIndex = Cardinality(Items) + 1
BY ListAssumption, FS_CardinalityType DEF MaxIndex

-------------------------------------------------------------------------------
(***************************************************************************)
(* The shape of a heap is said with two ghosts: own, the list a node is    *)
(* in, and rk, how far it is from that list's head.  They place the nodes  *)
(* when no two of a list have the same rank and the links of each list go  *)
(* up and down by one rank.                                                *)
(***************************************************************************)
Owners == [Node -> Lists \cup {NULL}]
Ranks  == [Node -> Nat]
Link   == [Node -> Node \cup {NULL}]

EndsPlaced(nx, pv, own, rk) ==
  \A l \in Lists : /\ own[head(l)] = l /\ own[tail(l)] = l /\ rk[head(l)] = 0
                   /\ pv[head(l)] = NULL /\ nx[tail(l)] = NULL

Bounded(own, rk) == \A x \in Node : own[x] # NULL => rk[x] <= rk[tail(own[x])]

Distinct(own, rk) ==
  \A x, y \in Node : own[x] # NULL /\ own[x] = own[y] /\ rk[x] = rk[y] => x = y

Forward(nx, own, rk) ==
  \A x \in Node : own[x] # NULL /\ x # tail(own[x]) =>
    nx[x] \in Node /\ own[nx[x]] = own[x] /\ rk[nx[x]] = rk[x] + 1

Backward(pv, own, rk) ==
  \A x \in Node : own[x] # NULL /\ x # head(own[x]) =>
    pv[x] \in Node /\ own[pv[x]] = own[x] /\ rk[pv[x]] = rk[x] - 1

Placed(nx, pv, own, rk) ==
  /\ nx \in Link /\ pv \in Link /\ own \in Owners /\ rk \in Ranks
  /\ EndsPlaced(nx, pv, own, rk)
  /\ Bounded(own, rk) /\ Distinct(own, rk)
  /\ Forward(nx, own, rk) /\ Backward(pv, own, rk)

\* A node of no list has no links.
Loose(nx, pv, own) == \A x \in Node : own[x] = NULL => nx[x] = NULL /\ pv[x] = NULL

\* The rank of a list's tail, one more than it has elements.
Top(l, rk) == rk[tail(l)]

\* The node of list l with rank r.
IsAt(x, l, r, own, rk) == x \in Node /\ own[x] = l /\ rk[x] = r

\* There is a node of every rank up to the tail's.
LEMMA Dense ==
  ASSUME NEW nx, NEW pv, NEW own, NEW rk, Placed(nx, pv, own, rk),
         NEW l \in Lists, NEW r \in 0..Top(l, rk)
  PROVE  \E x \in Node : IsAt(x, l, r, own, rk)
<1> USE EndFacts, EndsDiffer, NodeFacts
<1> DEFINE bad == {k \in 0..Top(l, rk) : \A x \in Node : ~IsAt(x, l, k, own, rk)}
<1>0. Top(l, rk) \in Nat
  BY DEF Placed, Ranks, Top
<1>1. SUFFICES ASSUME bad # {} PROVE FALSE
  OBVIOUS
<1>2. PICK k \in bad : \A j \in bad : k <= j
  <2>1. bad \in SUBSET Nat
    BY <1>0
  <2> HIDE DEF bad
  <2> QED
    BY <1>1, <2>1, HasLeast
<1>3. k # 0
  BY <1>2 DEF Placed, EndsPlaced, IsAt
<1>4. k - 1 \in 0..Top(l, rk) /\ k - 1 \notin bad
  BY <1>0, <1>2, <1>3
<1>5. PICK x \in Node : own[x] = l /\ rk[x] = k - 1
  BY <1>4 DEF IsAt
<1>6. x # tail(own[x])
  BY <1>0, <1>2, <1>5 DEF Top
<1>7. IsAt(nx[x], l, k, own, rk)
  BY <1>0, <1>2, <1>5, <1>6 DEF Placed, Forward, IsAt
<1> QED
  BY <1>2, <1>7 DEF IsAt

\* Head and tail are at the ends, items between them.
LEMMA Between ==
  ASSUME NEW nx, NEW pv, NEW own, NEW rk, Placed(nx, pv, own, rk),
         NEW x \in Node, own[x] # NULL
  PROVE  /\ own[x] \in Lists /\ rk[x] \in 0..Top(own[x], rk) /\ Top(own[x], rk) \in Nat \ {0}
         /\ rk[x] = 0 <=> x = head(own[x])
         /\ rk[x] = Top(own[x], rk) <=> x = tail(own[x])
         /\ x \in Items <=> rk[x] \in 1..(Top(own[x], rk) - 1)
         /\ nx[x] = NULL <=> x = tail(own[x])
         /\ pv[x] = NULL <=> x = head(own[x])
<1> USE EndFacts, EndsDiffer, NodeFacts
<1> DEFINE l == own[x]
<1>1. l \in Lists /\ rk[x] \in Nat /\ Top(l, rk) \in Nat /\ rk[x] <= Top(l, rk)
  BY DEF Placed, Owners, Ranks, Bounded, Top
<1>2. /\ own[head(l)] = l /\ own[tail(l)] = l /\ rk[head(l)] = 0
      /\ pv[head(l)] = NULL /\ nx[tail(l)] = NULL /\ head(l) \in Node /\ tail(l) \in Node
  BY <1>1 DEF Placed, EndsPlaced
<1>3. rk[x] = 0 <=> x = head(l)
  BY <1>1, <1>2 DEF Placed, Distinct
<1>4. rk[x] = Top(l, rk) <=> x = tail(l)
  BY <1>1, <1>2 DEF Placed, Distinct, Top
<1>5. Top(l, rk) # 0
  BY <1>1, <1>2 DEF Placed, Distinct, Top
<1>6. x \notin Items => x = head(l) \/ x = tail(l)
  BY <1>1 DEF Placed, EndsPlaced
<1>7. nx[x] = NULL <=> x = tail(l)
  BY <1>1, <1>2 DEF Placed, Forward
<1>8. pv[x] = NULL <=> x = head(l)
  BY <1>1, <1>2 DEF Placed, Backward
<1> QED
  BY <1>1, <1>3, <1>4, <1>5, <1>6, <1>7, <1>8

\* The neighbours.
LEMMA Neighbours ==
  ASSUME NEW nx, NEW pv, NEW own, NEW rk, Placed(nx, pv, own, rk),
         NEW x \in Node, own[x] # NULL
  PROVE  /\ rk[x] < Top(own[x], rk) => IsAt(nx[x], own[x], rk[x] + 1, own, rk) /\ pv[nx[x]] = x
         /\ rk[x] > 0 => IsAt(pv[x], own[x], rk[x] - 1, own, rk) /\ nx[pv[x]] = x
<1> USE EndFacts, EndsDiffer, NodeFacts
<1>1. /\ own[x] \in Lists /\ rk[x] \in 0..Top(own[x], rk) /\ Top(own[x], rk) \in Nat \ {0}
      /\ rk[x] = 0 <=> x = head(own[x])
      /\ rk[x] = Top(own[x], rk) <=> x = tail(own[x])
  BY Between
<1>2. ASSUME rk[x] < Top(own[x], rk)
      PROVE  IsAt(nx[x], own[x], rk[x] + 1, own, rk) /\ pv[nx[x]] = x
  <2>1. IsAt(nx[x], own[x], rk[x] + 1, own, rk)
    BY <1>1, <1>2 DEF Placed, Forward, IsAt
  <2>2. nx[x] # head(own[x])
    BY <1>1, <2>1 DEF Placed, EndsPlaced, IsAt
  <2>3. IsAt(pv[nx[x]], own[x], rk[x], own, rk)
    BY <1>1, <2>1, <2>2 DEF Placed, Backward, IsAt
  <2> QED
    BY <2>1, <2>3 DEF Placed, Distinct, IsAt
<1>3. ASSUME rk[x] > 0
      PROVE  IsAt(pv[x], own[x], rk[x] - 1, own, rk) /\ nx[pv[x]] = x
  <2>1. IsAt(pv[x], own[x], rk[x] - 1, own, rk)
    BY <1>1, <1>3 DEF Placed, Backward, IsAt
  <2>2. pv[x] # tail(own[x])
    BY <1>1, <2>1 DEF Top, IsAt
  <2>3. IsAt(nx[pv[x]], own[x], rk[x], own, rk)
    BY <1>1, <2>1, <2>2 DEF Placed, Forward, IsAt
  <2> QED
    BY <2>1, <2>3 DEF Placed, Distinct, IsAt
<1> QED
  BY <1>2, <1>3
\* A list is shorter than there are items to go round.
LEMMA Fits ==
  ASSUME NEW nx, NEW pv, NEW own, NEW rk, Placed(nx, pv, own, rk), NEW l \in Lists
  PROVE  Top(l, rk) - 1 \in 0..(MaxIndex - 1)
<1> USE EndFacts, NodeFacts
<1> DEFINE f == [r \in 1..(Top(l, rk) - 1) |-> CHOOSE x \in Node : IsAt(x, l, r, own, rk)]
<1>1. Top(l, rk) \in Nat \ {0}
  <2>1. own[tail(l)] = l
    BY DEF Placed, EndsPlaced
  <2> QED
    BY <2>1, Between
<1>2. ASSUME NEW r \in 1..(Top(l, rk) - 1) PROVE IsAt(f[r], l, r, own, rk) /\ f[r] \in Items
  <2>1. \E x \in Node : IsAt(x, l, r, own, rk)
    BY <1>1, Dense
  <2>2. IsAt(f[r], l, r, own, rk)
    BY <2>1
  <2> HIDE DEF f
  <2> QED
    BY <1>1, <2>2, Between DEF IsAt
<1>3. f \in Injection(1..(Top(l, rk) - 1), Items)
  <2>1. f \in [1..(Top(l, rk) - 1) -> Items]
    BY <1>2
  <2>2. \A r, s \in 1..(Top(l, rk) - 1) : f[r] = f[s] => r = s
    BY <1>2 DEF IsAt
  <2> HIDE DEF f
  <2> QED
    BY <2>1, <2>2 DEF Injection, IsInjective
<1> HIDE DEF f
<1>4. Cardinality(1..(Top(l, rk) - 1)) <= Cardinality(Items)
  BY <1>3, ListAssumption, FS_Injection
<1>5. \A k \in Nat : Cardinality(1..k) = k
  BY FS_Interval
<1>6. Top(l, rk) - 1 \in Nat
  BY <1>1
<1>7. Top(l, rk) - 1 <= Cardinality(Items) /\ Cardinality(Items) \in Nat
  BY <1>4, <1>5, <1>6, ListAssumption, FS_CardinalityType
<1> QED
  BY <1>6, <1>7, IndexType

-------------------------------------------------------------------------------
(* What the walks of the model find in a heap that is placed.              *)

Walk(f, l, i) ==
  f = [k \in 0..i |-> IF k = 0 THEN list_begin(l)
                      ELSE IF next[f[k - 1]] = NULL THEN f[k - 1] ELSE next[f[k - 1]]]

Least(a, b) == IF a <= b THEN a ELSE b

\* The i-th element has rank i + 1, or is the tail.
LEMMA ElementIs ==
  ASSUME NEW own, NEW rk, Placed(next, prev, own, rk), NEW l \in Lists, NEW i \in Nat
  PROVE  IsAt(get_list_elem_via_index(l, i), l, Least(i + 1, Top(l, rk)), own, rk)
<1> USE EndFacts, NodeFacts
<1> DEFINE F == [k \in 0..i |->
                   CHOOSE x \in Node : IsAt(x, l, Least(k + 1, Top(l, rk)), own, rk)]
<1>1. Top(l, rk) \in Nat \ {0}
  BY Fits, IndexType DEF Placed, Ranks, Top
<1>2. \A k \in 0..i : IsAt(F[k], l, Least(k + 1, Top(l, rk)), own, rk)
  <2>1. \A k \in 0..i : \E x \in Node : IsAt(x, l, Least(k + 1, Top(l, rk)), own, rk)
    BY <1>1, Dense DEF Least
  <2> QED
    BY <2>1
<1> HIDE DEF F
<1>3. \A x, y \in Node, r \in Nat : IsAt(x, l, r, own, rk) /\ IsAt(y, l, r, own, rk) => x = y
  BY DEF Placed, Distinct, IsAt
<1>4. IsAt(list_begin(l), l, 1, own, rk)
  <2>1. own[head(l)] = l /\ rk[head(l)] = 0
    BY DEF Placed, EndsPlaced
  <2> QED
    BY <1>1, <2>1, Neighbours DEF list_begin, IsAt
<1>5. ASSUME NEW r \in 1..Top(l, rk), NEW x \in Node, IsAt(x, l, r, own, rk)
      PROVE  IsAt(IF next[x] = NULL THEN x ELSE next[x], l, Least(r + 1, Top(l, rk)), own, rk)
  <2>1. CASE r = Top(l, rk)
    BY <1>1, <1>5, <2>1, Between DEF IsAt, Least
  <2>2. CASE r < Top(l, rk)
    <3>1. IsAt(next[x], l, r + 1, own, rk) /\ next[x] # NULL
      BY <1>1, <1>5, <2>2, Neighbours DEF IsAt
    <3> QED
      BY <1>1, <2>2, <3>1 DEF Least
  <2> QED
    BY <1>1, <2>1, <2>2
<1>6. ASSUME NEW f, f = [k \in 0..i |-> IF k = 0 THEN list_begin(l)
                      ELSE IF next[F[k - 1]] = NULL THEN F[k - 1] ELSE next[F[k - 1]]],
             NEW k \in 0..i
      PROVE  f[k] = F[k]
  <2>1. CASE k = 0
    BY <1>1, <1>2, <1>3, <1>4, <1>6, <2>1 DEF Least, IsAt
  <2>2. CASE k # 0
    <3>1. k - 1 \in 0..i
      BY <2>2
    <3>2. f[k] = IF next[F[k - 1]] = NULL THEN F[k - 1] ELSE next[F[k - 1]]
      BY <1>6, <2>2
    <3>3. /\ F[k - 1] \in Node /\ IsAt(F[k - 1], l, Least(k, Top(l, rk)), own, rk)
          /\ Least(k, Top(l, rk)) \in 1..Top(l, rk)
      BY <1>1, <1>2, <2>2, <3>1 DEF Least, IsAt
    <3>4. IsAt(f[k], l, Least(Least(k, Top(l, rk)) + 1, Top(l, rk)), own, rk)
      BY <1>5, <3>2, <3>3
    <3>5. Least(Least(k, Top(l, rk)) + 1, Top(l, rk)) = Least(k + 1, Top(l, rk))
      BY <1>1, <2>2 DEF Least
    <3>6. Least(k + 1, Top(l, rk)) \in Nat
      BY <1>1 DEF Least
    <3> QED
      BY <1>2, <1>3, <3>4, <3>5, <3>6 DEF IsAt
  <2> QED
    BY <2>1, <2>2
<1>7. Walk(F, l, i)
  <2> DEFINE f == [k \in 0..i |-> IF k = 0 THEN list_begin(l)
                      ELSE IF next[F[k - 1]] = NULL THEN F[k - 1] ELSE next[F[k - 1]]]
  <2>1. \A k \in 0..i : f[k] = F[k]
    <3>1. f = f
      OBVIOUS
    <3> HIDE DEF f
    <3> QED
      BY <1>6, <3>1 DEF f
  <2>2. F = [k \in 0..i |-> F[k]]
    BY DEF F
  <2>3. f = [k \in 0..i |-> f[k]]
    OBVIOUS
  <2>4. f = F
    <3> HIDE DEF f
    <3> QED
      BY <2>1, <2>2, <2>3
  <2> QED
    BY <2>4 DEF Walk
<1>8. PICK f : Walk(f, l, i) /\ get_list_elem_via_index(l, i) = f[i]
  <2>1. Walk(CHOOSE f : Walk(f, l, i), l, i)
    BY <1>7
  <2>2. get_list_elem_via_index(l, i) = (CHOOSE f : Walk(f, l, i))[i]
    BY DEF get_list_elem_via_index, Walk
  <2> QED
    BY <2>1, <2>2
<1> DEFINE bad == {k \in 0..i : ~IsAt(f[k], l, Least(k + 1, Top(l, rk)), own, rk)}
<1>9. SUFFICES ASSUME bad # {} PROVE FALSE
  BY <1>8
<1>10. PICK k \in bad : \A j \in bad : k <= j
  <2>1. bad \in SUBSET Nat
    OBVIOUS
  <2> HIDE DEF bad
  <2> QED
    BY <1>9, <2>1, HasLeast
<1>11. CASE k = 0
  <2>1. f[0] = list_begin(l)
    BY <1>8 DEF Walk
  <2> QED
    BY <1>1, <1>4, <1>10, <1>11, <2>1 DEF Least
<1>12. CASE k # 0
  <2>1. k - 1 \in 0..i /\ k - 1 \notin bad
    BY <1>10, <1>12
  <2>2. f[k] = IF next[f[k - 1]] = NULL THEN f[k - 1] ELSE next[f[k - 1]]
    BY <1>8, <1>10, <1>12 DEF Walk
  <2>3. /\ f[k - 1] \in Node /\ IsAt(f[k - 1], l, Least(k, Top(l, rk)), own, rk)
        /\ Least(k, Top(l, rk)) \in 1..Top(l, rk)
    BY <1>1, <1>10, <1>12, <2>1 DEF Least, IsAt
  <2>4. IsAt(f[k], l, Least(Least(k, Top(l, rk)) + 1, Top(l, rk)), own, rk)
    BY <1>5, <2>2, <2>3
  <2>5. Least(Least(k, Top(l, rk)) + 1, Top(l, rk)) = Least(k + 1, Top(l, rk))
    BY <1>1, <1>10, <1>12 DEF Least
  <2> QED
    BY <1>10, <2>4, <2>5
<1> QED
  BY <1>11, <1>12
Count(f, l) ==
  f = [k \in 0..MaxIndex |->
         IF get_list_elem_via_index(l, k) = tail(l) \/ k = MaxIndex THEN k ELSE f[k + 1]]

\* A list's size is one less than its tail's rank.
LEMMA SizeIs ==
  ASSUME NEW own, NEW rk, Placed(next, prev, own, rk), NEW l \in Lists
  PROVE  list_size(l) = Top(l, rk) - 1 /\ list_size(l) \in 0..(MaxIndex - 1)
<1> USE EndFacts, NodeFacts
<1> DEFINE size == Top(l, rk) - 1
           F == [k \in 0..MaxIndex |-> IF k <= size THEN size ELSE k]
<1>1. size \in 0..(MaxIndex - 1) /\ MaxIndex \in Nat /\ Top(l, rk) = size + 1
  BY Fits, IndexType DEF Placed, Ranks, Top
<1>2. \A k \in 0..MaxIndex : get_list_elem_via_index(l, k) = tail(l) <=> k >= size
  <2>1. ASSUME NEW k \in 0..MaxIndex
        PROVE  get_list_elem_via_index(l, k) = tail(l) <=> k >= size
    <3>1. IsAt(get_list_elem_via_index(l, k), l, Least(k + 1, Top(l, rk)), own, rk)
      BY <1>1, ElementIs
    <3>2. get_list_elem_via_index(l, k) = tail(l) <=> Least(k + 1, Top(l, rk)) = Top(l, rk)
      BY <3>1, Between DEF IsAt
    <3> QED
      BY <1>1, <3>2 DEF Least
  <2> QED
    BY <2>1
<1> HIDE DEF size
<1>3. Count(F, l)
  <2> DEFINE G == [k \in 0..MaxIndex |->
                     IF get_list_elem_via_index(l, k) = tail(l) \/ k = MaxIndex
                       THEN k ELSE F[k + 1]]
  <2>1. ASSUME NEW k \in 0..MaxIndex PROVE F[k] = G[k]
    <3>1. CASE k < size
      <4>1. k + 1 \in 0..MaxIndex /\ k + 1 <= size /\ k # MaxIndex
        BY <1>1, <3>1
      <4>2. F[k] = size /\ F[k + 1] = size
        BY <1>1, <4>1, <3>1
      <4> QED
        BY <1>1, <1>2, <3>1, <4>1, <4>2
    <3>2. CASE k >= size
      <4>1. F[k] = k
        BY <1>1, <3>2
      <4> QED
        BY <1>2, <3>2, <4>1
    <3> QED
      BY <1>1, <3>1, <3>2
  <2>2. F = G
    <3>1. F = [k \in 0..MaxIndex |-> F[k]] /\ G = [k \in 0..MaxIndex |-> G[k]]
      OBVIOUS
    <3> HIDE DEF F, G
    <3> QED
      BY <2>1, <3>1
  <2> HIDE DEF F
  <2> QED
    BY <2>2 DEF Count
<1>4. PICK f : Count(f, l) /\ list_size(l) = f[0]
  <2>1. Count(CHOOSE f : Count(f, l), l)
    BY <1>3
  <2>2. list_size(l) = (CHOOSE f : Count(f, l))[0]
    BY DEF list_size, Count
  <2> QED
    BY <2>1, <2>2
<1> DEFINE bad == {j \in 0..size : f[size - j] # size}
<1>5. bad = {}
  <2> SUFFICES ASSUME bad # {} PROVE FALSE
    OBVIOUS
  <2>1. PICK j \in bad : \A i \in bad : j <= i
    <3>1. bad \in SUBSET Nat
      BY <1>1
    <3> HIDE DEF bad
    <3> QED
      BY <3>1, HasLeast
  <2>2. CASE j = 0
    <3>1. f[size] = size
      BY <1>1, <1>2, <1>4 DEF Count
    <3> QED
      BY <1>1, <2>1, <2>2, <3>1
  <2>3. CASE j # 0
    <3>1. j - 1 \in 0..size /\ j - 1 \notin bad
      BY <1>1, <2>1, <2>3
    <3>2. f[size - j] = f[size - j + 1]
      <4>1. size - j \in 0..MaxIndex /\ size - j # MaxIndex /\ ~(size - j >= size)
        BY <1>1, <2>1, <2>3
      <4> QED
        BY <1>2, <1>4, <4>1 DEF Count
    <3>3. size - (j - 1) = size - j + 1
      BY <1>1, <2>1
    <3> QED
      BY <2>1, <3>1, <3>2, <3>3
  <2> QED
    BY <2>2, <2>3
<1> QED
  <2>1. f[size - size] = size
    BY <1>1, <1>5
  <2>2. size - size = 0
    BY <1>1
  <2> QED
    BY <1>1, <1>4, <2>1, <2>2 DEF size

LEMMA EmptyIs ==
  ASSUME NEW own, NEW rk, Placed(next, prev, own, rk), NEW l \in Lists
  PROVE  /\ IsAt(list_begin(l), l, 1, own, rk)
         /\ list_empty(l) <=> Top(l, rk) = 1
<1> USE EndFacts, NodeFacts
<1>1. Top(l, rk) \in Nat \ {0}
  BY Fits, IndexType DEF Placed, Ranks, Top
<1>2. IsAt(list_begin(l), l, 1, own, rk)
  <2>1. own[head(l)] = l /\ rk[head(l)] = 0
    BY DEF Placed, EndsPlaced
  <2> QED
    BY <1>1, <2>1, Neighbours DEF list_begin, IsAt
<1> QED
  BY <1>1, <1>2, Between DEF list_empty, IsAt

(***************************************************************************)
(* s is what the list holds: the value of the node of rank k is its k-th.  *)
(***************************************************************************)
Holds(s, l, d, own, rk) ==
  /\ s \in Seq(Int) /\ Len(s) = Top(l, rk) - 1
  /\ \A x \in Items : own[x] = l => s[rk[x]] = d[x]

LEMMA ItemRank ==
  ASSUME NEW nx, NEW pv, NEW own, NEW rk, Placed(nx, pv, own, rk), NEW l \in Lists,
         NEW r \in 1..(Top(l, rk) - 1)
  PROVE  \E x \in Items : IsAt(x, l, r, own, rk)
<1>1. Top(l, rk) \in Nat \ {0}
  BY Fits, IndexType, EndFacts DEF Placed, Ranks, Top
<1>2. PICK x \in Node : IsAt(x, l, r, own, rk)
  BY <1>1, Dense
<1> QED
  BY <1>1, <1>2, Between, NodeFacts DEF IsAt

LEMMA HoldsOne ==
  ASSUME NEW nx, NEW pv, NEW own, NEW rk, Placed(nx, pv, own, rk), NEW l \in Lists,
         NEW d, NEW s, NEW t, Holds(s, l, d, own, rk), Holds(t, l, d, own, rk)
  PROVE  s = t
<1>1. ASSUME NEW k \in 1..Len(s) PROVE s[k] = t[k]
  <2>1. PICK x \in Items : IsAt(x, l, k, own, rk)
    BY ItemRank DEF Holds
  <2> QED
    BY <2>1 DEF Holds, IsAt
<1> QED
  BY <1>1 DEF Holds

LEMMA ContentsHold ==
  ASSUME NEW own, NEW rk, Placed(next, prev, own, rk), NEW l \in Lists,
         data \in [Items -> Int]
  PROVE  Holds(Contents(l), l, data, own, rk)
<1> DEFINE c == [k \in 1..list_size(l) |-> data[get_list_elem_via_index(l, k - 1)]]
<1>1. list_size(l) = Top(l, rk) - 1 /\ list_size(l) \in Nat /\ Top(l, rk) \in Nat
  BY SizeIs, IndexType, EndFacts DEF Placed, Ranks, Top
<1>2. ASSUME NEW k \in 1..list_size(l)
      PROVE  /\ IsAt(get_list_elem_via_index(l, k - 1), l, k, own, rk)
             /\ get_list_elem_via_index(l, k - 1) \in Items
  <2>1. IsAt(get_list_elem_via_index(l, k - 1), l, Least(k - 1 + 1, Top(l, rk)), own, rk)
    BY <1>1, ElementIs
  <2>2. Least(k - 1 + 1, Top(l, rk)) = k
    BY <1>1 DEF Least
  <2>3. IsAt(get_list_elem_via_index(l, k - 1), l, k, own, rk)
    BY <2>1, <2>2
  <2> QED
    BY <1>1, <2>3, Between, NodeFacts DEF IsAt
<1>3. c \in Seq(Int) /\ Len(c) = list_size(l)
  <2>1. \A k \in 1..list_size(l) : c[k] \in Int
    BY <1>2
  <2> QED
    BY <1>1, <2>1
<1>4. ASSUME NEW x \in Items, own[x] = l PROVE c[rk[x]] = data[x]
  <2>1. rk[x] \in 1..list_size(l)
    BY <1>1, <1>4, Between, NodeFacts
  <2>2. get_list_elem_via_index(l, rk[x] - 1) = x
    BY <1>2, <1>4, <2>1, NodeFacts DEF Placed, Distinct, IsAt
  <2> QED
    BY <2>1, <2>2
<1> QED
  BY <1>1, <1>3, <1>4 DEF Contents, Holds
-------------------------------------------------------------------------------
(* The parts of Whole.                                                     *)

LEMMA MembersAre ==
  ASSUME NEW own, NEW rk, Placed(next, prev, own, rk), NEW l \in Lists
  PROVE  Members(l) = {x \in Items : own[x] = l}
<1> USE EndFacts, NodeFacts
<1>1. Top(l, rk) - 1 \in 0..(MaxIndex - 1) /\ MaxIndex \in Nat /\ Top(l, rk) \in Nat
  BY Fits, IndexType DEF Placed, Ranks, Top
<1>2. ASSUME NEW k \in 0..MaxIndex,
             get_list_elem_via_index(l, k) # tail(l)
      PROVE  get_list_elem_via_index(l, k) \in {x \in Items : own[x] = l}
  <2>1. IsAt(get_list_elem_via_index(l, k), l, Least(k + 1, Top(l, rk)), own, rk)
    BY <1>1, ElementIs
  <2>2. Least(k + 1, Top(l, rk)) # 0
    BY <1>1, Between DEF Placed, EndsPlaced, Least
  <2> QED
    BY <1>1, <1>2, <2>1, <2>2, Between DEF IsAt
<1>3. ASSUME NEW x \in Items, own[x] = l PROVE x \in Members(l)
  <2>1. rk[x] \in 1..(Top(l, rk) - 1) /\ x # tail(l)
    BY <1>1, <1>3, Between
  <2>2. rk[x] - 1 \in 0..MaxIndex /\ Least(rk[x] - 1 + 1, Top(l, rk)) = rk[x]
    BY <1>1, <2>1 DEF Least
  <2>3. IsAt(get_list_elem_via_index(l, rk[x] - 1), l, rk[x], own, rk)
    BY <1>1, <2>2, ElementIs
  <2>4. get_list_elem_via_index(l, rk[x] - 1) = x
    BY <1>3, <2>3 DEF Placed, Distinct, IsAt
  <2> QED
    BY <2>1, <2>2, <2>4 DEF Members
<1>4. Members(l) \subseteq {x \in Items : own[x] = l}
  BY <1>2 DEF Members
<1> QED
  BY <1>3, <1>4

LEMMA WholeHolds ==
  ASSUME NEW own, NEW rk, Placed(next, prev, own, rk), Loose(next, prev, own)
  PROVE  Whole
<1> USE EndFacts, NodeFacts
<1>1. \A l \in Lists : Members(l) = {x \in Items : own[x] = l}
  BY MembersAre
<1>2. ASSUME NEW l \in Lists
      PROVE  /\ prev[head(l)] = NULL /\ next[tail(l)] = NULL
             /\ list_size(l) < MaxIndex /\ Members(l) \subseteq Items
  <2>1. list_size(l) < MaxIndex
    BY SizeIs, IndexType
  <2> QED
    BY <1>1, <2>1 DEF Placed, EndsPlaced
<1>3. ASSUME NEW x \in Node, next[x] # NULL PROVE prev[next[x]] = x
  <2>1. own[x] # NULL
    BY <1>3 DEF Loose
  <2>2. rk[x] < Top(own[x], rk)
    BY <1>3, <2>1, Between
  <2> QED
    BY <2>1, <2>2, Neighbours
<1>4. \A l, m \in Lists : l # m => Members(l) \cap Members(m) = {}
  BY <1>1
<1>5. UNION {Members(l) : l \in Lists} = Items \ Unused
  <2>1. ASSUME NEW x \in Items PROVE x \in Unused <=> own[x] = NULL
    <3>1. own[x] # NULL => next[x] # NULL
      <4>1. ASSUME own[x] # NULL PROVE next[x] # NULL
        <5>1. rk[x] < Top(own[x], rk)
          BY <4>1, Between
        <5> QED
          BY <4>1, <5>1, Between
      <4> QED
        BY <4>1
    <3> QED
      BY <3>1 DEF Loose, Unused
  <2>2. \A x \in Items : own[x] # NULL => own[x] \in Lists
    BY DEF Placed, Owners
  <2>3. \A x : x \in UNION {Members(l) : l \in Lists} <=> \E l \in Lists : x \in Members(l)
    OBVIOUS
  <2>4. \A x : (\E l \in Lists : x \in Members(l)) <=> x \in Items /\ own[x] # NULL
    BY <1>1, <2>2
  <2> QED
    BY <2>1, <2>3, <2>4
<1> QED
  BY <1>2, <1>3, <1>4, <1>5 DEF Whole

-------------------------------------------------------------------------------
(***************************************************************************)
(* The walks that go from a node to the next.  A set of nodes of a list    *)
(* has a first one and a last one.                                         *)
(***************************************************************************)
LEMMA HasFirst ==
  ASSUME NEW own, NEW rk \in Ranks, NEW l, NEW S \in SUBSET Node, S # {},
         \A x \in S : own[x] = l
  PROVE  \E x \in S : \A y \in S : rk[x] <= rk[y]
<1> DEFINE R == {rk[x] : x \in S}
<1>1. R \in SUBSET Nat /\ R # {}
  BY DEF Ranks
<1>2. PICK r \in R : \A k \in R : r <= k
  <2> HIDE DEF R
  <2> QED
    BY <1>1, HasLeast
<1> QED
  BY <1>2

LEMMA HasLast ==
  ASSUME NEW nx, NEW pv, NEW own, NEW rk, Placed(nx, pv, own, rk), NEW l \in Lists,
         NEW S \in SUBSET Node, S # {}, \A x \in S : own[x] = l
  PROVE  \E x \in S : \A y \in S : rk[y] <= rk[x]
<1> DEFINE R == {Top(l, rk) - rk[x] : x \in S}
<1>0. Top(l, rk) \in Nat /\ \A x \in S : rk[x] \in 0..Top(l, rk)
  BY Fits, IndexType, EndFacts, NodeFacts DEF Placed, Ranks, Bounded, Top
<1>1. R \in SUBSET Nat /\ R # {}
  BY <1>0
<1>2. PICK r \in R : \A k \in R : r <= k
  <2> HIDE DEF R
  <2> QED
    BY <1>1, HasLeast
<1>3. PICK x \in S : r = Top(l, rk) - rk[x]
  BY <1>2
<1>4. \A y \in S : Top(l, rk) - rk[x] <= Top(l, rk) - rk[y]
  BY <1>2, <1>3
<1>5. \A y \in S : rk[y] <= rk[x]
  <2>1. ASSUME NEW y \in S PROVE rk[y] <= rk[x]
    <3>1. rk[y] \in Nat /\ rk[x] \in Nat /\ Top(l, rk) - rk[x] <= Top(l, rk) - rk[y]
      BY <1>0, <1>4
    <3> QED
      BY <1>0, <3>1
  <2> QED
    BY <2>1
<1> QED
  BY <1>5
\* The nodes of list l with ranks from a up to b, exclusive.
Stretch(l, a, b, own, rk) == {w \in Node : own[w] = l /\ a <= rk[w] /\ rk[w] < b}

LEMMA StretchFrom ==
  ASSUME NEW own, NEW rk \in Ranks, Distinct(own, rk), NEW z \in Node, own[z] # NULL,
         NEW b \in Nat, rk[z] < b
  PROVE  Stretch(own[z], rk[z], b, own, rk)
           = {z} \cup Stretch(own[z], rk[z] + 1, b, own, rk)
<1>1. \A w \in Node : rk[w] \in Nat
  BY DEF Ranks
<1>2. ASSUME NEW w \in Node
      PROVE  w \in Stretch(own[z], rk[z], b, own, rk)
               <=> w \in {z} \cup Stretch(own[z], rk[z] + 1, b, own, rk)
  <2>1. own[w] = own[z] /\ rk[w] = rk[z] => w = z
    BY DEF Distinct
  <2> QED
    BY <1>1, <2>1 DEF Stretch
<1>3. /\ Stretch(own[z], rk[z], b, own, rk) \subseteq Node
      /\ {z} \cup Stretch(own[z], rk[z] + 1, b, own, rk) \subseteq Node
  BY DEF Stretch
<1> QED
  BY <1>2, <1>3

SpanWalk(f, y) ==
  f = [z \in Node |-> IF z = y \/ next[z] = NULL THEN {} ELSE {z} \cup f[next[z]]]

LEMMA SpanIs ==
  ASSUME NEW own, NEW rk, Placed(next, prev, own, rk), Loose(next, prev, own),
         NEW x \in Node, NEW y \in Node, own[x] # NULL, own[x] = own[y], rk[x] <= rk[y]
  PROVE  Span(x, y) = Stretch(own[x], rk[x], rk[y], own, rk)
<1> USE EndFacts, NodeFacts
<1> DEFINE lim(z) == IF own[z] = own[y] /\ rk[z] <= rk[y] THEN rk[y] ELSE Top(own[z], rk)
           F == [z \in Node |-> IF own[z] = NULL THEN {}
                                ELSE Stretch(own[z], rk[z], lim(z), own, rk)]
<1>1. /\ rk \in Ranks /\ Distinct(own, rk) /\ \A z \in Node : rk[z] \in Nat
      /\ \A z \in Node : own[z] # NULL => own[z] \in Lists
  BY DEF Placed, Ranks, Owners
<1>2. ASSUME NEW z \in Node, own[z] # NULL
      PROVE  /\ lim(z) \in Nat /\ rk[z] <= lim(z)
             /\ z = y \/ next[z] = NULL => rk[z] = lim(z)
             /\ ~(z = y \/ next[z] = NULL) =>
                  /\ rk[z] < lim(z) /\ next[z] \in Node /\ own[next[z]] = own[z]
                  /\ rk[next[z]] = rk[z] + 1 /\ lim(next[z]) = lim(z)
  <2>1. /\ rk[z] \in 0..Top(own[z], rk) /\ Top(own[z], rk) \in Nat
        /\ rk[z] = Top(own[z], rk) <=> z = tail(own[z])
        /\ next[z] = NULL <=> z = tail(own[z])
    BY <1>2, Between
  <2>2. rk[y] \in 0..Top(own[y], rk)
    BY Between
  <2>3. z = y \/ next[z] = NULL => rk[z] = lim(z)
    BY <2>1, <2>2
  <2>4. ASSUME ~(z = y \/ next[z] = NULL)
        PROVE  /\ rk[z] < lim(z) /\ next[z] \in Node /\ own[next[z]] = own[z]
               /\ rk[next[z]] = rk[z] + 1 /\ lim(next[z]) = lim(z)
    <3>1. next[z] \in Node /\ own[next[z]] = own[z] /\ rk[next[z]] = rk[z] + 1
      BY <1>2, <2>1, <2>4, Neighbours DEF IsAt
    <3>2. own[z] = own[y] => rk[z] # rk[y]
      BY <1>1, <1>2, <2>4 DEF Distinct
    <3>3. rk[z] < Top(own[z], rk)
      BY <2>1, <2>4
    <3> QED
      BY <1>1, <2>2, <3>1, <3>2, <3>3
  <2> QED
    BY <1>1, <2>1, <2>2, <2>3, <2>4
<1>3. \A z \in Node : own[z] = NULL => next[z] = NULL
  BY DEF Loose
<1>4. lim(x) = rk[y] /\ \A z \in Node : own[z] = own[x] /\ rk[z] <= rk[y] => lim(z) = rk[y]
  OBVIOUS
<1> HIDE DEF lim
<1>5. ASSUME NEW z \in Node, own[z] # NULL
      PROVE  F[z] = IF z = y \/ next[z] = NULL THEN {} ELSE {z} \cup F[next[z]]
  <2>1. CASE z = y \/ next[z] = NULL
    <3>1. Stretch(own[z], rk[z], lim(z), own, rk) = {}
      BY <1>1, <1>2, <1>5, <2>1 DEF Stretch
    <3> QED
      BY <1>5, <2>1, <3>1
  <2>2. CASE ~(z = y \/ next[z] = NULL)
    <3>1. F[next[z]] = Stretch(own[z], rk[z] + 1, lim(z), own, rk)
      BY <1>2, <1>5, <2>2
    <3>2. F[z] = Stretch(own[z], rk[z], lim(z), own, rk)
      BY <1>5
    <3> HIDE DEF F
    <3> QED
      BY <1>1, <1>2, <1>5, <2>2, <3>1, <3>2, StretchFrom, SMTT(20)
  <2> QED
    BY <2>1, <2>2
<1>6. SpanWalk(F, y)
  <2> DEFINE G == [z \in Node |-> IF z = y \/ next[z] = NULL THEN {} ELSE {z} \cup F[next[z]]]
  <2>1. \A z \in Node : F[z] = G[z]
    <3>1. ASSUME NEW z \in Node, own[z] = NULL PROVE F[z] = G[z]
      BY <1>3, <3>1
    <3>2. ASSUME NEW z \in Node, own[z] # NULL PROVE F[z] = G[z]
      BY <1>5, <3>2
    <3> QED
      BY <3>1, <3>2
  <2>2. F = [z \in Node |-> F[z]] /\ G = [z \in Node |-> G[z]]
    OBVIOUS
  <2>3. F = G
    <3> HIDE DEF F, G
    <3> QED
      BY <2>1, <2>2
  <2> HIDE DEF F
  <2> QED
    BY <2>3 DEF SpanWalk
<1>7. PICK f : SpanWalk(f, y) /\ Span(x, y) = f[x]
  <2>1. SpanWalk(CHOOSE f : SpanWalk(f, y), y)
    BY <1>6
  <2>2. Span(x, y) = (CHOOSE f : SpanWalk(f, y))[x]
    BY DEF Span, SpanWalk
  <2> QED
    BY <2>1, <2>2
<1> HIDE DEF F
<1> DEFINE bad == {z \in Node : own[z] = own[x] /\ f[z] # F[z]}
<1>8. bad = {}
  <2> SUFFICES ASSUME bad # {} PROVE FALSE
    OBVIOUS
  <2>1. PICK z \in bad : \A w \in bad : rk[w] <= rk[z]
    <3>1. bad \in SUBSET Node /\ \A w \in bad : own[w] = own[x]
      OBVIOUS
    <3>2. PICK m \in Lists : m = own[x]
      BY <1>1
    <3>3. \A w \in bad : own[w] = m
      BY <3>1, <3>2
    <3> HIDE DEF bad
    <3>4. Placed(next, prev, own, rk) /\ bad # {}
      OBVIOUS
    <3>5. \E z \in bad : \A w \in bad : rk[w] <= rk[z]
      BY ONLY <3>1, <3>3, <3>4, HasLast
    <3> QED
      BY <3>5
  <2>2. f[z] = IF z = y \/ next[z] = NULL THEN {} ELSE {z} \cup f[next[z]]
    BY <1>7, <2>1 DEF SpanWalk
  <2>3. F[z] = IF z = y \/ next[z] = NULL THEN {} ELSE {z} \cup F[next[z]]
    BY <1>5, <2>1
  <2>4. ~(z = y \/ next[z] = NULL)
    BY <2>1, <2>2, <2>3
  <2>5. next[z] \in Node /\ own[next[z]] = own[x] /\ rk[next[z]] > rk[z]
    BY <1>1, <1>2, <2>1, <2>4
  <2>6. next[z] \notin bad
    BY <1>1, <2>1, <2>5
  <2> QED
    BY <2>1, <2>2, <2>3, <2>4, <2>5, <2>6
<1> QED
  BY <1>4, <1>7, <1>8 DEF F
\* Where find_end_of_run stops, and that it gets from z to w before it does.
Stops(y) == next[y] = NULL \/ list_less(y, prev[y])

RunsTo(z, w, own, rk) ==
  /\ w \in Node /\ own[w] = own[z] /\ rk[z] <= rk[w] /\ Stops(w)
  /\ \A v \in Node : own[v] = own[z] /\ rk[z] <= rk[v] /\ rk[v] < rk[w] => ~Stops(v)

LEMMA RunStop ==
  ASSUME NEW own, NEW rk \in Ranks, NEW z \in Node, Stops(z)
  PROVE  RunsTo(z, z, own, rk)
<1>1. \A w \in Node : rk[w] \in Nat
  BY DEF Ranks
<1> QED
  BY <1>1 DEF RunsTo

LEMMA RunOn ==
  ASSUME NEW own, NEW rk, Placed(next, prev, own, rk),
         NEW z \in Node, own[z] # NULL, ~Stops(z), NEW w, RunsTo(next[z], w, own, rk)
  PROVE  RunsTo(z, w, own, rk)
<1>1. rk[z] < Top(own[z], rk)
  <2>1. next[z] # NULL
    BY DEF Stops
  <2>2. rk[z] \in 0..Top(own[z], rk) /\ (rk[z] = Top(own[z], rk) <=> next[z] = NULL)
        /\ Top(own[z], rk) \in Nat
    BY Between
  <2> QED
    BY <2>1, <2>2
<1>2. next[z] \in Node /\ own[next[z]] = own[z] /\ rk[next[z]] = rk[z] + 1
  BY <1>1, Neighbours DEF IsAt
<1>3. \A v \in Node : rk[v] \in Nat
  BY DEF Placed, Ranks
<1>4. \A v \in Node : own[v] = own[z] /\ rk[v] = rk[z] => v = z
  BY DEF Placed, Distinct
<1>5. ASSUME NEW v \in Node, own[v] = own[z], rk[z] <= rk[v], rk[v] < rk[w]
      PROVE  ~Stops(v)
  <2>1. CASE rk[v] = rk[z]
    BY <1>4, <1>5, <2>1
  <2>2. CASE rk[v] # rk[z]
    BY <1>2, <1>3, <1>5, <2>2 DEF RunsTo
  <2> QED
    BY <2>1, <2>2
<1> QED
  BY <1>2, <1>3, <1>5 DEF RunsTo

LEMMA RunOne ==
  ASSUME NEW own, NEW rk \in Ranks, Distinct(own, rk), NEW z \in Node, own[z] # NULL,
         NEW w, NEW v, RunsTo(z, w, own, rk), RunsTo(z, v, own, rk)
  PROVE  w = v
<1>1. w \in Node /\ v \in Node /\ rk[w] \in Nat /\ rk[v] \in Nat
  BY DEF RunsTo, Ranks
<1>2. ~(rk[w] < rk[v]) /\ ~(rk[v] < rk[w])
  BY DEF RunsTo
<1>3. rk[w] = rk[v]
  BY <1>1, <1>2
<1> QED
  BY <1>1, <1>3 DEF RunsTo, Distinct

LEMMA RunSome ==
  ASSUME NEW own, NEW rk, Placed(next, prev, own, rk), NEW z \in Node, own[z] # NULL
  PROVE  \E w \in Node : RunsTo(z, w, own, rk)
<1> DEFINE S == {w \in Node : own[w] = own[z] /\ rk[z] <= rk[w] /\ Stops(w)}
<1>1. tail(own[z]) \in S
  BY EndFacts DEF Placed, Owners, EndsPlaced, Bounded, Stops
<1>2. rk \in Ranks
  BY DEF Placed
<1>3. PICK w \in S : \A y \in S : rk[w] <= rk[y]
  <2>1. S \in SUBSET Node /\ S # {}
    BY <1>1
  <2>2. PICK l \in Lists : l = own[z]
    BY DEF Placed, Owners
  <2>3. \A y \in S : own[y] = l
    BY <2>2
  <2> HIDE DEF S
  <2> QED
    BY ONLY <1>2, <2>1, <2>3, HasFirst
<1>4. \A v \in Node : rk[v] \in Nat
  BY <1>2 DEF Ranks
<1> QED
  BY <1>3, <1>4 DEF RunsTo

RunWalk(f) ==
  f = [y \in Node |-> IF next[y] = NULL \/ list_less(y, prev[y]) THEN y ELSE f[next[y]]]

LEMMA RunWalkExists ==
  ASSUME NEW own, NEW rk, Placed(next, prev, own, rk), Loose(next, prev, own)
  PROVE  \E f : RunWalk(f)
<1> DEFINE F == [y \in Node |-> IF own[y] = NULL THEN y
                                ELSE CHOOSE w \in Node : RunsTo(y, w, own, rk)]
           G == [y \in Node |-> IF next[y] = NULL \/ list_less(y, prev[y]) THEN y
                                ELSE F[next[y]]]
<1>1. rk \in Ranks /\ Distinct(own, rk) /\ \A z \in Node : own[z] = NULL => next[z] = NULL
  BY DEF Placed, Loose
<1>2. ASSUME NEW z \in Node, own[z] # NULL PROVE RunsTo(z, F[z], own, rk)
  <2>1. \E w \in Node : RunsTo(z, w, own, rk)
    BY <1>2, RunSome
  <2> QED
    BY <1>2, <2>1
<1>3. \A z \in Node : own[z] = NULL => F[z] = z
  OBVIOUS
<1>4. F = [z \in Node |-> F[z]] /\ G = [z \in Node |-> G[z]]
  OBVIOUS
<1>5. \A z \in Node : G[z] = IF Stops(z) THEN z ELSE F[next[z]]
  BY DEF Stops
<1> HIDE DEF F, G
<1>6. ASSUME NEW z \in Node PROVE F[z] = G[z]
  <2>1. CASE own[z] = NULL
    BY <1>1, <1>3, <1>5, <2>1 DEF Stops
  <2>2. CASE own[z] # NULL /\ Stops(z)
    <3>1. RunsTo(z, z, own, rk)
      BY <1>1, <2>2, RunStop
    <3>2. F[z] = z
      BY <1>1, <1>2, <2>2, <3>1, RunOne
    <3> QED
      BY <1>5, <2>2, <3>2
  <2>3. CASE own[z] # NULL /\ ~Stops(z)
    <3>1. next[z] \in Node /\ own[next[z]] # NULL
      BY <2>3, EndFacts DEF Placed, Forward, EndsPlaced, Owners, Stops
    <3>2. RunsTo(z, F[next[z]], own, rk)
      BY <1>2, <2>3, <3>1, RunOn
    <3>3. F[z] = F[next[z]]
      BY <1>1, <1>2, <2>3, <3>2, RunOne
    <3> QED
      BY <1>5, <2>3, <3>3
  <2> QED
    BY <2>1, <2>2, <2>3
<1>7. F = G
  BY <1>4, <1>6
<1> QED
  BY <1>7 DEF RunWalk, G

\* find_end_of_run of an element of a list.
LEMMA RunEnd ==
  ASSUME NEW own, NEW rk, Placed(next, prev, own, rk), Loose(next, prev, own),
         NEW x \in Node, own[x] # NULL, x # tail(own[x])
  PROVE  RunsTo(next[x], find_end_of_run(x), own, rk)
<1>1. PICK f : RunWalk(f) /\ find_end_of_run(x) = f[next[x]]
  <2>1. RunWalk(CHOOSE f : RunWalk(f))
    BY RunWalkExists
  <2>2. find_end_of_run(x) = (CHOOSE f : RunWalk(f))[next[x]]
    BY DEF find_end_of_run, RunWalk
  <2> QED
    BY <2>1, <2>2
<1>2. next[x] \in Node /\ own[next[x]] = own[x] /\ own[x] \in Lists
  BY NodeFacts DEF Placed, Forward, Owners
<1>3. rk \in Ranks /\ \A y \in Node : rk[y] \in Nat
  BY DEF Placed, Ranks
<1> DEFINE bad == {z \in Node : own[z] = own[x] /\ ~RunsTo(z, f[z], own, rk)}
<1>4. SUFFICES ASSUME bad # {} PROVE FALSE
  BY <1>1, <1>2
<1>5. PICK z \in bad : \A w \in bad : rk[w] <= rk[z]
  <2>1. bad \in SUBSET Node /\ \A w \in bad : own[w] = own[x]
    OBVIOUS
  <2>2. Placed(next, prev, own, rk)
    OBVIOUS
  <2> HIDE DEF bad
  <2> QED
    BY ONLY <1>2, <1>4, <2>1, <2>2, HasLast
<1>6. f[z] = IF Stops(z) THEN z ELSE f[next[z]]
  BY <1>1, <1>5 DEF RunWalk, Stops
<1>7. CASE Stops(z)
  BY <1>3, <1>5, <1>6, <1>7, RunStop
<1>8. CASE ~Stops(z)
  <2>1. next[z] # NULL /\ own[z] # NULL
    BY <1>5, <1>8 DEF Stops
  <2>2. rk[z] < Top(own[z], rk)
    BY <1>5, <2>1, Between
  <2>3. next[z] \in Node /\ own[next[z]] = own[x] /\ rk[next[z]] = rk[z] + 1
    BY <1>5, <2>1, <2>2, Neighbours DEF IsAt
  <2>4. next[z] \notin bad
    BY <1>3, <1>5, <2>3
  <2>5. RunsTo(next[z], f[next[z]], own, rk)
    BY <2>3, <2>4
  <2> QED
    BY <1>5, <1>6, <1>8, <2>1, <2>5, RunOn
<1> QED
  BY <1>7, <1>8

(***************************************************************************)
(* The elements from rank a up to b, exclusive, are sorted.                *)
(***************************************************************************)
InOrder(l, a, b, d, own, rk) ==
  \A x, y \in Items :
    own[x] = l /\ own[y] = l /\ a <= rk[x] /\ rk[x] <= rk[y] /\ rk[y] < b => d[x] <= d[y]

\* They are when no element is less than the one before it.
LEMMA NeighboursInOrder ==
  ASSUME NEW own, NEW rk, Placed(next, prev, own, rk), data \in [Items -> Int],
         NEW l \in Lists, NEW a \in Nat \ {0}, NEW b \in Nat,
         \A y \in Items : own[y] = l /\ a < rk[y] /\ rk[y] < b => ~list_less(y, prev[y])
  PROVE  InOrder(l, a, b, data, own, rk)
<1>1. /\ rk \in Ranks /\ (\A y \in Node : rk[y] \in Nat) /\ Distinct(own, rk)
      /\ Items \subseteq Node
  BY NodeFacts DEF Placed, Ranks
<1> SUFFICES ASSUME NEW x \in Items, own[x] = l, a <= rk[x]
             PROVE  \A y \in Items : own[y] = l /\ rk[x] <= rk[y] /\ rk[y] < b
                                         => data[x] <= data[y]
  BY DEF InOrder
<1> DEFINE bad == {y \in Items : /\ own[y] = l /\ rk[x] <= rk[y] /\ rk[y] < b
                                 /\ ~(data[x] <= data[y])}
<1>2. SUFFICES ASSUME bad # {} PROVE FALSE
  OBVIOUS
<1>3. PICK y \in bad : \A w \in bad : rk[y] <= rk[w]
  <2>1. bad \in SUBSET Node /\ \A w \in bad : own[w] = l
    BY <1>1
  <2> HIDE DEF bad
  <2> QED
    BY ONLY <1>1, <1>2, <2>1, HasFirst
<1>4. rk[x] < rk[y]
  BY <1>1, <1>3, NodeFacts DEF Distinct
<1>5. /\ prev[y] \in Node /\ own[prev[y]] = l /\ rk[prev[y]] = rk[y] - 1
      /\ rk[y] <= Top(l, rk) - 1
  <2>1. rk[y] \in 1..(Top(l, rk) - 1)
    BY <1>1, <1>3, Between, NodeFacts
  <2> QED
    BY <1>1, <1>3, <2>1, Neighbours, NodeFacts DEF IsAt
<1>6. prev[y] \in Items
  <2>1. rk[prev[y]] \in 1..(Top(l, rk) - 1)
    <3>1. Top(l, rk) \in Nat
      BY EndFacts DEF Placed, Ranks, Top
    <3> QED
      BY <1>1, <1>3, <1>4, <1>5, <3>1
  <2> QED
    BY <1>5, <2>1, Between, NodeFacts
<1>7. prev[y] \notin bad
  BY <1>1, <1>3, <1>5
<1>8. data[x] <= data[prev[y]]
  BY <1>1, <1>3, <1>4, <1>5, <1>6, <1>7
<1>9. ~list_less(y, prev[y])
  BY <1>1, <1>3, <1>4
<1> QED
  BY <1>3, <1>6, <1>8, <1>9 DEF list_less
-------------------------------------------------------------------------------
(***************************************************************************)
(* Taking nodes out of a list and putting them into one.  What is out is a *)
(* segment: the nodes S, from f to z, of no list, with their own ranks sr. *)
(***************************************************************************)
Segment(nx, pv, own, S, sr, f, z) ==
  /\ S \in SUBSET Items /\ f \in S /\ z \in S /\ sr \in Ranks
  /\ \A y \in S : own[y] = NULL
  /\ sr[f] = 0 /\ \A y \in S : sr[y] <= sr[z]
  /\ \A x, y \in S : sr[x] = sr[y] => x = y
  /\ \A y \in S : y # z => nx[y] \in S /\ sr[nx[y]] = sr[y] + 1
  /\ \A y \in S : y # f => pv[y] \in S /\ sr[pv[y]] = sr[y] - 1

\* The nodes from f to z of a list.
Part(own, rk, f, z) == {y \in Node : own[y] = own[f] /\ rk[f] <= rk[y] /\ rk[y] <= rk[z]}

OwnCut(own, rk, f, z) ==
  [y \in Node |-> IF y \in Part(own, rk, f, z) THEN NULL ELSE own[y]]
RankCut(own, rk, f, z) ==
  [y \in Node |-> IF own[y] = own[f] /\ rk[y] > rk[z] THEN rk[y] - (rk[z] - rk[f] + 1)
                  ELSE rk[y]]
RankPart(own, rk, f, z) ==
  [y \in Node |-> IF y \in Part(own, rk, f, z) THEN rk[y] - rk[f] ELSE 0]

LEMMA PartItems ==
  ASSUME NEW nx, NEW pv, NEW own, NEW rk, Placed(nx, pv, own, rk),
         NEW f \in Items, NEW z \in Items, own[f] # NULL, own[z] = own[f], rk[f] <= rk[z]
  PROVE  /\ Part(own, rk, f, z) \subseteq Items
         /\ rk[z] < Top(own[f], rk) /\ rk[f] > 0 /\ own[f] \in Lists
         /\ \A y \in Node : rk[y] \in Nat
<1>1. /\ rk[f] \in 1..(Top(own[f], rk) - 1) /\ rk[z] \in 1..(Top(own[f], rk) - 1)
      /\ Top(own[f], rk) \in Nat /\ own[f] \in Lists
  BY Between, NodeFacts
<1>2. \A y \in Node : rk[y] \in Nat
  BY DEF Placed, Ranks
<1>3. ASSUME NEW y \in Node, own[y] = own[f], rk[f] <= rk[y], rk[y] <= rk[z]
      PROVE  y \in Items
  <2>1. rk[y] \in 1..(Top(own[y], rk) - 1)
    BY <1>1, <1>2, <1>3
  <2> QED
    BY <1>1, <1>3, <2>1, Between
<1> QED
  BY <1>1, <1>2, <1>3 DEF Part

LEMMA CutSegment ==
  ASSUME NEW nx, NEW pv, NEW own, NEW rk, Placed(nx, pv, own, rk),
         NEW f \in Items, NEW z \in Items, own[f] # NULL, own[z] = own[f], rk[f] <= rk[z]
  PROVE  Segment([nx EXCEPT ![pv[f]] = nx[z]], [pv EXCEPT ![nx[z]] = pv[f]],
                 OwnCut(own, rk, f, z), Part(own, rk, f, z), RankPart(own, rk, f, z), f, z)
<1> DEFINE S == Part(own, rk, f, z)
           sr == RankPart(own, rk, f, z)
           l == own[f]
<1>1. /\ S \subseteq Items /\ rk[z] < Top(l, rk) /\ rk[f] > 0 /\ l \in Lists
      /\ \A y \in Node : rk[y] \in Nat
  BY PartItems
<1>2. Items \subseteq Node /\ NULL \notin Lists /\ nx \in Link /\ pv \in Link
  BY NodeFacts DEF Placed
<1>3. f \in S /\ z \in S
  BY <1>1, <1>2 DEF Part
<1>4. \A y \in S : sr[y] = rk[y] - rk[f] /\ rk[f] <= rk[y] /\ rk[y] <= rk[z] /\ own[y] = l
  BY <1>1, <1>2 DEF Part, RankPart
<1>5. sr \in Ranks
  <2>1. \A y \in Node : (y \in S => rk[y] - rk[f] \in Nat)
    BY <1>1, <1>2 DEF Part
  <2> QED
    BY <2>1 DEF RankPart, Ranks
<1>6. \A y \in S : OwnCut(own, rk, f, z)[y] = NULL
  BY <1>1, <1>2 DEF OwnCut
<1>7. pv[f] \in Node /\ own[pv[f]] = l /\ rk[pv[f]] = rk[f] - 1
  BY <1>1, <1>2, Neighbours DEF IsAt
<1>8. nx[z] \in Node /\ own[nx[z]] = l /\ rk[nx[z]] = rk[z] + 1
  BY <1>1, <1>2, Neighbours DEF IsAt
<1>9. pv[f] \notin S /\ nx[z] \notin S
  BY <1>1, <1>2, <1>4, <1>7, <1>8
<1>10. sr[f] = 0 /\ \A y \in S : sr[y] <= sr[z]
  BY <1>1, <1>2, <1>3, <1>4
<1>11. \A x, y \in S : sr[x] = sr[y] => x = y
  <2>1. \A x, y \in S : rk[x] = rk[y] => x = y
    BY <1>1, <1>2, <1>4 DEF Placed, Distinct
  <2>2. \A x, y \in S : sr[x] = sr[y] => rk[x] = rk[y]
    BY <1>1, <1>2, <1>3, <1>4
  <2> QED
    BY <2>1, <2>2
<1>12. ASSUME NEW y \in S, y # z PROVE nx[y] \in S /\ sr[nx[y]] = sr[y] + 1
  <2>1. rk[y] < rk[z]
    BY <1>1, <1>2, <1>3, <1>4, <1>12 DEF Placed, Distinct
  <2>2. nx[y] \in Node /\ own[nx[y]] = l /\ rk[nx[y]] = rk[y] + 1
    <3>1. y \in Node /\ own[y] = l /\ own[y] # NULL
      BY <1>1, <1>2, <1>4
    <3>2. rk[y] < Top(own[y], rk)
      <4>1. Top(l, rk) \in Nat /\ rk[y] \in Nat /\ rk[z] \in Nat
        BY <1>1, <1>2, EndFacts DEF Placed, Ranks, Top
      <4> QED
        BY <1>1, <2>1, <3>1, <4>1
    <3> QED
      BY <3>1, <3>2, Neighbours DEF IsAt
  <2>3. nx[y] \in S
    BY <1>1, <1>2, <1>4, <2>1, <2>2 DEF Part
  <2> QED
    BY <1>1, <1>2, <1>4, <2>2, <2>3
<1>13. ASSUME NEW y \in S, y # f PROVE pv[y] \in S /\ sr[pv[y]] = sr[y] - 1
  <2>1. rk[f] < rk[y]
    BY <1>1, <1>2, <1>3, <1>4, <1>13 DEF Placed, Distinct
  <2>2. pv[y] \in Node /\ own[pv[y]] = l /\ rk[pv[y]] = rk[y] - 1
    BY <1>1, <1>2, <1>4, <2>1, Neighbours DEF IsAt
  <2>3. pv[y] \in S
    BY <1>1, <1>2, <1>4, <2>1, <2>2 DEF Part
  <2> QED
    BY <1>1, <1>2, <1>4, <2>2, <2>3
<1>14. ASSUME NEW y \in S
       PROVE  /\ [nx EXCEPT ![pv[f]] = nx[z]][y] = nx[y]
              /\ [pv EXCEPT ![nx[z]] = pv[f]][y] = pv[y]
  BY <1>1, <1>2, <1>9 DEF Link
<1> HIDE DEF S, sr, l
<1>15. Segment([nx EXCEPT ![pv[f]] = nx[z]], [pv EXCEPT ![nx[z]] = pv[f]],
               OwnCut(own, rk, f, z), S, sr, f, z)
  BY <1>1, <1>3, <1>5, <1>6, <1>10, <1>11, <1>12, <1>13, <1>14 DEF Segment
<1> QED
  BY <1>15 DEF S, sr

LEMMA CutPlaced ==
  ASSUME NEW nx, NEW pv, NEW own, NEW rk, Placed(nx, pv, own, rk),
         NEW f \in Items, NEW z \in Items, own[f] # NULL, own[z] = own[f], rk[f] <= rk[z]
  PROVE  Placed([nx EXCEPT ![pv[f]] = nx[z]], [pv EXCEPT ![nx[z]] = pv[f]],
                OwnCut(own, rk, f, z), RankCut(own, rk, f, z))
<1> DEFINE S == Part(own, rk, f, z)
           l == own[f]
           o == OwnCut(own, rk, f, z)
           r == RankCut(own, rk, f, z)
           nx1 == [nx EXCEPT ![pv[f]] = nx[z]]
           pv1 == [pv EXCEPT ![nx[z]] = pv[f]]
<1>1. /\ S \subseteq Items /\ rk[z] < Top(l, rk) /\ rk[f] > 0 /\ l \in Lists
      /\ \A y \in Node : rk[y] \in Nat
  BY PartItems
<1>2. Items \subseteq Node /\ NULL \notin Lists /\ NULL \notin Node
      /\ nx \in Link /\ pv \in Link /\ own \in Owners
  BY NodeFacts DEF Placed
<1>3. pv[f] \in Node /\ own[pv[f]] = l /\ rk[pv[f]] = rk[f] - 1
  BY <1>1, <1>2, Neighbours DEF IsAt
<1>4. nx[z] \in Node /\ own[nx[z]] = l /\ rk[nx[z]] = rk[z] + 1
  BY <1>1, <1>2, Neighbours DEF IsAt
<1>5. \A y \in Node : o[y] = IF y \in S THEN NULL ELSE own[y]
  BY DEF OwnCut
<1>6. \A y \in Node : r[y] = IF own[y] = l /\ rk[y] > rk[z] THEN rk[y] - (rk[z] - rk[f] + 1)
                             ELSE rk[y]
  BY DEF RankCut
<1>7. \A y \in Node : y \in S <=> own[y] = l /\ rk[f] <= rk[y] /\ rk[y] <= rk[z]
  BY DEF Part
<1>8. \A y \in Node : /\ nx1[y] = IF y = pv[f] THEN nx[z] ELSE nx[y]
                      /\ pv1[y] = IF y = nx[z] THEN pv[f] ELSE pv[y]
  BY <1>2 DEF Link
<1>9. rk[f] \in Nat /\ rk[z] \in Nat /\ rk[f] <= rk[z] /\ rk[f] > 0
  BY <1>1, <1>2
<1>10. o \in Owners /\ r \in Ranks /\ nx1 \in Link /\ pv1 \in Link
  <2>1. o \in Owners
    BY <1>2 DEF Owners, OwnCut
  <2>2. r \in Ranks
    <3>1. \A y \in Node : rk[y] > rk[z] => rk[y] - (rk[z] - rk[f] + 1) \in Nat
      BY <1>1, <1>9
    <3> QED
      BY <1>1, <3>1 DEF RankCut, Ranks
  <2>3. nx1 \in Link /\ pv1 \in Link
    BY <1>2, <1>3, <1>4 DEF Link
  <2> QED
    BY <2>1, <2>2, <2>3
<1> HIDE DEF S, l, o, r, nx1, pv1
<1>11. \A m \in Lists : /\ head(m) \in Node /\ tail(m) \in Node
                        /\ head(m) \notin S /\ tail(m) \notin S
                        /\ own[head(m)] = m /\ own[tail(m)] = m /\ rk[head(m)] = 0
  BY <1>1, EndFacts DEF Placed, EndsPlaced
<1>12. EndsPlaced(nx1, pv1, o, r)
  <2> SUFFICES ASSUME NEW m \in Lists
               PROVE  /\ o[head(m)] = m /\ o[tail(m)] = m /\ r[head(m)] = 0
                      /\ pv1[head(m)] = NULL /\ nx1[tail(m)] = NULL
    BY DEF EndsPlaced
  <2>1. o[head(m)] = m /\ o[tail(m)] = m /\ r[head(m)] = 0
    BY <1>5, <1>6, <1>9, <1>11
  <2>2. head(m) # nx[z]
    BY <1>4, <1>9, <1>11
  <2>3. tail(m) # pv[f]
    BY <1>1, <1>3, <1>9, <1>11 DEF Top
  <2> QED
    BY <1>8, <1>11, <2>1, <2>2, <2>3 DEF Placed, EndsPlaced
<1>13. Bounded(o, r)
  <2> SUFFICES ASSUME NEW x \in Node, o[x] # NULL PROVE r[x] <= r[tail(o[x])]
    BY DEF Bounded
  <2>1. x \notin S /\ o[x] = own[x] /\ own[x] \in Lists /\ rk[x] <= rk[tail(own[x])]
    BY <1>2, <1>5 DEF Placed, Bounded, Owners
  <2>2. own[tail(own[x])] = own[x] /\ tail(own[x]) \in Node
    BY <1>11, <2>1
  <2>3. own[x] = l => rk[tail(own[x])] > rk[z]
    BY <1>1 DEF Top
  <2> QED
    BY <1>1, <1>6, <1>7, <1>9, <2>1, <2>2, <2>3
<1>14. Distinct(o, r)
  <2> SUFFICES ASSUME NEW x \in Node, NEW y \in Node, o[x] # NULL, o[x] = o[y], r[x] = r[y]
               PROVE  x = y
    BY DEF Distinct
  <2>1. x \notin S /\ y \notin S /\ own[x] = own[y] /\ own[x] # NULL
    BY <1>5
  <2>2. rk[x] = rk[y]
    BY <1>1, <1>6, <1>7, <1>9, <2>1
  <2> QED
    BY <2>1, <2>2 DEF Placed, Distinct
<1>15. Forward(nx1, o, r)
  <2> SUFFICES ASSUME NEW x \in Node, o[x] # NULL, x # tail(o[x])
               PROVE  nx1[x] \in Node /\ o[nx1[x]] = o[x] /\ r[nx1[x]] = r[x] + 1
    BY DEF Forward
  <2>1. x \notin S /\ o[x] = own[x] /\ own[x] # NULL
    BY <1>5
  <2>2. nx[x] \in Node /\ own[nx[x]] = own[x] /\ rk[nx[x]] = rk[x] + 1
    BY <2>1 DEF Placed, Forward
  <2>3. CASE x = pv[f]
    BY <1>1, <1>3, <1>4, <1>5, <1>6, <1>7, <1>8, <1>9, <2>1, <2>3
  <2>4. CASE x # pv[f]
    <3>1. own[x] = l => rk[x] # rk[f] - 1
      BY <1>3, <2>1, <2>4 DEF Placed, Distinct
    <3>2. nx[x] \notin S
      BY <1>1, <1>7, <1>9, <2>1, <2>2, <3>1
    <3>3. r[nx[x]] = r[x] + 1
      BY <1>1, <1>6, <1>7, <1>9, <2>1, <2>2, <3>1
    <3> QED
      BY <1>5, <1>8, <2>1, <2>2, <2>4, <3>2, <3>3
  <2> QED
    BY <2>3, <2>4
<1>16. Backward(pv1, o, r)
  <2> SUFFICES ASSUME NEW x \in Node, o[x] # NULL, x # head(o[x])
               PROVE  pv1[x] \in Node /\ o[pv1[x]] = o[x] /\ r[pv1[x]] = r[x] - 1
    BY DEF Backward
  <2>1. x \notin S /\ o[x] = own[x] /\ own[x] # NULL
    BY <1>5
  <2>2. pv[x] \in Node /\ own[pv[x]] = own[x] /\ rk[pv[x]] = rk[x] - 1
    BY <2>1 DEF Placed, Backward
  <2>3. CASE x = nx[z]
    BY <1>1, <1>3, <1>4, <1>5, <1>6, <1>7, <1>8, <1>9, <2>1, <2>3
  <2>4. CASE x # nx[z]
    <3>1. own[x] = l => rk[x] # rk[z] + 1
      BY <1>4, <2>1, <2>4 DEF Placed, Distinct
    <3>2. pv[x] \notin S
      BY <1>1, <1>7, <1>9, <2>1, <2>2, <3>1
    <3>3. r[pv[x]] = r[x] - 1
      BY <1>1, <1>6, <1>7, <1>9, <2>1, <2>2, <3>1
    <3> QED
      BY <1>5, <1>8, <2>1, <2>2, <2>4, <3>2, <3>3
  <2> QED
    BY <2>3, <2>4
<1>17. Placed(nx1, pv1, o, r)
  BY <1>10, <1>12, <1>13, <1>14, <1>15, <1>16 DEF Placed
<1> QED
  BY <1>17 DEF nx1, pv1, o, r
OwnPaste(own, S, b) == [y \in Node |-> IF y \in S THEN own[b] ELSE own[y]]
RankPaste(own, rk, S, sr, z, b) ==
  [y \in Node |-> IF y \in S THEN rk[b] + sr[y]
                  ELSE IF own[y] = own[b] /\ rk[y] >= rk[b] THEN rk[y] + sr[z] + 1
                  ELSE rk[y]]

LEMMA PastePlaced ==
  ASSUME NEW nx, NEW pv, NEW own, NEW rk, Placed(nx, pv, own, rk),
         NEW S, NEW sr, NEW f, NEW z, Segment(nx, pv, own, S, sr, f, z),
         NEW b \in Node, own[b] # NULL, rk[b] > 0
  PROVE  Placed([nx EXCEPT ![z] = b, ![pv[b]] = f], [pv EXCEPT ![f] = pv[b], ![b] = z],
                OwnPaste(own, S, b), RankPaste(own, rk, S, sr, z, b))
<1> DEFINE l == own[b]
           o == OwnPaste(own, S, b)
           r == RankPaste(own, rk, S, sr, z, b)
           p == pv[b]
           nx1 == [nx EXCEPT ![z] = b, ![p] = f]
           pv1 == [pv EXCEPT ![f] = p, ![b] = z]
<1>1. /\ S \subseteq Items /\ f \in S /\ z \in S /\ \A y \in Node : sr[y] \in Nat
      /\ \A y \in S : own[y] = NULL
  BY DEF Segment, Ranks
<1>2. Items \subseteq Node /\ NULL \notin Lists /\ NULL \notin Node
      /\ nx \in Link /\ pv \in Link /\ own \in Owners /\ \A y \in Node : rk[y] \in Nat
  BY NodeFacts DEF Placed, Ranks
<1>3. /\ p \in Node /\ own[p] = l /\ rk[p] = rk[b] - 1 /\ l \in Lists
  BY <1>2, Neighbours DEF IsAt, Owners
<1>4. b \notin S /\ p \notin S /\ S \subseteq Node
  BY <1>1, <1>2, <1>3
<1>5. \A y \in Node : o[y] = IF y \in S THEN l ELSE own[y]
  BY DEF OwnPaste
<1>6. \A y \in Node : r[y] = IF y \in S THEN rk[b] + sr[y]
                             ELSE IF own[y] = l /\ rk[y] >= rk[b] THEN rk[y] + sr[z] + 1
                             ELSE rk[y]
  BY DEF RankPaste
<1>7. \A y \in Node : /\ nx1[y] = IF y = p THEN f ELSE IF y = z THEN b ELSE nx[y]
                      /\ pv1[y] = IF y = b THEN z ELSE IF y = f THEN p ELSE pv[y]
  BY <1>1, <1>2, <1>3, <1>4 DEF Link
<1>8. /\ sr[f] = 0 /\ \A y \in S : sr[y] <= sr[z] /\ sr[y] \in Nat
      /\ \A x, y \in S : sr[x] = sr[y] => x = y
      /\ \A y \in S : y # z => nx[y] \in S /\ sr[nx[y]] = sr[y] + 1
      /\ \A y \in S : y # f => pv[y] \in S /\ sr[pv[y]] = sr[y] - 1
  BY <1>1, <1>4 DEF Segment
<1>9. rk[b] \in Nat /\ rk[b] > 0 /\ sr[z] \in Nat
  BY <1>1, <1>2
<1>10. o \in Owners /\ r \in Ranks /\ nx1 \in Link /\ pv1 \in Link
  <2>1. o \in Owners
    BY <1>2, <1>3 DEF Owners, OwnPaste
  <2>2. r \in Ranks
    BY <1>1, <1>2, <1>9 DEF RankPaste, Ranks
  <2>3. nx1 \in Link /\ pv1 \in Link
    BY <1>1, <1>2, <1>3 DEF Link
  <2> QED
    BY <2>1, <2>2, <2>3
<1> HIDE DEF l, o, r, p, nx1, pv1
<1>11. \A m \in Lists : /\ head(m) \in Node /\ tail(m) \in Node
                        /\ head(m) \notin S /\ tail(m) \notin S
                        /\ own[head(m)] = m /\ own[tail(m)] = m /\ rk[head(m)] = 0
  BY <1>1, EndFacts DEF Placed, EndsPlaced
<1>12. EndsPlaced(nx1, pv1, o, r)
  <2> SUFFICES ASSUME NEW m \in Lists
               PROVE  /\ o[head(m)] = m /\ o[tail(m)] = m /\ r[head(m)] = 0
                      /\ pv1[head(m)] = NULL /\ nx1[tail(m)] = NULL
    BY DEF EndsPlaced
  <2>1. o[head(m)] = m /\ o[tail(m)] = m /\ r[head(m)] = 0
    BY <1>5, <1>6, <1>9, <1>11
  <2>2. head(m) # b /\ head(m) # f /\ tail(m) # z
    BY <1>1, <1>9, <1>11
  <2>3. tail(m) # p
    <3>1. rk[b] <= rk[tail(own[b])]
      BY DEF Placed, Bounded
    <3> QED
      BY <1>2, <1>3, <1>9, <1>11, <3>1 DEF l
  <2> QED
    BY <1>7, <1>11, <2>1, <2>2, <2>3 DEF Placed, EndsPlaced
<1>13. Bounded(o, r)
  <2> SUFFICES ASSUME NEW x \in Node, o[x] # NULL PROVE r[x] <= r[tail(o[x])]
    BY DEF Bounded
  <2>1. rk[b] <= rk[tail(l)] /\ l \in Lists
    BY <1>3 DEF l, Placed, Bounded
  <2>2. r[tail(l)] = rk[tail(l)] + sr[z] + 1 /\ rk[tail(l)] \in Nat
    BY <1>2, <1>6, <1>11, <2>1
  <2>3. CASE x \in S
    <3>1. r[x] = rk[b] + sr[x] /\ o[x] = l /\ sr[x] \in Nat /\ sr[x] <= sr[z]
      BY <1>5, <1>6, <1>8, <2>3
    <3> QED
      BY <1>9, <2>1, <2>2, <3>1
  <2>4. CASE x \notin S
    <3>1. o[x] = own[x] /\ own[x] \in Lists /\ rk[x] <= rk[tail(own[x])] /\ rk[x] \in Nat
      BY <1>2, <1>5, <2>4 DEF Placed, Bounded, Owners
    <3>2. own[x] # l => r[x] = rk[x] /\ r[tail(own[x])] = rk[tail(own[x])]
      BY <1>6, <1>11, <2>4, <3>1
    <3>3. own[x] = l => r[x] <= rk[x] + sr[z] + 1
      BY <1>6, <1>9, <2>4, <3>1
    <3>4. CASE own[x] = l
      <4>1. r[x] \in Nat
        BY <1>10 DEF Ranks
      <4> QED
        BY <1>9, <2>2, <3>1, <3>3, <3>4, <4>1
    <3> QED
      BY <3>1, <3>2, <3>4
  <2> QED
    BY <2>3, <2>4
<1>14. Distinct(o, r)
  <2> SUFFICES ASSUME NEW x \in Node, NEW y \in Node, o[x] # NULL, o[x] = o[y], r[x] = r[y]
               PROVE  x = y
    BY DEF Distinct
  <2>1. CASE x \in S /\ y \in S
    BY <1>6, <1>8, <1>9, <2>1
  <2>2. CASE x \notin S /\ y \notin S
    <3>1. own[x] = own[y] /\ own[x] # NULL
      BY <1>5, <2>2
    <3>2. rk[x] = rk[y]
      BY <1>2, <1>6, <1>9, <2>2, <3>1
    <3> QED
      BY <3>1, <3>2 DEF Placed, Distinct
  <2>3. ASSUME NEW u \in S, NEW v \in Node \ S, o[v] = l PROVE r[u] # r[v]
    <3>1. r[u] = rk[b] + sr[u] /\ sr[u] \in Nat /\ sr[u] <= sr[z]
      BY <1>4, <1>6, <1>8
    <3>2. own[v] = l /\ rk[v] \in Nat
      BY <1>2, <1>5, <2>3
    <3>3. r[v] = IF rk[v] >= rk[b] THEN rk[v] + sr[z] + 1 ELSE rk[v]
      BY <1>6, <3>2
    <3> QED
      BY <1>9, <3>1, <3>2, <3>3
  <2>4. \A u \in S : o[u] = l
    BY <1>4, <1>5
  <2> QED
    BY <2>1, <2>2, <2>3, <2>4
<1>15. Forward(nx1, o, r)
  <2> SUFFICES ASSUME NEW x \in Node, o[x] # NULL, x # tail(o[x])
               PROVE  nx1[x] \in Node /\ o[nx1[x]] = o[x] /\ r[nx1[x]] = r[x] + 1
    BY DEF Forward
  <2>1. CASE x = p
    <3>1. nx1[x] = f /\ o[f] = l /\ r[f] = rk[b] /\ f \in Node
      BY <1>1, <1>4, <1>5, <1>6, <1>7, <1>8, <1>9, <2>1
    <3>2. o[x] = l /\ r[x] = rk[b] - 1
      BY <1>3, <1>4, <1>5, <1>6, <1>9, <2>1
    <3> QED
      BY <1>9, <3>1, <3>2
  <2>2. CASE x = z
    <3>1. nx1[x] = b
      BY <1>1, <1>4, <1>7, <2>2
    <3>2. o[b] = l /\ r[b] = rk[b] + sr[z] + 1
      BY <1>4, <1>5, <1>6, <1>9 DEF l
    <3>3. o[x] = l /\ r[x] = rk[b] + sr[z]
      BY <1>1, <1>5, <1>6, <2>2
    <3> QED
      BY <1>9, <3>1, <3>2, <3>3
  <2>3. CASE x \in S /\ x # z
    <3>1. x # p /\ nx1[x] = nx[x] /\ nx[x] \in S /\ sr[nx[x]] = sr[x] + 1 /\ sr[x] \in Nat
      BY <1>4, <1>7, <1>8, <2>3
    <3>2. o[nx[x]] = l /\ o[x] = l /\ nx[x] \in Node
      BY <1>4, <1>5, <2>3, <3>1
    <3>3. r[nx[x]] = rk[b] + sr[nx[x]] /\ r[x] = rk[b] + sr[x]
      BY <1>6, <2>3, <3>1, <3>2
    <3> QED
      BY <1>9, <3>1, <3>2, <3>3
  <2>4. CASE x \notin S /\ x # p
    <3>1. o[x] = own[x] /\ own[x] # NULL /\ x # z
      BY <1>1, <1>5, <2>4
    <3>2. nx[x] \in Node /\ own[nx[x]] = own[x] /\ rk[nx[x]] = rk[x] + 1
      BY <3>1 DEF Placed, Forward
    <3>3. nx1[x] = nx[x] /\ nx[x] \notin S
      BY <1>1, <1>7, <2>4, <3>1, <3>2
    <3>4. own[x] = l => rk[x] # rk[b] - 1
      BY <1>3, <2>4, <3>1 DEF Placed, Distinct
    <3>5. r[nx[x]] = r[x] + 1
      BY <1>2, <1>6, <1>9, <2>4, <3>2, <3>3, <3>4
    <3> QED
      BY <1>5, <3>1, <3>2, <3>3, <3>5
  <2> QED
    BY <2>1, <2>2, <2>3, <2>4
<1>16. Backward(pv1, o, r)
  <2> SUFFICES ASSUME NEW x \in Node, o[x] # NULL, x # head(o[x])
               PROVE  pv1[x] \in Node /\ o[pv1[x]] = o[x] /\ r[pv1[x]] = r[x] - 1
    BY DEF Backward
  <2>1. CASE x = b
    <3>1. pv1[x] = z /\ z \in Node /\ o[z] = l /\ r[z] = rk[b] + sr[z]
      BY <1>1, <1>4, <1>5, <1>6, <1>7, <2>1
    <3>2. o[x] = l /\ r[x] = rk[b] + sr[z] + 1
      BY <1>4, <1>5, <1>6, <1>9, <2>1 DEF l
    <3> QED
      BY <1>9, <3>1, <3>2
  <2>2. CASE x = f
    <3>1. pv1[x] = p /\ p \in Node /\ o[p] = l /\ r[p] = rk[b] - 1
      BY <1>1, <1>3, <1>4, <1>5, <1>6, <1>7, <1>9, <2>2
    <3>2. o[x] = l /\ r[x] = rk[b]
      BY <1>1, <1>4, <1>5, <1>6, <1>8, <1>9, <2>2
    <3> QED
      BY <1>9, <3>1, <3>2
  <2>3. CASE x \in S /\ x # f
    <3>1. x # b /\ pv1[x] = pv[x] /\ pv[x] \in S /\ sr[pv[x]] = sr[x] - 1 /\ sr[x] \in Nat
      BY <1>4, <1>7, <1>8, <2>3
    <3>2. o[pv[x]] = l /\ o[x] = l /\ pv[x] \in Node
      BY <1>4, <1>5, <2>3, <3>1
    <3>3. r[pv[x]] = rk[b] + sr[pv[x]] /\ r[x] = rk[b] + sr[x]
      BY <1>6, <2>3, <3>1, <3>2
    <3> QED
      BY <1>9, <3>1, <3>2, <3>3
  <2>4. CASE x \notin S /\ x # b
    <3>1. o[x] = own[x] /\ own[x] # NULL /\ x # f
      BY <1>1, <1>5, <2>4
    <3>2. pv[x] \in Node /\ own[pv[x]] = own[x] /\ rk[pv[x]] = rk[x] - 1
      BY <3>1 DEF Placed, Backward
    <3>3. pv1[x] = pv[x] /\ pv[x] \notin S
      BY <1>1, <1>7, <2>4, <3>1, <3>2
    <3>4. own[x] = l => rk[x] # rk[b]
      BY <2>4, <3>1 DEF Placed, Distinct, l
    <3>5. r[pv[x]] = r[x] - 1
      BY <1>2, <1>6, <1>9, <2>4, <3>2, <3>3, <3>4
    <3> QED
      BY <1>5, <3>1, <3>2, <3>3, <3>5
  <2> QED
    BY <2>1, <2>2, <2>3, <2>4
<1>17. Placed(nx1, pv1, o, r)
  BY <1>10, <1>12, <1>13, <1>14, <1>15, <1>16 DEF Placed
<1> QED
  BY <1>17 DEF nx1, pv1, o, r, p
-------------------------------------------------------------------------------
(* The operations of list.c are cuts and pastes.                           *)

CutOf(nx, pv, f, z) ==
  [next |-> [nx EXCEPT ![pv[f]] = nx[z]], prev |-> [pv EXCEPT ![nx[z]] = pv[f]]]
PasteOf(nx, pv, b, f, z) ==
  [next |-> [nx EXCEPT ![z] = b, ![pv[b]] = f], prev |-> [pv EXCEPT ![f] = pv[b], ![b] = z]]

LEMMA RemoveIs ==
  ASSUME NEW nx, NEW pv, NEW own, NEW rk, Placed(nx, pv, own, rk),
         NEW x \in Items, own[x] # NULL
  PROVE  list_remove([next |-> nx, prev |-> pv], x) = CutOf(nx, pv, x, x)
<1>1. nx \in Link /\ pv \in Link /\ x \in Node
  BY NodeFacts DEF Placed
<1>2. pv[x] # x
  <2>1. rk[x] > 0 /\ rk[x] \in Nat
    BY <1>1, Between
  <2>2. rk[pv[x]] = rk[x] - 1
    BY <1>1, <2>1, Neighbours DEF IsAt
  <2> QED
    BY <2>1, <2>2
<1>3. [nx EXCEPT ![pv[x]] = nx[x]][x] = nx[x]
  BY <1>1, <1>2 DEF Link
<1> DEFINE h == [next |-> nx, prev |-> pv]
           h1 == [h EXCEPT !.next[h.prev[x]] = h.next[x]]
<1>4. h1 = [next |-> [nx EXCEPT ![pv[x]] = nx[x]], prev |-> pv]
  OBVIOUS
<1>5. list_remove(h, x) = [h1 EXCEPT !.prev[h1.next[x]] = h1.prev[x]]
  BY DEF list_remove
<1> HIDE DEF h1
<1>6. [h1 EXCEPT !.prev[h1.next[x]] = h1.prev[x]] = CutOf(nx, pv, x, x)
  BY <1>3, <1>4 DEF CutOf
<1> QED
  BY <1>5, <1>6

LEMMA InsertIs ==
  ASSUME NEW nx, NEW pv, NEW own, NEW rk, Placed(nx, pv, own, rk),
         NEW x \in Items, own[x] = NULL, NEW b \in Node, own[b] # NULL
  PROVE  list_insert([next |-> nx, prev |-> pv], b, x) = PasteOf(nx, pv, b, x, x)
<1>1. nx \in Link /\ pv \in Link /\ x \in Node /\ x # b
  BY NodeFacts DEF Placed
<1>2. [pv EXCEPT ![x] = pv[b]][b] = pv[b]
  BY <1>1 DEF Link
<1> DEFINE h == [next |-> nx, prev |-> pv]
           h1 == [h EXCEPT !.prev[x] = h.prev[b], !.next[x] = b]
           h2 == [h1 EXCEPT !.next[h1.prev[b]] = x]
           p1 == [pv EXCEPT ![x] = pv[b]]
<1>3. list_insert(h, b, x) = [h2 EXCEPT !.prev[b] = x]
  BY DEF list_insert
<1>4. h1 = [[h EXCEPT !.prev[x] = pv[b]] EXCEPT !.next[x] = b]
  OBVIOUS
<1>5. [h EXCEPT !.prev[x] = pv[b]] = [next |-> nx, prev |-> p1]
  OBVIOUS
<1>6. p1[b] = pv[b]
  BY <1>2
<1> HIDE DEF p1, h1
<1>7. h1 = [next |-> [nx EXCEPT ![x] = b], prev |-> p1]
  BY <1>4, <1>5
<1>8. h2 = [next |-> [nx EXCEPT ![x] = b, ![pv[b]] = x], prev |-> p1]
  BY <1>6, <1>7
<1> HIDE DEF h2
<1>9. [h2 EXCEPT !.prev[b] = x]
        = [next |-> [nx EXCEPT ![x] = b, ![pv[b]] = x], prev |-> [p1 EXCEPT ![b] = x]]
  BY <1>8
<1> QED
  BY <1>3, <1>9 DEF PasteOf, p1

LEMMA SpliceIs ==
  ASSUME NEW nx, NEW pv, NEW own, NEW rk, Placed(nx, pv, own, rk),
         NEW f \in Items, own[f] # NULL, NEW last \in Node, own[last] = own[f],
         rk[f] < rk[last], NEW b \in Node, b # f
  PROVE  LET h == CutOf(nx, pv, f, pv[last])
         IN  list_splice([next |-> nx, prev |-> pv], b, f, last)
               = PasteOf(h.next, h.prev, b, f, pv[last])
<1> DEFINE z == pv[last]
           nxc == [nx EXCEPT ![pv[f]] = nx[z]]
           pvc == [pv EXCEPT ![nx[z]] = pv[f]]
<1>1. nx \in Link /\ pv \in Link /\ f \in Node /\ rk[f] \in Nat /\ rk[last] \in Nat
  BY NodeFacts DEF Placed, Ranks
<1>2. z \in Node /\ own[z] = own[f] /\ rk[z] = rk[last] - 1
  BY <1>1, Neighbours DEF IsAt
<1>3. pv[f] \in Node /\ rk[pv[f]] = rk[f] - 1
  <2>1. rk[f] > 0
    BY <1>1, Between
  <2> QED
    BY <1>1, <2>1, Neighbours DEF IsAt
<1>4. pv[f] # z
  BY <1>1, <1>2, <1>3
<1>5. nxc[z] = nx[z]
  BY <1>1, <1>2, <1>3, <1>4 DEF Link
<1>6. [pvc EXCEPT ![f] = pvc[b]][b] = pvc[b]
  <2>1. pvc \in [Node -> Node \cup {NULL}]
    BY <1>1, <1>3 DEF Link
  <2> HIDE DEF pvc
  <2> QED
    BY <1>1, <2>1
<1> HIDE DEF z, nxc, pvc
<1> DEFINE h == [next |-> nx, prev |-> pv]
           h1 == [h EXCEPT !.next[h.prev[f]] = h.next[z]]
           h2 == [h1 EXCEPT !.prev[h1.next[z]] = h1.prev[f]]
           h3 == [h2 EXCEPT !.prev[f] = h2.prev[b]]
           h4 == [h3 EXCEPT !.next[z] = b]
           h5 == [h4 EXCEPT !.next[h4.prev[b]] = f]
           h6 == [h5 EXCEPT !.prev[b] = z]
           p3 == [pvc EXCEPT ![f] = pvc[b]]
<1>7. list_splice(h, b, f, last) = h6
  BY DEF list_splice, z
<1>8. h1 = [next |-> nxc, prev |-> pv]
  BY DEF nxc
<1> HIDE DEF h1
<1>9. h2 = [next |-> nxc, prev |-> pvc]
  BY <1>5, <1>8 DEF pvc
<1> HIDE DEF h2
<1>10. h3 = [next |-> nxc, prev |-> p3]
  BY <1>9
<1> HIDE DEF h3
<1>11. h4 = [next |-> [nxc EXCEPT ![z] = b], prev |-> p3]
  BY <1>10
<1>12. p3[b] = pvc[b]
  BY <1>6
<1> HIDE DEF h4, p3
<1>13. h5 = [next |-> [nxc EXCEPT ![z] = b, ![pvc[b]] = f], prev |-> p3]
  BY <1>11, <1>12
<1> HIDE DEF h5
<1>14. h6 = [next |-> [nxc EXCEPT ![z] = b, ![pvc[b]] = f], prev |-> [p3 EXCEPT ![b] = z]]
  BY <1>13
<1> HIDE DEF h6
<1>15. list_splice(h, b, f, last) = PasteOf(nxc, pvc, b, f, z)
  BY <1>7, <1>14 DEF PasteOf, p3
<1> HIDE DEF h
<1>16. CutOf(nx, pv, f, z) = [next |-> nxc, prev |-> pvc]
  BY DEF CutOf, nxc, pvc
<1> QED
  BY <1>15, <1>16 DEF h, z

-------------------------------------------------------------------------------
(* What the lists hold when nodes are taken out and put in.                *)

LEMMA HoldsFrame ==
  ASSUME NEW s, NEW l \in Lists, NEW d, NEW own, NEW rk, Holds(s, l, d, own, rk),
         NEW d1, NEW own1, NEW rk1, Top(l, rk1) = Top(l, rk),
         \A x \in Items : own1[x] = l => own[x] = l /\ rk1[x] = rk[x] /\ d1[x] = d[x]
  PROVE  Holds(s, l, d1, own1, rk1)
BY DEF Holds

LEMMA CatIs ==
  ASSUME NEW u \in Seq(Int), NEW w \in Seq(Int)
  PROVE  /\ u \o w \in Seq(Int) /\ Len(u \o w) = Len(u) + Len(w)
         /\ \A k \in 1..Len(u) : (u \o w)[k] = u[k]
         /\ \A k \in 1..Len(w) : (u \o w)[Len(u) + k] = w[k]
<1>1. u \o w \in Seq(Int) /\ Len(u \o w) = Len(u) + Len(w)
  OBVIOUS
<1>2. \A k \in 1..Len(u) : (u \o w)[k] = u[k]
  OBVIOUS
<1>3. \A k \in 1..Len(w) : (u \o w)[Len(u) + k] = w[k]
  OBVIOUS
<1> QED
  BY <1>1, <1>2, <1>3

LEMMA SubIs ==
  ASSUME NEW s \in Seq(Int), NEW a \in Int, NEW b \in Int, 1 <= a, a <= b + 1, b <= Len(s)
  PROVE  /\ SubSeq(s, a, b) \in Seq(Int) /\ Len(SubSeq(s, a, b)) = b - a + 1
         /\ \A k \in 1..(b - a + 1) : SubSeq(s, a, b)[k] = s[a + k - 1]
OBVIOUS

\* Without its elements from a to b; and with those of t from a on.
Without(s, a, b) == SubSeq(s, 1, a - 1) \o SubSeq(s, b + 1, Len(s))
With(s, a, t)    == SubSeq(s, 1, a - 1) \o t \o SubSeq(s, a, Len(s))

LEMMA LeftOut ==
  ASSUME NEW s \in Seq(Int), NEW a \in Int, NEW b \in Int, 1 <= a, a <= b, b <= Len(s)
  PROVE  /\ Without(s, a, b) \in Seq(Int) /\ Len(Without(s, a, b)) = Len(s) - (b - a + 1)
         /\ \A k \in 1..(a - 1) : Without(s, a, b)[k] = s[k]
         /\ \A k \in (b + 1)..Len(s) : Without(s, a, b)[k - (b - a + 1)] = s[k]
<1> DEFINE u == SubSeq(s, 1, a - 1)
           w == SubSeq(s, b + 1, Len(s))
<1>0. Len(s) \in Nat
  OBVIOUS
<1>1. u \in Seq(Int) /\ Len(u) = a - 1 /\ \A k \in 1..(a - 1) : u[k] = s[k]
  BY <1>0, SubIs
<1>2. w \in Seq(Int) /\ Len(w) = Len(s) - b /\ \A k \in 1..(Len(s) - b) : w[k] = s[b + k]
  BY <1>0, SubIs
<1>3. Without(s, a, b) = u \o w
  BY DEF Without
<1> HIDE DEF u, w
<1> DEFINE t == u \o w
<1>4. /\ t \in Seq(Int) /\ Len(t) = Len(u) + Len(w)
      /\ \A k \in 1..Len(u) : t[k] = u[k]
      /\ \A k \in 1..Len(w) : t[Len(u) + k] = w[k]
  BY <1>1, <1>2, CatIs
<1> HIDE DEF t
<1>5. ASSUME NEW k \in (b + 1)..Len(s) PROVE t[k - (b - a + 1)] = s[k]
  <2>1. k - (b - a + 1) = (a - 1) + (k - b) /\ k - b \in 1..Len(w) /\ b + (k - b) = k
    BY <1>0, <1>2
  <2>2. t[Len(u) + (k - b)] = w[k - b]
    BY <1>4, <2>1
  <2>3. w[k - b] = s[b + (k - b)]
    BY <1>2, <2>1
  <2> QED
    BY <1>1, <2>1, <2>2, <2>3
<1>6. Len(t) = Len(s) - (b - a + 1)
  BY <1>0, <1>1, <1>2, <1>4
<1>7. \A k \in 1..(a - 1) : t[k] = s[k]
  BY <1>1, <1>4
<1>8. t = Without(s, a, b)
  BY <1>3 DEF t
<1> QED
  BY <1>4, <1>5, <1>6, <1>7, <1>8

LEMMA PutIn ==
  ASSUME NEW s \in Seq(Int), NEW t \in Seq(Int), NEW a \in Int, 1 <= a, a <= Len(s) + 1
  PROVE  /\ With(s, a, t) \in Seq(Int) /\ Len(With(s, a, t)) = Len(s) + Len(t)
         /\ \A k \in 1..(a - 1) : With(s, a, t)[k] = s[k]
         /\ \A k \in 1..Len(t) : With(s, a, t)[a + k - 1] = t[k]
         /\ \A k \in a..Len(s) : With(s, a, t)[k + Len(t)] = s[k]
<1> DEFINE u == SubSeq(s, 1, a - 1)
           w == SubSeq(s, a, Len(s))
<1>0. Len(s) \in Nat /\ Len(t) \in Nat
  OBVIOUS
<1>1. u \in Seq(Int) /\ Len(u) = a - 1 /\ \A k \in 1..(a - 1) : u[k] = s[k]
  BY <1>0, SubIs
<1>2. w \in Seq(Int) /\ Len(w) = Len(s) - a + 1 /\ \A k \in 1..(Len(s) - a + 1) : w[k] = s[a + k - 1]
  BY <1>0, SubIs
<1>3. With(s, a, t) = (u \o t) \o w
  BY DEF With
<1> HIDE DEF u, w
<1> DEFINE v == u \o t
<1>4. /\ v \in Seq(Int) /\ Len(v) = Len(u) + Len(t)
      /\ \A k \in 1..Len(u) : v[k] = u[k]
      /\ \A k \in 1..Len(t) : v[Len(u) + k] = t[k]
  BY <1>1, CatIs
<1> HIDE DEF v
<1> DEFINE c == v \o w
<1>5. /\ c \in Seq(Int) /\ Len(c) = Len(v) + Len(w)
      /\ \A k \in 1..Len(v) : c[k] = v[k]
      /\ \A k \in 1..Len(w) : c[Len(v) + k] = w[k]
  BY <1>2, <1>4, CatIs
<1>6. c = With(s, a, t)
  BY <1>3 DEF v
<1> HIDE DEF c
<1>7. Len(c) = Len(s) + Len(t)
  BY <1>0, <1>1, <1>2, <1>4, <1>5
<1>8. \A k \in 1..(a - 1) : c[k] = s[k]
  <2>1. \A k \in 1..(a - 1) : k \in 1..Len(u) /\ k \in 1..Len(v)
    BY <1>0, <1>1, <1>4
  <2> QED
    BY <1>1, <1>4, <1>5, <2>1
<1>9. ASSUME NEW k \in 1..Len(t) PROVE c[a + k - 1] = t[k]
  <2>1. a + k - 1 = (a - 1) + k /\ (a - 1) + k \in 1..Len(v)
    BY <1>0, <1>1, <1>4
  <2>2. v[Len(u) + k] = t[k]
    BY <1>4
  <2> QED
    BY <1>1, <1>5, <2>1, <2>2
<1>10. ASSUME NEW k \in a..Len(s) PROVE c[k + Len(t)] = s[k]
  <2>1. k + Len(t) = Len(v) + (k - a + 1) /\ k - a + 1 \in 1..Len(w) /\ a + (k - a + 1) - 1 = k
    BY <1>0, <1>1, <1>2, <1>4
  <2>2. c[Len(v) + (k - a + 1)] = w[k - a + 1]
    BY <1>5, <2>1
  <2>3. w[k - a + 1] = s[a + (k - a + 1) - 1]
    BY <1>2, <2>1
  <2> QED
    BY <2>1, <2>2, <2>3
<1> QED
  BY <1>5, <1>6, <1>7, <1>8, <1>9, <1>10

LEMMA CutHolds ==
  ASSUME NEW nx, NEW pv, NEW own, NEW rk, Placed(nx, pv, own, rk),
         NEW f \in Items, NEW z \in Items, own[f] # NULL, own[z] = own[f], rk[f] <= rk[z],
         NEW d, NEW s, NEW m \in Lists, Holds(s, m, d, own, rk)
  PROVE  Holds(IF m = own[f] THEN Without(s, rk[f], rk[z])
               ELSE s,
               m, d, OwnCut(own, rk, f, z), RankCut(own, rk, f, z))
<1> DEFINE o == OwnCut(own, rk, f, z)
           r == RankCut(own, rk, f, z)
           t == Without(s, rk[f], rk[z])
<1>1. /\ rk[z] < Top(own[f], rk) /\ rk[f] > 0 /\ own[f] \in Lists
      /\ \A y \in Node : rk[y] \in Nat
  BY PartItems
<1>2. Items \subseteq Node /\ NULL \notin Lists /\ own[tail(m)] = m /\ tail(m) \in Node
      /\ Top(m, rk) \in Nat
  BY <1>1, EndFacts, NodeFacts DEF Placed, EndsPlaced, Top
<1>3. \A y \in Node : o[y] = IF own[y] = own[f] /\ rk[f] <= rk[y] /\ rk[y] <= rk[z] THEN NULL
                             ELSE own[y]
  BY DEF OwnCut, Part
<1>4. \A y \in Node : r[y] = IF own[y] = own[f] /\ rk[y] > rk[z]
                               THEN rk[y] - (rk[z] - rk[f] + 1) ELSE rk[y]
  BY DEF RankCut
<1>5. s \in Seq(Int) /\ Len(s) = Top(m, rk) - 1 /\ \A x \in Items : own[x] = m => s[rk[x]] = d[x]
  BY DEF Holds
<1>6. rk[f] \in Nat /\ rk[z] \in Nat /\ rk[f] \in Int /\ rk[z] \in Int
  BY <1>1, <1>2
<1> HIDE DEF o, r, t
<1>7. CASE m # own[f]
  <2>1. Top(m, r) = Top(m, rk)
    BY <1>2, <1>4, <1>7 DEF Top
  <2>2. \A x \in Items : o[x] = m => own[x] = m /\ r[x] = rk[x]
    BY <1>2, <1>3, <1>4, <1>7
  <2>3. Holds(s, m, d, o, r)
    BY <2>1, <2>2, HoldsFrame
  <2> QED
    BY <1>7, <2>3 DEF o, r
<1>8. CASE m = own[f]
  <2>1. rk[z] <= Len(s)
    BY <1>1, <1>2, <1>5, <1>6, <1>8
  <2>2. /\ t \in Seq(Int) /\ Len(t) = Len(s) - (rk[z] - rk[f] + 1)
        /\ \A k \in 1..(rk[f] - 1) : t[k] = s[k]
        /\ \A k \in (rk[z] + 1)..Len(s) : t[k - (rk[z] - rk[f] + 1)] = s[k]
    <3>1. /\ s \in Seq(Int) /\ rk[f] \in Int /\ rk[z] \in Int /\ 1 <= rk[f]
          /\ rk[f] <= rk[z] /\ rk[z] <= Len(s)
      BY <1>1, <1>5, <1>6, <2>1
    <3>2. t = Without(s, rk[f], rk[z])
      BY DEF t
    <3> QED
      BY ONLY <3>1, <3>2, LeftOut
  <2>3. Len(t) = Top(m, r) - 1
    <3>1. rk[tail(m)] = Top(m, rk) /\ r[tail(m)] = Top(m, r)
      BY DEF Top
    <3>2. Top(m, r) = Top(m, rk) - (rk[z] - rk[f] + 1)
      BY <1>1, <1>2, <1>4, <1>8, <3>1
    <3> QED
      BY <1>2, <1>5, <1>6, <2>2, <3>2
  <2>4. ASSUME NEW x \in Items, o[x] = m PROVE t[r[x]] = d[x]
    <3>1. own[x] = m /\ ~(rk[f] <= rk[x] /\ rk[x] <= rk[z]) /\ s[rk[x]] = d[x]
      BY <1>2, <1>3, <1>5, <1>8, <2>4
    <3>2. rk[x] \in 1..Len(s)
      BY <1>2, <1>5, <3>1, Between
    <3>3. CASE rk[x] < rk[f]
      <4>1. r[x] = rk[x] /\ rk[x] \in 1..(rk[f] - 1)
        BY <1>2, <1>4, <1>6, <3>2, <3>3
      <4> QED
        BY <2>2, <3>1, <4>1
    <3>4. CASE rk[x] > rk[z]
      <4>1. r[x] = rk[x] - (rk[z] - rk[f] + 1) /\ rk[x] \in (rk[z] + 1)..Len(s)
        BY <1>2, <1>4, <1>6, <1>8, <3>1, <3>2, <3>4
      <4> QED
        BY <2>2, <3>1, <4>1
    <3> QED
      BY <1>6, <3>1, <3>2, <3>3, <3>4
  <2>5. Holds(t, m, d, o, r)
    BY <2>2, <2>3, <2>4 DEF Holds
  <2> QED
    BY <1>8, <2>5 DEF o, r, t
<1> QED
  BY <1>7, <1>8

LEMMA PasteHolds ==
  ASSUME NEW nx, NEW pv, NEW own, NEW rk, Placed(nx, pv, own, rk),
         NEW S, NEW sr, NEW f, NEW z, Segment(nx, pv, own, S, sr, f, z),
         NEW b \in Node, own[b] # NULL, rk[b] > 0,
         NEW d, NEW s, NEW m \in Lists, Holds(s, m, d, own, rk),
         NEW t \in Seq(Int), Len(t) = sr[z] + 1, \A y \in S : t[sr[y] + 1] = d[y]
  PROVE  Holds(IF m = own[b] THEN With(s, rk[b], t)
               ELSE s,
               m, d, OwnPaste(own, S, b), RankPaste(own, rk, S, sr, z, b))
<1> DEFINE o == OwnPaste(own, S, b)
           r == RankPaste(own, rk, S, sr, z, b)
           c == With(s, rk[b], t)
<1>1. /\ S \subseteq Items /\ z \in S /\ (\A y \in Node : sr[y] \in Nat)
      /\ \A y \in S : own[y] = NULL /\ sr[y] <= sr[z]
  BY DEF Segment, Ranks
<1>2. Items \subseteq Node /\ NULL \notin Lists /\ own[tail(m)] = m /\ tail(m) \in Node
      /\ Top(m, rk) \in Nat /\ (\A y \in Node : rk[y] \in Nat) /\ tail(m) \notin Items
  BY EndFacts, NodeFacts DEF Placed, Ranks, EndsPlaced, Top
<1>3. \A y \in Node : o[y] = IF y \in S THEN own[b] ELSE own[y]
  BY DEF OwnPaste
<1>4. \A y \in Node : r[y] = IF y \in S THEN rk[b] + sr[y]
                             ELSE IF own[y] = own[b] /\ rk[y] >= rk[b] THEN rk[y] + sr[z] + 1
                             ELSE rk[y]
  BY DEF RankPaste
<1>5. s \in Seq(Int) /\ Len(s) = Top(m, rk) - 1 /\ \A x \in Items : own[x] = m => s[rk[x]] = d[x]
  BY DEF Holds
<1>6. rk[b] \in Nat /\ sr[z] \in Nat /\ own[b] \in Lists
  BY <1>1, <1>2 DEF Placed, Owners
<1> HIDE DEF o, r, c
<1>7. CASE m # own[b]
  <2>1. Top(m, r) = Top(m, rk)
    BY <1>1, <1>2, <1>4, <1>7 DEF Top
  <2>2. \A x \in Items : o[x] = m => own[x] = m /\ r[x] = rk[x]
    BY <1>2, <1>3, <1>4, <1>7
  <2>3. Holds(s, m, d, o, r)
    BY <2>1, <2>2, HoldsFrame
  <2> QED
    BY <1>7, <2>3 DEF o, r
<1>8. CASE m = own[b]
  <2>1. rk[b] <= Top(m, rk)
    BY <1>8 DEF Placed, Bounded, Top
  <2>2. 1 <= rk[b] /\ rk[b] <= Len(s) + 1
    BY <1>2, <1>5, <1>6, <2>1
  <2>3. /\ c \in Seq(Int) /\ Len(c) = Len(s) + Len(t)
        /\ \A k \in 1..(rk[b] - 1) : c[k] = s[k]
        /\ \A k \in 1..Len(t) : c[rk[b] + k - 1] = t[k]
        /\ \A k \in rk[b]..Len(s) : c[k + Len(t)] = s[k]
    <3>1. /\ s \in Seq(Int) /\ t \in Seq(Int) /\ rk[b] \in Int /\ 1 <= rk[b]
          /\ rk[b] <= Len(s) + 1
      BY <1>5, <1>6, <2>2
    <3>2. c = With(s, rk[b], t)
      BY DEF c
    <3> QED
      BY ONLY <3>1, <3>2, PutIn
  <2>4. Len(c) = Top(m, r) - 1
    <3>1. rk[tail(m)] = Top(m, rk) /\ r[tail(m)] = Top(m, r)
      BY DEF Top
    <3>2. Top(m, r) = Top(m, rk) + sr[z] + 1
      BY <1>1, <1>2, <1>4, <1>8, <2>1, <3>1
    <3> QED
      BY <1>2, <1>5, <1>6, <2>3, <3>2
  <2>5. ASSUME NEW x \in Items, o[x] = m PROVE c[r[x]] = d[x]
    <3>1. CASE x \in S
      <4>1. r[x] = rk[b] + sr[x] /\ sr[x] \in Nat /\ sr[x] <= sr[z] /\ t[sr[x] + 1] = d[x]
        BY <1>1, <1>2, <1>4, <3>1
      <4>2. sr[x] + 1 \in 1..Len(t)
        BY <1>6, <4>1
      <4>3. c[rk[b] + (sr[x] + 1) - 1] = t[sr[x] + 1]
        BY <2>3, <4>2
      <4>4. rk[b] + (sr[x] + 1) - 1 = r[x]
        BY <1>6, <4>1
      <4> QED
        BY <4>1, <4>3, <4>4
    <3>2. CASE x \notin S
      <4>1. own[x] = m /\ s[rk[x]] = d[x]
        BY <1>2, <1>3, <1>5, <2>5, <3>2
      <4>2. rk[x] \in 1..Len(s)
        BY <1>2, <1>5, <4>1, Between
      <4>3. CASE rk[x] < rk[b]
        <5>1. r[x] = rk[x] /\ rk[x] \in 1..(rk[b] - 1)
          BY <1>2, <1>4, <1>6, <3>2, <4>2, <4>3
        <5> QED
          BY <2>3, <4>1, <5>1
      <4>4. CASE rk[x] >= rk[b]
        <5>1. r[x] = rk[x] + Len(t) /\ rk[x] \in rk[b]..Len(s)
          BY <1>2, <1>4, <1>6, <1>8, <3>2, <4>1, <4>2, <4>4
        <5> QED
          BY <2>3, <4>1, <5>1
      <4> QED
        BY <1>6, <4>2, <4>3, <4>4
    <3> QED
      BY <3>1, <3>2
  <2>6. Holds(c, m, d, o, r)
    BY <2>3, <2>4, <2>5 DEF Holds
  <2> QED
    BY <1>8, <2>6 DEF o, r, c
<1> QED
  BY <1>7, <1>8
-------------------------------------------------------------------------------
(* An item out of a list, an item into one, a range from one to another.   *)

\* Of the nodes outside S, those of no list have no links.
LooseBut(nx, pv, own, S) ==
  \A x \in Node : own[x] = NULL /\ x \notin S => nx[x] = NULL /\ pv[x] = NULL

LEMMA CutLoose ==
  ASSUME NEW nx, NEW pv, NEW own, NEW rk, Placed(nx, pv, own, rk), Loose(nx, pv, own),
         NEW f \in Items, NEW z \in Items, own[f] # NULL, own[z] = own[f], rk[f] <= rk[z]
  PROVE  LooseBut([nx EXCEPT ![pv[f]] = nx[z]], [pv EXCEPT ![nx[z]] = pv[f]],
                  OwnCut(own, rk, f, z), Part(own, rk, f, z))
<1>1. /\ rk[z] < Top(own[f], rk) /\ rk[f] > 0 /\ own[f] \in Lists
      /\ Items \subseteq Node /\ nx \in Link /\ pv \in Link
  BY PartItems, NodeFacts DEF Placed
<1>2. pv[f] \in Node /\ own[pv[f]] # NULL /\ nx[z] \in Node /\ own[nx[z]] # NULL
  BY <1>1, Neighbours, NodeFacts DEF IsAt
<1>3. ASSUME NEW x \in Node, OwnCut(own, rk, f, z)[x] = NULL, x \notin Part(own, rk, f, z)
      PROVE  /\ [nx EXCEPT ![pv[f]] = nx[z]][x] = NULL
             /\ [pv EXCEPT ![nx[z]] = pv[f]][x] = NULL
  <2>1. own[x] = NULL
    BY <1>3 DEF OwnCut
  <2>2. nx[x] = NULL /\ pv[x] = NULL /\ x # pv[f] /\ x # nx[z]
    BY <1>2, <2>1 DEF Loose
  <2> QED
    BY <1>1, <2>2 DEF Link
<1> QED
  BY <1>3 DEF LooseBut

LEMMA PasteLoose ==
  ASSUME NEW nx, NEW pv, NEW own, NEW rk, Placed(nx, pv, own, rk),
         NEW S, NEW sr, NEW f, NEW z, Segment(nx, pv, own, S, sr, f, z),
         LooseBut(nx, pv, own, S),
         NEW b \in Node, own[b] # NULL, rk[b] > 0
  PROVE  Loose([nx EXCEPT ![z] = b, ![pv[b]] = f], [pv EXCEPT ![f] = pv[b], ![b] = z],
               OwnPaste(own, S, b))
<1>1. f \in S /\ z \in S /\ nx \in Link /\ pv \in Link
  BY DEF Segment, Placed
<1>2. pv[b] \in Node /\ own[pv[b]] # NULL
  BY Neighbours DEF IsAt
<1>3. ASSUME NEW x \in Node, OwnPaste(own, S, b)[x] = NULL
      PROVE  /\ [nx EXCEPT ![z] = b, ![pv[b]] = f][x] = NULL
             /\ [pv EXCEPT ![f] = pv[b], ![b] = z][x] = NULL
  <2>1. x \notin S /\ own[x] = NULL
    BY <1>3 DEF OwnPaste
  <2>2. nx[x] = NULL /\ pv[x] = NULL
    BY <2>1 DEF LooseBut
  <2>3. x # z /\ x # f /\ x # b /\ x # pv[b]
    BY <1>1, <1>2, <2>1
  <2> QED
    BY <1>1, <2>2, <2>3 DEF Link
<1> QED
  BY <1>3 DEF Loose

Zero == [y \in Node |-> 0]

Inserted(h, x, b, own, rk) ==
  \E o \in Owners, r \in Ranks :
    /\ Placed(h.next, h.prev, o, r) /\ Loose(h.next, h.prev, o)
    /\ \A y \in Node :
         /\ o[y] = IF y = x THEN own[b] ELSE own[y]
         /\ r[y] = IF y = x THEN rk[b]
                   ELSE IF own[y] = own[b] /\ rk[y] >= rk[b] THEN rk[y] + 1 ELSE rk[y]
    /\ \A d, s, v, m :
         /\ d \in [Items -> Int] /\ v \in Int /\ m \in Lists
         /\ Holds(s, m, d, own, rk)
         => Holds(IF m = own[b] THEN InsertAt(s, rk[b], v) ELSE s, m,
                  [d EXCEPT ![x] = v], o, r)

Removed(h, x, own, rk) ==
  \E o \in Owners, r \in Ranks :
    /\ h = [next |-> h.next, prev |-> h.prev]
    /\ Placed(h.next, h.prev, o, r) /\ LooseBut(h.next, h.prev, o, {x})
    /\ \A y \in Node :
         /\ o[y] = IF y = x THEN NULL ELSE own[y]
         /\ r[y] = IF own[y] = own[x] /\ rk[y] > rk[x] THEN rk[y] - 1 ELSE rk[y]
    /\ \A d, s, m :
         m \in Lists /\ Holds(s, m, d, own, rk)
         => Holds(IF m = own[x] THEN RemoveAt(s, rk[x]) ELSE s, m, d, o, r)

\* The nodes from f to z are now before b.
Spliced(h, f, z, b, own, rk) ==
  LET rc == RankCut(own, rk, f, z)
  IN \E o \in Owners, r \in Ranks :
    /\ z \in Items /\ own[z] = own[f]
    /\ Placed(h.next, h.prev, o, r) /\ Loose(h.next, h.prev, o)
    /\ \A y \in Node :
         /\ o[y] = IF y \in Part(own, rk, f, z) THEN own[b] ELSE own[y]
         /\ r[y] = IF y \in Part(own, rk, f, z) THEN rc[b] + (rk[y] - rk[f])
                   ELSE IF own[y] = own[b] /\ rc[y] >= rc[b]
                     THEN rc[y] + (rk[z] - rk[f]) + 1
                   ELSE rc[y]
    /\ \A d, s, t, m :
         /\ d \in [Items -> Int] /\ m \in Lists
         /\ Holds(s, own[f], d, own, rk) /\ Holds(t, m, d, own, rk)
         => Holds(LET t1 == IF m = own[f] THEN Without(s, rk[f], rk[z]) ELSE t
                  IN  IF m = own[b] THEN With(t1, rc[b], SubSeq(s, rk[f], rk[z]))
                      ELSE t1, m, d, o, r)

LEMMA InsertDoes ==
  ASSUME NEW nx, NEW pv, NEW own, NEW rk, Placed(nx, pv, own, rk),
         NEW x \in Items, own[x] = NULL, LooseBut(nx, pv, own, {x}),
         NEW b \in Node, own[b] # NULL, rk[b] > 0,
         NEW h, h = list_insert([next |-> nx, prev |-> pv], b, x)
  PROVE  Inserted(h, x, b, own, rk)
<1> DEFINE o == OwnPaste(own, {x}, b)
           r == RankPaste(own, rk, {x}, Zero, x, b)
<1>1. Segment(nx, pv, own, {x}, Zero, x, x)
  BY NodeFacts DEF Segment, Zero, Ranks
<1>2. h = PasteOf(nx, pv, b, x, x)
  BY InsertIs
<1>3. h.next = [nx EXCEPT ![x] = b, ![pv[b]] = x] /\ h.prev = [pv EXCEPT ![x] = pv[b], ![b] = x]
  <2> DEFINE N == [nx EXCEPT ![x] = b, ![pv[b]] = x]
             P == [pv EXCEPT ![x] = pv[b], ![b] = x]
  <2>1. h = [next |-> N, prev |-> P]
    BY <1>2 DEF PasteOf
  <2> HIDE DEF N, P
  <2>2. h.next = N /\ h.prev = P
    BY <2>1
  <2> QED
    BY <2>2 DEF N, P
<1>4. Placed(h.next, h.prev, o, r)
  BY <1>1, <1>3, PastePlaced
<1>5. Loose(h.next, h.prev, o)
  BY <1>1, <1>3, PasteLoose
<1>6. x \in Node /\ Zero[x] = 0 /\ rk \in Ranks /\ Items \subseteq Node
  BY NodeFacts DEF Zero, Placed
<1>7. \A y \in Node :
        /\ o[y] = IF y = x THEN own[b] ELSE own[y]
        /\ r[y] = IF y = x THEN rk[b]
                  ELSE IF own[y] = own[b] /\ rk[y] >= rk[b] THEN rk[y] + 1 ELSE rk[y]
  BY <1>6 DEF OwnPaste, RankPaste, Ranks
<1>8. ASSUME NEW d \in [Items -> Int], NEW s, NEW v \in Int, NEW m \in Lists,
             Holds(s, m, d, own, rk)
      PROVE  Holds(IF m = own[b] THEN InsertAt(s, rk[b], v) ELSE s, m, [d EXCEPT ![x] = v], o, r)
  <2> DEFINE d1 == [d EXCEPT ![x] = v]
  <2>1. Holds(s, m, d1, own, rk)
    <3>1. \A y \in Items : own[y] = m => d1[y] = d[y]
      BY NodeFacts
    <3> HIDE DEF d1
    <3> QED
      BY <1>8, <3>1, HoldsFrame
  <2>2. <<v>> \in Seq(Int) /\ Len(<<v>>) = Zero[x] + 1 /\ <<v>>[Zero[x] + 1] = d1[x]
    BY <1>6
  <2>3. InsertAt(s, rk[b], v) = With(s, rk[b], <<v>>)
    BY DEF InsertAt, With
  <2> HIDE DEF d1, o, r
  <2>4. \A y \in {x} : <<v>>[Zero[y] + 1] = d1[y]
    BY <2>2
  <2>5. Holds(IF m = own[b] THEN With(s, rk[b], <<v>>) ELSE s, m, d1, o, r)
    BY <1>1, <2>1, <2>2, <2>4, PasteHolds DEF o, r
  <2> QED
    BY <2>3, <2>5 DEF d1
<1>9. o \in Owners /\ r \in Ranks
  BY <1>4 DEF Placed
<1> HIDE DEF o, r
<1> QED
  BY <1>4, <1>5, <1>7, <1>8, <1>9 DEF Inserted

LEMMA RemoveDoes ==
  ASSUME NEW nx, NEW pv, NEW own, NEW rk, Placed(nx, pv, own, rk), Loose(nx, pv, own),
         NEW x \in Items, own[x] # NULL,
         NEW h, h = list_remove([next |-> nx, prev |-> pv], x)
  PROVE  Removed(h, x, own, rk)
<1> DEFINE o == OwnCut(own, rk, x, x)
           r == RankCut(own, rk, x, x)
<1>1. h = CutOf(nx, pv, x, x)
  BY RemoveIs
<1>2. h.next = [nx EXCEPT ![pv[x]] = nx[x]] /\ h.prev = [pv EXCEPT ![nx[x]] = pv[x]]
      /\ h = [next |-> h.next, prev |-> h.prev]
  <2> DEFINE N == [nx EXCEPT ![pv[x]] = nx[x]]
             P == [pv EXCEPT ![nx[x]] = pv[x]]
  <2>1. h = [next |-> N, prev |-> P]
    BY <1>1 DEF CutOf
  <2> HIDE DEF N, P
  <2>2. h.next = N /\ h.prev = P
    BY <2>1
  <2>3. h = [next |-> h.next, prev |-> h.prev]
    BY <2>1, <2>2
  <2> QED
    BY <2>2, <2>3 DEF N, P
<1>3. x \in Node /\ rk \in Ranks /\ Items \subseteq Node /\ rk[x] \in Nat
      /\ \A y \in Node : rk[y] \in Nat
  BY NodeFacts DEF Placed, Ranks
<1>4. rk[x] <= rk[x]
  BY <1>3
<1>5. Placed(h.next, h.prev, o, r)
  BY <1>2, <1>4, CutPlaced
<1>6. Part(own, rk, x, x) = {x}
  BY <1>3 DEF Part, Placed, Distinct
<1>7. LooseBut(h.next, h.prev, o, {x})
  BY <1>2, <1>4, <1>6, CutLoose, SMTT(20)
<1>8. \A y \in Node :
        /\ o[y] = IF y = x THEN NULL ELSE own[y]
        /\ r[y] = IF own[y] = own[x] /\ rk[y] > rk[x] THEN rk[y] - 1 ELSE rk[y]
  BY <1>3, <1>6 DEF OwnCut, RankCut
<1>9. ASSUME NEW d, NEW s, NEW m \in Lists, Holds(s, m, d, own, rk)
      PROVE  Holds(IF m = own[x] THEN RemoveAt(s, rk[x]) ELSE s, m, d, o, r)
  <2>1. RemoveAt(s, rk[x]) = Without(s, rk[x], rk[x])
    BY DEF RemoveAt, Without
  <2> QED
    BY <1>4, <1>9, <2>1, CutHolds
<1>10. o \in Owners /\ r \in Ranks
  BY <1>5 DEF Placed
<1> HIDE DEF o, r
<1> QED
  BY <1>2, <1>5, <1>7, <1>8, <1>9, <1>10 DEF Removed

\* Links of a node of no list may be reset.
LEMMA DeadDoes ==
  ASSUME NEW nx, NEW pv, NEW own, NEW rk, Placed(nx, pv, own, rk),
         NEW x \in Items, own[x] = NULL, LooseBut(nx, pv, own, {x}),
         NEW h, h = Dead([next |-> nx, prev |-> pv], x)
  PROVE  Placed(h.next, h.prev, own, rk) /\ Loose(h.next, h.prev, own)
<1>1. x \in Node /\ nx \in Link /\ pv \in Link
  BY NodeFacts DEF Placed
<1>2. h.next = [nx EXCEPT ![x] = NULL] /\ h.prev = [pv EXCEPT ![x] = NULL]
  <2> DEFINE g == [[next |-> nx, prev |-> pv] EXCEPT !.next[x] = NULL]
  <2>1. g = [next |-> [nx EXCEPT ![x] = NULL], prev |-> pv]
    OBVIOUS
  <2>2. h = [g EXCEPT !.prev[x] = NULL]
    BY DEF Dead
  <2> HIDE DEF g
  <2> QED
    BY <2>1, <2>2
<1>3. h.next \in Link /\ h.prev \in Link
  BY <1>1, <1>2 DEF Link
<1>4. \A y \in Node : /\ h.next[y] = IF y = x THEN NULL ELSE nx[y]
                      /\ h.prev[y] = IF y = x THEN NULL ELSE pv[y]
  BY <1>1, <1>2 DEF Link
<1>5. EndsPlaced(h.next, h.prev, own, rk)
  BY <1>4, EndFacts DEF Placed, EndsPlaced
<1>6. Forward(h.next, own, rk)
  BY <1>4 DEF Placed, Forward
<1>7. Backward(h.prev, own, rk)
  BY <1>4 DEF Placed, Backward
<1>8. Loose(h.next, h.prev, own)
  BY <1>4 DEF LooseBut, Loose
<1> QED
  BY <1>3, <1>5, <1>6, <1>7, <1>8 DEF Placed
LEMMA SpliceDoes ==
  ASSUME NEW nx, NEW pv, NEW own, NEW rk, Placed(nx, pv, own, rk), Loose(nx, pv, own),
         NEW f \in Items, own[f] # NULL, NEW last \in Node, own[last] = own[f],
         rk[f] < rk[last], NEW b \in Node, own[b] # NULL, rk[b] > 0,
         own[b] = own[f] => rk[b] < rk[f] \/ rk[b] >= rk[last],
         NEW h, h = list_splice([next |-> nx, prev |-> pv], b, f, last)
  PROVE  /\ Spliced(h, f, pv[last], b, own, rk) /\ rk[pv[last]] = rk[last] - 1
         /\ pv[last] \in Items /\ own[pv[last]] = own[f]
<1> DEFINE z   == pv[last]
           rc  == RankCut(own, rk, f, z)
           oc  == OwnCut(own, rk, f, z)
           S   == Part(own, rk, f, z)
           sr  == RankPart(own, rk, f, z)
           nxc == [nx EXCEPT ![pv[f]] = nx[z]]
           pvc == [pv EXCEPT ![nx[z]] = pv[f]]
           o   == OwnPaste(oc, S, b)
           r   == RankPaste(oc, rc, S, sr, z, b)
<1>1. /\ rk \in Ranks /\ own[f] \in Lists /\ NULL \notin Lists /\ Items \subseteq Node
      /\ (\A y \in Node : rk[y] \in Nat) /\ rk[f] > 0 /\ own[last] # NULL
      /\ Top(own[f], rk) \in Nat
  <2>1. own[f] \in Lists /\ Items \subseteq Node /\ NULL \notin Lists
    BY NodeFacts DEF Placed, Owners
  <2>2. rk[f] > 0
    BY <2>1, Between
  <2> QED
    BY <2>1, <2>2, EndFacts DEF Placed, Ranks, Top
<1>2. z \in Node /\ own[z] = own[f] /\ rk[z] = rk[last] - 1
  BY <1>1, Neighbours DEF IsAt
<1>3. z \in Items /\ rk[f] <= rk[z]
  <2>1. rk[f] <= rk[z]
    BY <1>1, <1>2
  <2>2. rk[last] <= Top(own[f], rk)
    BY <1>1 DEF Placed, Bounded, Top
  <2>3. rk[z] \in 1..(Top(own[f], rk) - 1)
    BY <1>1, <1>2, <2>1, <2>2
  <2> QED
    BY <1>1, <1>2, <2>1, <2>3, Between
<1>4. Placed(nxc, pvc, oc, rc)
  BY <1>2, <1>3, CutPlaced
<1>5. Segment(nxc, pvc, oc, S, sr, f, z)
  BY <1>2, <1>3, CutSegment
<1>6. LooseBut(nxc, pvc, oc, S)
  BY <1>2, <1>3, CutLoose
<1>7. \A y \in Node : y \in S <=> own[y] = own[f] /\ rk[f] <= rk[y] /\ rk[y] <= rk[z]
  BY DEF Part
<1>8. b \notin S /\ b # f
  BY <1>1, <1>2, <1>3, <1>7
<1>9. oc[b] = own[b] /\ oc[b] # NULL
  BY <1>8 DEF OwnCut
<1>10. rc[b] > 0
  BY <1>1, <1>2, <1>3, <1>7, <1>8 DEF RankCut
<1>11. h = PasteOf(nxc, pvc, b, f, z)
  BY <1>8, SpliceIs DEF CutOf
<1> HIDE DEF nxc, pvc, oc, rc, S, sr, z
<1>12. h.next = [nxc EXCEPT ![z] = b, ![pvc[b]] = f]
       /\ h.prev = [pvc EXCEPT ![f] = pvc[b], ![b] = z]
  <2> DEFINE N == [nxc EXCEPT ![z] = b, ![pvc[b]] = f]
             P == [pvc EXCEPT ![f] = pvc[b], ![b] = z]
  <2>1. h = [next |-> N, prev |-> P]
    BY <1>11 DEF PasteOf
  <2> HIDE DEF N, P
  <2>2. h.next = N /\ h.prev = P
    BY <2>1
  <2> QED
    BY <2>2 DEF N, P
<1>13. Placed(h.next, h.prev, o, r)
  BY <1>4, <1>5, <1>9, <1>10, <1>12, PastePlaced
<1>14. Loose(h.next, h.prev, o)
  BY <1>4, <1>5, <1>6, <1>9, <1>10, <1>12, PasteLoose
<1>15. /\ \A y \in Node : oc[y] = IF y \in S THEN NULL ELSE own[y]
       /\ \A y \in Node : y \in S => sr[y] = rk[y] - rk[f]
       /\ z \in S /\ own[b] # NULL /\ own[b] = oc[b]
  BY <1>1, <1>2, <1>3, <1>7, <1>9 DEF oc, sr, S, OwnCut, RankPart
<1>16. ASSUME NEW y \in Node
       PROVE  /\ o[y] = IF y \in S THEN own[b] ELSE own[y]
              /\ r[y] = IF y \in S THEN rc[b] + (rk[y] - rk[f])
                        ELSE IF own[y] = own[b] /\ rc[y] >= rc[b]
                          THEN rc[y] + (rk[z] - rk[f]) + 1
                        ELSE rc[y]
  <2>1. o[y] = IF y \in S THEN oc[b] ELSE oc[y]
    BY DEF OwnPaste
  <2>2. r[y] = IF y \in S THEN rc[b] + sr[y]
               ELSE IF oc[y] = oc[b] /\ rc[y] >= rc[b] THEN rc[y] + sr[z] + 1 ELSE rc[y]
    BY DEF RankPaste
  <2> HIDE DEF o, r
  <2> QED
    BY <1>2, <1>15, <2>1, <2>2
<1> HIDE DEF o, r
<1>17. ASSUME NEW d \in [Items -> Int], NEW s, NEW t, NEW m \in Lists,
              Holds(s, own[f], d, own, rk), Holds(t, m, d, own, rk)
       PROVE  Holds(LET t1 == IF m = own[f] THEN Without(s, rk[f], rk[z]) ELSE t
                    IN  IF m = own[b] THEN With(t1, rc[b], SubSeq(s, rk[f], rk[z]))
                        ELSE t1, m, d, o, r)
  <2> DEFINE t1 == IF m = own[f] THEN Without(s, rk[f], rk[z]) ELSE t
             w  == SubSeq(s, rk[f], rk[z])
  <2>1. m = own[f] => s = t
    BY <1>17, HoldsOne
  <2>2. Holds(IF m = own[f] THEN Without(t, rk[f], rk[z]) ELSE t, m, d, oc, rc)
    BY <1>2, <1>3, <1>17, CutHolds DEF oc, rc
  <2>3. Holds(t1, m, d, oc, rc)
    BY <2>1, <2>2
  <2>4. /\ w \in Seq(Int) /\ Len(w) = rk[z] - rk[f] + 1
        /\ \A k \in 1..(rk[z] - rk[f] + 1) : w[k] = s[rk[f] + k - 1]
    <3>1. s \in Seq(Int) /\ Len(s) = Top(own[f], rk) - 1
      BY <1>17 DEF Holds
    <3>2. rk[z] \in 1..(Top(own[z], rk) - 1)
      BY <1>1, <1>2, <1>3, Between
    <3>3. /\ rk[f] \in Int /\ rk[z] \in Int /\ 1 <= rk[f] /\ rk[f] <= rk[z] + 1
          /\ rk[z] <= Len(s)
      BY <1>1, <1>2, <1>3, <3>1, <3>2
    <3> QED
      BY ONLY <3>1, <3>3, SubIs
  <2>5. Len(w) = sr[z] + 1
    BY <1>2, <1>15, <2>4
  <2>6. ASSUME NEW y \in S PROVE w[sr[y] + 1] = d[y]
    <3>1. /\ y \in Items /\ own[y] = own[f] /\ rk[f] <= rk[y] /\ rk[y] <= rk[z]
          /\ rk[y] \in Nat /\ rk[f] \in Nat /\ rk[z] \in Nat
      BY <1>1, <1>2, <1>5, <1>7 DEF Segment
    <3>2. s[rk[y]] = d[y]
      BY <1>17, <3>1 DEF Holds
    <3>3. /\ sr[y] + 1 = rk[y] - rk[f] + 1 /\ rk[y] - rk[f] + 1 \in 1..(rk[z] - rk[f] + 1)
          /\ rk[f] + (rk[y] - rk[f] + 1) - 1 = rk[y]
      BY <1>1, <1>15, <3>1
    <3> QED
      BY <2>4, <3>2, <3>3
  <2> HIDE DEF t1, w
  <2>7. Holds(IF m = oc[b] THEN With(t1, rc[b], w) ELSE t1, m, d, o, r)
    BY <1>4, <1>5, <1>9, <1>10, <2>3, <2>4, <2>5, <2>6, PasteHolds DEF o, r
  <2>8. Holds(IF m = own[b] THEN With(t1, rc[b], w) ELSE t1, m, d, o, r)
    BY <1>9, <2>7
  <2> QED
    BY <2>8 DEF t1, w
<1>18. o \in Owners /\ r \in Ranks
  BY <1>13 DEF Placed
<1> QED
  BY <1>2, <1>3, <1>13, <1>14, <1>16, <1>17, <1>18 DEF Spliced, z, rc, S
-------------------------------------------------------------------------------
(***************************************************************************)
(* Sorting.  Two sorted sequences are the same when, for every v, as many  *)
(* of the one as of the other are less than v; and Sorted keeps how many.  *)
(***************************************************************************)
Below(s, v) == Cardinality({k \in 1..Len(s) : s[k] < v})
BelowIn(l, d, own, v) == Cardinality({x \in Items : own[x] = l /\ d[x] < v})
Rises(s) == \A i, j \in 1..Len(s) : i <= j => s[i] <= s[j]

LEMMA Upto ==
  ASSUME NEW k \in Nat
  PROVE  IsFiniteSet(1..k) /\ Cardinality(1..k) = k
BY FS_Interval

LEMMA SortedOne ==
  ASSUME NEW s \in Seq(Int), NEW t \in Seq(Int), Len(s) = Len(t), Rises(s), Rises(t),
         \A v \in Int : Below(s, v) = Below(t, v)
  PROVE  s = t
<1>1. ASSUME NEW u \in Seq(Int), NEW w \in Seq(Int), Len(u) = Len(w), Rises(u), Rises(w),
             \A v \in Int : Below(u, v) = Below(w, v),
             NEW k \in 1..Len(u)
      PROVE  ~(u[k] < w[k])
  <2> SUFFICES ASSUME u[k] < w[k] PROVE FALSE
    OBVIOUS
  <2> DEFINE v == w[k]
             A == {j \in 1..Len(u) : u[j] < v}
             B == {j \in 1..Len(w) : w[j] < v}
  <2>1. k \in 1..Len(w) /\ v \in Int /\ u[k] \in Int /\ Len(u) \in Nat
        /\ \A j \in 1..Len(u) : u[j] \in Int /\ w[j] \in Int
    BY <1>1
  <2>2. 1..k \subseteq A
    <3>1. \A j \in 1..k : j \in 1..Len(u) /\ u[j] <= u[k]
      BY <1>1, <2>1 DEF Rises
    <3>2. \A j \in 1..k : u[j] < v
      BY <2>1, <3>1, SMTT(20)
    <3> QED
      BY <3>1, <3>2
  <2>3. B \subseteq 1..(k - 1)
    <3>1. \A j \in 1..Len(w) : j >= k => w[k] <= w[j]
      BY <1>1, <2>1 DEF Rises
    <3>2. \A j \in 1..Len(w) : w[j] < v => j < k
      BY <1>1, <2>1, <3>1
    <3> QED
      BY <1>1, <2>1, <3>2
  <2>4. A \subseteq 1..Len(u)
    OBVIOUS
  <2> HIDE DEF A, B
  <2>5. IsFiniteSet(A) /\ k <= Cardinality(A)
    <3>1. k \in Nat /\ Len(u) \in Nat
      BY <2>1
    <3>2. IsFiniteSet(A)
      BY <2>4, <3>1, Upto, FS_Subset
    <3> QED
      BY <2>2, <3>1, <3>2, Upto, FS_Subset
  <2>6. Cardinality(B) <= k - 1
    <3>1. k - 1 \in Nat
      BY <2>1
    <3>2. IsFiniteSet(1..(k - 1)) /\ Cardinality(1..(k - 1)) = k - 1
      BY <3>1, Upto
    <3> QED
      BY ONLY <2>3, <3>2, FS_Subset, ZenonT(30)
  <2>7. Cardinality(A) = Cardinality(B)
    BY <1>1, <2>1 DEF Below, A, B
  <2>8. Cardinality(A) \in Nat
    BY <2>5, FS_CardinalityType
  <2> QED
    BY <2>1, <2>5, <2>6, <2>7, <2>8
<1>2. ASSUME NEW k \in 1..Len(s) PROVE s[k] = t[k]
  <2>1. ~(s[k] < t[k])
    BY <1>1, <1>2
  <2>2. ~(t[k] < s[k])
    <3>1. k \in 1..Len(t) /\ \A v \in Int : Below(t, v) = Below(s, v)
      BY <1>2
    <3> QED
      BY <1>1, <3>1
  <2>3. s[k] \in Int /\ t[k] \in Int
    BY <1>2
  <2> QED
    BY <2>1, <2>2, <2>3
<1>3. s \in Seq(Int) /\ t \in Seq(Int) /\ Len(s) = Len(t)
  OBVIOUS
<1>4. \A k \in 1..Len(s) : s[k] = t[k]
  BY <1>2
<1> QED
  BY ONLY <1>3, <1>4

Ahead(s, k) == {j \in DOMAIN s : s[j] < s[k] \/ (s[j] = s[k] /\ j <= k)}

LEMMA PlaceIs ==
  ASSUME NEW s \in Seq(Int), NEW k \in 1..Len(s)
  PROVE  /\ Place(s, k) = Cardinality(Ahead(s, k)) /\ IsFiniteSet(Ahead(s, k))
         /\ Place(s, k) \in 1..Len(s) /\ k \in Ahead(s, k)
<1>1. Ahead(s, k) \subseteq 1..Len(s) /\ k \in Ahead(s, k) /\ Len(s) \in Nat
  BY DEF Ahead
<1>2. IsFiniteSet(Ahead(s, k)) /\ Cardinality(Ahead(s, k)) <= Len(s)
  BY <1>1, Upto, FS_Subset
<1>3. Cardinality(Ahead(s, k)) \in Nat /\ Cardinality(Ahead(s, k)) # 0
  BY <1>1, <1>2, FS_CardinalityType, FS_EmptySet
<1> QED
  BY <1>1, <1>2, <1>3 DEF Place, Ahead

LEMMA PlaceLess ==
  ASSUME NEW s \in Seq(Int), NEW i \in 1..Len(s), NEW k \in 1..Len(s),
         s[i] < s[k] \/ (s[i] = s[k] /\ i < k)
  PROVE  Place(s, i) < Place(s, k)
<1>1. s[i] \in Int /\ s[k] \in Int /\ DOMAIN s = 1..Len(s) /\ \A j \in DOMAIN s : s[j] \in Int
  OBVIOUS
<1>2. Ahead(s, i) \subseteq Ahead(s, k)
  BY <1>1 DEF Ahead
<1>3. k \notin Ahead(s, i)
  BY <1>1 DEF Ahead
<1>4. /\ IsFiniteSet(Ahead(s, i)) /\ IsFiniteSet(Ahead(s, k)) /\ k \in Ahead(s, k)
      /\ Place(s, i) = Cardinality(Ahead(s, i)) /\ Place(s, k) = Cardinality(Ahead(s, k))
      /\ Place(s, i) \in Nat /\ Place(s, k) \in Nat
  <2>1. Place(s, i) = Cardinality(Ahead(s, i)) /\ IsFiniteSet(Ahead(s, i))
        /\ Place(s, i) \in 1..Len(s)
    BY PlaceIs
  <2>2. Place(s, k) = Cardinality(Ahead(s, k)) /\ IsFiniteSet(Ahead(s, k))
        /\ Place(s, k) \in 1..Len(s) /\ k \in Ahead(s, k)
    BY PlaceIs
  <2> QED
    BY <2>1, <2>2
<1>5. Ahead(s, i) # Ahead(s, k)
  BY <1>3, <1>4
<1> QED
  BY <1>2, <1>4, <1>5, FS_Subset

LEMMA PlaceOnto ==
  ASSUME NEW s \in Seq(Int)
  PROVE  /\ \A i, k \in 1..Len(s) : Place(s, i) = Place(s, k) => i = k
         /\ \A p \in 1..Len(s) : \E k \in 1..Len(s) : Place(s, k) = p
<1>1. \A i, k \in 1..Len(s) : Place(s, i) = Place(s, k) => i = k
  <2> SUFFICES ASSUME NEW i \in 1..Len(s), NEW k \in 1..Len(s), i # k
               PROVE  Place(s, i) # Place(s, k)
    OBVIOUS
  <2>1. s[i] \in Int /\ s[k] \in Int /\ i \in Nat /\ k \in Nat
    OBVIOUS
  <2>2. \/ s[i] < s[k] \/ (s[i] = s[k] /\ i < k)
        \/ s[k] < s[i] \/ (s[k] = s[i] /\ k < i)
    BY <2>1
  <2>3. Place(s, i) < Place(s, k) \/ Place(s, k) < Place(s, i)
    BY <2>2, PlaceLess
  <2>4. Place(s, i) \in 1..Len(s)
    BY PlaceIs
  <2>5. Place(s, k) \in 1..Len(s)
    BY PlaceIs
  <2> QED
    BY <2>3, <2>4, <2>5
<1> DEFINE f == [k \in 1..Len(s) |-> Place(s, k)]
<1>2. f \in Injection(1..Len(s), 1..Len(s))
  <2>1. f \in [1..Len(s) -> 1..Len(s)]
    BY PlaceIs
  <2>2. \A i, k \in 1..Len(s) : f[i] = f[k] => i = k
    BY <1>1
  <2> HIDE DEF f
  <2> QED
    BY <2>1, <2>2 DEF Injection, IsInjective
<1>3. f \in Surjection(1..Len(s), 1..Len(s))
  <2> HIDE DEF f
  <2>1. IsFiniteSet(1..Len(s))
    BY Upto
  <2> QED
    BY <1>2, <2>1, FS_Injection
<1>4. \A p \in 1..Len(s) : \E k \in 1..Len(s) : f[k] = p
  <2> HIDE DEF f
  <2> QED
    BY <1>3 DEF Surjection
<1> QED
  BY <1>1, <1>4

LEMMA SortedIs ==
  ASSUME NEW s \in Seq(Int)
  PROVE  /\ Sorted(s) \in Seq(Int) /\ Len(Sorted(s)) = Len(s) /\ Rises(Sorted(s))
         /\ \A v \in Int : Below(Sorted(s), v) = Below(s, v)
<1> DEFINE at == [p \in 1..Len(s) |-> CHOOSE k \in 1..Len(s) : Place(s, k) = p]
           t  == [p \in 1..Len(s) |-> s[at[p]]]
<1>1. \A p \in 1..Len(s) : at[p] \in 1..Len(s) /\ Place(s, at[p]) = p
  BY PlaceOnto
<1>2. Sorted(s) = t
  <2>1. DOMAIN s = 1..Len(s)
    OBVIOUS
  <2> QED
    BY <2>1 DEF Sorted
<1>3. \A k \in 1..Len(s) : Place(s, k) \in 1..Len(s) /\ at[Place(s, k)] = k
  <2> HIDE DEF at
  <2> SUFFICES ASSUME NEW k \in 1..Len(s)
               PROVE  Place(s, k) \in 1..Len(s) /\ at[Place(s, k)] = k
    OBVIOUS
  <2>1. Place(s, k) \in 1..Len(s)
    BY PlaceIs
  <2>2. at[Place(s, k)] \in 1..Len(s) /\ Place(s, at[Place(s, k)]) = Place(s, k)
    BY <1>1, <2>1
  <2>3. \A i, j \in 1..Len(s) : Place(s, i) = Place(s, j) => i = j
    BY PlaceOnto
  <2> QED
    BY <2>1, <2>2, <2>3
<1> HIDE DEF at
<1>4. t \in Seq(Int) /\ Len(t) = Len(s) /\ \A p \in 1..Len(s) : t[p] = s[at[p]]
  <2>1. \A p \in 1..Len(s) : t[p] \in Int
    BY <1>1
  <2> QED
    BY <2>1
<1> HIDE DEF t
<1>5. Rises(t)
  <2> SUFFICES ASSUME NEW i \in 1..Len(s), NEW j \in 1..Len(s), i <= j, t[j] < t[i]
               PROVE  FALSE
    <3>1. \A i \in 1..Len(s) : t[i] \in Int
      BY <1>4
    <3> QED
      BY <1>4, <3>1 DEF Rises
  <2>1. s[at[j]] < s[at[i]]
    BY <1>4
  <2>2. j < i
    BY <1>1, <2>1, PlaceLess
  <2> QED
    BY <2>2
<1>6. ASSUME NEW v \in Int PROVE Below(t, v) = Below(s, v)
  <2> DEFINE A == {k \in 1..Len(s) : s[k] < v}
             B == {p \in 1..Len(t) : t[p] < v}
             g == [p \in B |-> at[p]]
  <2>1. g \in [B -> A]
    BY <1>1, <1>4
  <2>2. \A p, q \in B : g[p] = g[q] => p = q
    BY <1>1, <1>4
  <2>3. \A k \in A : \E p \in B : g[p] = k
    <3> SUFFICES ASSUME NEW k \in A PROVE Place(s, k) \in B /\ at[Place(s, k)] = k
      BY Zenon
    <3> QED
      BY <1>3, <1>4
  <2>4. IsFiniteSet(B)
    <3>1. B \subseteq 1..Len(t) /\ Len(t) \in Nat
      BY <1>4
    <3> HIDE DEF B
    <3> QED
      BY <3>1, Upto, FS_Subset
  <2> HIDE DEF A, B, g
  <2>5. g \in Bijection(B, A)
    BY <2>1, <2>2, <2>3 DEF Bijection, Injection, IsInjective, Surjection
  <2>6. ExistsBijection(B, A)
    BY <2>5 DEF ExistsBijection
  <2>7. Cardinality(A) = Cardinality(B)
    BY <2>4, <2>6, FS_Bijection
  <2> QED
    BY <2>7 DEF A, B, Below
<1> QED
  BY <1>2, <1>4, <1>5, <1>6

\* As many elements of a list are less than v as of what it holds.
LEMMA BelowHolds ==
  ASSUME NEW nx, NEW pv, NEW own, NEW rk, Placed(nx, pv, own, rk), NEW l \in Lists,
         NEW d \in [Items -> Int], NEW s, Holds(s, l, d, own, rk), NEW v \in Int
  PROVE  Below(s, v) = BelowIn(l, d, own, v)
<1> DEFINE A == {k \in 1..Len(s) : s[k] < v}
           B == {x \in Items : own[x] = l /\ d[x] < v}
           g == [x \in B |-> rk[x]]
<1>1. s \in Seq(Int) /\ Len(s) = Top(l, rk) - 1 /\ \A x \in Items : own[x] = l => s[rk[x]] = d[x]
  BY DEF Holds
<1>2. \A x \in B : rk[x] \in 1..Len(s)
  BY <1>1, Between, NodeFacts
<1>3. g \in [B -> A]
  BY <1>1, <1>2
<1>4. \A x, y \in B : g[x] = g[y] => x = y
  BY NodeFacts DEF Placed, Distinct
<1>5. \A k \in A : \E x \in B : g[x] = k
  <2> SUFFICES ASSUME NEW k \in A PROVE \E x \in B : g[x] = k
    OBVIOUS
  <2>1. PICK x \in Items : own[x] = l /\ rk[x] = k
    BY <1>1, ItemRank DEF IsAt
  <2>2. x \in B
    BY <1>1, <2>1
  <2> QED
    BY <2>1, <2>2
<1>6. IsFiniteSet(B)
  <2>1. B \subseteq Items
    OBVIOUS
  <2> HIDE DEF B
  <2> QED
    BY <2>1, ListAssumption, FS_Subset
<1> HIDE DEF A, B, g
<1>7. g \in Bijection(B, A)
  BY <1>3, <1>4, <1>5 DEF Bijection, Injection, IsInjective, Surjection
<1>8. ExistsBijection(B, A)
  BY <1>7 DEF ExistsBijection
<1>9. Cardinality(A) = Cardinality(B)
  BY <1>6, <1>8, FS_Bijection
<1> QED
  BY <1>9 DEF A, B, Below, BelowIn
-------------------------------------------------------------------------------
(* Loops that count: what they build, and induction on the count.          *)

LEMMA Climbs ==
  ASSUME NEW m \in Nat, NEW S, 0 \in S, \A k \in 0..(m - 1) : k \in S => k + 1 \in S
  PROVE  \A k \in 0..m : k \in S
<1> DEFINE bad == {k \in 0..m : k \notin S}
<1>1. SUFFICES ASSUME bad # {} PROVE FALSE
  OBVIOUS
<1>2. PICK k \in bad : \A j \in bad : k <= j
  <2>1. bad \in SUBSET Nat
    OBVIOUS
  <2> HIDE DEF bad
  <2> QED
    BY ONLY <1>1, <2>1, HasLeast
<1>3. k \in 0..m /\ k \notin S /\ k # 0
  BY <1>2
<1>4. k - 1 \in 0..(m - 1) /\ k - 1 \notin bad /\ k = (k - 1) + 1
  BY <1>2, <1>3
<1>5. k - 1 \in S
  BY <1>4
<1> QED
  BY <1>3, <1>4, <1>5

StepOf(step, m, T) == step \in [(1..m) \X T -> T]
IterateOf(f, step, base, m, T) ==
  /\ f \in [0..m -> T] /\ f[0] = base
  /\ \A k \in 1..m : f[k] = step[<<k, f[k - 1]>>]

LEMMA Iterates ==
  ASSUME NEW T, NEW base \in T, NEW m \in Nat, NEW step, StepOf(step, m, T)
  PROVE  \E f : IterateOf(f, step, base, m, T)
<1> DEFINE Built(f, i) ==
             /\ f \in [0..i -> T] /\ f[0] = base
             /\ \A k \in 1..i : f[k] = step[<<k, f[k - 1]>>]
           S == {i \in Nat : \E f : Built(f, i)}
<1>1. 0 \in S
  <2>1. Built([k \in 0..0 |-> base], 0)
    OBVIOUS
  <2> QED
    BY <2>1
<1>2. ASSUME NEW i \in 0..(m - 1), i \in S PROVE i + 1 \in S
  <2>1. PICK f : Built(f, i)
    BY <1>2
  <2> DEFINE z == step[<<i + 1, f[i]>>]
             g == [k \in 0..(i + 1) |-> IF k = i + 1 THEN z ELSE f[k]]
  <2>2. f[i] \in T /\ z \in T
    <3>1. i \in 0..i /\ i + 1 \in 1..m
      OBVIOUS
    <3>2. f[i] \in T
      BY <2>1, <3>1
    <3>3. <<i + 1, f[i]>> \in (1..m) \X T
      BY <3>1, <3>2
    <3> QED
      BY <3>2, <3>3 DEF StepOf
  <2>3. z = step[<<i + 1, f[i]>>]
    OBVIOUS
  <2> HIDE DEF z
  <2>4. g \in [0..(i + 1) -> T] /\ g[0] = base
    BY <2>1, <2>2
  <2>5. ASSUME NEW k \in 1..(i + 1) PROVE g[k] = step[<<k, g[k - 1]>>]
    <3>1. CASE k = i + 1
      <4>1. g[k] = z /\ g[k - 1] = f[i]
        BY <3>1
      <4> QED
        BY <2>3, <3>1, <4>1
    <3>2. CASE k # i + 1
      <4>1. k \in 1..i /\ g[k] = f[k] /\ g[k - 1] = f[k - 1]
        BY <3>2
      <4> QED
        BY <2>1, <4>1
    <3> QED
      BY <3>1, <3>2
  <2>6. Built(g, i + 1)
    <3> HIDE DEF g
    <3> QED
      BY <2>4, <2>5
  <2>7. i + 1 \in Nat
    OBVIOUS
  <2> HIDE DEF Built
  <2> QED
    BY ONLY <2>6, <2>7
<1>3. m \in S
  <2> HIDE DEF S
  <2>1. m \in 0..m
    OBVIOUS
  <2> QED
    BY <1>1, <1>2, <2>1, Climbs
<1> QED
  BY <1>3 DEF IterateOf

Again(s, k) == k > 1 /\ s[k] = s[k - 1]
Choice(f, s, repeated) ==
  f = [k \in 0..Len(s) |->
         IF k = 0 THEN <<>>
         ELSE IF repeated = (k > 1 /\ s[k] = s[k - 1]) THEN Append(f[k - 1], s[k])
         ELSE f[k - 1]]
Chosen(s, repeated) == CHOOSE f : Choice(f, s, repeated)

LEMMA ChosenIs ==
  ASSUME NEW s \in Seq(Int), NEW repeated \in BOOLEAN
  PROVE  /\ Repeats(s, repeated) = Chosen(s, repeated)[Len(s)]
         /\ Chosen(s, repeated)[0] = <<>>
         /\ \A k \in 1..Len(s) :
              Chosen(s, repeated)[k]
                = IF repeated = Again(s, k) THEN Append(Chosen(s, repeated)[k - 1], s[k])
                  ELSE Chosen(s, repeated)[k - 1]
         /\ \A k \in 0..Len(s) : Chosen(s, repeated)[k] \in Seq(Int)
<1> DEFINE step == [p \in (1..Len(s)) \X Seq(Int) |->
                      IF repeated = Again(s, p[1]) THEN Append(p[2], s[p[1]]) ELSE p[2]]
<1>1. step \in [(1..Len(s)) \X Seq(Int) -> Seq(Int)]
  <2>1. \A p \in (1..Len(s)) \X Seq(Int) : Append(p[2], s[p[1]]) \in Seq(Int)
    OBVIOUS
  <2> QED
    BY <2>1
<1>2. \A k \in 1..Len(s), t \in Seq(Int) :
        step[<<k, t>>] = IF repeated = Again(s, k) THEN Append(t, s[k]) ELSE t
  OBVIOUS
<1> HIDE DEF step
<1>3. PICK g \in [0..Len(s) -> Seq(Int)] :
        g[0] = <<>> /\ \A k \in 1..Len(s) : g[k] = step[<<k, g[k - 1]>>]
  <2>1. <<>> \in Seq(Int) /\ Len(s) \in Nat
    OBVIOUS
  <2> QED
    <3>1. StepOf(step, Len(s), Seq(Int))
      BY <1>1 DEF StepOf
    <3>2. \E f : IterateOf(f, step, <<>>, Len(s), Seq(Int))
      BY ONLY <2>1, <3>1, Iterates
    <3> QED
      BY <3>2 DEF IterateOf
<1>4. \A k \in 1..Len(s) :
        g[k] = IF repeated = Again(s, k) THEN Append(g[k - 1], s[k]) ELSE g[k - 1]
  <2>1. \A k \in 1..Len(s) : g[k - 1] \in Seq(Int)
    OBVIOUS
  <2> QED
    BY <1>2, <1>3, <2>1
<1>5. Choice(g, s, repeated)
  <2> DEFINE h == [k \in 0..Len(s) |->
                     IF k = 0 THEN <<>>
                     ELSE IF repeated = (k > 1 /\ s[k] = s[k - 1]) THEN Append(g[k - 1], s[k])
                     ELSE g[k - 1]]
  <2>1. ASSUME NEW k \in 0..Len(s) PROVE h[k] = g[k]
    <3>1. CASE k = 0
      BY <1>3, <3>1
    <3>2. CASE k # 0
      <4>1. k \in 1..Len(s)
        BY <3>2
      <4>2. h[k] = IF repeated = Again(s, k) THEN Append(g[k - 1], s[k]) ELSE g[k - 1]
        BY <3>2 DEF Again
      <4> HIDE DEF h
      <4> QED
        BY <1>4, <4>1, <4>2
    <3> QED
      BY <3>1, <3>2
  <2>2. h = [k \in 0..Len(s) |-> h[k]] /\ g = [k \in 0..Len(s) |-> g[k]]
    OBVIOUS
  <2>3. h = g
    <3> HIDE DEF h
    <3> QED
      BY <2>1, <2>2
  <2> QED
    BY <2>3 DEF Choice
<1> DEFINE f == Chosen(s, repeated)
<1>6. Choice(f, s, repeated)
  BY <1>5 DEF Chosen
<1>7. Repeats(s, repeated) = f[Len(s)]
  BY DEF Repeats, Chosen, Choice
<1> HIDE DEF f
<1>8. f[0] = <<>>
  BY <1>6 DEF Choice
<1>9. \A k \in 1..Len(s) :
        f[k] = IF repeated = Again(s, k) THEN Append(f[k - 1], s[k]) ELSE f[k - 1]
  <2> TAKE k \in 1..Len(s)
  <2>1. k # 0 /\ k \in 0..Len(s)
    OBVIOUS
  <2>2. f[k] = IF repeated = (k > 1 /\ s[k] = s[k - 1]) THEN Append(f[k - 1], s[k])
               ELSE f[k - 1]
    BY ONLY <1>6, <2>1 DEF Choice
  <2> QED
    BY <2>2 DEF Again
<1>10. \A k \in 0..Len(s) : f[k] \in Seq(Int)
  <2> DEFINE S == {k \in 0..Len(s) : f[k] \in Seq(Int)}
  <2>1. 0 \in S
    <3>1. 0 \in 0..Len(s) /\ <<>> \in Seq(Int)
      OBVIOUS
    <3> QED
      BY <1>8, <3>1
  <2>2. ASSUME NEW k \in 0..(Len(s) - 1), k \in S PROVE k + 1 \in S
    <3>1. k + 1 \in 1..Len(s) /\ (k + 1) - 1 = k /\ f[k] \in Seq(Int) /\ s[k + 1] \in Int
      BY <2>2
    <3>2. Append(f[k], s[k + 1]) \in Seq(Int)
      BY <3>1
    <3>3. f[k + 1] \in Seq(Int)
      BY <1>9, <3>1, <3>2
    <3> QED
      BY <3>1, <3>3
  <2>3. Len(s) \in Nat
    OBVIOUS
  <2> HIDE DEF S
  <2>4. \A k \in 0..Len(s) : k \in S
    BY <2>1, <2>2, <2>3, Climbs
  <2> QED
    BY <2>4 DEF S
<1> QED
  BY <1>7, <1>8, <1>9, <1>10 DEF f

(***************************************************************************)
(* unique, m elements done: what it kept, before what is still to do.      *)
(***************************************************************************)
Kept(s, m) == Chosen(s, FALSE)[m] \o SubSeq(s, m + 1, Len(s))

LEMMA KeptIs ==
  ASSUME NEW s \in Seq(Int), NEW m \in 0..Len(s)
  PROVE  /\ Chosen(s, FALSE)[m] \in Seq(Int) /\ Kept(s, m) \in Seq(Int)
         /\ Len(Kept(s, m)) = Len(Chosen(s, FALSE)[m]) + (Len(s) - m)
         /\ m < Len(s) => Kept(s, m)[Len(Chosen(s, FALSE)[m]) + 1] = s[m + 1]
<1>1. Chosen(s, FALSE)[m] \in Seq(Int)
  BY ChosenIs
<1>2. /\ SubSeq(s, m + 1, Len(s)) \in Seq(Int) /\ Len(SubSeq(s, m + 1, Len(s))) = Len(s) - m
      /\ m < Len(s) => SubSeq(s, m + 1, Len(s))[1] = s[m + 1]
  <2>1. m + 1 \in Int /\ Len(s) \in Int /\ 1 <= m + 1 /\ m + 1 <= Len(s) + 1
        /\ Len(s) <= Len(s)
    OBVIOUS
  <2>2. /\ SubSeq(s, m + 1, Len(s)) \in Seq(Int)
        /\ Len(SubSeq(s, m + 1, Len(s))) = Len(s) - (m + 1) + 1
        /\ \A k \in 1..(Len(s) - (m + 1) + 1) :
             SubSeq(s, m + 1, Len(s))[k] = s[(m + 1) + k - 1]
    BY ONLY <2>1, s \in Seq(Int), SubIs
  <2> QED
    BY <2>1, <2>2, SMTT(20)
<1> DEFINE c == Chosen(s, FALSE)[m]
           w == SubSeq(s, m + 1, Len(s))
<1> HIDE DEF c, w
<1>3. c \o w \in Seq(Int) /\ Len(c \o w) = Len(c) + Len(w)
      /\ \A k \in 1..Len(w) : (c \o w)[Len(c) + k] = w[k]
  BY <1>1, <1>2, CatIs DEF c, w
<1>4. /\ c \in Seq(Int) /\ Len(c) \in Nat
      /\ Len(w) = Len(s) - m /\ (m < Len(s) => 1 \in 1..Len(w) /\ w[1] = s[m + 1])
  <2>1. c \in Seq(Int)
    BY <1>1 DEF c
  <2>2. Len(w) = Len(s) - m /\ (m < Len(s) => w[1] = s[m + 1])
    BY <1>2 DEF w
  <2>3. m < Len(s) => 1 \in 1..(Len(s) - m)
    OBVIOUS
  <2> QED
    BY ONLY <2>1, <2>2, <2>3
<1>5. m < Len(s) => (c \o w)[Len(c) + 1] = s[m + 1]
  BY ONLY <1>3, <1>4
<1>6. Kept(s, m) = c \o w
  BY DEF Kept, c, w
<1> QED
  BY <1>1, <1>3, <1>4, <1>5, <1>6 DEF c
LEMMA SameSeq ==
  ASSUME NEW s \in Seq(Int), NEW t \in Seq(Int), Len(s) = Len(t),
         \A k \in 1..Len(s) : s[k] = t[k]
  PROVE  s = t
OBVIOUS

LEMMA AppendIs ==
  ASSUME NEW s \in Seq(Int), NEW v \in Int
  PROVE  /\ Append(s, v) \in Seq(Int) /\ Len(Append(s, v)) = Len(s) + 1
         /\ \A k \in 1..Len(s) : Append(s, v)[k] = s[k]
         /\ Append(s, v)[Len(s) + 1] = v
OBVIOUS

LEMMA KeptAt ==
  ASSUME NEW s \in Seq(Int), NEW m \in 0..Len(s), NEW c, c = Chosen(s, FALSE)[m]
  PROVE  /\ \A k \in 1..Len(c) : Kept(s, m)[k] = c[k]
         /\ \A j \in (m + 1)..Len(s) : Kept(s, m)[Len(c) + j - m] = s[j]
<1> DEFINE w == SubSeq(s, m + 1, Len(s))
<1>1. c \in Seq(Int)
  BY KeptIs
<1>2. m + 1 \in Int /\ Len(s) \in Int /\ 1 <= m + 1 /\ m + 1 <= Len(s) + 1
      /\ Len(s) <= Len(s)
  OBVIOUS
<1>3. /\ w \in Seq(Int) /\ Len(w) = Len(s) - (m + 1) + 1
      /\ \A k \in 1..(Len(s) - (m + 1) + 1) : w[k] = s[(m + 1) + k - 1]
  BY ONLY <1>2, s \in Seq(Int), SubIs
<1>4. Kept(s, m) = c \o w
  BY DEF Kept
<1> HIDE DEF w
<1>5. /\ \A k \in 1..Len(c) : (c \o w)[k] = c[k]
      /\ \A k \in 1..Len(w) : (c \o w)[Len(c) + k] = w[k]
  BY <1>1, <1>3, CatIs
<1>6. ASSUME NEW j \in (m + 1)..Len(s) PROVE (c \o w)[Len(c) + j - m] = s[j]
  <2>1. j - m \in 1..Len(w) /\ (m + 1) + (j - m) - 1 = j /\ Len(w) = Len(s) - (m + 1) + 1
    BY <1>2, <1>3
  <2>2. w[j - m] = s[j]
    BY <1>3, <2>1
  <2>3. Len(c) + (j - m) = Len(c) + j - m
    BY <1>1
  <2> QED
    BY <1>5, <2>1, <2>2, <2>3
<1> QED
  BY <1>4, <1>5, <1>6

LEMMA KeptStep ==
  ASSUME NEW s \in Seq(Int), NEW m \in 0..(Len(s) - 1)
  PROVE  /\ Again(s, m + 1) =>
              /\ Chosen(s, FALSE)[m + 1] = Chosen(s, FALSE)[m]
              /\ RemoveAt(Kept(s, m), Len(Chosen(s, FALSE)[m]) + 1) = Kept(s, m + 1)
              /\ Chosen(s, TRUE)[m + 1] = Append(Chosen(s, TRUE)[m], s[m + 1])
         /\ ~Again(s, m + 1) =>
              /\ Len(Chosen(s, FALSE)[m + 1]) = Len(Chosen(s, FALSE)[m]) + 1
              /\ Kept(s, m + 1) = Kept(s, m)
              /\ Chosen(s, TRUE)[m + 1] = Chosen(s, TRUE)[m]
<1> DEFINE c == Chosen(s, FALSE)[m]
           d == Chosen(s, FALSE)[m + 1]
           x == Kept(s, m)
           y == Kept(s, m + 1)
<1>1. m \in 0..Len(s) /\ m + 1 \in 1..Len(s) /\ m + 1 \in 0..Len(s) /\ (m + 1) - 1 = m
      /\ s[m + 1] \in Int /\ Len(s) \in Nat
  OBVIOUS
<1>2. d = IF FALSE = Again(s, m + 1) THEN Append(c, s[m + 1]) ELSE c
  BY ONLY <1>1, s \in Seq(Int), ChosenIs
<1>3. Chosen(s, TRUE)[m + 1]
        = IF TRUE = Again(s, m + 1) THEN Append(Chosen(s, TRUE)[m], s[m + 1])
          ELSE Chosen(s, TRUE)[m]
  BY ONLY <1>1, s \in Seq(Int), ChosenIs
<1>4. Again(s, m + 1) \in BOOLEAN
  BY DEF Again
<1>5. /\ c \in Seq(Int) /\ x \in Seq(Int) /\ Len(x) = Len(c) + (Len(s) - m)
      /\ d \in Seq(Int) /\ y \in Seq(Int) /\ Len(y) = Len(d) + (Len(s) - (m + 1))
  BY <1>1, KeptIs
<1>6. /\ \A k \in 1..Len(c) : x[k] = c[k]
      /\ \A j \in (m + 1)..Len(s) : x[Len(c) + j - m] = s[j]
  BY <1>1, KeptAt, ZenonT(30)
<1>7. /\ \A k \in 1..Len(d) : y[k] = d[k]
      /\ \A j \in (m + 2)..Len(s) : y[Len(d) + j - (m + 1)] = s[j]
  <2>1. /\ \A k \in 1..Len(d) : y[k] = d[k]
        /\ \A j \in ((m + 1) + 1)..Len(s) : y[Len(d) + j - (m + 1)] = s[j]
    BY ONLY <1>1, s \in Seq(Int), KeptAt, ZenonT(30)
  <2>2. (m + 1) + 1 = m + 2
    OBVIOUS
  <2> QED
    BY <2>1, <2>2
<1> HIDE DEF c, d, x, y
<1>8. ASSUME Again(s, m + 1) PROVE d = c /\ RemoveAt(x, Len(c) + 1) = y
  <2> DEFINE a == Len(c) + 1
             z == Without(x, a, a)
  <2>1. d = c
    BY <1>2, <1>4, <1>8
  <2>2. a \in Int /\ 1 <= a /\ a <= Len(x) /\ a <= a /\ Len(c) \in Nat /\ Len(s) \in Nat
    BY <1>1, <1>5, SMTT(20)
  <2>3. RemoveAt(x, a) = z
    BY DEF RemoveAt, Without
  <2> HIDE DEF a
  <2>4. /\ z \in Seq(Int) /\ Len(z) = Len(x) - (a - a + 1)
        /\ \A k \in 1..(a - 1) : z[k] = x[k]
        /\ \A k \in (a + 1)..Len(x) : z[k - (a - a + 1)] = x[k]
    BY ONLY <1>5, <2>2, LeftOut
  <2> HIDE DEF z
  <2>5. Len(z) = Len(y)
    BY <1>1, <1>5, <2>1, <2>2, <2>4
  <2>6. ASSUME NEW k \in 1..Len(z) PROVE z[k] = y[k]
    <3>1. CASE k <= Len(c)
      <4>1. k \in 1..(a - 1) /\ k \in 1..Len(c) /\ k \in 1..Len(d)
        BY <2>1, <2>2, <3>1 DEF a
      <4> QED
        BY <1>6, <1>7, <2>1, <2>4, <4>1
    <3>2. CASE k > Len(c)
      <4> DEFINE j == k + 1 + m - Len(c)
      <4>1. k + 1 \in (a + 1)..Len(x) /\ (k + 1) - (a - a + 1) = k
        BY <1>1, <1>5, <2>2, <2>4, <3>2 DEF a
      <4>2. j \in (m + 2)..Len(s) /\ j \in (m + 1)..Len(s) /\ Len(c) + j - m = k + 1
            /\ Len(d) + j - (m + 1) = k
        <5>1. /\ Len(c) \in Nat /\ Len(s) \in Nat /\ m \in Nat /\ Len(d) = Len(c)
              /\ k \in Nat /\ k > Len(c) /\ k <= Len(c) + (Len(s) - m) - 1
          BY <1>1, <1>5, <2>1, <2>2, <2>4, <3>2 DEF a
        <5> QED
          BY ONLY <5>1
      <4> HIDE DEF j
      <4>3. z[k] = x[k + 1]
        BY <2>4, <4>1
      <4>4. x[k + 1] = s[j]
        BY <1>6, <4>2
      <4>5. y[k] = s[j]
        BY <1>7, <4>2
      <4> QED
        BY <4>3, <4>4, <4>5
    <3> QED
      BY <2>2, <3>1, <3>2
  <2>7. z = y
    BY ONLY <1>5, <2>4, <2>5, <2>6, SameSeq
  <2> QED
    BY <2>1, <2>3, <2>7 DEF a
<1>9. ASSUME ~Again(s, m + 1) PROVE Len(d) = Len(c) + 1 /\ y = x
  <2>1. d = Append(c, s[m + 1])
    BY <1>2, <1>4, <1>9
  <2>2. /\ Len(d) = Len(c) + 1 /\ d[Len(c) + 1] = s[m + 1]
        /\ \A k \in 1..Len(c) : d[k] = c[k]
    BY ONLY <1>1, <1>5, <2>1, AppendIs
  <2>3. Len(x) = Len(y) /\ Len(c) \in Nat
    BY <1>1, <1>5, <2>2
  <2>4. ASSUME NEW k \in 1..Len(x) PROVE x[k] = y[k]
    <3>1. CASE k <= Len(c)
      <4>1. k \in 1..Len(c) /\ k \in 1..Len(d)
        BY <2>2, <2>3, <3>1
      <4> QED
        BY <1>6, <1>7, <2>2, <4>1
    <3>2. CASE k = Len(c) + 1
      <4>1. m + 1 \in (m + 1)..Len(s) /\ Len(c) + (m + 1) - m = k
        BY <1>1, <2>3, <3>2
      <4>2. x[k] = s[m + 1]
        BY <1>6, <4>1
      <4>3. k \in 1..Len(d) /\ d[k] = s[m + 1]
        BY <2>2, <2>3, <3>2
      <4> QED
        BY <1>7, <4>2, <4>3
    <3>3. CASE k > Len(c) + 1
      <4> DEFINE j == k + m - Len(c)
      <4>1. j \in (m + 2)..Len(s) /\ j \in (m + 1)..Len(s) /\ Len(c) + j - m = k
            /\ Len(d) + j - (m + 1) = k
        <5>1. /\ Len(c) \in Nat /\ Len(s) \in Nat /\ m \in Nat /\ Len(d) = Len(c) + 1
              /\ k \in Nat /\ k > Len(c) + 1 /\ k <= Len(c) + (Len(s) - m)
          BY <1>1, <1>5, <2>2, <2>3, <3>3
        <5> QED
          BY ONLY <5>1
      <4> HIDE DEF j
      <4> QED
        BY <1>6, <1>7, <4>1
    <3> QED
      BY <2>3, <3>1, <3>2, <3>3
  <2> QED
    BY ONLY <1>5, <2>2, <2>3, <2>4, SameSeq
<1> QED
  BY <1>3, <1>4, <1>8, <1>9 DEF c, d, x, y

\* What is put at the end of a list is appended.
LEMMA PutLast ==
  ASSUME NEW c \in Seq(Int), NEW w \in Seq(Int), NEW v \in Int
  PROVE  /\ InsertAt(c \o w, Len(c \o w) + 1, v) = c \o Append(w, v)
         /\ c \o w \in Seq(Int) /\ c \o Append(w, v) \in Seq(Int)
<1> DEFINE s == c \o w
           a == Len(s) + 1
           z == With(s, a, <<v>>)
           w1 == Append(w, v)
           y == c \o w1
<1>1. /\ s \in Seq(Int) /\ Len(s) = Len(c) + Len(w)
      /\ \A k \in 1..Len(c) : s[k] = c[k]
      /\ \A k \in 1..Len(w) : s[Len(c) + k] = w[k]
  BY CatIs
<1>2. /\ w1 \in Seq(Int) /\ Len(w1) = Len(w) + 1 /\ w1[Len(w) + 1] = v
      /\ \A k \in 1..Len(w) : w1[k] = w[k]
  BY AppendIs
<1> HIDE DEF w1
<1>3. /\ y \in Seq(Int) /\ Len(y) = Len(c) + Len(w1)
      /\ \A k \in 1..Len(c) : y[k] = c[k]
      /\ \A k \in 1..Len(w1) : y[Len(c) + k] = w1[k]
  BY <1>2, CatIs
<1>4. InsertAt(s, a, v) = z
  BY DEF InsertAt, With
<1>5. a \in Int /\ 1 <= a /\ a <= Len(s) + 1 /\ <<v>> \in Seq(Int) /\ Len(<<v>>) = 1
      /\ <<v>>[1] = v
  BY <1>1
<1> HIDE DEF s, a, y
<1>6. /\ z \in Seq(Int) /\ Len(z) = Len(s) + Len(<<v>>)
      /\ \A k \in 1..(a - 1) : z[k] = s[k]
      /\ \A k \in 1..Len(<<v>>) : z[a + k - 1] = <<v>>[k]
  BY ONLY <1>1, <1>5, PutIn, ZenonT(30)
<1> HIDE DEF z
<1>7. /\ Len(z) = Len(c) + Len(w) + 1 /\ Len(y) = Len(c) + Len(w) + 1
      /\ a = Len(c) + Len(w) + 1 /\ Len(c) \in Nat /\ Len(w) \in Nat
  <2>1. Len(c) \in Nat /\ Len(w) \in Nat
    OBVIOUS
  <2>2. a = Len(s) + 1
    BY DEF a
  <2> QED
    BY ONLY <1>1, <1>2, <1>3, <1>5, <1>6, <2>1, <2>2
<1>8. z[a] = v
  <2>1. 1 \in 1..Len(<<v>>) /\ a + 1 - 1 = a
    BY <1>5
  <2> QED
    BY ONLY <1>5, <1>6, <2>1
<1>9. ASSUME NEW k \in 1..Len(z) PROVE z[k] = y[k]
  <2>1. CASE k <= Len(c)
    <3>1. k \in 1..(a - 1) /\ k \in 1..Len(c)
      BY <1>7, <2>1
    <3> QED
      BY <1>1, <1>3, <1>6, <3>1
  <2>2. CASE k > Len(c) /\ k <= Len(c) + Len(w)
    <3> DEFINE i == k - Len(c)
    <3>1. k \in 1..(a - 1) /\ i \in 1..Len(w) /\ i \in 1..Len(w1) /\ Len(c) + i = k
      BY <1>2, <1>7, <2>2
    <3> HIDE DEF i
    <3>2. z[k] = s[k]
      BY <1>6, <3>1
    <3>3. s[k] = w[i]
      BY <1>1, <3>1
    <3>4. y[k] = w1[i]
      BY <1>3, <3>1
    <3> QED
      BY <1>2, <3>1, <3>2, <3>3, <3>4
  <2>3. CASE k = Len(c) + Len(w) + 1
    <3>1. k = a /\ Len(w) + 1 \in 1..Len(w1) /\ Len(c) + (Len(w) + 1) = k
      BY <1>2, <1>7, <2>3
    <3>2. y[Len(c) + (Len(w) + 1)] = v
      BY <1>2, <1>3, <3>1
    <3> QED
      BY <1>8, <3>1, <3>2
  <2> QED
    BY <1>7, <2>1, <2>2, <2>3
<1>10. z = y
  BY ONLY <1>3, <1>6, <1>7, <1>9, SameSeq
<1> QED
  BY <1>1, <1>3, <1>4, <1>10 DEF s, a, y, w1
-------------------------------------------------------------------------------
(* What list_max and list_min find.                                        *)

LEMMA TopType ==
  ASSUME NEW nx, NEW pv, NEW own, NEW rk, Placed(nx, pv, own, rk), NEW l \in Lists
  PROVE  Top(l, rk) \in Nat
BY EndFacts DEF Placed, Ranks, Top

LEMMA OnlyOneAt ==
  ASSUME NEW nx, NEW pv, NEW own, NEW rk, Placed(nx, pv, own, rk), NEW l \in Lists,
         NEW r, NEW x, NEW y, IsAt(x, l, r, own, rk), IsAt(y, l, r, own, rk)
  PROVE  x = y
BY NodeFacts DEF Placed, Distinct, IsAt

-------------------------------------------------------------------------------
(* list_max and list_min: the first of the elements with the best key.     *)

BestWalk(f, l, better) ==
  f = [k \in 0..MaxIndex |->
         IF k = 0 THEN list_begin(l)
         ELSE IF <<f[k - 1], get_list_elem_via_index(l, k)>> \in better
                THEN get_list_elem_via_index(l, k)
         ELSE f[k - 1]]

LEMMA BestWalkExists ==
  ASSUME NEW own, NEW rk, Placed(next, prev, own, rk), NEW l \in Lists, NEW better
  PROVE  \E f : BestWalk(f, l, better)
<1> DEFINE step == [p \in (1..MaxIndex) \X Node |->
                      IF <<p[2], get_list_elem_via_index(l, p[1])>> \in better
                        THEN get_list_elem_via_index(l, p[1]) ELSE p[2]]
<1>1. \A k \in Nat : get_list_elem_via_index(l, k) \in Node
  BY ElementIs DEF IsAt
<1>2. list_begin(l) \in Node /\ MaxIndex \in Nat
  BY EmptyIs, IndexType DEF IsAt
<1>3. StepOf(step, MaxIndex, Node)
  <2>1. \A p \in (1..MaxIndex) \X Node :
          p[2] \in Node /\ get_list_elem_via_index(l, p[1]) \in Node
    BY <1>1, <1>2
  <2> QED
    BY <2>1 DEF StepOf
<1>4. \A k \in 1..MaxIndex, x \in Node :
        step[<<k, x>>] = IF <<x, get_list_elem_via_index(l, k)>> \in better
                           THEN get_list_elem_via_index(l, k) ELSE x
  OBVIOUS
<1> HIDE DEF step
<1>5. PICK g : IterateOf(g, step, list_begin(l), MaxIndex, Node)
  BY ONLY <1>2, <1>3, Iterates
<1>6. /\ g \in [0..MaxIndex -> Node] /\ g[0] = list_begin(l)
      /\ \A k \in 1..MaxIndex : g[k] = step[<<k, g[k - 1]>>]
  BY <1>5 DEF IterateOf
<1> DEFINE h == [k \in 0..MaxIndex |->
                   IF k = 0 THEN list_begin(l)
                   ELSE IF <<g[k - 1], get_list_elem_via_index(l, k)>> \in better
                          THEN get_list_elem_via_index(l, k)
                   ELSE g[k - 1]]
<1>7. ASSUME NEW k \in 0..MaxIndex PROVE h[k] = g[k]
  <2>1. CASE k = 0
    BY <1>6, <2>1
  <2>2. CASE k # 0
    <3>1. k \in 1..MaxIndex /\ k - 1 \in 0..MaxIndex
      BY <1>2, <2>2
    <3>2. g[k - 1] \in Node
      BY <1>6, <3>1
    <3>3. h[k] = IF <<g[k - 1], get_list_elem_via_index(l, k)>> \in better
                   THEN get_list_elem_via_index(l, k) ELSE g[k - 1]
      BY <2>2
    <3> HIDE DEF h
    <3> QED
      BY <1>4, <1>6, <3>1, <3>2, <3>3
  <2> QED
    BY <2>1, <2>2
<1>8. h = [k \in 0..MaxIndex |-> h[k]] /\ g = [k \in 0..MaxIndex |-> g[k]]
  BY <1>6
<1>9. h = g
  <2> HIDE DEF h
  <2> QED
    BY <1>7, <1>8
<1> QED
  BY <1>9 DEF BestWalk

LEMMA BestIs ==
  ASSUME NEW own, NEW rk, Placed(next, prev, own, rk), NEW l \in Lists, Top(l, rk) # 1,
         NEW key \in [Items -> Int], NEW better \in SUBSET (Items \X Items),
         \A x, y \in Items : <<x, y>> \in better <=> key[x] < key[y]
  PROVE  LET x == Best(l, better)
         IN  /\ x \in Items /\ own[x] = l
             /\ \A y \in Items : own[y] = l => key[y] <= key[x]
                                               /\ (rk[y] < rk[x] => key[y] < key[x])
<1> DEFINE f == CHOOSE g : BestWalk(g, l, better)
<1>1. BestWalk(f, l, better)
  BY BestWalkExists
<1>2. Best(l, better) = f[MaxIndex]
  BY DEF Best, BestWalk
<1> HIDE DEF f
<1>3. MaxIndex \in Nat /\ Top(l, rk) \in Nat /\ Top(l, rk) > 1 /\ Top(l, rk) <= MaxIndex
  BY Fits, IndexType, TopType
<1>4. f[0] = list_begin(l)
  BY <1>1, <1>3 DEF BestWalk
<1>5. \A k \in 1..MaxIndex :
        f[k] = IF <<f[k - 1], get_list_elem_via_index(l, k)>> \in better
                 THEN get_list_elem_via_index(l, k) ELSE f[k - 1]
  <2> TAKE k \in 1..MaxIndex
  <2>1. k # 0 /\ k \in 0..MaxIndex
    OBVIOUS
  <2> QED
    BY ONLY <1>1, <2>1 DEF BestWalk
<1>6. \A y \in Items : own[y] = l => rk[y] \in 1..(Top(l, rk) - 1)
  BY Between, NodeFacts
<1> DEFINE Good(x, k) ==
             /\ x \in Items /\ own[x] = l /\ rk[x] <= k + 1
             /\ \A y \in Items : own[y] = l /\ rk[y] <= k + 1
                  => key[y] <= key[x] /\ (rk[y] < rk[x] => key[y] < key[x])
           S == {k \in 0..MaxIndex : Good(f[k], k)}
<1>7. 0 \in S
  <2>1. f[0] \in Items /\ own[f[0]] = l /\ rk[f[0]] = 1
    BY <1>3, <1>4, EmptyIs, Between, NodeFacts DEF IsAt
  <2>2. \A y \in Items : own[y] = l /\ rk[y] <= 1 => y = f[0]
    BY <1>3, <1>6, <2>1, NodeFacts DEF Placed, Distinct
  <2>3. key[f[0]] \in Int
    BY <2>1
  <2> QED
    BY <1>3, <2>1, <2>2, <2>3
<1>8. ASSUME NEW k \in 0..(MaxIndex - 1), k \in S PROVE k + 1 \in S
  <2> DEFINE x == f[k]
             w == get_list_elem_via_index(l, k + 1)
  <2>1. k \in Nat /\ k + 1 \in 1..MaxIndex /\ (k + 1) - 1 = k /\ k + 1 \in Nat
    BY <1>3
  <2>2. Good(x, k)
    BY <1>8
  <2>3. f[k + 1] = IF <<x, w>> \in better THEN w ELSE x
    BY <1>5, <2>1
  <2>4. IsAt(w, l, Least(k + 2, Top(l, rk)), own, rk)
    <3>1. (k + 1) + 1 = k + 2
      BY <2>1
    <3> QED
      BY <2>1, <3>1, ElementIs
  <2> HIDE DEF x, w
  <2>5. Good(f[k + 1], k + 1)
    <3>1. CASE k + 2 < Top(l, rk)
      <4>1. w \in Items /\ own[w] = l /\ rk[w] = k + 2
        <5>1. IsAt(w, l, k + 2, own, rk)
          BY <1>3, <2>1, <2>4, <3>1 DEF Least
        <5>2. w \in Node /\ own[w] = l /\ own[w] # NULL /\ rk[w] = k + 2
          BY <5>1, NodeFacts DEF IsAt
        <5>3. w \in Items <=> rk[w] \in 1..(Top(own[w], rk) - 1)
          BY <5>2, Between
        <5> QED
          BY <1>3, <2>1, <3>1, <5>2, <5>3
      <4>2. \A y \in Items : own[y] = l /\ rk[y] <= (k + 1) + 1 => rk[y] <= k + 1 \/ y = w
        BY <1>6, <2>1, <4>1, NodeFacts DEF Placed, Distinct
      <4>3. \A y \in Items : key[y] \in Int
        OBVIOUS
      <4>4. <<x, w>> \in better <=> key[x] < key[w]
        BY <2>2, <4>1
      <4>5. \A y \in Items : own[y] = l => rk[y] \in Nat
        BY <1>6
      <4> QED
        BY <2>1, <2>2, <2>3, <4>1, <4>2, <4>3, <4>4, <4>5
    <3>2. CASE ~(k + 2 < Top(l, rk))
      <4>1. w \notin Items
        <5>1. IsAt(w, l, Top(l, rk), own, rk)
          BY <1>3, <2>1, <2>4, <3>2 DEF Least
        <5> QED
          BY <1>3, <1>6, <5>1 DEF IsAt
      <4>2. f[k + 1] = x
        BY <2>3, <4>1
      <4>3. \A y \in Items : own[y] = l => rk[y] \in Nat /\ rk[y] <= k + 1
        BY <1>3, <1>6, <2>1, <3>2
      <4> QED
        BY <2>1, <2>2, <4>2, <4>3
    <3> QED
      BY <3>1, <3>2
  <2> HIDE DEF Good
  <2> QED
    BY <2>1, <2>5
<1>9. MaxIndex \in S
  <2> HIDE DEF S
  <2>1. MaxIndex \in 0..MaxIndex
    BY <1>3
  <2> QED
    BY ONLY <1>3, <1>7, <1>8, <2>1, Climbs
<1>10. Good(f[MaxIndex], MaxIndex)
  BY <1>9
<1>11. \A y \in Items : own[y] = l => rk[y] <= MaxIndex + 1
  BY <1>3, <1>6
<1> QED
  BY <1>2, <1>10, <1>11

\* So Extremes says of them what is expected.
LEMMA ExtremesAre ==
  ASSUME NEW own, NEW rk, Placed(next, prev, own, rk), NEW l \in Lists, ~list_empty(l),
         data \in [Items -> Int]
  PROVE  Extremes(l)
<1> DEFINE s == Contents(l)
           more == {p \in Items \X Items : list_less(p[1], p[2])}
           less == {p \in Items \X Items : list_less(p[2], p[1])}
           minus == [x \in Items |-> 0 - data[x]]
           x == list_max(l)
           y == list_min(l)
           place(z) == CHOOSE k \in DOMAIN s : get_list_elem_via_index(l, k - 1) = z
<1>1. Top(l, rk) # 1
  BY EmptyIs
<1>2. /\ x \in Items /\ own[x] = l
      /\ \A z \in Items : own[z] = l => data[z] <= data[x]
                                        /\ (rk[z] < rk[x] => data[z] < data[x])
  <2>1. \A v, w \in Items : <<v, w>> \in more <=> data[v] < data[w]
    BY DEF list_less
  <2>2. more \in SUBSET (Items \X Items)
    OBVIOUS
  <2>3. x = Best(l, more)
    BY DEF list_max
  <2> HIDE DEF more, x
  <2> QED
    BY <1>1, <2>1, <2>2, <2>3, BestIs
<1>3. /\ y \in Items /\ own[y] = l
      /\ \A z \in Items : own[z] = l => data[z] >= data[y]
                                        /\ (rk[z] < rk[y] => data[z] > data[y])
  <2>1. \A v \in Items : data[v] \in Int /\ minus[v] = 0 - data[v]
    OBVIOUS
  <2>2. \A v, w \in Items : <<v, w>> \in less <=> minus[v] < minus[w]
    BY <2>1 DEF list_less
  <2>3. less \in SUBSET (Items \X Items) /\ minus \in [Items -> Int]
    OBVIOUS
  <2>4. y = Best(l, less)
    BY DEF list_min
  <2> HIDE DEF less, y, minus
  <2>5. /\ y \in Items /\ own[y] = l
        /\ \A z \in Items : own[z] = l => minus[z] <= minus[y]
                                          /\ (rk[z] < rk[y] => minus[z] < minus[y])
    BY <1>1, <2>2, <2>3, <2>4, BestIs
  <2> QED
    BY <2>1, <2>5
<1>4. Holds(s, l, data, own, rk)
  BY ContentsHold
<1>5. s \in Seq(Int) /\ DOMAIN s = 1..(Top(l, rk) - 1) /\ Top(l, rk) \in Nat
  BY <1>4, TopType DEF Holds
<1> HIDE DEF s, x, y
<1>6. ASSUME NEW k \in DOMAIN s
      PROVE  \E z \in Items : /\ IsAt(z, l, k, own, rk) /\ s[k] = data[z]
                              /\ get_list_elem_via_index(l, k - 1) = z
  <2>1. k \in 1..(Top(l, rk) - 1)
    BY <1>5
  <2>2. PICK z \in Items : IsAt(z, l, k, own, rk)
    BY <2>1, ItemRank
  <2>3. IsAt(get_list_elem_via_index(l, k - 1), l, k, own, rk)
    <3>1. k - 1 \in Nat /\ Least((k - 1) + 1, Top(l, rk)) = k
      BY <1>5, <2>1 DEF Least
    <3> QED
      BY <3>1, ElementIs
  <2>4. get_list_elem_via_index(l, k - 1) = z
    BY <2>2, <2>3, OnlyOneAt
  <2> QED
    BY <1>4, <2>2, <2>4 DEF Holds, IsAt
<1>7. ASSUME NEW z \in Items, own[z] = l PROVE place(z) = rk[z] /\ rk[z] \in DOMAIN s
  <2>1. rk[z] \in DOMAIN s
    BY <1>5, <1>7, Between, NodeFacts
  <2>2. get_list_elem_via_index(l, rk[z] - 1) = z
    BY <1>6, <1>7, <2>1, NodeFacts DEF IsAt, Placed, Distinct
  <2>3. \A k \in DOMAIN s : get_list_elem_via_index(l, k - 1) = z => k = rk[z]
    BY <1>6 DEF IsAt
  <2> QED
    BY <2>1, <2>2, <2>3
<1>8. place(x) = rk[x] /\ place(y) = rk[y] /\ s[rk[x]] = data[x] /\ s[rk[y]] = data[y]
  BY <1>2, <1>3, <1>4, <1>7 DEF Holds
<1>9. ASSUME NEW k \in DOMAIN s
      PROVE  /\ s[k] <= data[x] /\ (k < rk[x] => s[k] < data[x])
             /\ s[k] >= data[y] /\ (k < rk[y] => s[k] > data[y])
  BY <1>2, <1>3, <1>6 DEF IsAt
<1> QED
  BY <1>8, <1>9 DEF Extremes, s, x, y
-------------------------------------------------------------------------------
(***************************************************************************)
(* The inductive invariant.  Between commands and in the loops of sort,    *)
(* unique and shuffle the heap is placed; a reverse half done is a placed  *)
(* heap with the links of the nodes behind e turned around.                *)
(***************************************************************************)
Shape(own, rk) == Placed(next, prev, own, rk) /\ Loose(next, prev, own)

\* What is said of the lists not in S, they hold.
AsToldBut(S, own, rk) ==
  \A l \in Lists : l \notin S /\ want[l] # NULL => Holds(want[l], l, data, own, rk)

\* The list being sorted still has the values it is to have in the end.
Goal(own, rk) ==
  /\ want[L] \in Seq(Int) /\ Len(want[L]) = Top(L, rk) - 1 /\ Rises(want[L])
  /\ \A v \in Int : Below(want[L], v) = BelowIn(L, data, own, v)

\* Before e a pass has found n runs; a single one is sorted.
RunInv(own, rk) ==
  /\ L \in Lists /\ e \in Node /\ own[e] = L /\ 0 < rk[e]
  /\ n < rk[e] /\ (n = 0 => rk[e] = 1) /\ (n = 1 => InOrder(L, 1, rk[e], data, own, rk))
  /\ AsToldBut({L}, own, rk) /\ Goal(own, rk)

\* Nothing between the edge and a0 is greater than what follows up to b1.
MergedFirst(own, rk) ==
  \A x, y \in Items :
    own[x] = L /\ own[y] = L /\ rk[edge] < rk[x] /\ rk[x] < rk[a0]
    /\ rk[a0] <= rk[y] /\ rk[y] < rk[b1] => data[x] <= data[y]

MergeInv(own, rk) ==
  /\ L \in Lists /\ {edge, a0, a1b0, b1} \subseteq Node
  /\ own[edge] = L /\ own[a0] = L /\ own[a1b0] = L /\ own[b1] = L
  /\ rk[edge] < rk[a0] /\ rk[a0] <= rk[a1b0] /\ rk[a1b0] <= rk[b1]
  /\ 1 <= n /\ n < rk[b1] /\ (n = 1 => rk[edge] = 0)
  /\ InOrder(L, rk[edge] + 1, rk[a0], data, own, rk)
  /\ InOrder(L, rk[a0], rk[a1b0], data, own, rk)
  /\ InOrder(L, rk[a1b0], rk[b1], data, own, rk)
  /\ MergedFirst(own, rk)
  /\ AsToldBut({L}, own, rk) /\ Goal(own, rk)

\* unique has done the first m elements of s; e is the last of those it kept.
UniqueAt(s, m, c, own, rk) ==
  /\ s \in Seq(Int) /\ m \in 1..Len(s) /\ c \in Seq(Int)
  /\ data[e] = s[m] /\ Len(Chosen(s, FALSE)[m]) = rk[e]
  /\ Holds(Kept(s, m), L, data, own, rk) /\ want[L] = Repeats(s, FALSE)
  /\ dup # NULL => /\ want[dup] = c \o Repeats(s, TRUE)
                   /\ Holds(c \o Chosen(s, TRUE)[m], dup, data, own, rk)
UniqueInv(own, rk) ==
  /\ L \in Lists /\ e \in Items /\ own[e] = L /\ AsToldBut({L, dup}, own, rk)
  /\ dup = L => want[L] = NULL
  /\ dup # L => \E s, m, c : UniqueAt(s, m, c, own, rk)

\* The nodes a reverse has turned, and the links as they were.
Turned(x, own, rk) == own[x] = L /\ 0 < rk[x] /\ rk[x] < rk[e]
NextWas(own, rk) == [x \in Node |-> IF Turned(x, own, rk) THEN prev[x] ELSE next[x]]
PrevWas(own, rk) == [x \in Node |-> IF Turned(x, own, rk) THEN next[x] ELSE prev[x]]
ReverseInv(own, rk) ==
  /\ L \in Lists /\ e \in Node /\ own[e] = L /\ 0 < rk[e] /\ Top(L, rk) # 1
  /\ Placed(NextWas(own, rk), PrevWas(own, rk), own, rk)
  /\ Loose(NextWas(own, rk), PrevWas(own, rk), own)
  /\ AsToldBut({L}, own, rk)
  /\ \E s : Holds(s, L, data, own, rk) /\ want[L] = Reverse(s)

At(own, rk) ==
  /\ pc \notin {"reverse", "corrupt"} => Shape(own, rk)
  /\ pc = "command" => AsToldBut({}, own, rk)
  /\ pc = "reverse" => ReverseInv(own, rk)
  /\ pc = "run"     => RunInv(own, rk)
  /\ pc = "merge"   => MergeInv(own, rk)
  /\ pc = "unique"  => UniqueInv(own, rk)
  /\ pc = "shuffle" => L \in Lists /\ AsToldBut({}, own, rk)

\* want is a function of the lists.
WantOK == want = [l \in Lists |-> want[l]]
Inv == TypeOK /\ WantOK /\ \E own \in Owners, rk \in Ranks : At(own, rk)

LEMMA DataInt == ASSUME TypeOK PROVE data \in [Items -> Int]
<1>1. \A x \in Items : data[x] \in Int
  <2>1. Values \cup {0} \subseteq Int
    BY ListAssumption
  <2> QED
    BY <2>1 DEF TypeOK
<1>2. data = [x \in Items |-> data[x]]
  BY DEF TypeOK
<1> QED
  BY <1>1, <1>2

LEMMA InitInv == ASSUME Init PROVE Inv
<1> DEFINE own == [x \in Node |-> IF \E l \in Lists : x = head(l) \/ x = tail(l)
                                    THEN CHOOSE l \in Lists : x = head(l) \/ x = tail(l)
                                    ELSE NULL]
           rk  == [x \in Node |-> IF \E l \in Lists : x = tail(l) THEN 1 ELSE 0]
<1>1. \A l \in Lists : own[head(l)] = l /\ own[tail(l)] = l
  BY EndFacts, EndsDiffer
<1>2. \A l \in Lists : rk[head(l)] = 0 /\ rk[tail(l)] = 1
  BY EndFacts, EndsDiffer
<1>3. own \in Owners /\ rk \in Ranks
  BY DEF Owners, Ranks
<1>4. \A x \in Node : own[x] # NULL => \E l \in Lists : x = head(l) \/ x = tail(l)
  OBVIOUS
<1> HIDE DEF own, rk
<1>5. \A l \in Lists : /\ next[head(l)] = tail(l) /\ prev[tail(l)] = head(l)
                       /\ prev[head(l)] = NULL /\ next[tail(l)] = NULL
  <2> TAKE l \in Lists
  <2>1. head(l) \in Node /\ tail(l) \in Node
    BY EndFacts
  <2>2. next[head(l)] = tail(l)
    <3>1. (CHOOSE k \in Lists : head(l) = head(k)) = l
      BY EndsDiffer
    <3> QED
      BY <2>1, <3>1 DEF Init
  <2>3. prev[tail(l)] = head(l)
    <3>1. (CHOOSE k \in Lists : tail(l) = tail(k)) = l
      BY EndsDiffer
    <3> QED
      BY <2>1, <3>1 DEF Init
  <2>4. ~(\E k \in Lists : head(l) = tail(k)) /\ ~(\E k \in Lists : tail(l) = head(k))
    BY EndsDiffer
  <2> QED
    BY <2>1, <2>2, <2>3, <2>4 DEF Init
<1>6. next \in Link /\ prev \in Link
  <2>1. \A x \in Node : next[x] \in Node \cup {NULL} /\ prev[x] \in Node \cup {NULL}
    <3> TAKE x \in Node
    <3>1. next[x] = NULL \/ \E l \in Lists : x = head(l)
      BY DEF Init
    <3>2. prev[x] = NULL \/ \E l \in Lists : x = tail(l)
      BY DEF Init
    <3> QED
      BY <1>5, <3>1, <3>2, EndFacts
  <2>2. next = [x \in Node |-> next[x]] /\ prev = [x \in Node |-> prev[x]]
    BY DEF Init
  <2> HIDE DEF Node
  <2> QED
    BY <2>1, <2>2 DEF Link
<1>7. Placed(next, prev, own, rk)
  <2>1. EndsPlaced(next, prev, own, rk)
    BY <1>1, <1>2, <1>5 DEF EndsPlaced
  <2>2. Bounded(own, rk)
    BY <1>1, <1>2, <1>4 DEF Bounded
  <2>3. Distinct(own, rk)
    BY <1>1, <1>2, <1>4 DEF Distinct
  <2>4. Forward(next, own, rk)
    BY <1>1, <1>2, <1>4, <1>5, EndFacts DEF Forward
  <2>5. Backward(prev, own, rk)
    BY <1>1, <1>2, <1>4, <1>5, EndFacts DEF Backward
  <2> QED
    BY <1>3, <1>6, <2>1, <2>2, <2>3, <2>4, <2>5 DEF Placed
<1>8. Loose(next, prev, own)
  <2>1. \A x \in Node : own[x] = NULL => ~ \E l \in Lists : x = head(l) \/ x = tail(l)
    BY <1>1, NodeFacts
  <2> QED
    BY <2>1 DEF Loose, Init
<1>9. AsToldBut({}, own, rk)
  <2> SUFFICES ASSUME NEW l \in Lists PROVE Holds(<<>>, l, data, own, rk)
    BY DEF AsToldBut, Init
  <2>1. Top(l, rk) = 1
    BY <1>2 DEF Top
  <2>2. \A x \in Items : own[x] # l
    BY <1>4, EndFacts, NodeFacts
  <2> QED
    BY <2>1, <2>2 DEF Holds
<1>10. TypeOK
  <2>1. next \in [Node -> Node \cup {NULL}] /\ prev \in [Node -> Node \cup {NULL}]
    BY <1>6 DEF Link
  <2>2. data \in [Items -> Values \cup {0}] /\ n \in 0..MaxIndex
    BY IndexType DEF Init
  <2> QED
    BY <2>1, <2>2 DEF Init, TypeOK
<1>11. WantOK
  BY DEF WantOK, Init
<1>12. At(own, rk)
  BY <1>7, <1>8, <1>9 DEF At, Shape, Init
<1> QED
  BY <1>3, <1>10, <1>11, <1>12 DEF Inv
-------------------------------------------------------------------------------
(* Back at the prompt: the lists are placed and hold what is wanted.       *)

LEMMA CommandKept ==
  ASSUME TypeOK, pc' = "command", UNCHANGED locals \/ NoLocals,
         NEW o \in Owners, NEW r \in Ranks,
         Placed(next', prev', o, r), Loose(next', prev', o),
         data' \in [Items -> Values \cup {0}], want' = [m \in Lists |-> want'[m]],
         \A m \in Lists : want'[m] # NULL => Holds(want'[m], m, data', o, r)
  PROVE  Inv'
<1>1. TypeOK'
  <2>1. next' \in [Node -> Node \cup {NULL}] /\ prev' \in [Node -> Node \cup {NULL}]
    BY DEF Placed, Link
  <2>2. /\ L' \in Lists \cup {NULL} /\ dup' \in Lists \cup {NULL}
        /\ {e', a0', a1b0', b1', edge'} \subseteq Node \cup {NULL}
        /\ n' \in 0..MaxIndex
    <3>1. CASE UNCHANGED locals
      BY <3>1 DEF TypeOK, locals
    <3>2. CASE NoLocals
      BY <3>2, IndexType DEF NoLocals
    <3> QED
      BY <3>1, <3>2
  <2> QED
    BY <2>1, <2>2 DEF TypeOK
<1>2. WantOK'
  BY DEF WantOK
<1>3. At(o, r)'
  BY DEF At, Shape, AsToldBut
<1> QED
  BY <1>1, <1>2, <1>3 DEF Inv

\* What at the prompt the ghosts say.
LEMMA AtCommand ==
  ASSUME NEW own, NEW rk, At(own, rk), Command
  PROVE  /\ Placed(next, prev, own, rk) /\ Loose(next, prev, own)
         /\ \A l \in Lists : want[l] # NULL => Holds(want[l], l, data, own, rk)
BY DEF At, Shape, AsToldBut, Command

LEMMA UnusedOut ==
  ASSUME NEW own, NEW rk, Placed(next, prev, own, rk), Unused # {}
  PROVE  Fresh \in Items /\ own[Fresh] = NULL
<1>1. Fresh \in Items /\ next[Fresh] = NULL
  BY DEF Fresh, Unused
<1>2. Fresh \in Node
  BY <1>1, NodeFacts
<1> QED
  BY <1>1, <1>2, Between, EndFacts

LEMMA NewItemStep ==
  ASSUME TypeOK, WantOK, Command, NEW own, NEW rk, At(own, rk),
         NEW l \in Lists, NEW x, NEW i \in Nat, NEW v \in Values,
         IsAt(x, l, i + 1, own, rk), NewItem(l, x, i, v)
  PROVE  Inv'
<1> DEFINE h == list_insert(heap, x, Fresh)
           s == Contents(l)
<1>1. /\ Placed(next, prev, own, rk) /\ Loose(next, prev, own)
      /\ \A m \in Lists : want[m] # NULL => Holds(want[m], m, data, own, rk)
  BY AtCommand
<1>2. Fresh \in Items /\ own[Fresh] = NULL
  BY <1>1, UnusedOut DEF NewItem
<1>3. LooseBut(next, prev, own, {Fresh})
  BY <1>1 DEF LooseBut, Loose
<1>4. x \in Node /\ own[x] = l /\ own[x] # NULL /\ rk[x] = i + 1 /\ rk[x] > 0
  BY NodeFacts DEF IsAt
<1>5. h = list_insert([next |-> next, prev |-> prev], x, Fresh)
  BY DEF heap
<1>6. h.next = next' /\ h.prev = prev'
  BY DEF NewItem, SetHeap
<1> HIDE DEF h
<1>7. PICK o \in Owners, r \in Ranks :
        /\ Placed(next', prev', o, r) /\ Loose(next', prev', o)
        /\ \A d, t, u, m :
             /\ d \in [Items -> Int] /\ u \in Int /\ m \in Lists
             /\ Holds(t, m, d, own, rk)
             => Holds(IF m = l THEN InsertAt(t, i + 1, u) ELSE t, m,
                      [d EXCEPT ![Fresh] = u], o, r)
  <2>1. Inserted(h, Fresh, x, own, rk)
    BY ONLY <1>1, <1>2, <1>3, <1>4, <1>5, InsertDoes
  <2> QED
    BY ONLY <1>4, <1>6, <2>1, ZenonT(30) DEF Inserted
<1>8. data \in [Items -> Int] /\ v \in Int
  BY DataInt, ListAssumption
<1>9. data' = [data EXCEPT ![Fresh] = v] /\ pc' = "command" /\ UNCHANGED locals
      /\ want' = [want EXCEPT ![l] = InsertAt(s, i + 1, v)]
  BY DEF NewItem, Told, Command
<1>10. Holds(s, l, data, own, rk)
  BY <1>1, <1>8, ContentsHold
<1> HIDE DEF s
<1>11. /\ want' = [m \in Lists |-> want'[m]]
       /\ \A m \in Lists : want'[m] = IF m = l THEN InsertAt(s, i + 1, v) ELSE want[m]
  BY <1>9 DEF WantOK
<1>12. ASSUME NEW m \in Lists, want'[m] # NULL PROVE Holds(want'[m], m, data', o, r)
  <2> DEFINE t == IF m = l THEN s ELSE want[m]
  <2>1. Holds(t, m, data, own, rk)
    BY <1>1, <1>10, <1>11, <1>12
  <2>2. want'[m] = IF m = l THEN InsertAt(t, i + 1, v) ELSE t
    BY <1>11
  <2> HIDE DEF t
  <2>3. Holds(IF m = l THEN InsertAt(t, i + 1, v) ELSE t, m, [data EXCEPT ![Fresh] = v], o, r)
    BY ONLY m \in Lists, <1>7, <1>8, <2>1
  <2> QED
    BY ONLY <1>9, <2>2, <2>3
<1>13. data' \in [Items -> Values \cup {0}]
  BY <1>2, <1>9 DEF TypeOK
<1> QED
  BY ONLY TypeOK, <1>7, <1>9, <1>11, <1>12, <1>13, CommandKept

LEMMA UnlinkStep ==
  ASSUME TypeOK, WantOK, Command, NEW own, NEW rk, At(own, rk),
         NEW l \in Lists, NEW x \in Items, NEW i \in Nat,
         IsAt(x, l, i + 1, own, rk), Unlink(l, x, i)
  PROVE  Inv'
<1> DEFINE h == list_remove(heap, x)
           k == Dead(h, x)
           s == Contents(l)
<1>1. /\ Placed(next, prev, own, rk) /\ Loose(next, prev, own)
      /\ \A m \in Lists : want[m] # NULL => Holds(want[m], m, data, own, rk)
  BY AtCommand
<1>2. own[x] = l /\ own[x] # NULL /\ rk[x] = i + 1
  BY NodeFacts DEF IsAt
<1>3. h = list_remove([next |-> next, prev |-> prev], x)
  BY DEF heap
<1>4. k.next = next' /\ k.prev = prev'
  BY DEF Unlink, SetHeap
<1> HIDE DEF h
<1>5. PICK o \in Owners, r \in Ranks :
        /\ h = [next |-> h.next, prev |-> h.prev]
        /\ Placed(h.next, h.prev, o, r) /\ LooseBut(h.next, h.prev, o, {x})
        /\ \A y \in Node : o[y] = IF y = x THEN NULL ELSE own[y]
        /\ \A d, t, m : m \in Lists /\ Holds(t, m, d, own, rk)
             => Holds(IF m = l THEN RemoveAt(t, i + 1) ELSE t, m, d, o, r)
  <2>1. Removed(h, x, own, rk)
    BY ONLY x \in Items, <1>1, <1>2, <1>3, RemoveDoes
  <2> QED
    BY ONLY <1>2, <2>1 DEF Removed
<1>6. x \in Node /\ o[x] = NULL
  BY <1>5, NodeFacts
<1>7. k = Dead([next |-> h.next, prev |-> h.prev], x)
  BY <1>5
<1> HIDE DEF k
<1>8. Placed(next', prev', o, r) /\ Loose(next', prev', o)
  <2>1. Placed(k.next, k.prev, o, r) /\ Loose(k.next, k.prev, o)
    BY ONLY x \in Items, <1>5, <1>6, <1>7, DeadDoes
  <2> QED
    BY <1>4, <2>1
<1>9. data' = [data EXCEPT ![x] = 0] /\ pc' = "command" /\ UNCHANGED locals
      /\ want' = [want EXCEPT ![l] = RemoveAt(s, i + 1)]
  BY DEF Unlink, Told, Command
<1>10. Holds(s, l, data, own, rk)
  BY <1>1, DataInt, ContentsHold
<1> HIDE DEF s
<1>11. /\ want' = [m \in Lists |-> want'[m]]
       /\ \A m \in Lists : want'[m] = IF m = l THEN RemoveAt(s, i + 1) ELSE want[m]
  BY <1>9 DEF WantOK
<1>12. ASSUME NEW m \in Lists, want'[m] # NULL PROVE Holds(want'[m], m, data', o, r)
  <2> DEFINE t == IF m = l THEN s ELSE want[m]
  <2>1. Holds(t, m, data, own, rk)
    BY <1>1, <1>10, <1>11, <1>12
  <2>2. want'[m] = IF m = l THEN RemoveAt(t, i + 1) ELSE t
    BY <1>11
  <2> HIDE DEF t
  <2>3. Holds(want'[m], m, data, o, r)
    BY <1>5, <2>1, <2>2
  <2>4. \A y \in Items : o[y] = m => data'[y] = data[y]
    BY <1>6, <1>9, NodeFacts DEF TypeOK
  <2> QED
    BY <2>3, <2>4, HoldsFrame
<1>13. data' \in [Items -> Values \cup {0}]
  BY <1>9 DEF TypeOK
<1> QED
  BY ONLY TypeOK, <1>5, <1>8, <1>9, <1>11, <1>12, <1>13, CommandKept

\* An assertion that fails ends the program and leaves the lists alone.
LEMMA AssertionStep ==
  ASSUME Inv, Command, AssertionFails
  PROVE  Inv'
<1>1. PICK own \in Owners, rk \in Ranks : At(own, rk)
  BY DEF Inv
<1>2. At(own, rk)'
  BY <1>1 DEF At, Shape, AssertionFails, Command, links
<1>3. TypeOK' /\ WantOK'
  BY DEF Inv, TypeOK, WantOK, AssertionFails, links, locals
<1> QED
  BY <1>2, <1>3 DEF Inv
-------------------------------------------------------------------------------
(* The commands without a loop, one by one.                                *)

LEMMA AtPrompt ==
  ASSUME Inv, Command
  PROVE  /\ TypeOK /\ WantOK
         /\ \E own, rk : At(own, rk) /\ Placed(next, prev, own, rk)
BY AtCommand DEF Inv

\* Where the i-th element is, when the list has that many.
LEMMA ElementAt ==
  ASSUME NEW own, NEW rk, Placed(next, prev, own, rk), NEW l \in Lists, NEW i \in Nat,
         i <= list_size(l)
  PROVE  IsAt(get_list_elem_via_index(l, i), l, i + 1, own, rk)
<1>1. list_size(l) = Top(l, rk) - 1 /\ Top(l, rk) \in Nat
  BY SizeIs, TopType
<1>2. Least(i + 1, Top(l, rk)) = i + 1
  BY <1>1 DEF Least
<1> QED
  BY <1>2, ElementIs

LEMMA ElementItem ==
  ASSUME NEW own, NEW rk, Placed(next, prev, own, rk), NEW l \in Lists, NEW i \in Nat,
         i < list_size(l)
  PROVE  get_list_elem_via_index(l, i) \in Items
<1>1. list_size(l) = Top(l, rk) - 1 /\ Top(l, rk) \in Nat
  BY SizeIs, TopType
<1> DEFINE x == get_list_elem_via_index(l, i)
<1>2. IsAt(x, l, i + 1, own, rk)
  BY <1>1, ElementAt
<1> HIDE DEF x
<1>3. x \in Node /\ own[x] = l /\ own[x] # NULL /\ rk[x] = i + 1
  BY <1>2, NodeFacts DEF IsAt
<1>4. x \in Items <=> rk[x] \in 1..(Top(own[x], rk) - 1)
  BY <1>3, Between
<1> QED
  BY <1>1, <1>3, <1>4 DEF x

LEMMA TailAt ==
  ASSUME NEW own, NEW rk, Placed(next, prev, own, rk), NEW l \in Lists
  PROVE  IsAt(tail(l), l, list_size(l) + 1, own, rk) /\ list_size(l) \in Nat
<1>1. list_size(l) = Top(l, rk) - 1 /\ Top(l, rk) \in Nat /\ list_size(l) \in Nat
  BY SizeIs, TopType
<1>2. Top(l, rk) = list_size(l) + 1
  BY <1>1
<1> QED
  BY <1>1, <1>2, EndFacts DEF IsAt, Top, Placed, EndsPlaced

LEMMA InsertSteps ==
  ASSUME Inv, NEW l \in Lists, NEW v \in Values,
         \/ list_push_front(l, v) \/ list_push_back(l, v) \/ list_insert_ordered(l, v)
         \/ \E i \in 0..MaxIndex : list_insert_at(l, i, v)
  PROVE  Inv'
<1>1. Command
  BY DEF list_push_front, list_push_back, list_insert_ordered, list_insert_at
<1>2. PICK own, rk : At(own, rk) /\ Placed(next, prev, own, rk)
  BY <1>1, AtPrompt
<1>3. TypeOK /\ WantOK /\ 0 \in Nat /\ 0 + 1 = 1
  BY DEF Inv
<1>4. CASE list_push_front(l, v)
  <2>1. IsAt(list_begin(l), l, 1, own, rk)
    BY <1>2, EmptyIs
  <2> QED
    BY <1>1, <1>2, <1>3, <1>4, <2>1, NewItemStep DEF list_push_front
<1>5. CASE list_push_back(l, v)
  BY <1>1, <1>2, <1>3, <1>5, TailAt, NewItemStep DEF list_push_back
<1>6. ASSUME NEW i \in 0..MaxIndex, list_insert_at(l, i, v) PROVE Inv'
  <2>1. i \in Nat
    BY IndexType
  <2>2. CASE i <= list_size(l) /\ NewItem(l, get_list_elem_via_index(l, i), i, v)
    BY <1>1, <1>2, <1>3, <2>1, <2>2, ElementAt, NewItemStep
  <2>3. CASE AssertionFails
    BY <1>1, <2>3, AssertionStep
  <2> QED
    BY <1>6, <2>2, <2>3 DEF list_insert_at
<1>7. CASE list_insert_ordered(l, v)
  <2> DEFINE s == Contents(l)
             fits(k) == (k < Len(s) => v < s[k + 1]) /\ \A j \in 1..k : ~(v < s[j])
             i == CHOOSE k \in 0..Len(s) : fits(k)
  <2>1. NewItem(l, get_list_elem_via_index(l, i), i, v)
    BY <1>7 DEF list_insert_ordered
  <2>2. s \in Seq(Int) /\ Len(s) = list_size(l) /\ v \in Int
    BY <1>2, <1>3, ContentsHold, DataInt, SizeIs, ListAssumption DEF Holds
  <2> HIDE DEF s
  <2>3. \E k \in 0..Len(s) : fits(k)
    <3> DEFINE S == {k \in 0..Len(s) : k < Len(s) => v < s[k + 1]}
    <3>1. S \in SUBSET Nat /\ S # {}
      <4>1. Len(s) \in S
        BY <2>2
      <4> QED
        BY <4>1
    <3>2. PICK k \in S : \A j \in S : k <= j
      <4> HIDE DEF S
      <4> QED
        BY ONLY <3>1, HasLeast
    <3>3. ASSUME NEW j \in 1..k PROVE ~(v < s[j])
      <4>1. j - 1 \in 0..Len(s) /\ ~(k <= j - 1) /\ (j - 1) + 1 = j
        BY <2>2, <3>2
      <4>2. j - 1 \notin S
        BY <3>2, <4>1
      <4> QED
        BY <4>1, <4>2
    <3> QED
      BY <3>2, <3>3
  <2>4. i \in 0..Len(s)
    <3> HIDE DEF fits
    <3> QED
      BY <2>3
  <2> HIDE DEF i
  <2>5. i \in Nat /\ i <= list_size(l)
    BY <2>2, <2>4
  <2> QED
    BY <1>1, <1>2, <1>3, <2>1, <2>5, ElementAt, NewItemStep
<1> QED
  BY <1>4, <1>5, <1>6, <1>7

LEMMA RemoveSteps ==
  ASSUME Inv, NEW l \in Lists,
         \/ list_pop_front(l) \/ list_pop_back(l) \/ list_front_or_back(l)
         \/ \E i \in 0..MaxIndex : list_remove_at(l, i)
  PROVE  Inv'
<1>1. Command
  BY DEF list_pop_front, list_pop_back, list_front_or_back, list_remove_at
<1>2. PICK own, rk : At(own, rk) /\ Placed(next, prev, own, rk)
  BY <1>1, AtPrompt
<1>3. TypeOK /\ WantOK /\ 0 \in Nat /\ 0 + 1 = 1
  BY DEF Inv
<1>4. /\ list_size(l) = Top(l, rk) - 1 /\ Top(l, rk) \in Nat
      /\ (list_empty(l) <=> Top(l, rk) = 1)
      /\ IsAt(list_begin(l), l, 1, own, rk) /\ list_size(l) \in Nat
      /\ IsAt(tail(l), l, list_size(l) + 1, own, rk)
  BY <1>2, SizeIs, TopType, EmptyIs, TailAt
<1>5. ASSUME NEW x, NEW r \in Nat, IsAt(x, l, r, own, rk), 0 < r, r < Top(l, rk)
      PROVE  x \in Items
  <2>1. x \in Node /\ own[x] = l /\ own[x] # NULL /\ rk[x] = r
    BY <1>5, NodeFacts DEF IsAt
  <2>2. x \in Items <=> rk[x] \in 1..(Top(own[x], rk) - 1)
    BY <1>2, <2>1, Between
  <2> QED
    BY <1>4, <1>5, <2>1, <2>2
<1>6. CASE list_pop_front(l)
  <2>1. list_begin(l) \in Items
    BY <1>4, <1>5, <1>6 DEF list_pop_front
  <2> QED
    BY <1>1, <1>2, <1>3, <1>4, <1>6, <2>1, UnlinkStep DEF list_pop_front
<1>7. CASE list_pop_back(l)
  <2> DEFINE x == prev[tail(l)]
             i == list_size(l) - 1
  <2>1. i \in Nat /\ i + 1 = list_size(l) /\ Top(l, rk) = list_size(l) + 1 /\ ~list_empty(l)
    BY <1>4, <1>7 DEF list_pop_back
  <2>2. IsAt(x, l, i + 1, own, rk)
    <3>1. tail(l) \in Node /\ own[tail(l)] = l /\ own[tail(l)] # NULL
          /\ rk[tail(l)] = list_size(l) + 1
      BY <1>4, NodeFacts DEF IsAt
    <3>2. IsAt(prev[tail(l)], own[tail(l)], rk[tail(l)] - 1, own, rk)
      BY <1>2, <1>4, <3>1, Neighbours
    <3>3. rk[tail(l)] - 1 = i + 1
      BY <1>4, <3>1
    <3> QED
      BY <3>1, <3>2, <3>3
  <2>3. Unlink(l, x, i)
    BY <1>7 DEF list_pop_back
  <2> HIDE DEF x, i
  <2>4. x \in Items
    BY <1>5, <2>1, <2>2
  <2> QED
    BY <1>1, <1>2, <1>3, <2>1, <2>2, <2>3, <2>4, UnlinkStep
<1>8. CASE list_front_or_back(l)
  BY <1>1, <1>8, AssertionStep DEF list_front_or_back
<1>9. ASSUME NEW i \in 0..MaxIndex, list_remove_at(l, i) PROVE Inv'
  <2>1. i \in Nat
    BY IndexType
  <2>2. CASE i < list_size(l) /\ Unlink(l, get_list_elem_via_index(l, i), i)
    <3>1. IsAt(get_list_elem_via_index(l, i), l, i + 1, own, rk)
      BY <1>2, <1>4, <2>1, <2>2, ElementAt
    <3>2. get_list_elem_via_index(l, i) \in Items
      BY <1>2, <2>1, <2>2, ElementItem
    <3> QED
      BY <1>1, <1>2, <1>3, <2>1, <2>2, <3>1, <3>2, UnlinkStep
  <2>3. CASE AssertionFails
    BY <1>1, <2>3, AssertionStep
  <2> QED
    BY <1>9, <2>2, <2>3 DEF list_remove_at
<1> QED
  BY <1>6, <1>7, <1>8, <1>9
-------------------------------------------------------------------------------
(* Swaps, by hand and at random.                                           *)

LEMMA SwapHolds ==
  ASSUME TypeOK, WantOK, NEW own, NEW rk, Placed(next, prev, own, rk),
         \A m \in Lists : want[m] # NULL => Holds(want[m], m, data, own, rk),
         NEW l \in Lists, NEW i \in Nat, NEW j \in Nat, i < list_size(l), j < list_size(l),
         Swap(l, i, j)
  PROVE  /\ data' \in [Items -> Values \cup {0}] /\ want' = [m \in Lists |-> want'[m]]
         /\ \A m \in Lists : want'[m] # NULL => Holds(want'[m], m, data', own, rk)
<1> DEFINE x == get_list_elem_via_index(l, i)
           y == get_list_elem_via_index(l, j)
           s == Contents(l)
           t == [s EXCEPT ![i + 1] = s[j + 1], ![j + 1] = s[i + 1]]
<1>1. x \in Items /\ y \in Items
  BY ElementItem
<1>2. /\ x \in Node /\ own[x] = l /\ rk[x] = i + 1
      /\ y \in Node /\ own[y] = l /\ rk[y] = j + 1
  <2>1. i <= list_size(l) /\ j <= list_size(l)
    BY TailAt
  <2>2. IsAt(x, l, i + 1, own, rk)
    BY <2>1, ElementAt
  <2>3. IsAt(y, l, j + 1, own, rk)
    BY <2>1, ElementAt
  <2> QED
    BY <2>2, <2>3 DEF IsAt
<1>3. /\ data' = [data EXCEPT ![x] = data[y], ![y] = data[x]]
      /\ want' = [want EXCEPT ![l] = t]
  BY DEF Swap, Told
<1>4. data \in [Items -> Int] /\ Holds(s, l, data, own, rk)
  BY DataInt, ContentsHold
<1>5. list_size(l) = Top(l, rk) - 1 /\ Top(l, rk) \in Nat
  BY SizeIs, TopType
<1> HIDE DEF x, y, s
<1>6. /\ s \in Seq(Int) /\ Len(s) = list_size(l) /\ i + 1 \in 1..Len(s) /\ j + 1 \in 1..Len(s)
      /\ s[i + 1] = data[x] /\ s[j + 1] = data[y]
  <2>1. s \in Seq(Int) /\ Len(s) = list_size(l) /\ s[rk[x]] = data[x] /\ s[rk[y]] = data[y]
    BY <1>1, <1>2, <1>4, <1>5 DEF Holds
  <2>2. i + 1 \in 1..list_size(l) /\ j + 1 \in 1..list_size(l)
    BY <1>5
  <2> QED
    BY <1>2, <2>1, <2>2
<1>7. /\ t \in Seq(Int) /\ Len(t) = Len(s)
      /\ \A k \in 1..Len(s) : t[k] = IF k = j + 1 THEN s[i + 1]
                                     ELSE IF k = i + 1 THEN s[j + 1] ELSE s[k]
  BY <1>6
<1> HIDE DEF t
<1>8. \A z \in Items : data'[z] = IF z = y THEN data[x]
                                  ELSE IF z = x THEN data[y] ELSE data[z]
  BY <1>1, <1>3, <1>4
<1>9. Holds(t, l, data', own, rk)
  <2>1. ASSUME NEW z \in Items, own[z] = l PROVE t[rk[z]] = data'[z]
    <3>1. z \in Node /\ rk[z] \in 1..Len(s) /\ s[rk[z]] = data[z]
      <4>1. z \in Node /\ own[z] # NULL
        BY <2>1, NodeFacts
      <4>2. z \in Items <=> rk[z] \in 1..(Top(own[z], rk) - 1)
        BY <4>1, Between
      <4> QED
        BY <1>4, <1>5, <1>6, <2>1, <4>1, <4>2 DEF Holds
    <3>2. (rk[z] = j + 1 <=> z = y) /\ (rk[z] = i + 1 <=> z = x)
      BY <1>2, <2>1, <3>1, NodeFacts DEF Placed, Distinct
    <3> QED
      BY <1>6, <1>7, <1>8, <3>1, <3>2
  <2> QED
    BY <1>5, <1>6, <1>7, <2>1 DEF Holds
<1>10. /\ want' = [m \in Lists |-> want'[m]]
       /\ \A m \in Lists : want'[m] = IF m = l THEN t ELSE want[m]
  BY <1>3 DEF WantOK
<1>11. ASSUME NEW m \in Lists, want'[m] # NULL PROVE Holds(want'[m], m, data', own, rk)
  <2>1. CASE m = l
    BY <1>9, <1>10, <2>1
  <2>2. CASE m # l
    <3>1. Holds(want[m], m, data, own, rk)
      BY <1>10, <1>11, <2>2
    <3>2. \A z \in Items : own[z] = m => data'[z] = data[z]
      BY <1>2, <1>8, <2>2
    <3>3. want'[m] = want[m]
      BY <1>10, <2>2
    <3> QED
      BY <3>1, <3>2, <3>3, HoldsFrame
  <2> QED
    BY <2>1, <2>2
<1>12. data' \in [Items -> Values \cup {0}]
  <2>1. \A z \in Items : data[z] \in Values \cup {0}
    BY DEF TypeOK
  <2> QED
    BY <1>1, <1>3, <2>1 DEF TypeOK
<1> QED
  BY <1>10, <1>11, <1>12

LEMMA SwapStep ==
  ASSUME Inv, NEW l \in Lists, NEW i \in 0..MaxIndex, NEW j \in 0..MaxIndex,
         list_swap(l, i, j)
  PROVE  Inv'
<1>1. Command /\ TypeOK /\ WantOK /\ i \in Nat /\ j \in Nat
  BY IndexType DEF list_swap, Inv
<1>2. PICK own \in Owners, rk \in Ranks : At(own, rk)
  BY DEF Inv
<1>3. /\ Placed(next, prev, own, rk) /\ Loose(next, prev, own)
      /\ \A m \in Lists : want[m] # NULL => Holds(want[m], m, data, own, rk)
  BY <1>1, <1>2, AtCommand
<1>4. CASE /\ i < list_size(l) /\ j < list_size(l)
           /\ Swap(l, i, j) /\ UNCHANGED <<links, pc, locals>>
  <2>1. /\ data' \in [Items -> Values \cup {0}] /\ want' = [m \in Lists |-> want'[m]]
        /\ \A m \in Lists : want'[m] # NULL => Holds(want'[m], m, data', own, rk)
    BY <1>1, <1>3, <1>4, SwapHolds
  <2>2. pc' = "command" /\ UNCHANGED locals /\ next' = next /\ prev' = prev
    BY <1>1, <1>4 DEF Command, links
  <2>3. Placed(next', prev', own, rk) /\ Loose(next', prev', own)
    BY <1>3, <2>2
  <2> QED
    BY <1>1, <2>1, <2>2, <2>3, CommandKept
<1>5. CASE AssertionFails
  BY <1>1, <1>5, AssertionStep
<1>6. CASE /\ \E v \in Values :
                data' = [data EXCEPT ![get_list_elem_via_index(l, IF i < j THEN i ELSE j)] = v]
           /\ pc' = "corrupt" /\ UNCHANGED <<links, locals, want>>
  <2>1. At(own, rk)'
    BY <1>6 DEF At
  <2>2. data' \in [Items -> Values \cup {0}]
    <3>1. PICK v, z : v \in Values /\ data' = [data EXCEPT ![z] = v]
      BY <1>6
    <3> QED
      BY <1>1, <3>1 DEF TypeOK
  <2>3. TypeOK' /\ WantOK'
    BY <1>1, <1>6, <2>2 DEF TypeOK, WantOK, links, locals
  <2> QED
    BY <2>1, <2>3 DEF Inv
<1> QED
  BY <1>4, <1>5, <1>6 DEF list_swap

LEMMA ShuffleSteps ==
  ASSUME Inv, (\E l \in Lists : list_shuffle(l)) \/ ShuffleStep \/ ShuffleDone
  PROVE  Inv'
<1>1. PICK own \in Owners, rk \in Ranks : At(own, rk)
  BY DEF Inv
<1>2. TypeOK /\ WantOK
  BY DEF Inv
<1>3. ASSUME NEW l \in Lists, list_shuffle(l) PROVE Inv'
  <2>1. Command
    BY <1>3 DEF list_shuffle
  <2>2. /\ Placed(next, prev, own, rk) /\ Loose(next, prev, own)
        /\ \A m \in Lists : want[m] # NULL => Holds(want[m], m, data, own, rk)
    BY <1>1, <2>1, AtCommand
  <2>3. L' = l /\ UNCHANGED <<next, prev, data, dup, e, a0, a1b0, b1, edge, want>>
    BY <1>3 DEF list_shuffle, links
  <2>4. pc' \in {"draws", "shuffle"} /\ n' \in 0..MaxIndex
    <3>1. list_size(l) \in 0..(MaxIndex - 1) /\ MaxIndex \in Nat
      BY <2>2, SizeIs, IndexType
    <3> QED
      BY <1>3, <3>1 DEF list_shuffle
  <2>5. TypeOK' /\ WantOK'
    BY <1>2, <2>3, <2>4 DEF TypeOK, WantOK
  <2>6. At(own, rk)'
    BY <2>2, <2>3, <2>4 DEF At, Shape, AsToldBut
  <2> QED
    BY <2>5, <2>6 DEF Inv
<1>4. CASE ShuffleStep
  <2>1. pc = "shuffle" /\ pc' = "shuffle"
        /\ UNCHANGED <<next, prev, L, dup, e, a0, a1b0, b1, edge>>
    BY <1>4 DEF ShuffleStep, links
  <2>2. /\ Placed(next, prev, own, rk) /\ Loose(next, prev, own) /\ L \in Lists
        /\ \A m \in Lists : want[m] # NULL => Holds(want[m], m, data, own, rk)
    BY <1>1, <2>1 DEF At, Shape, AsToldBut
  <2>3. PICK i, j \in 0..(list_size(L) - 1) : Swap(L, i, j)
    BY <1>4 DEF ShuffleStep
  <2>4. i \in Nat /\ j \in Nat /\ i < list_size(L) /\ j < list_size(L)
    BY <2>2, TailAt
  <2>5. /\ data' \in [Items -> Values \cup {0}] /\ want' = [m \in Lists |-> want'[m]]
        /\ \A m \in Lists : want'[m] # NULL => Holds(want'[m], m, data', own, rk)
    BY <1>2, <2>2, <2>3, <2>4, SwapHolds
  <2>6. n' \in 0..MaxIndex
    BY <1>2, <1>4, IndexType DEF ShuffleStep, TypeOK
  <2>7. TypeOK' /\ WantOK'
    BY <1>2, <2>1, <2>5, <2>6 DEF TypeOK, WantOK
  <2>8. At(own, rk)'
    BY <2>1, <2>2, <2>5 DEF At, Shape, AsToldBut
  <2> QED
    BY <2>7, <2>8 DEF Inv
<1>5. CASE ShuffleDone
  <2>1. pc = "shuffle" /\ pc' = "command" /\ NoLocals
        /\ UNCHANGED <<next, prev, data, want>>
    BY <1>5 DEF ShuffleDone, Return, links
  <2>2. /\ Placed(next, prev, own, rk) /\ Loose(next, prev, own)
        /\ \A m \in Lists : want[m] # NULL => Holds(want[m], m, data, own, rk)
    BY <1>1, <2>1 DEF At, Shape, AsToldBut
  <2>3. data' \in [Items -> Values \cup {0}] /\ want' = [m \in Lists |-> want'[m]]
    BY <1>2, <2>1 DEF TypeOK, WantOK
  <2>4. Placed(next', prev', own, rk) /\ Loose(next', prev', own)
    BY <2>1, <2>2
  <2>5. \A m \in Lists : want'[m] # NULL => Holds(want'[m], m, data', own, rk)
    BY <2>1, <2>2
  <2> QED
    BY <1>2, <2>1, <2>3, <2>4, <2>5, CommandKept
<1> QED
  BY <1>3, <1>4, <1>5
-------------------------------------------------------------------------------
(* Splices: proper ones move a range, the others leave links and no more.  *)

IsHeap(h) == \E N, P \in Link : h = [next |-> N, prev |-> P]

LEMMA SetOne ==
  ASSUME NEW h, IsHeap(h), NEW y, NEW v \in Node \cup {NULL}
  PROVE  /\ IsHeap([h EXCEPT !.next[y] = v]) /\ IsHeap([h EXCEPT !.prev[y] = v])
         /\ h.next \in Link /\ h.prev \in Link
<1>1. PICK N \in Link, P \in Link : h = [next |-> N, prev |-> P]
  BY DEF IsHeap
<1>2. [N EXCEPT ![y] = v] \in Link /\ [P EXCEPT ![y] = v] \in Link
  BY DEF Link
<1>3. /\ [h EXCEPT !.next[y] = v] = [next |-> [N EXCEPT ![y] = v], prev |-> P]
      /\ [h EXCEPT !.prev[y] = v] = [next |-> N, prev |-> [P EXCEPT ![y] = v]]
      /\ h.next = N /\ h.prev = P
  BY <1>1
<1> QED
  BY <1>1, <1>2, <1>3 DEF IsHeap

LEMMA SpliceTyped ==
  ASSUME NEW h, IsHeap(h), NEW b \in Node, NEW f \in Node, NEW last \in Node,
         h.prev[last] \in Node
  PROVE  LET g == list_splice(h, b, f, last) IN g.next \in Link /\ g.prev \in Link
<1> DEFINE z  == h.prev[last]
           h1 == [h EXCEPT !.next[h.prev[f]] = h.next[z]]
           h2 == [h1 EXCEPT !.prev[h1.next[z]] = h1.prev[f]]
           h3 == [h2 EXCEPT !.prev[f] = h2.prev[b]]
           h4 == [h3 EXCEPT !.next[z] = b]
           h5 == [h4 EXCEPT !.next[h4.prev[b]] = f]
           h6 == [h5 EXCEPT !.prev[b] = z]
<1>1. list_splice(h, b, f, last) = h6
  BY DEF list_splice
<1>2. ASSUME NEW g, IsHeap(g), NEW x \in Node
      PROVE  g.next[x] \in Node \cup {NULL} /\ g.prev[x] \in Node \cup {NULL}
  <2>1. g.next \in Link /\ g.prev \in Link
    BY <1>2, SetOne
  <2> QED
    BY <2>1 DEF Link
<1> HIDE DEF z
<1>3. z \in Node /\ h.next[z] \in Node \cup {NULL}
  BY <1>2 DEF z
<1>4. IsHeap(h1)
  BY <1>3, SetOne
<1> HIDE DEF h1
<1>5. IsHeap(h2)
  <2>1. h1.prev[f] \in Node \cup {NULL}
    BY <1>2, <1>4
  <2> QED
    BY <1>4, <2>1, SetOne
<1> HIDE DEF h2
<1>6. IsHeap(h3)
  <2>1. h2.prev[b] \in Node \cup {NULL}
    BY <1>2, <1>5
  <2> QED
    BY <1>5, <2>1, SetOne
<1> HIDE DEF h3
<1>7. IsHeap(h4)
  BY <1>6, SetOne
<1> HIDE DEF h4
<1>8. IsHeap(h5)
  BY <1>7, SetOne
<1> HIDE DEF h5
<1>9. IsHeap(h6)
  BY <1>3, <1>8, SetOne
<1> QED
  BY <1>1, <1>9, SetOne

LEMMA SpliceStep ==
  ASSUME Inv, NEW to \in Lists, NEW from \in Lists, NEW i \in 0..MaxIndex,
         NEW j1 \in 0..MaxIndex, NEW j2 \in 0..MaxIndex, list_splice_at(to, i, from, j1, j2)
  PROVE  Inv'
<1> DEFINE b      == get_list_elem_via_index(to, i)
           f      == get_list_elem_via_index(from, j1)
           last   == get_list_elem_via_index(from, j2)
           proper == j1 <= j2 /\ (to = from => i \notin j1..(j2 - 1))
           s      == Contents(from)
           moved  == SubSeq(s, j1 + 1, j2)
           left   == SubSeq(s, 1, j1) \o SubSeq(s, j2 + 1, Len(s))
           k      == IF to = from /\ i >= j2 THEN i - (j2 - j1) ELSE i
           base   == IF to = from THEN left ELSE Contents(to)
           put    == SubSeq(base, 1, k) \o moved \o SubSeq(base, k + 1, Len(base))
           h      == list_splice(heap, b, f, last)
<1>1. Command /\ TypeOK /\ WantOK /\ i \in Nat /\ j1 \in Nat /\ j2 \in Nat
  <2>1. Command
    BY DEF list_splice_at
  <2>2. TypeOK /\ WantOK
    BY DEF Inv
  <2>3. i \in Nat /\ j1 \in Nat /\ j2 \in Nat
    BY IndexType
  <2> QED
    BY ONLY <2>1, <2>2, <2>3
<1>2. PICK own \in Owners, rk \in Ranks : At(own, rk)
  BY DEF Inv
<1>3. /\ Placed(next, prev, own, rk) /\ Loose(next, prev, own)
      /\ \A m \in Lists : want[m] # NULL => Holds(want[m], m, data, own, rk)
  BY <1>1, <1>2, AtCommand
<1>4. CASE AssertionFails
  BY <1>1, <1>4, AssertionStep
<1>5. CASE /\ i <= list_size(to) /\ j1 <= list_size(from) /\ j2 <= list_size(from)
           /\ f # last
           /\ is_interior(heap, f) /\ is_interior(heap, prev[last])
           /\ SetHeap(h)
           /\ pc' = IF proper THEN "command" ELSE "corrupt"
           /\ want' = IF proper THEN [want EXCEPT ![from] = left, ![to] = put] ELSE want
           /\ UNCHANGED <<data, locals>>
  <2>1. IsAt(b, to, i + 1, own, rk) /\ IsAt(f, from, j1 + 1, own, rk)
    BY <1>1, <1>3, <1>5, ElementAt
  <2>2. IsAt(last, from, j2 + 1, own, rk)
    BY <1>1, <1>3, <1>5, ElementAt
  <2>3. /\ b \in Node /\ own[b] = to /\ own[b] # NULL /\ rk[b] = i + 1
        /\ f \in Node /\ own[f] = from /\ own[f] # NULL /\ rk[f] = j1 + 1
        /\ last \in Node /\ own[last] = from /\ own[last] # NULL /\ rk[last] = j2 + 1
    BY <2>1, <2>2, NodeFacts DEF IsAt
  <2>4. h.next = next' /\ h.prev = prev' /\ next[f] # NULL /\ f # last
        /\ h = list_splice([next |-> next, prev |-> prev], b, f, last)
    BY <1>5 DEF SetHeap, is_interior, heap
  <2>5. prev[last] \in Node
    BY <1>1, <1>3, <2>3, Neighbours DEF IsAt
  <2>6. IsHeap([next |-> next, prev |-> prev])
    BY <1>3 DEF IsHeap, Placed
  <2> HIDE DEF h
  <2>7. next' \in Link /\ prev' \in Link
    <3> DEFINE g == [next |-> next, prev |-> prev]
    <3>1. g.prev[last] \in Node /\ IsHeap(g) /\ h = list_splice(g, b, f, last)
      BY <2>4, <2>5, <2>6
    <3> HIDE DEF g, b, f, last
    <3>2. h.next \in Link /\ h.prev \in Link
      BY ONLY <2>3, <3>1, SpliceTyped
    <3> QED
      BY <2>4, <3>2
  <2>8. data' = data /\ UNCHANGED locals
    BY <1>5
  <2>9. CASE ~proper
    <3>1. pc' = "corrupt" /\ want' = want
      BY <1>5, <2>9
    <3>2. At(own, rk)'
      BY <3>1 DEF At
    <3>3. TypeOK' /\ WantOK'
      BY <1>1, <2>7, <2>8, <3>1 DEF TypeOK, WantOK, locals, Link
    <3> QED
      BY <3>2, <3>3 DEF Inv
  <2>10. CASE proper
    <3>1. /\ pc' = "command" /\ want' = [want EXCEPT ![from] = left, ![to] = put]
          /\ j1 <= j2 /\ (to = from => i \notin j1..(j2 - 1))
      BY <1>5, <2>10
    <3> HIDE DEF b, f, last
    <3>2. j1 # j2
      BY <1>3, <2>3, <2>4 DEF Placed, Distinct
    <3>3. f \in Items
      <4>1. f # tail(own[f])
        BY <1>3, <2>3, <2>4, Between
      <4>2. rk[f] # 0
        BY <1>1, <2>3
      <4>3. f # head(own[f])
        BY <1>3, <2>3, <4>2, Between
      <4>4. \A l \in Lists : own[head(l)] = l /\ own[tail(l)] = l
        BY <1>3 DEF Placed, EndsPlaced
      <4> QED
        BY <2>3, <4>1, <4>3, <4>4, NodeFacts
    <3>4. /\ rk[f] < rk[last] /\ rk[b] > 0 /\ own[last] = own[f]
          /\ own[b] = own[f] => rk[b] < rk[f] \/ rk[b] >= rk[last]
      <4>1. rk[f] < rk[last] /\ rk[b] > 0
        BY <1>1, <2>3, <3>1, <3>2
      <4>2. to = from => i < j1 \/ i >= j2
        BY <1>1, <3>1
      <4>3. i < j1 => i + 1 < j1 + 1
        BY <1>1
      <4>4. i >= j2 => i + 1 >= j2 + 1
        BY <1>1
      <4> QED
        BY <2>3, <4>1, <4>2, <4>3, <4>4
    <3> DEFINE z == prev[last]
               rc == RankCut(own, rk, f, z)
    <3>5. Spliced(h, f, z, b, own, rk) /\ rk[z] = rk[last] - 1 /\ z \in Items
          /\ own[z] = own[f]
      BY ONLY <1>3, <2>3, <2>4, <3>3, <3>4, SpliceDoes
    <3>6. rc[b] = k + 1 /\ rk[z] = j2 /\ rk[f] = j1 + 1
      <4>1. rk[z] = j2
        BY <1>1, <2>3, <3>5
      <4>2. rc[b] = IF own[b] = own[f] /\ rk[b] > rk[z] THEN rk[b] - (rk[z] - rk[f] + 1)
                    ELSE rk[b]
        BY <2>3 DEF RankCut
      <4>3. (i + 1) - (j2 - (j1 + 1) + 1) = (i - (j2 - j1)) + 1 /\ (i + 1 > j2 <=> i >= j2)
        BY <1>1
      <4> HIDE DEF rc
      <4> QED
        BY <2>3, <4>1, <4>2, <4>3
    <3>7. PICK o \in Owners, r \in Ranks :
            /\ Placed(h.next, h.prev, o, r) /\ Loose(h.next, h.prev, o)
            /\ \A d, u, t, m :
                 /\ d \in [Items -> Int] /\ m \in Lists
                 /\ Holds(u, own[f], d, own, rk) /\ Holds(t, m, d, own, rk)
                 => Holds(LET t1 == IF m = own[f] THEN Without(u, rk[f], rk[z]) ELSE t
                          IN  IF m = own[b] THEN With(t1, rc[b], SubSeq(u, rk[f], rk[z]))
                              ELSE t1, m, d, o, r)
      <4> HIDE DEF z
      <4> QED
        BY ONLY <3>5 DEF Spliced
    <3> HIDE DEF rc, z
    <3>8. data \in [Items -> Int] /\ Holds(s, from, data, own, rk)
          /\ Holds(Contents(to), to, data, own, rk)
      BY <1>1, <1>3, DataInt, ContentsHold
    <3> HIDE DEF s
    <3>9. left = Without(s, j1 + 1, j2)
      <4>1. (j1 + 1) - 1 = j1
        BY <1>1
      <4> QED
        BY <4>1 DEF Without
    <3>10. put = With(base, k + 1, moved)
      <4>1. (k + 1) - 1 = k
        BY <1>1
      <4> HIDE DEF base, moved, k
      <4> QED
        BY <4>1 DEF With
    <3> HIDE DEF left, put, k
    <3>11. want' = [m \in Lists |-> want'[m]]
           /\ \A m \in Lists : want'[m] = IF m = to THEN put
                                          ELSE IF m = from THEN left ELSE want[m]
      BY <1>1, <3>1 DEF WantOK
    <3>12. ASSUME NEW m \in Lists, want'[m] # NULL PROVE Holds(want'[m], m, data', o, r)
      <4> DEFINE t == IF m = from THEN s ELSE IF m = to THEN Contents(to) ELSE want[m]
      <4>1. Holds(t, m, data, own, rk)
        BY <1>3, <3>8, <3>11, <3>12
      <4>2. m = from => t = s
        OBVIOUS
      <4>3. m = to => (IF m = from THEN left ELSE t) = base
        OBVIOUS
      <4> HIDE DEF t, base, moved
      <4> DEFINE t1 == IF m = from THEN left ELSE t
      <4>4. want'[m] = IF m = to THEN With(t1, k + 1, moved) ELSE t1
        <5>1. CASE m = to
          BY <3>10, <3>11, <4>3, <5>1
        <5>2. CASE m # to
          <6>1. m # from => t = want[m]
            BY <5>2 DEF t
          <6> QED
            BY <3>11, <5>2, <6>1
        <5> QED
          BY <5>1, <5>2
      <4>5. Holds(LET t2 == IF m = own[f] THEN Without(s, rk[f], rk[z]) ELSE t
                  IN  IF m = own[b] THEN With(t2, rc[b], SubSeq(s, rk[f], rk[z]))
                      ELSE t2, m, data, o, r)
        BY ONLY m \in Lists, <2>3, <3>7, <3>8, <4>1
      <4>6. Holds(IF m = to THEN With(t1, k + 1, moved) ELSE t1, m, data, o, r)
        BY ONLY <2>3, <3>6, <3>9, <4>5 DEF moved
      <4> QED
        BY ONLY <2>8, <4>4, <4>6
    <3>13. data' \in [Items -> Values \cup {0}] /\ Placed(next', prev', o, r)
           /\ Loose(next', prev', o)
      BY <1>1, <2>4, <2>8, <3>7 DEF TypeOK
    <3> QED
      BY ONLY <1>1, <2>8, <3>1, <3>7, <3>11, <3>12, <3>13, CommandKept
  <2> QED
    BY <2>9, <2>10
<1> QED
  BY <1>4, <1>5 DEF list_splice_at
-------------------------------------------------------------------------------
(* Reverse.                                                                *)

LEMMA ReverseStart ==
  ASSUME Inv, NEW l \in Lists, list_reverse(l)
  PROVE  Inv'
<1>1. Command /\ TypeOK /\ WantOK /\ ~list_empty(l)
  BY DEF list_reverse, Inv
<1>2. PICK own \in Owners, rk \in Ranks : At(own, rk)
  BY DEF Inv
<1>3. /\ Placed(next, prev, own, rk) /\ Loose(next, prev, own)
      /\ \A m \in Lists : want[m] # NULL => Holds(want[m], m, data, own, rk)
  BY <1>1, <1>2, AtCommand
<1>4. IsAt(list_begin(l), l, 1, own, rk) /\ Top(l, rk) # 1
  BY <1>1, <1>3, EmptyIs
<1>5. /\ L' = l /\ e' = list_begin(l) /\ pc' = "reverse"
      /\ want' = [want EXCEPT ![l] = Reverse(Contents(l))]
      /\ UNCHANGED <<next, prev, data, dup, a0, a1b0, b1, n, edge>>
  BY DEF list_reverse, Told, links
<1>6. TypeOK' /\ WantOK'
  <2>1. e' \in Node
    BY <1>4, <1>5 DEF IsAt
  <2> QED
    BY <1>1, <1>5, <2>1 DEF TypeOK, WantOK
<1>7. e' \in Node /\ own[e'] = l /\ rk[e'] = 1
  BY <1>4, <1>5 DEF IsAt
<1>8. \A x \in Node : ~Turned(x, own, rk)'
  <2>1. \A x \in Node : rk[x] \in Nat
    BY <1>2 DEF Ranks
  <2>2. \A x \in Node : ~(0 < rk[x] /\ rk[x] < 1)
    BY <2>1
  <2> QED
    BY <1>7, <2>2 DEF Turned
<1>9. NextWas(own, rk)' = next /\ PrevWas(own, rk)' = prev
  <2>1. NextWas(own, rk)' = [x \in Node |-> next[x]]
    BY <1>5, <1>8 DEF NextWas
  <2>2. PrevWas(own, rk)' = [x \in Node |-> prev[x]]
    BY <1>5, <1>8 DEF PrevWas
  <2> QED
    BY <1>3, <2>1, <2>2 DEF Placed, Link
<1>10. AsToldBut({L}, own, rk)'
  <2>1. \A m \in Lists : m # l => want'[m] = want[m]
    BY <1>1, <1>5 DEF WantOK
  <2> QED
    BY <1>3, <1>5, <2>1 DEF AsToldBut
<1>11. Holds(Contents(l), l, data, own, rk)
  BY <1>1, <1>3, DataInt, ContentsHold
<1>12. want'[l] = Reverse(Contents(l))
  BY <1>1, <1>5 DEF WantOK
<1>13. ReverseInv(own, rk)'
  <2>1. (\E s : Holds(s, L, data, own, rk) /\ want[L] = Reverse(s))'
    BY <1>5, <1>11, <1>12
  <2>2. (Top(L, rk) # 1)'
    BY <1>4, <1>5
  <2> QED
    BY <1>3, <1>5, <1>7, <1>9, <1>10, <2>1, <2>2 DEF ReverseInv
<1> QED
  BY <1>5, <1>6, <1>13 DEF Inv, At

LEMMA ReverseOn ==
  ASSUME Inv, ReverseStep
  PROVE  Inv'
<1>1. pc = "reverse" /\ pc' = "reverse" /\ e # tail(L) /\ TypeOK /\ WantOK
      /\ next' = [next EXCEPT ![e] = prev[e]] /\ prev' = [prev EXCEPT ![e] = next[e]]
      /\ e' = prev'[e]
      /\ UNCHANGED <<data, L, dup, a0, a1b0, b1, n, edge, want>>
  BY DEF ReverseStep, Inv
<1>2. PICK own \in Owners, rk \in Ranks : At(own, rk)
  BY DEF Inv
<1>3. ReverseInv(own, rk)
  BY <1>1, <1>2 DEF At
<1> DEFINE N == NextWas(own, rk)
           P == PrevWas(own, rk)
<1>4. /\ L \in Lists /\ e \in Node /\ own[e] = L /\ 0 < rk[e] /\ rk[e] \in Nat
      /\ Placed(N, P, own, rk) /\ L # NULL
  BY <1>2, <1>3, NodeFacts DEF ReverseInv, Ranks
<1>5. ~Turned(e, own, rk)
  BY <1>4 DEF Turned
<1>6. N[e] = next[e]
  BY <1>4, <1>5 DEF NextWas
<1>7. next \in Link /\ prev \in Link
  BY <1>1 DEF TypeOK, Link
<1>8. e' = next[e] /\ e' \in Node /\ own[e'] = L /\ rk[e'] = rk[e] + 1
  <2>1. e' = next[e]
    BY <1>1, <1>4, <1>7 DEF Link
  <2>2. N[e] \in Node /\ own[N[e]] = own[e] /\ rk[N[e]] = rk[e] + 1
    BY <1>1, <1>4 DEF Placed, Forward
  <2> QED
    BY <1>4, <1>6, <2>1, <2>2
<1>9. \A x \in Node : Turned(x, own, rk)' <=> Turned(x, own, rk) \/ x = e
  <2>1. \A x \in Node : rk[x] \in Nat /\ (rk[x] < rk[e] + 1 <=> rk[x] < rk[e] \/ rk[x] = rk[e])
    BY <1>2, <1>4 DEF Ranks
  <2>2. \A x \in Node : own[x] = L /\ rk[x] = rk[e] => x = e
    BY <1>4 DEF Placed, Distinct
  <2> QED
    BY <1>1, <1>4, <1>8, <2>1, <2>2 DEF Turned
<1>10. NextWas(own, rk)' = N
  <2>1. ASSUME NEW x \in Node PROVE (IF Turned(x, own, rk)' THEN prev'[x] ELSE next'[x]) = N[x]
    <3>1. CASE x = e
      BY <1>1, <1>4, <1>6, <1>7, <1>9, <3>1 DEF Link
    <3>2. CASE x # e
      BY <1>1, <1>7, <1>9, <3>2 DEF Link, NextWas
    <3> QED
      BY <3>1, <3>2
  <2> QED
    BY <2>1 DEF NextWas
<1>11. PrevWas(own, rk)' = P
  <2>1. ASSUME NEW x \in Node PROVE (IF Turned(x, own, rk)' THEN next'[x] ELSE prev'[x]) = P[x]
    <3>1. CASE x = e
      BY <1>1, <1>4, <1>5, <1>7, <1>9, <3>1 DEF Link, PrevWas
    <3>2. CASE x # e
      BY <1>1, <1>7, <1>9, <3>2 DEF Link, PrevWas
    <3> QED
      BY <3>1, <3>2
  <2> QED
    BY <2>1 DEF PrevWas
<1>12. TypeOK' /\ WantOK'
  <2>1. next' \in Link /\ prev' \in Link
    <3>1. next[e] \in Node \cup {NULL} /\ prev[e] \in Node \cup {NULL}
      BY <1>4, <1>7 DEF Link
    <3> QED
      BY <1>1, <1>7, <3>1 DEF Link
  <2> QED
    BY <1>1, <1>8, <2>1 DEF TypeOK, WantOK, Link
<1>13. ReverseInv(own, rk)'
  <2>1. Placed(NextWas(own, rk)', PrevWas(own, rk)', own, rk)
        /\ Loose(NextWas(own, rk)', PrevWas(own, rk)', own)
    BY <1>3, <1>10, <1>11 DEF ReverseInv
  <2>2. AsToldBut({L}, own, rk)'
    BY <1>1, <1>3 DEF ReverseInv, AsToldBut
  <2>3. (\E s : Holds(s, L, data, own, rk) /\ want[L] = Reverse(s))'
    BY <1>1, <1>3 DEF ReverseInv
  <2>4. (Top(L, rk) # 1)' /\ L' \in Lists /\ 0 < rk[e']
    BY <1>1, <1>3, <1>4, <1>8 DEF ReverseInv
  <2> QED
    BY <1>1, <1>8, <2>1, <2>2, <2>3, <2>4 DEF ReverseInv
<1> QED
  BY <1>1, <1>2, <1>12, <1>13 DEF Inv, At
LEMMA ReverseLast ==
  ASSUME Inv, ReverseEnds
  PROVE  Inv'
<1> DEFINE T     == tail(L)
           H     == head(L)
           first == prev[T]
           last  == next[H]
<1>1. /\ pc = "reverse" /\ pc' = "command" /\ e = T /\ TypeOK /\ WantOK /\ NoLocals
      /\ next' = [next EXCEPT ![H] = first, ![last] = prev[first]]
      /\ prev' = [prev EXCEPT ![T] = last, ![first] = next[last]]
      /\ UNCHANGED <<data, want>>
  BY DEF ReverseEnds, Return, Inv
<1>2. PICK own \in Owners, rk \in Ranks : At(own, rk)
  BY DEF Inv
<1>3. ReverseInv(own, rk)
  BY <1>1, <1>2 DEF At
<1> DEFINE N == NextWas(own, rk)
           P == PrevWas(own, rk)
           top == Top(L, rk)
           o == own
           r == [x \in Node |-> IF own[x] = L /\ x \in Items THEN top - rk[x] ELSE rk[x]]
<1>4. /\ L \in Lists /\ Placed(N, P, own, rk) /\ Loose(N, P, own) /\ L # NULL
      /\ top \in Nat /\ top # 1 /\ rk[T] = top /\ rk[H] = 0 /\ own[H] = L /\ own[T] = L
      /\ H \in Node /\ T \in Node /\ H \notin Items /\ T \notin Items
      /\ P[H] = NULL /\ N[T] = NULL /\ H # T
      /\ \A x \in Node : rk[x] \in Nat
  <2>1. L \in Lists /\ Placed(N, P, own, rk) /\ Loose(N, P, own) /\ top # 1
    BY <1>3 DEF ReverseInv
  <2> HIDE DEF N, P
  <2>2. top \in Nat /\ \A x \in Node : rk[x] \in Nat
    BY <1>2, <2>1, TopType DEF Ranks
  <2>3. rk[T] = top /\ rk[H] = 0 /\ own[H] = L /\ own[T] = L /\ P[H] = NULL /\ N[T] = NULL
    BY <2>1 DEF Placed, EndsPlaced, Top
  <2> QED
    BY <2>1, <2>2, <2>3, EndFacts, EndsDiffer, NodeFacts
<1>5. next \in Link /\ prev \in Link
  BY <1>1 DEF TypeOK, Link
<1>6. \A x \in Node : own[x] = L =>
        /\ rk[x] \in 0..top /\ (rk[x] = 0 <=> x = H) /\ (rk[x] = top <=> x = T)
        /\ (x \in Items <=> rk[x] \in 1..(top - 1))
  <2> HIDE DEF N, P
  <2> TAKE x \in Node
  <2> SUFFICES ASSUME own[x] = L
               PROVE  /\ rk[x] \in 0..top /\ (rk[x] = 0 <=> x = H) /\ (rk[x] = top <=> x = T)
                      /\ (x \in Items <=> rk[x] \in 1..(top - 1))
    OBVIOUS
  <2>1. own[x] # NULL
    BY <1>4
  <2>2. /\ rk[x] \in 0..Top(own[x], rk)
        /\ rk[x] = 0 <=> x = head(own[x])
        /\ rk[x] = Top(own[x], rk) <=> x = tail(own[x])
        /\ x \in Items <=> rk[x] \in 1..(Top(own[x], rk) - 1)
    BY ONLY x \in Node, <1>4, <2>1, Between
  <2> QED
    BY <2>2
<1> HIDE DEF T, H, top
<1>7. \A x \in Node : Turned(x, own, rk) <=> own[x] = L /\ x \in Items
  BY <1>1, <1>4, <1>6 DEF Turned
<1>8. \A x \in Node : /\ N[x] = IF own[x] = L /\ x \in Items THEN prev[x] ELSE next[x]
                      /\ P[x] = IF own[x] = L /\ x \in Items THEN next[x] ELSE prev[x]
  BY <1>7 DEF NextWas, PrevWas
<1> HIDE DEF N, P
<1>9. \A x \in Node : own[x] # NULL /\ rk[x] < Top(own[x], rk)
        => IsAt(N[x], own[x], rk[x] + 1, own, rk)
  BY <1>4, Neighbours
<1>10. \A x \in Node : own[x] # NULL /\ rk[x] > 0
        => IsAt(P[x], own[x], rk[x] - 1, own, rk)
  BY <1>4, Neighbours
<1>11. \A x \in Node : own[x] = L /\ rk[x] < top
        => N[x] \in Node /\ own[N[x]] = L /\ rk[N[x]] = rk[x] + 1
  BY <1>4, <1>9 DEF IsAt, top
<1>12. \A x \in Node : own[x] = L /\ rk[x] > 0
        => P[x] \in Node /\ own[P[x]] = L /\ rk[P[x]] = rk[x] - 1
  BY <1>4, <1>10 DEF IsAt
<1>13. /\ first \in Items /\ own[first] = L /\ rk[first] = top - 1
       /\ last \in Items /\ own[last] = L /\ rk[last] = 1
  <2>1. first = P[T] /\ last = N[H]
    BY <1>4, <1>8
  <2>2. top > 1
    BY <1>4, <1>6
  <2> HIDE DEF first, last
  <2>3. first \in Node /\ own[first] = L /\ rk[first] = top - 1
    BY <1>4, <1>12, <2>1, <2>2
  <2>4. last \in Node /\ own[last] = L /\ rk[last] = 1
    BY <1>4, <1>11, <2>1, <2>2
  <2> QED
    BY <1>4, <1>6, <2>2, <2>3, <2>4
<1> HIDE DEF first, last
<1>14. first \in Node /\ last \in Node /\ Items \subseteq Node
  BY <1>13, NodeFacts
<1>15. prev[first] = T /\ next[last] = H
  <2>1. prev[first] = N[first] /\ next[last] = P[last]
    BY <1>8, <1>13, <1>14
  <2>2. N[first] \in Node /\ own[N[first]] = L /\ rk[N[first]] = (top - 1) + 1
    BY <1>4, <1>11, <1>13, <1>14
  <2>3. P[last] \in Node /\ own[P[last]] = L /\ rk[P[last]] = 1 - 1
    BY <1>4, <1>12, <1>13, <1>14
  <2> QED
    BY <1>4, <1>6, <2>1, <2>2, <2>3
<1>16. \A x \in Node :
         /\ next'[x] = IF x = last THEN T ELSE IF x = H THEN first
                       ELSE IF own[x] = L /\ x \in Items THEN P[x] ELSE N[x]
         /\ prev'[x] = IF x = first THEN H ELSE IF x = T THEN last
                       ELSE IF own[x] = L /\ x \in Items THEN N[x] ELSE P[x]
  <2>1. H # last /\ T # first
    BY <1>4, <1>13
  <2>2. \A x \in Node : next'[x] = IF x = last THEN T ELSE IF x = H THEN first ELSE next[x]
    BY <1>1, <1>4, <1>5, <1>14, <1>15, <2>1 DEF Link
  <2>3. \A x \in Node : prev'[x] = IF x = first THEN H ELSE IF x = T THEN last ELSE prev[x]
    BY <1>1, <1>4, <1>5, <1>14, <1>15, <2>1 DEF Link
  <2> QED
    BY <1>8, <2>2, <2>3
<1>17. next' \in Link /\ prev' \in Link
  <2>1. prev[first] \in Node /\ next[last] \in Node
    BY <1>4, <1>15
  <2> QED
    BY <1>1, <1>5, <1>14, <2>1 DEF Link
<1>18. \A x \in Node : r[x] = IF own[x] = L /\ x \in Items THEN top - rk[x] ELSE rk[x]
  OBVIOUS
<1>19. r \in Ranks
  <2>1. \A x \in Node : r[x] \in Nat
    BY <1>4, <1>6, <1>18
  <2>2. r = [x \in Node |-> r[x]]
    OBVIOUS
  <2> HIDE DEF r
  <2> QED
    BY <2>1, <2>2 DEF Ranks
<1> HIDE DEF r
<1>20. \A m \in Lists : r[head(m)] = 0 /\ r[tail(m)] = rk[tail(m)] /\ rk[head(m)] = 0
                        /\ own[head(m)] = m /\ own[tail(m)] = m
  BY <1>4, <1>18, EndFacts DEF Placed, EndsPlaced
<1>21. Placed(next', prev', own, r)
  <2>1. EndsPlaced(next', prev', own, r)
    <3>1. ASSUME NEW m \in Lists PROVE prev'[head(m)] = NULL /\ next'[tail(m)] = NULL
      <4>1. /\ head(m) \in Node /\ tail(m) \in Node /\ head(m) \notin Items
            /\ tail(m) \notin Items /\ head(m) # T /\ tail(m) # H
        BY <1>4, EndFacts, EndsDiffer DEF T, H
      <4>2. P[head(m)] = NULL /\ N[tail(m)] = NULL
        BY <1>4 DEF Placed, EndsPlaced
      <4> QED
        BY <1>13, <1>16, <4>1, <4>2
    <3> QED
      BY <1>20, <3>1 DEF EndsPlaced
  <2>2. Bounded(own, r)
    <3>1. ASSUME NEW x \in Node, own[x] # NULL PROVE r[x] <= r[tail(own[x])]
      <4>1. own[x] \in Lists /\ rk[x] <= rk[tail(own[x])]
        BY <1>2, <1>4, <3>1 DEF Owners, Placed, Bounded
      <4>2. r[tail(own[x])] = rk[tail(own[x])]
        BY <1>20, <4>1
      <4>3. CASE own[x] = L /\ x \in Items
        <5>1. r[x] = top - rk[x] /\ rk[x] \in Nat /\ top \in Nat
          BY <1>4, <1>18, <4>3
        <5>2. rk[tail(own[x])] = top
          BY <1>4, <4>3 DEF T
        <5> QED
          BY <4>2, <5>1, <5>2
      <4>4. CASE ~(own[x] = L /\ x \in Items)
        BY <1>18, <4>1, <4>2, <4>4
      <4> QED
        BY <4>3, <4>4
    <3> QED
      BY <3>1 DEF Bounded
  <2>3. Distinct(own, r)
    <3>1. ASSUME NEW x \in Node, NEW y \in Node, own[x] # NULL, own[x] = own[y], r[x] = r[y]
          PROVE  x = y
      <4>1. rk[x] = rk[y] => x = y
        BY <1>4, <3>1 DEF Placed, Distinct
      <4>2. CASE own[x] # L
        BY <1>18, <3>1, <4>1, <4>2
      <4>3. CASE own[x] = L
        <5>1. /\ rk[x] \in 0..top /\ (x \in Items <=> rk[x] \in 1..(top - 1))
              /\ rk[y] \in 0..top /\ (y \in Items <=> rk[y] \in 1..(top - 1))
          BY <1>6, <3>1, <4>3
        <5>2. /\ r[x] = IF x \in Items THEN top - rk[x] ELSE rk[x]
              /\ r[y] = IF y \in Items THEN top - rk[y] ELSE rk[y]
          BY <1>18, <3>1, <4>3
        <5>3. top \in Nat /\ r[x] = r[y]
          BY <1>4, <3>1
        <5>4. rk[x] = rk[y]
          BY ONLY <5>1, <5>2, <5>3
        <5> QED
          BY <4>1, <5>4
      <4> QED
        BY <4>2, <4>3
    <3> QED
      BY <3>1 DEF Distinct
  <2>4. Forward(next', own, r)
    <3>1. ASSUME NEW x \in Node, own[x] # NULL, x # tail(own[x])
          PROVE  next'[x] \in Node /\ own[next'[x]] = own[x] /\ r[next'[x]] = r[x] + 1
      <4>1. CASE own[x] # L
        <5>1. next'[x] = N[x]
          BY <1>4, <1>13, <1>16, <4>1
        <5>2. N[x] \in Node /\ own[N[x]] = own[x] /\ rk[N[x]] = rk[x] + 1
          BY <1>4, <3>1 DEF Placed, Forward
        <5> QED
          BY <1>18, <4>1, <5>1, <5>2
      <4>2. CASE x = H
        <5>1. next'[x] = first
          BY <1>4, <1>13, <1>16, <4>2
        <5>2. r[first] = top - (top - 1) /\ r[H] = 0
          BY <1>4, <1>13, <1>14, <1>18
        <5> QED
          BY <1>4, <1>13, <1>14, <4>2, <5>1, <5>2
      <4>3. CASE x = last
        <5>1. next'[x] = T
          BY <1>16, <4>3
        <5>2. r[last] = top - 1 /\ r[T] = top
          BY <1>4, <1>13, <1>14, <1>18
        <5> QED
          BY <1>4, <1>13, <4>3, <5>1, <5>2
      <4>4. CASE own[x] = L /\ x # H /\ x # last
        <5>1. x # T
          BY <3>1, <4>4 DEF T
        <5>2. rk[x] \in 1..(top - 1) /\ x \in Items
          BY <1>4, <1>6, <4>4, <5>1
        <5>3. rk[x] # 1
          BY <1>4, <1>13, <1>14, <4>4 DEF Placed, Distinct
        <5>4. P[x] \in Node /\ own[P[x]] = L /\ rk[P[x]] = rk[x] - 1
          BY <1>12, <4>4, <5>2
        <5>5. P[x] \in Items
          BY <1>4, <1>6, <5>2, <5>3, <5>4
        <5>6. next'[x] = P[x]
          BY <1>16, <4>4, <5>2
        <5>7. r[P[x]] = top - (rk[x] - 1) /\ r[x] = top - rk[x]
          BY <1>18, <4>4, <5>2, <5>4, <5>5
        <5> QED
          BY <1>4, <4>4, <5>2, <5>4, <5>6, <5>7
      <4> QED
        BY <4>1, <4>2, <4>3, <4>4
    <3> QED
      BY <3>1 DEF Forward
  <2>5. Backward(prev', own, r)
    <3>1. ASSUME NEW x \in Node, own[x] # NULL, x # head(own[x])
          PROVE  prev'[x] \in Node /\ own[prev'[x]] = own[x] /\ r[prev'[x]] = r[x] - 1
      <4>1. CASE own[x] # L
        <5>1. prev'[x] = P[x]
          BY <1>4, <1>13, <1>16, <4>1
        <5>2. P[x] \in Node /\ own[P[x]] = own[x] /\ rk[P[x]] = rk[x] - 1
          BY <1>4, <3>1 DEF Placed, Backward
        <5> QED
          BY <1>18, <4>1, <5>1, <5>2
      <4>2. CASE x = T
        <5>1. prev'[x] = last
          BY <1>4, <1>13, <1>16, <4>2
        <5>2. r[last] = top - 1 /\ r[T] = top
          BY <1>4, <1>13, <1>14, <1>18
        <5> QED
          BY <1>4, <1>13, <1>14, <4>2, <5>1, <5>2
      <4>3. CASE x = first
        <5>1. prev'[x] = H
          BY <1>16, <4>3
        <5>2. r[first] = top - (top - 1) /\ r[H] = 0
          BY <1>4, <1>13, <1>14, <1>18
        <5> QED
          BY <1>4, <1>13, <4>3, <5>1, <5>2
      <4>4. CASE own[x] = L /\ x # T /\ x # first
        <5>1. x # H
          BY <3>1, <4>4 DEF H
        <5>2. rk[x] \in 1..(top - 1) /\ x \in Items
          BY <1>4, <1>6, <4>4, <5>1
        <5>3. rk[x] # top - 1
          BY <1>4, <1>13, <1>14, <4>4 DEF Placed, Distinct
        <5>4. N[x] \in Node /\ own[N[x]] = L /\ rk[N[x]] = rk[x] + 1
          BY <1>4, <1>11, <4>4, <5>2
        <5>5. N[x] \in Items
          BY <1>4, <1>6, <5>2, <5>3, <5>4
        <5>6. prev'[x] = N[x]
          BY <1>16, <4>4, <5>2
        <5>7. r[N[x]] = top - (rk[x] + 1) /\ r[x] = top - rk[x]
          BY <1>18, <4>4, <5>2, <5>4, <5>5
        <5> QED
          BY <1>4, <4>4, <5>2, <5>4, <5>6, <5>7
      <4> QED
        BY <4>1, <4>2, <4>3, <4>4
    <3> QED
      BY <3>1 DEF Backward
  <2> QED
    BY <1>2, <1>17, <1>19, <2>1, <2>2, <2>3, <2>4, <2>5 DEF Placed
<1>22. Loose(next', prev', own)
  <2>1. ASSUME NEW x \in Node, own[x] = NULL PROVE next'[x] = NULL /\ prev'[x] = NULL
    <3>1. N[x] = NULL /\ P[x] = NULL
      BY <1>4, <2>1 DEF Loose
    <3> QED
      BY <1>4, <1>13, <1>16, <2>1, <3>1
  <2> QED
    BY <2>1 DEF Loose
<1>23. ASSUME NEW m \in Lists, want'[m] # NULL PROVE Holds(want'[m], m, data', own, r)
  <2>1. CASE m # L
    <3>1. Holds(want[m], m, data, own, rk)
      BY <1>1, <1>3, <1>23, <2>1 DEF ReverseInv, AsToldBut
    <3>2. Top(m, r) = Top(m, rk)
      BY <1>20 DEF Top
    <3>3. \A x \in Items : own[x] = m => r[x] = rk[x] /\ data'[x] = data[x]
      BY <1>1, <1>14, <1>18, <2>1
    <3> QED
      BY <1>1, <3>1, <3>2, <3>3, HoldsFrame
  <2>2. CASE m = L
    <3>1. PICK s : Holds(s, L, data, own, rk) /\ want[L] = Reverse(s)
      BY <1>3 DEF ReverseInv
    <3>2. s \in Seq(Int) /\ Len(s) = top - 1 /\ \A x \in Items : own[x] = L => s[rk[x]] = data[x]
      BY <3>1 DEF Holds, top
    <3> DEFINE t == Reverse(s)
    <3>3. t \in Seq(Int) /\ Len(t) = top - 1 /\ \A k \in 1..(top - 1) : t[k] = s[(top - 1) - k + 1]
      BY <1>4, <3>2 DEF Reverse
    <3> HIDE DEF t
    <3>4. ASSUME NEW x \in Items, own[x] = L PROVE t[r[x]] = data[x]
      <4>1. r[x] = top - rk[x] /\ rk[x] \in 1..(top - 1)
        BY <1>6, <1>14, <1>18, <3>4
      <4>2. r[x] \in 1..(top - 1) /\ (top - 1) - r[x] + 1 = rk[x]
        BY <1>4, <4>1
      <4> QED
        BY <3>2, <3>3, <3>4, <4>2
    <3>5. Top(L, r) = top
      BY <1>4, <1>20 DEF Top, T
    <3>6. Holds(t, L, data, own, r)
      BY <3>3, <3>4, <3>5 DEF Holds
    <3> QED
      BY <1>1, <2>2, <3>1, <3>6 DEF t
  <2> QED
    BY <2>1, <2>2
<1>24. data' \in [Items -> Values \cup {0}] /\ want' = [m \in Lists |-> want'[m]]
  BY <1>1 DEF TypeOK, WantOK
<1> QED
  BY ONLY <1>1, <1>2, <1>19, <1>21, <1>22, <1>23, <1>24, CommandKept
-------------------------------------------------------------------------------
(* Sort.                                                                   *)

LEMMA SortStart ==
  ASSUME Inv, NEW l \in Lists, list_sort(l)
  PROVE  Inv'
<1> DEFINE s == Contents(l)
<1>1. Command /\ TypeOK /\ WantOK
  BY DEF list_sort, Inv
<1>2. PICK own \in Owners, rk \in Ranks : At(own, rk)
  BY DEF Inv
<1>3. /\ Placed(next, prev, own, rk) /\ Loose(next, prev, own)
      /\ \A m \in Lists : want[m] # NULL => Holds(want[m], m, data, own, rk)
  BY <1>1, <1>2, AtCommand
<1>4. IsAt(list_begin(l), l, 1, own, rk)
  BY <1>1, <1>3, EmptyIs
<1>5. /\ L' = l /\ e' = list_begin(l) /\ pc' = "run" /\ n' = 0
      /\ want' = [want EXCEPT ![l] = Sorted(s)]
      /\ UNCHANGED <<next, prev, data, dup, a0, a1b0, b1, edge>>
  BY DEF list_sort, Told, links
<1>6. e' \in Node /\ own[e'] = l /\ rk[e'] = 1
  BY <1>4, <1>5 DEF IsAt
<1>7. TypeOK' /\ WantOK'
  BY <1>1, <1>5, <1>6, IndexType DEF TypeOK, WantOK
<1>8. Holds(s, l, data, own, rk) /\ data \in [Items -> Int]
  BY <1>1, <1>3, DataInt, ContentsHold
<1>9. s \in Seq(Int) /\ Len(s) = Top(l, rk) - 1
  BY <1>8 DEF Holds
<1> HIDE DEF s
<1>10. want'[l] = Sorted(s) /\ \A m \in Lists : m # l => want'[m] = want[m]
  BY <1>1, <1>5 DEF WantOK
<1>11. Goal(own, rk)'
  <2>1. /\ Sorted(s) \in Seq(Int) /\ Len(Sorted(s)) = Top(l, rk) - 1 /\ Rises(Sorted(s))
        /\ \A v \in Int : Below(Sorted(s), v) = Below(s, v)
    BY <1>9, SortedIs
  <2>2. \A v \in Int : Below(s, v) = BelowIn(l, data, own, v)
    BY <1>3, <1>8, BelowHolds
  <2>3. \A v \in Int : Below(Sorted(s), v) = BelowIn(l, data, own, v)
    BY <2>1, <2>2
  <2> QED
    BY <1>5, <1>10, <2>1, <2>3 DEF Goal
<1>12. AsToldBut({L}, own, rk)'
  BY <1>3, <1>5, <1>10 DEF AsToldBut
<1>13. RunInv(own, rk)'
  <2>1. n' < rk[e'] /\ (n' = 0 => rk[e'] = 1) /\ ~(n' = 1) /\ 0 < rk[e']
    BY <1>5, <1>6
  <2> QED
    BY <1>5, <1>6, <1>11, <1>12, <2>1 DEF RunInv
<1> QED
  BY <1>3, <1>5, <1>7, <1>13 DEF Inv, At, Shape

\* In a run of elements none is less than the one before it.
LEMMA RunInOrder ==
  ASSUME TypeOK, NEW own, NEW rk, Placed(next, prev, own, rk), Loose(next, prev, own),
         NEW x \in Node, own[x] # NULL, x # tail(own[x]), 0 < rk[x],
         NEW w, w = find_end_of_run(x)
  PROVE  /\ w \in Node /\ own[w] = own[x] /\ rk[x] < rk[w]
         /\ InOrder(own[x], rk[x], rk[w], data, own, rk)
<1>1. RunsTo(next[x], w, own, rk)
  BY RunEnd
<1>2. /\ own[x] \in Lists /\ rk[x] \in Nat /\ \A y \in Node : rk[y] \in Nat
  BY DEF Placed, Owners, Ranks
<1>3. own[next[x]] = own[x] /\ rk[next[x]] = rk[x] + 1
  BY DEF Placed, Forward
<1>4. /\ w \in Node /\ own[w] = own[x] /\ rk[x] + 1 <= rk[w]
      /\ \A v \in Node : own[v] = own[x] /\ rk[x] + 1 <= rk[v] /\ rk[v] < rk[w] => ~Stops(v)
  BY <1>1, <1>3 DEF RunsTo
<1>5. \A y \in Items : own[y] = own[x] /\ rk[x] < rk[y] /\ rk[y] < rk[w]
        => ~list_less(y, prev[y])
  BY <1>2, <1>4, NodeFacts DEF Stops
<1>6. rk[x] \in Nat \ {0} /\ rk[w] \in Nat
  BY <1>2, <1>4
<1>7. InOrder(own[x], rk[x], rk[w], data, own, rk)
  <2>1. data \in [Items -> Int]
    BY DataInt
  <2> QED
    BY <1>2, <1>5, <1>6, <2>1, NeighboursInOrder
<1> QED
  BY <1>2, <1>4, <1>7

LEMMA FindRunsStep ==
  ASSUME Inv, FindRuns
  PROVE  Inv'
<1> DEFINE second == find_end_of_run(e)
           third  == find_end_of_run(second)
<1>1. /\ pc = "run" /\ e # tail(L) /\ second # tail(L) /\ n' = 1 + n
      /\ a0' = e /\ a1b0' = second /\ b1' = third /\ edge' = prev[e] /\ pc' = "merge"
      /\ UNCHANGED <<next, prev, data, L, dup, e, want>> /\ TypeOK /\ WantOK
  BY DEF FindRuns, Inv, links
<1>2. PICK own \in Owners, rk \in Ranks : At(own, rk)
  BY DEF Inv
<1>3. Placed(next, prev, own, rk) /\ Loose(next, prev, own) /\ RunInv(own, rk)
  BY <1>1, <1>2 DEF At, Shape
<1>4. L \in Lists /\ L # NULL /\ e \in Node /\ own[e] = L /\ 0 < rk[e] /\ rk[e] \in Nat
  BY <1>2, <1>3, NodeFacts DEF RunInv, Ranks
<1> HIDE DEF second, third
<1>5. /\ second \in Node /\ own[second] = L /\ rk[e] < rk[second]
      /\ InOrder(L, rk[e], rk[second], data, own, rk)
  BY <1>1, <1>3, <1>4, RunInOrder DEF second
<1>6. rk[second] \in Nat /\ 0 < rk[second]
  BY <1>2, <1>4, <1>5 DEF Ranks
<1>7. /\ third \in Node /\ own[third] = L /\ rk[second] < rk[third]
      /\ InOrder(L, rk[second], rk[third], data, own, rk)
  BY <1>1, <1>3, <1>4, <1>5, <1>6, RunInOrder DEF third
<1>8. prev[e] \in Node /\ own[prev[e]] = L /\ rk[prev[e]] = rk[e] - 1
  BY <1>3, <1>4, Neighbours DEF IsAt
<1>9. n \in Nat /\ n < rk[e] /\ (n = 0 => rk[e] = 1)
  BY <1>1, <1>3, IndexType DEF RunInv, TypeOK
<1>10. n' \in 0..MaxIndex
  <2>1. rk[e] <= Top(L, rk)
    BY <1>3, <1>4 DEF Placed, Bounded, Top
  <2>2. Top(L, rk) <= MaxIndex /\ MaxIndex \in Nat /\ Top(L, rk) \in Nat
    BY <1>3, <1>4, Fits, TopType, IndexType
  <2> QED
    BY <1>1, <1>4, <1>9, <2>1, <2>2
<1>11. TypeOK' /\ WantOK'
  BY <1>1, <1>4, <1>5, <1>7, <1>8, <1>10 DEF TypeOK, WantOK
<1>12. MergeInv(own, rk)'
  <2>1. /\ L' \in Lists /\ {edge', a0', a1b0', b1'} \subseteq Node
        /\ own[edge'] = L' /\ own[a0'] = L' /\ own[a1b0'] = L' /\ own[b1'] = L'
    BY <1>1, <1>4, <1>5, <1>7, <1>8
  <2>2. \A x \in Node : rk[x] \in Nat
    BY <1>2 DEF Ranks
  <2>3. /\ rk[edge'] < rk[a0'] /\ rk[a0'] <= rk[a1b0'] /\ rk[a1b0'] <= rk[b1']
        /\ 1 <= n' /\ n' < rk[b1'] /\ (n' = 1 => rk[edge'] = 0)
        /\ rk[edge'] + 1 = rk[a0']
    BY <1>1, <1>4, <1>5, <1>6, <1>7, <1>8, <1>9, <2>2
  <2>4. \A x \in Node : ~(rk[edge'] + 1 <= rk[x] /\ rk[x] < rk[a0'])
        /\ ~(rk[edge'] < rk[x] /\ rk[x] < rk[a0'])
    BY <1>1, <1>4, <1>8, <2>2
  <2>5. InOrder(L, rk[edge'] + 1, rk[a0'], data, own, rk) /\ MergedFirst(own, rk)'
    <3>1. \A x, y \in Items : rk[x] \in Nat /\ rk[y] \in Nat /\ x \in Node
      BY <2>2, NodeFacts
    <3>2. \A x, y \in Items : ~(rk[edge'] + 1 <= rk[x] /\ rk[x] <= rk[y] /\ rk[y] < rk[a0'])
      BY <2>1, <2>2, <2>3, <3>1
    <3> QED
      BY <2>4, <3>1, <3>2 DEF InOrder, MergedFirst
  <2>6. AsToldBut({L}, own, rk)' /\ Goal(own, rk)'
    BY <1>1, <1>3 DEF RunInv, AsToldBut, Goal
  <2> QED
    BY <1>1, <1>5, <1>7, <2>1, <2>3, <2>5, <2>6 DEF MergeInv
<1> QED
  BY <1>1, <1>2, <1>3, <1>11, <1>12 DEF Inv, At, Shape
\* What a merge has to say of the order, as plain facts.
LEMMA MergeFacts ==
  ASSUME Inv, pc = "merge"
  PROVE  \E own \in Owners, rk \in Ranks :
           /\ Placed(next, prev, own, rk) /\ Loose(next, prev, own) /\ MergeInv(own, rk)
           /\ L \in Lists /\ L # NULL /\ \A x \in Node : rk[x] \in Nat
           /\ edge \in Node /\ own[edge] = L /\ a0 \in Node /\ own[a0] = L
           /\ a1b0 \in Node /\ own[a1b0] = L /\ b1 \in Node /\ own[b1] = L
           /\ rk[edge] < rk[a0] /\ rk[a0] <= rk[a1b0] /\ rk[a1b0] <= rk[b1]
           /\ rk[b1] <= Top(L, rk) /\ Top(L, rk) \in Nat
<1>1. PICK own \in Owners, rk \in Ranks : At(own, rk)
  BY DEF Inv
<1>2. Placed(next, prev, own, rk) /\ Loose(next, prev, own) /\ MergeInv(own, rk)
  BY <1>1 DEF At, Shape
<1>3. /\ L \in Lists /\ L # NULL /\ \A x \in Node : rk[x] \in Nat
      /\ edge \in Node /\ own[edge] = L /\ a0 \in Node /\ own[a0] = L
      /\ a1b0 \in Node /\ own[a1b0] = L /\ b1 \in Node /\ own[b1] = L
      /\ rk[edge] < rk[a0] /\ rk[a0] <= rk[a1b0] /\ rk[a1b0] <= rk[b1]
  BY <1>2, NodeFacts DEF MergeInv, Ranks
<1>4. rk[b1] <= Top(L, rk) /\ Top(L, rk) \in Nat
  BY <1>2, <1>3, TopType DEF Placed, Bounded, Top
<1> QED
  BY <1>2, <1>3, <1>4

\* A node that does not end its list is an item if it does not begin it.
LEMMA InnerItem ==
  ASSUME NEW nx, NEW pv, NEW own, NEW rk, Placed(nx, pv, own, rk),
         NEW l \in Lists, NEW x \in Node, own[x] = l, 0 < rk[x], rk[x] < Top(l, rk)
  PROVE  x \in Items
<1>1. own[x] # NULL /\ rk[x] \in Nat /\ Top(l, rk) \in Nat
  BY NodeFacts, TopType DEF Placed, Ranks
<1>2. x \in Items <=> rk[x] \in 1..(Top(own[x], rk) - 1)
  BY <1>1, Between
<1> QED
  BY <1>1, <1>2

LEMMA MergeSkipStep ==
  ASSUME Inv, MergeSkip
  PROVE  Inv'
<1>1. /\ pc = "merge" /\ pc' = "merge" /\ a0 # a1b0 /\ a1b0 # b1
      /\ ~(data[a1b0] < data[a0]) /\ a0' = next[a0] /\ TypeOK /\ WantOK
      /\ UNCHANGED <<next, prev, data, L, dup, e, a1b0, b1, n, edge, want>>
  BY DEF MergeSkip, list_less, Inv, links
<1>2. PICK own \in Owners, rk \in Ranks :
           /\ Placed(next, prev, own, rk) /\ Loose(next, prev, own) /\ MergeInv(own, rk)
           /\ L \in Lists /\ L # NULL /\ \A x \in Node : rk[x] \in Nat
           /\ edge \in Node /\ own[edge] = L /\ a0 \in Node /\ own[a0] = L
           /\ a1b0 \in Node /\ own[a1b0] = L /\ b1 \in Node /\ own[b1] = L
           /\ rk[edge] < rk[a0] /\ rk[a0] <= rk[a1b0] /\ rk[a1b0] <= rk[b1]
           /\ rk[b1] <= Top(L, rk) /\ Top(L, rk) \in Nat
  BY ONLY Inv, <1>1, MergeFacts
<1>3. rk[a0] < rk[a1b0] /\ rk[a1b0] < rk[b1]
  <2>1. rk[a0] # rk[a1b0] /\ rk[a1b0] # rk[b1]
    BY <1>1, <1>2 DEF Placed, Distinct
  <2> QED
    BY <1>2, <2>1
<1>4. a0 \in Items /\ a1b0 \in Items
  BY <1>2, <1>3, InnerItem
<1>5. a0' \in Node /\ own[a0'] = L /\ rk[a0'] = rk[a0] + 1
  BY <1>1, <1>2, <1>3, Neighbours DEF IsAt
<1>6. \A x \in Items : x \in Node /\ rk[x] \in Nat /\ data[x] \in Int
  BY <1>1, <1>2, DataInt, NodeFacts
<1>7. /\ InOrder(L, rk[edge] + 1, rk[a0], data, own, rk)
      /\ InOrder(L, rk[a0], rk[a1b0], data, own, rk)
      /\ InOrder(L, rk[a1b0], rk[b1], data, own, rk)
      /\ MergedFirst(own, rk)
  BY <1>2 DEF MergeInv
<1>8. \A x \in Items : own[x] = L /\ rk[x] = rk[a0] => x = a0
  BY <1>2, <1>6 DEF Placed, Distinct
<1>9. InOrder(L, rk[edge] + 1, rk[a0'], data, own, rk)
  <2>1. ASSUME NEW x \in Items, NEW y \in Items, own[x] = L, own[y] = L,
               rk[edge] + 1 <= rk[x], rk[x] <= rk[y], rk[y] < rk[a0'] PROVE data[x] <= data[y]
    <3>1. CASE rk[y] < rk[a0]
      BY <1>7, <2>1, <3>1 DEF InOrder
    <3>2. CASE rk[y] = rk[a0]
      <4>1. y = a0
        BY <1>8, <2>1, <3>2
      <4>2. CASE x = a0
        BY <1>6, <4>1, <4>2
      <4>3. CASE x # a0
        <5>1. rk[edge] < rk[x] /\ rk[x] < rk[a0] /\ rk[a0] <= rk[y] /\ rk[y] < rk[b1]
          BY <1>2, <1>3, <1>6, <1>8, <2>1, <3>2, <4>3
        <5> QED
          BY <1>7, <2>1, <5>1 DEF MergedFirst
      <4> QED
        BY <4>2, <4>3
    <3> QED
      BY <1>2, <1>5, <1>6, <2>1, <3>1, <3>2
  <2> QED
    BY <2>1 DEF InOrder
<1>10. InOrder(L, rk[a0'], rk[a1b0], data, own, rk)
  BY <1>2, <1>5, <1>6, <1>7 DEF InOrder
<1>11. \A x, y \in Items :
         own[x] = L /\ own[y] = L /\ rk[edge] < rk[x] /\ rk[x] < rk[a0']
         /\ rk[a0'] <= rk[y] /\ rk[y] < rk[b1] => data[x] <= data[y]
  <2>1. ASSUME NEW x \in Items, NEW y \in Items, own[x] = L, own[y] = L, rk[edge] < rk[x],
               rk[x] < rk[a0'], rk[a0'] <= rk[y], rk[y] < rk[b1]
        PROVE  data[x] <= data[y]
    <3>1. CASE rk[x] < rk[a0]
      <4>1. rk[a0] <= rk[y]
        BY <1>2, <1>5, <1>6, <2>1
      <4> QED
        BY <1>7, <2>1, <3>1, <4>1 DEF MergedFirst
    <3>2. CASE rk[x] = rk[a0]
      <4>1. x = a0
        BY <1>8, <2>1, <3>2
      <4>2. CASE rk[y] < rk[a1b0]
        <5>1. rk[a0] <= rk[x] /\ rk[x] <= rk[y]
          BY <1>2, <1>5, <1>6, <2>1, <3>2
        <5> QED
          BY <1>7, <2>1, <4>2, <5>1 DEF InOrder
      <4>3. CASE ~(rk[y] < rk[a1b0])
        <5>1. rk[a1b0] <= rk[a1b0] /\ rk[a1b0] <= rk[y]
          BY <1>2, <1>6, <4>3
        <5>2. data[a1b0] <= data[y]
          BY <1>2, <1>4, <1>7, <2>1, <5>1 DEF InOrder
        <5> QED
          BY <1>1, <1>4, <1>6, <4>1, <5>2
      <4> QED
        BY <4>2, <4>3
    <3> QED
      BY <1>2, <1>5, <1>6, <2>1, <3>1, <3>2
  <2> QED
    BY <2>1
<1>12. MergeInv(own, rk)'
  <2>1. MergedFirst(own, rk)'
    BY <1>1, <1>11 DEF MergedFirst
  <2>2. /\ InOrder(L, rk[edge] + 1, rk[a0], data, own, rk)'
        /\ InOrder(L, rk[a0], rk[a1b0], data, own, rk)'
        /\ InOrder(L, rk[a1b0], rk[b1], data, own, rk)'
    BY <1>1, <1>7, <1>9, <1>10
  <2>3. AsToldBut({L}, own, rk)' /\ Goal(own, rk)'
    BY <1>1, <1>2 DEF MergeInv, AsToldBut, Goal
  <2>4. 1 <= n' /\ n' < rk[b1'] /\ (n' = 1 => rk[edge'] = 0)
    BY <1>1, <1>2 DEF MergeInv
  <2>5. rk[edge'] < rk[a0'] /\ rk[a0'] <= rk[a1b0'] /\ rk[a1b0'] <= rk[b1']
    BY <1>1, <1>2, <1>3, <1>5
  <2> QED
    BY <1>1, <1>2, <1>5, <2>1, <2>2, <2>3, <2>4, <2>5 DEF MergeInv
<1>13. TypeOK' /\ WantOK'
  BY <1>1, <1>5 DEF TypeOK, WantOK
<1> QED
  BY <1>1, <1>2, <1>12, <1>13 DEF Inv, At, Shape

LEMMA MergeDoneStep ==
  ASSUME Inv, MergeDone
  PROVE  Inv'
<1>1. /\ pc = "merge" /\ pc' = "run" /\ (a0 = a1b0 \/ a1b0 = b1)
      /\ e' = b1 /\ a0' = NULL /\ a1b0' = NULL /\ b1' = NULL /\ edge' = NULL
      /\ UNCHANGED <<next, prev, data, L, dup, n, want>> /\ TypeOK /\ WantOK
  BY DEF MergeDone, Inv, links
<1>2. PICK own \in Owners, rk \in Ranks :
           /\ Placed(next, prev, own, rk) /\ Loose(next, prev, own) /\ MergeInv(own, rk)
           /\ L \in Lists /\ L # NULL /\ \A x \in Node : rk[x] \in Nat
           /\ edge \in Node /\ own[edge] = L /\ a0 \in Node /\ own[a0] = L
           /\ a1b0 \in Node /\ own[a1b0] = L /\ b1 \in Node /\ own[b1] = L
           /\ rk[edge] < rk[a0] /\ rk[a0] <= rk[a1b0] /\ rk[a1b0] <= rk[b1]
           /\ rk[b1] <= Top(L, rk) /\ Top(L, rk) \in Nat
  BY ONLY Inv, <1>1, MergeFacts
<1>3. /\ InOrder(L, rk[edge] + 1, rk[a0], data, own, rk)
      /\ InOrder(L, rk[a0], rk[a1b0], data, own, rk)
      /\ InOrder(L, rk[a1b0], rk[b1], data, own, rk)
      /\ MergedFirst(own, rk) /\ 1 <= n /\ n < rk[b1] /\ (n = 1 => rk[edge] = 0)
  BY <1>2 DEF MergeInv
<1>4. \A x \in Items : x \in Node /\ rk[x] \in Nat /\ data[x] \in Int
  BY <1>1, <1>2, DataInt, NodeFacts
<1>5. InOrder(L, rk[edge] + 1, rk[b1], data, own, rk)
  <2>1. ASSUME NEW x \in Items, NEW y \in Items, own[x] = L, own[y] = L,
               rk[edge] + 1 <= rk[x], rk[x] <= rk[y], rk[y] < rk[b1] PROVE data[x] <= data[y]
    <3>1. CASE rk[y] < rk[a0]
      BY <1>3, <2>1, <3>1 DEF InOrder
    <3>2. CASE rk[x] < rk[a0] /\ rk[a0] <= rk[y]
      <4>1. rk[edge] < rk[x]
        BY <1>2, <1>4, <2>1
      <4> QED
        BY <1>3, <2>1, <3>2, <4>1 DEF MergedFirst
    <3>3. CASE rk[a0] <= rk[x]
      <4>1. CASE a0 = a1b0
        BY <1>3, <2>1, <3>3, <4>1 DEF InOrder
      <4>2. CASE a1b0 = b1
        BY <1>3, <2>1, <3>3, <4>2 DEF InOrder
      <4> QED
        BY <1>1, <4>1, <4>2
    <3> QED
      BY <1>2, <1>4, <2>1, <3>1, <3>2, <3>3
  <2> QED
    BY <2>1 DEF InOrder
<1>6. RunInv(own, rk)'
  <2>1. n' < rk[e'] /\ ~(n' = 0) /\ 0 < rk[e']
    BY <1>1, <1>2, <1>3, IndexType DEF TypeOK
  <2>2. n' = 1 => InOrder(L, 1, rk[e], data, own, rk)'
    <3>1. n = 1 => rk[edge] + 1 = 1
      BY <1>3
    <3>2. n = 1 => InOrder(L, 1, rk[b1], data, own, rk)
      BY <1>5, <3>1
    <3> QED
      BY <1>1, <3>2
  <2>3. AsToldBut({L}, own, rk)' /\ Goal(own, rk)'
    BY <1>1, <1>2 DEF MergeInv, AsToldBut, Goal
  <2> QED
    BY <1>1, <1>2, <2>1, <2>2, <2>3 DEF RunInv
<1>7. TypeOK' /\ WantOK'
  BY <1>1, <1>2 DEF TypeOK, WantOK
<1> QED
  BY <1>1, <1>2, <1>6, <1>7 DEF Inv, At, Shape
LEMMA MergeMoveStep ==
  ASSUME Inv, MergeMove
  PROVE  Inv'
<1> DEFINE f == a1b0
           h == list_splice(heap, a0, a1b0, next[a1b0])
<1>1. /\ pc = "merge" /\ pc' = "merge" /\ a0 # a1b0 /\ a1b0 # b1
      /\ data[a1b0] < data[a0] /\ a1b0' = next[a1b0] /\ TypeOK /\ WantOK
      /\ h.next = next' /\ h.prev = prev'
      /\ UNCHANGED <<data, L, dup, e, a0, b1, n, edge, want>>
  BY DEF MergeMove, list_less, Inv, SetHeap
<1>2. PICK own \in Owners, rk \in Ranks :
           /\ Placed(next, prev, own, rk) /\ Loose(next, prev, own) /\ MergeInv(own, rk)
           /\ L \in Lists /\ L # NULL /\ \A x \in Node : rk[x] \in Nat
           /\ edge \in Node /\ own[edge] = L /\ a0 \in Node /\ own[a0] = L
           /\ a1b0 \in Node /\ own[a1b0] = L /\ b1 \in Node /\ own[b1] = L
           /\ rk[edge] < rk[a0] /\ rk[a0] <= rk[a1b0] /\ rk[a1b0] <= rk[b1]
           /\ rk[b1] <= Top(L, rk) /\ Top(L, rk) \in Nat
  BY ONLY Inv, <1>1, MergeFacts
<1>3. rk[a0] < rk[a1b0] /\ rk[a1b0] < rk[b1]
  <2>1. rk[a0] # rk[a1b0] /\ rk[a1b0] # rk[b1]
    BY <1>1, <1>2 DEF Placed, Distinct
  <2> QED
    BY <1>2, <2>1
<1>4. a0 \in Items /\ f \in Items
  BY <1>2, <1>3, InnerItem
<1>5. \A x \in Items : x \in Node /\ rk[x] \in Nat /\ data[x] \in Int
  BY <1>1, <1>2, DataInt, NodeFacts
<1> DEFINE last == next[f]
           z == prev[last]
           rc == RankCut(own, rk, f, z)
<1>6. last \in Node /\ own[last] = L /\ rk[last] = rk[f] + 1 /\ z = f
  BY <1>2, <1>3, Neighbours DEF IsAt
<1>7. h = list_splice([next |-> next, prev |-> prev], a0, f, last)
  BY DEF heap
<1> HIDE DEF h, last
<1>8. Spliced(h, f, z, a0, own, rk)
  <2>1. /\ own[f] # NULL /\ own[last] = own[f] /\ rk[f] < rk[last] /\ own[a0] # NULL
        /\ rk[a0] > 0 /\ rk[a0] < rk[f]
    BY <1>2, <1>3, <1>6
  <2> HIDE DEF f
  <2> QED
    BY ONLY <1>2, <1>4, <1>6, <1>7, <2>1, SpliceDoes
<1>9. Spliced(h, f, f, a0, own, rk)
  BY <1>6, <1>8
<1> HIDE DEF z, f, rc
<1> DEFINE rd == RankCut(own, rk, f, f)
<1>10. PICK o \in Owners, r \in Ranks :
         /\ Placed(h.next, h.prev, o, r) /\ Loose(h.next, h.prev, o)
         /\ \A y \in Node :
              /\ o[y] = IF y \in Part(own, rk, f, f) THEN own[a0] ELSE own[y]
              /\ r[y] = IF y \in Part(own, rk, f, f) THEN rd[a0] + (rk[y] - rk[f])
                        ELSE IF own[y] = own[a0] /\ rd[y] >= rd[a0]
                          THEN rd[y] + (rk[f] - rk[f]) + 1
                        ELSE rd[y]
  BY ONLY <1>9 DEF Spliced
<1>11. /\ f = a1b0 /\ f \in Node /\ own[f] = L /\ rk[f] \in Nat /\ rk[a0] \in Nat
       /\ rk[a0] < rk[f] /\ 0 < rk[a0]
  BY <1>2, <1>3 DEF f
<1>12. \A y \in Node : y \in Part(own, rk, f, f) <=> y = f
  BY <1>2, <1>11 DEF Part, Placed, Distinct
<1>13. \A y \in Node : rd[y] = IF own[y] = L /\ rk[y] > rk[f] THEN rk[y] - 1 ELSE rk[y]
  BY <1>2, <1>11 DEF RankCut
<1> HIDE DEF rd
<1>14. o = own
  <2>1. \A y \in Node : o[y] = own[y]
    BY <1>2, <1>10, <1>11, <1>12
  <2> QED
    BY <2>1 DEF Owners
<1>15. rd[a0] = rk[a0]
  BY <1>2, <1>11, <1>13
<1>16. \A y \in Node : r[y] = IF own[y] = L
                                THEN IF y = f THEN rk[a0]
                                     ELSE IF rk[a0] <= rk[y] /\ rk[y] < rk[f] THEN rk[y] + 1
                                     ELSE rk[y]
                                ELSE rk[y]
  <2> TAKE y \in Node
  <2>1. CASE y = f
    BY <1>2, <1>10, <1>11, <1>12, <1>15, <2>1
  <2>2. CASE y # f /\ own[y] # L
    BY <1>2, <1>10, <1>12, <1>13, <2>2
  <2>3. CASE y # f /\ own[y] = L
    <3>1. r[y] = IF rd[y] >= rk[a0] THEN rd[y] + (rk[f] - rk[f]) + 1 ELSE rd[y]
      BY <1>2, <1>10, <1>12, <1>15, <2>3
    <3>2. rd[y] = IF rk[y] > rk[f] THEN rk[y] - 1 ELSE rk[y]
      BY <1>13, <2>3
    <3>3. rk[y] # rk[f]
      BY <1>2, <1>11, <2>3 DEF Placed, Distinct
    <3>4. rk[y] \in Nat /\ rk[f] \in Nat /\ rk[a0] \in Nat /\ rk[a0] < rk[f]
      BY <1>2, <1>11
    <3> QED
      BY ONLY <2>3, <3>1, <3>2, <3>3, <3>4
  <2> QED
    BY <2>1, <2>2, <2>3
<1>17. Placed(next', prev', own, r) /\ Loose(next', prev', own)
  BY <1>1, <1>10, <1>14
<1>18. /\ a1b0' \in Node /\ own[a1b0'] = L /\ rk[a1b0'] = rk[f] + 1
       /\ r[a1b0'] = rk[f] + 1 /\ r[a0] = rk[a0] + 1 /\ r[edge] = rk[edge] /\ r[b1] = rk[b1]
       /\ \A x \in Node : r[x] \in Nat
  <2>1. a1b0' = last /\ rk[f] # rk[f] + 1
    BY <1>1, <1>11 DEF last, f
  <2>2. /\ last \in Node /\ own[last] = L /\ rk[last] = rk[f] + 1 /\ last # f
    BY <1>6, <1>11, <2>1
  <2>3. r[last] = rk[f] + 1
    BY <1>11, <1>16, <2>2
  <2>4. r[a0] = rk[a0] + 1
    BY <1>2, <1>11, <1>16
  <2>5. r[edge] = rk[edge]
    BY <1>2, <1>11, <1>16
  <2>6. r[b1] = rk[b1]
    BY <1>2, <1>3, <1>11, <1>16
  <2> QED
    BY <1>10, <2>1, <2>2, <2>3, <2>4, <2>5, <2>6 DEF Ranks
<1>19. \A m \in Lists : Top(m, r) = Top(m, rk)
  <2> TAKE m \in Lists
  <2>1. tail(m) \in Node /\ own[tail(m)] = m /\ tail(m) # f
    BY <1>2, <1>4, EndFacts DEF Placed, EndsPlaced, f
  <2>2. CASE m = L
    <3>1. rk[tail(m)] = Top(L, rk)
      BY <2>2 DEF Top
    <3>2. ~(rk[tail(m)] < rk[f])
      BY <1>2, <1>3, <1>11, <3>1
    <3> QED
      BY <1>16, <2>1, <3>2 DEF Top
  <2>3. CASE m # L
    BY <1>16, <2>1, <2>3 DEF Top
  <2> QED
    BY <2>2, <2>3
<1>20. /\ InOrder(L, rk[edge] + 1, rk[a0], data, own, rk)
       /\ InOrder(L, rk[a0], rk[f], data, own, rk)
       /\ InOrder(L, rk[f], rk[b1], data, own, rk)
       /\ MergedFirst(own, rk) /\ 1 <= n /\ n < rk[b1] /\ (n = 1 => rk[edge] = 0)
  BY <1>2 DEF MergeInv, f
\* Where in the order an element of the list was before the move.
<1>21. ASSUME NEW x \in Items, own[x] = L
       PROVE  /\ x # f /\ r[x] < r[a0] => rk[x] < rk[a0] /\ rk[x] = r[x]
              /\ x # f /\ r[x] >= r[a0] /\ r[x] < rk[f] + 1
                   => rk[a0] <= rk[x] /\ rk[x] < rk[f] /\ rk[x] = r[x] - 1
              /\ r[x] >= rk[f] + 1 => rk[f] < rk[x] /\ rk[x] = r[x] /\ x # f
              /\ x = f => r[x] = rk[a0]
  <2>1. x \in Node /\ rk[x] \in Nat /\ rk[a0] \in Nat /\ rk[f] \in Nat /\ rk[a0] < rk[f]
        /\ r[a0] = rk[a0] + 1
    BY <1>5, <1>11, <1>18
  <2>2. r[x] = IF x = f THEN rk[a0]
               ELSE IF rk[a0] <= rk[x] /\ rk[x] < rk[f] THEN rk[x] + 1 ELSE rk[x]
    BY <1>16, <1>21, <2>1
  <2>3. x # f => rk[x] # rk[f]
    BY <1>2, <1>11, <1>21, <2>1 DEF Placed, Distinct
  <2> QED
    BY ONLY <2>1, <2>2, <2>3
<1>22. f \in Items /\ a0 \in Items /\ data[f] < data[a0]
  BY <1>1, <1>4 DEF f
\* A node that follows in what is left of the first run is greater than what moved.
<1>23. ASSUME NEW y \in Items, own[y] = L, rk[a0] <= rk[y], rk[y] < rk[b1]
       PROVE  data[f] <= data[y]
  <2>1. CASE rk[y] < rk[f]
    <3>1. data[a0] <= data[y]
      BY <1>2, <1>4, <1>5, <1>20, <1>23, <2>1 DEF InOrder
    <3> QED
      BY <1>5, <1>22, <3>1
  <2>2. CASE ~(rk[y] < rk[f])
    <3>1. rk[f] <= rk[f] /\ rk[f] <= rk[y]
      BY <1>5, <1>11, <2>2
    <3> QED
      BY <1>11, <1>20, <1>22, <1>23, <3>1 DEF InOrder
  <2> QED
    BY <2>1, <2>2
<1>24. \A x \in Items : own[x] = L /\ rk[edge] < rk[x] /\ rk[x] < rk[a0] =>
         \A y \in Items : own[y] = L /\ rk[a0] <= rk[y] /\ rk[y] < rk[b1] => data[x] <= data[y]
  BY <1>20 DEF MergedFirst
<1>25. rk[a0] <= rk[f] /\ rk[f] < rk[b1] /\ rk[b1] \in Nat /\ rk[edge] \in Nat
       /\ rk[edge] < rk[a0]
  BY <1>2, <1>3, <1>11
<1>26. InOrder(L, r[edge] + 1, r[a0], data, own, r)
  <2>1. ASSUME NEW x \in Items, NEW y \in Items, own[x] = L, own[y] = L,
               r[edge] + 1 <= r[x], r[x] <= r[y], r[y] < r[a0] PROVE data[x] <= data[y]
    <3>1. r[x] \in Nat /\ r[y] \in Nat /\ r[a0] \in Nat /\ r[x] < r[a0]
      BY <1>5, <1>18, <1>22, <2>1
    <3>2. CASE y = f
      <4>1. CASE x = f
        BY <1>5, <3>2, <4>1
      <4>2. CASE x # f
        <5>1. rk[x] < rk[a0] /\ rk[x] = r[x]
          BY <1>21, <2>1, <3>1, <4>2
        <5>2. rk[edge] < rk[x]
          BY <1>18, <1>25, <2>1, <3>1, <5>1
        <5> QED
          BY <1>11, <1>24, <1>25, <2>1, <3>2, <5>1, <5>2
      <4> QED
        BY <4>1, <4>2
    <3>3. CASE y # f
      <4>1. rk[y] < rk[a0] /\ rk[y] = r[y]
        BY <1>21, <2>1, <3>3
      <4>2. x # f
        <5>1. x = f => r[x] = rk[a0]
          BY <1>21, <2>1
        <5> QED
          BY <1>11, <2>1, <3>1, <4>1, <5>1
      <4>3. rk[x] = r[x]
        BY <1>21, <2>1, <3>1, <4>2
      <4> QED
        BY <1>18, <1>20, <2>1, <4>1, <4>3 DEF InOrder
    <3> QED
      BY <3>2, <3>3
  <2> QED
    BY <2>1 DEF InOrder
<1>27. InOrder(L, r[a0], r[a1b0'], data, own, r)
  <2>1. ASSUME NEW x \in Items, NEW y \in Items, own[x] = L, own[y] = L,
               r[a0] <= r[x], r[x] <= r[y], r[y] < r[a1b0'] PROVE data[x] <= data[y]
    <3>1. /\ r[x] \in Nat /\ r[y] \in Nat /\ r[a0] = rk[a0] + 1 /\ r[a1b0'] = rk[f] + 1
          /\ rk[a0] \in Nat /\ rk[f] \in Nat
      BY <1>5, <1>11, <1>18
    <3>2. x # f /\ y # f
      <4>1. (x = f => r[x] = rk[a0]) /\ (y = f => r[y] = rk[a0])
        BY <1>21, <2>1
      <4> QED
        BY <2>1, <3>1, <4>1
    <3>3. r[x] >= r[a0] /\ r[x] < rk[f] + 1 /\ r[y] >= r[a0] /\ r[y] < rk[f] + 1
      BY <2>1, <3>1
    <3>4. rk[a0] <= rk[x] /\ rk[x] < rk[f] /\ rk[x] = r[x] - 1
      BY <1>21, <2>1, <3>2, <3>3
    <3>5. rk[a0] <= rk[y] /\ rk[y] < rk[f] /\ rk[y] = r[y] - 1
      BY <1>21, <2>1, <3>2, <3>3
    <3>6. rk[x] <= rk[y]
      BY <2>1, <3>1, <3>4, <3>5
    <3> QED
      BY <1>20, <2>1, <3>4, <3>5, <3>6 DEF InOrder
  <2> QED
    BY <2>1 DEF InOrder
<1>28. InOrder(L, r[a1b0'], r[b1], data, own, r)
  <2>1. ASSUME NEW x \in Items, NEW y \in Items, own[x] = L, own[y] = L,
               r[a1b0'] <= r[x], r[x] <= r[y], r[y] < r[b1] PROVE data[x] <= data[y]
    <3>1. r[x] >= rk[f] + 1 /\ r[y] >= rk[f] + 1
      BY <1>5, <1>11, <1>18, <2>1
    <3>2. rk[f] < rk[x] /\ rk[x] = r[x]
      BY <1>21, <2>1, <3>1
    <3>3. rk[f] < rk[y] /\ rk[y] = r[y]
      BY <1>21, <2>1, <3>1
    <3>4. rk[f] <= rk[x] /\ rk[x] <= rk[y] /\ rk[y] < rk[b1]
      BY <1>5, <1>11, <1>18, <2>1, <3>2, <3>3
    <3> QED
      BY <1>20, <2>1, <3>4 DEF InOrder
  <2> QED
    BY <2>1 DEF InOrder
<1>29. \A x, y \in Items :
         own[x] = L /\ own[y] = L /\ r[edge] < r[x] /\ r[x] < r[a0]
         /\ r[a0] <= r[y] /\ r[y] < r[b1] => data[x] <= data[y]
  <2>1. ASSUME NEW x \in Items, NEW y \in Items, own[x] = L, own[y] = L, r[edge] < r[x],
               r[x] < r[a0], r[a0] <= r[y], r[y] < r[b1]
        PROVE  data[x] <= data[y]
    <3>1. /\ r[x] \in Nat /\ r[y] \in Nat /\ r[a0] = rk[a0] + 1 /\ rk[a0] \in Nat
          /\ rk[f] \in Nat /\ r[b1] = rk[b1] /\ r[edge] = rk[edge]
      BY <1>5, <1>11, <1>18
    <3>2. y # f
      <4>1. y = f => r[y] = rk[a0]
        BY <1>21, <2>1
      <4> QED
        BY <2>1, <3>1, <4>1
    <3>3. rk[a0] <= rk[y] /\ rk[y] < rk[b1]
      <4>1. CASE r[y] < rk[f] + 1
        <5>1. rk[a0] <= rk[y] /\ rk[y] < rk[f]
          BY <1>21, <2>1, <3>2, <4>1
        <5> QED
          BY <1>5, <1>11, <1>25, <5>1
      <4>2. CASE ~(r[y] < rk[f] + 1)
        <5>1. r[y] >= rk[f] + 1
          BY <3>1, <4>2
        <5>2. rk[f] < rk[y] /\ rk[y] = r[y]
          BY <1>21, <2>1, <5>1
        <5> QED
          BY <1>5, <1>11, <1>25, <2>1, <3>1, <5>2
      <4> QED
        BY <4>1, <4>2
    <3>4. CASE x = f
      BY <1>23, <2>1, <3>3, <3>4
    <3>5. CASE x # f
      <4>1. rk[x] < rk[a0] /\ rk[x] = r[x]
        BY <1>21, <2>1, <3>5
      <4> QED
        BY <1>24, <2>1, <3>1, <3>3, <4>1
    <3> QED
      BY <3>4, <3>5
  <2> QED
    BY <2>1
<1>30. MergeInv(own, r)'
  <2>1. MergedFirst(own, r)'
    BY <1>1, <1>29 DEF MergedFirst
  <2>2. /\ InOrder(L, r[edge] + 1, r[a0], data, own, r)'
        /\ InOrder(L, r[a0], r[a1b0], data, own, r)'
        /\ InOrder(L, r[a1b0], r[b1], data, own, r)'
    BY <1>1, <1>26, <1>27, <1>28
  <2>3. AsToldBut({L}, own, r)'
    <3>1. ASSUME NEW m \in Lists, m # L, want[m] # NULL PROVE Holds(want[m], m, data, own, r)
      <4>1. Holds(want[m], m, data, own, rk)
        BY <1>2, <3>1 DEF MergeInv, AsToldBut
      <4>2. \A x \in Items : own[x] = m => r[x] = rk[x]
        BY <1>5, <1>16, <3>1
      <4> QED
        BY <1>19, <4>1, <4>2, HoldsFrame
    <3> QED
      BY <1>1, <3>1 DEF AsToldBut
  <2>4. Goal(own, r)'
    BY <1>1, <1>2, <1>19 DEF MergeInv, Goal
  <2>5. 1 <= n' /\ n' < r[b1'] /\ (n' = 1 => r[edge'] = 0)
    BY <1>1, <1>18, <1>20
  <2>6. r[edge'] < r[a0'] /\ r[a0'] <= r[a1b0'] /\ r[a1b0'] <= r[b1']
    BY <1>1, <1>11, <1>18, <1>25
  <2> QED
    BY <1>1, <1>2, <1>18, <2>1, <2>2, <2>3, <2>4, <2>5, <2>6 DEF MergeInv
<1>31. TypeOK' /\ WantOK'
  <2>1. next' \in Link /\ prev' \in Link
    BY <1>17 DEF Placed
  <2> QED
    BY <1>1, <1>18, <2>1 DEF TypeOK, WantOK, Link
<1> QED
  BY <1>1, <1>2, <1>10, <1>17, <1>30, <1>31 DEF Inv, At, Shape
\* A list in order that has the values it is to have holds what it is to hold.
LEMMA SortedDone ==
  ASSUME TypeOK, NEW own, NEW rk, Placed(next, prev, own, rk), L \in Lists,
         Goal(own, rk), InOrder(L, 1, Top(L, rk), data, own, rk)
  PROVE  Holds(want[L], L, data, own, rk)
<1> DEFINE s == Contents(L)
<1>1. Holds(s, L, data, own, rk) /\ data \in [Items -> Int] /\ Top(L, rk) \in Nat
  BY DataInt, ContentsHold, TopType
<1> HIDE DEF s
<1>2. s \in Seq(Int) /\ Len(s) = Top(L, rk) - 1 /\ \A x \in Items : own[x] = L => s[rk[x]] = data[x]
  BY <1>1 DEF Holds
<1>3. Rises(s)
  <2>1. ASSUME NEW i \in 1..Len(s), NEW j \in 1..Len(s), i <= j PROVE s[i] <= s[j]
    <3>1. PICK x \in Items : IsAt(x, L, i, own, rk)
      BY <1>2, ItemRank
    <3>2. PICK y \in Items : IsAt(y, L, j, own, rk)
      BY <1>2, ItemRank
    <3>3. s[i] = data[x] /\ s[j] = data[y] /\ own[x] = L /\ own[y] = L
          /\ rk[x] = i /\ rk[y] = j
      BY <1>2, <3>1, <3>2 DEF IsAt
    <3>4. 1 <= i /\ j < Top(L, rk)
      BY <1>1, <1>2
    <3> QED
      BY <2>1, <3>3, <3>4 DEF InOrder
  <2> QED
    BY <2>1 DEF Rises
<1>4. \A v \in Int : Below(s, v) = BelowIn(L, data, own, v)
  BY <1>1, BelowHolds
<1>5. /\ want[L] \in Seq(Int) /\ Len(want[L]) = Top(L, rk) - 1 /\ Rises(want[L])
      /\ \A v \in Int : Below(want[L], v) = BelowIn(L, data, own, v)
  BY DEF Goal
<1> DEFINE t == want[L]
<1>6. s = t
  <2>1. t \in Seq(Int) /\ Len(t) = Len(s) /\ Rises(t)
        /\ \A v \in Int : Below(s, v) = Below(t, v)
    BY <1>2, <1>4, <1>5
  <2> HIDE DEF t
  <2> QED
    BY ONLY <1>2, <1>3, <2>1, SortedOne
<1> QED
  BY <1>1, <1>6

LEMMA PassDoneStep ==
  ASSUME Inv, PassDone
  PROVE  Inv'
<1>1. pc = "run" /\ TypeOK /\ WantOK
  BY DEF PassDone, Inv
<1>2. PICK own \in Owners, rk \in Ranks : At(own, rk)
  BY DEF Inv
<1>3. Placed(next, prev, own, rk) /\ Loose(next, prev, own) /\ RunInv(own, rk)
  BY <1>1, <1>2 DEF At, Shape
<1>4. /\ L \in Lists /\ L # NULL /\ e \in Node /\ own[e] = L /\ 0 < rk[e] /\ rk[e] \in Nat
      /\ n \in Nat /\ n < rk[e] /\ (n = 0 => rk[e] = 1)
      /\ (n = 1 => InOrder(L, 1, rk[e], data, own, rk))
  BY <1>1, <1>2, <1>3, NodeFacts, IndexType DEF RunInv, Ranks, TypeOK
<1>5. PICK runs \in Nat :
        PassEnds(runs) /\ (runs <= 1 => InOrder(L, 1, Top(L, rk), data, own, rk))
  <2>1. CASE e = tail(L) /\ PassEnds(n)
    <3>1. rk[e] = Top(L, rk)
      BY <2>1 DEF Top
    <3>2. n = 0 => InOrder(L, 1, rk[e], data, own, rk)
      <4>1. \A x \in Items : rk[x] \in Nat
        BY <1>2, NodeFacts DEF Ranks
      <4>2. n = 0 => \A x, y \in Items : ~(1 <= rk[x] /\ rk[x] <= rk[y] /\ rk[y] < rk[e])
        BY <1>4, <4>1
      <4> QED
        BY <4>2 DEF InOrder
    <3>3. n <= 1 => InOrder(L, 1, Top(L, rk), data, own, rk)
      BY <1>4, <3>1, <3>2
    <3> QED
      BY <1>4, <2>1, <3>3
  <2>2. CASE e # tail(L) /\ find_end_of_run(e) = tail(L) /\ PassEnds(n + 1)
    <3>1. InOrder(L, rk[e], rk[tail(L)], data, own, rk)
      BY <1>1, <1>3, <1>4, <2>2, RunInOrder
    <3>2. n + 1 <= 1 => rk[e] = 1
      BY <1>4
    <3>3. n + 1 \in Nat /\ (n + 1 <= 1 => InOrder(L, 1, Top(L, rk), data, own, rk))
      BY <1>4, <3>1, <3>2 DEF Top
    <3> QED
      BY <2>2, <3>3
  <2> QED
    BY <2>1, <2>2 DEF PassDone
<1>6. UNCHANGED <<next, prev, data, want>>
  BY <1>5 DEF PassEnds, links
<1>7. CASE runs > 1
  <2>1. /\ e' = list_begin(L) /\ n' = 0 /\ pc' = "run"
        /\ UNCHANGED <<L, dup, a0, a1b0, b1, edge>>
    BY <1>1, <1>5, <1>7 DEF PassEnds
  <2>2. IsAt(list_begin(L), L, 1, own, rk)
    BY <1>3, <1>4, EmptyIs
  <2>3. e' \in Node /\ own[e'] = L /\ rk[e'] = 1
    BY <2>1, <2>2 DEF IsAt
  <2>4. RunInv(own, rk)'
    <3>1. n' < rk[e'] /\ (n' = 0 => rk[e'] = 1) /\ ~(n' = 1) /\ 0 < rk[e']
      BY <2>1, <2>3
    <3>2. AsToldBut({L}, own, rk)' /\ Goal(own, rk)'
      BY <1>3, <1>6, <2>1 DEF RunInv, AsToldBut, Goal
    <3> QED
      BY <1>4, <2>1, <2>3, <3>1, <3>2 DEF RunInv
  <2>5. TypeOK' /\ WantOK'
    BY <1>1, <1>6, <2>1, <2>3, IndexType DEF TypeOK, WantOK
  <2> QED
    BY <1>2, <1>3, <1>6, <2>1, <2>4, <2>5 DEF Inv, At, Shape
<1>8. CASE runs <= 1
  <2>1. pc' = "command" /\ NoLocals
    BY <1>5, <1>8 DEF PassEnds, Return
  <2>2. Holds(want[L], L, data, own, rk)
    <3>1. InOrder(L, 1, Top(L, rk), data, own, rk) /\ Goal(own, rk)
      BY <1>3, <1>5, <1>8 DEF RunInv
    <3> QED
      BY <1>1, <1>3, <1>4, <3>1, SortedDone
  <2>3. \A m \in Lists : want'[m] # NULL => Holds(want'[m], m, data', own, rk)
    BY <1>3, <1>6, <2>2 DEF RunInv, AsToldBut
  <2>4. data' \in [Items -> Values \cup {0}] /\ want' = [m \in Lists |-> want'[m]]
    BY <1>1, <1>6 DEF TypeOK, WantOK
  <2>5. Placed(next', prev', own, rk) /\ Loose(next', prev', own)
    BY <1>3, <1>6
  <2> QED
    BY ONLY <1>1, <1>2, <2>1, <2>3, <2>4, <2>5, CommandKept
<1> QED
  BY <1>5, <1>7, <1>8

LEMMA MergeSorts ==
  ASSUME Inv, pc = "merge"
  PROVE  MergeSorted
<1>1. PICK own \in Owners, rk \in Ranks :
           /\ Placed(next, prev, own, rk) /\ Loose(next, prev, own) /\ MergeInv(own, rk)
           /\ L \in Lists /\ L # NULL /\ \A x \in Node : rk[x] \in Nat
           /\ edge \in Node /\ own[edge] = L /\ a0 \in Node /\ own[a0] = L
           /\ a1b0 \in Node /\ own[a1b0] = L /\ b1 \in Node /\ own[b1] = L
           /\ rk[edge] < rk[a0] /\ rk[a0] <= rk[a1b0] /\ rk[a1b0] <= rk[b1]
           /\ rk[b1] <= Top(L, rk) /\ Top(L, rk) \in Nat
  BY ONLY Inv, pc = "merge", MergeFacts
<1>2. \A x \in Items : x \in Node /\ rk[x] \in Nat /\ data[x] \in Int
  BY <1>1, DataInt, NodeFacts DEF Inv
<1>3. ASSUME NEW x \in Node, NEW y \in Node, own[x] = L, own[y] = L, rk[x] <= rk[y]
      PROVE  Span(x, y) = Stretch(L, rk[x], rk[y], own, rk)
  BY <1>1, <1>3, SpanIs
<1>4. ASSUME NEW x \in Node, NEW y \in Node, own[x] = L, own[y] = L, rk[x] <= rk[y],
             0 < rk[x], InOrder(L, rk[x], rk[y], data, own, rk)
      PROVE  is_sorted(x, y)
  <2>1. ASSUME NEW w \in Stretch(L, rk[x], rk[y], own, rk), next[w] # y
        PROVE  ~list_less(next[w], w)
    <3>1. w \in Node /\ own[w] = L /\ rk[x] <= rk[w] /\ rk[w] < rk[y]
      BY DEF Stretch
    <3>2. rk[y] <= Top(L, rk)
      BY <1>1, <1>4 DEF Placed, Bounded, Top
    <3>3. next[w] \in Node /\ own[next[w]] = L /\ rk[next[w]] = rk[w] + 1
      <4>1. rk[w] < Top(own[w], rk) /\ own[w] # NULL
        BY <1>1, <1>4, <3>1, <3>2
      <4>2. IsAt(next[w], own[w], rk[w] + 1, own, rk)
        BY <1>1, <3>1, <4>1, Neighbours
      <4> QED
        BY <3>1, <4>2 DEF IsAt
    <3>4. rk[next[w]] # rk[y]
      BY <1>1, <1>4, <2>1, <3>3 DEF Placed, Distinct
    <3>5. rk[next[w]] < rk[y] /\ rk[w] <= rk[next[w]] /\ 0 < rk[w]
      BY <1>1, <1>4, <3>1, <3>3, <3>4
    <3>6. w \in Items
      BY <1>1, <1>4, <3>1, <3>2, <3>5, InnerItem
    <3>7. next[w] \in Items
      <4>1. 0 < rk[next[w]] /\ rk[next[w]] < Top(L, rk)
        BY <1>1, <1>4, <3>1, <3>2, <3>3, <3>5
      <4> QED
        BY <1>1, <3>3, <4>1, InnerItem
    <3>8. data[w] <= data[next[w]]
      BY <1>4, <3>1, <3>3, <3>5, <3>6, <3>7 DEF InOrder
    <3> QED
      BY <1>2, <3>6, <3>7, <3>8 DEF list_less
  <2> QED
    BY <1>3, <1>4, <2>1 DEF is_sorted
<1>5. /\ InOrder(L, rk[edge] + 1, rk[a0], data, own, rk)
      /\ InOrder(L, rk[a0], rk[a1b0], data, own, rk)
      /\ InOrder(L, rk[a1b0], rk[b1], data, own, rk) /\ MergedFirst(own, rk)
  BY <1>1 DEF MergeInv
<1>6. rk[edge] \in Nat /\ rk[a0] \in Nat /\ 0 < rk[a0] /\ 0 < rk[a1b0]
      /\ rk[a0] <= rk[b1] /\ rk[b1] \in Nat
  BY <1>1
<1>7. is_sorted(a0, a1b0) /\ is_sorted(a1b0, b1)
  BY <1>1, <1>4, <1>5, <1>6
<1>8. a1b0 \in Span(a0, b1) \cup {b1}
  <2>1. CASE a1b0 = b1
    BY <2>1
  <2>2. CASE a1b0 # b1
    <3>1. rk[a1b0] < rk[b1]
      <4>1. rk[a1b0] # rk[b1]
        BY <1>1, <2>2 DEF Placed, Distinct
      <4> QED
        BY <1>1, <4>1
    <3>2. a1b0 \in Stretch(L, rk[a0], rk[b1], own, rk)
      BY <1>1, <3>1 DEF Stretch
    <3> QED
      BY <1>1, <1>3, <1>6, <3>2
  <2> QED
    BY <2>1, <2>2
<1>9. /\ next[edge] \in Node /\ own[next[edge]] = L /\ rk[next[edge]] = rk[edge] + 1
      /\ rk[next[edge]] <= rk[a0] /\ 0 < rk[next[edge]]
  <2>1. rk[edge] < Top(own[edge], rk) /\ own[edge] # NULL
    BY <1>1, <1>6
  <2>2. IsAt(next[edge], own[edge], rk[edge] + 1, own, rk)
    BY <1>1, <2>1, Neighbours
  <2>3. next[edge] \in Node /\ own[next[edge]] = L /\ rk[next[edge]] = rk[edge] + 1
    BY <1>1, <2>2 DEF IsAt
  <2> QED
    BY <1>1, <1>6, <2>3
<1>10. is_sorted(next[edge], a0)
  BY <1>1, <1>4, <1>5, <1>9
<1>11. ASSUME NEW x \in Span(next[edge], a0), NEW y \in Span(a0, b1) PROVE ~list_less(y, x)
  <2>1. x \in Node /\ own[x] = L /\ rk[edge] + 1 <= rk[x] /\ rk[x] < rk[a0]
    BY <1>1, <1>3, <1>9, <1>11 DEF Stretch
  <2>2. y \in Node /\ own[y] = L /\ rk[a0] <= rk[y] /\ rk[y] < rk[b1]
    BY <1>1, <1>3, <1>6, <1>11 DEF Stretch
  <2>3. x \in Items
    <3>1. 0 < rk[x] /\ rk[x] < Top(L, rk)
      BY <1>1, <1>6, <2>1
    <3> QED
      BY <1>1, <2>1, <3>1, InnerItem
  <2>4. y \in Items
    <3>1. 0 < rk[y] /\ rk[y] < Top(L, rk)
      BY <1>1, <1>6, <2>2
    <3> QED
      BY <1>1, <2>2, <3>1, InnerItem
  <2>5. rk[edge] < rk[x]
    BY <1>1, <1>6, <2>1
  <2>6. data[x] <= data[y]
    BY <1>5, <2>1, <2>2, <2>3, <2>4, <2>5 DEF MergedFirst
  <2> QED
    BY <1>2, <2>3, <2>4, <2>6 DEF list_less
<1> QED
  BY <1>7, <1>8, <1>10, <1>11 DEF MergeSorted
-------------------------------------------------------------------------------
(* list_unique, a turn at a time.                                          *)

\* At the start nothing is removed, and the first element is kept.
LEMMA KeptFirst ==
  ASSUME NEW s \in Seq(Int), 1 <= Len(s)
  PROVE  /\ Len(Chosen(s, FALSE)[1]) = 1 /\ Kept(s, 1) = s
         /\ Chosen(s, TRUE)[1] = <<>>
<1>1. 0 \in 0..Len(s) /\ 0 \in 0..(Len(s) - 1) /\ 0 + 1 = 1 /\ Len(s) \in Nat /\ Len(<<>>) = 0
  OBVIOUS
<1>2. ~Again(s, 0 + 1)
  BY DEF Again
<1>3. Chosen(s, FALSE)[0] = <<>> /\ Chosen(s, TRUE)[0] = <<>>
  BY ChosenIs
<1>4. /\ Len(Chosen(s, FALSE)[0 + 1]) = Len(Chosen(s, FALSE)[0]) + 1
      /\ Kept(s, 0 + 1) = Kept(s, 0)
      /\ Chosen(s, TRUE)[0 + 1] = Chosen(s, TRUE)[0]
  BY ONLY s \in Seq(Int), <1>1, <1>2, KeptStep
<1> DEFINE c == Chosen(s, FALSE)[0]
           t == Kept(s, 0)
<1>5. t \in Seq(Int) /\ Len(t) = Len(c) + (Len(s) - 0)
  BY <1>1, KeptIs
<1>6. \A j \in (0 + 1)..Len(s) : t[Len(c) + j - 0] = s[j]
  <2>1. PICK w, k : k = 0 /\ w = Chosen(s, FALSE)[k]
    OBVIOUS
  <2>2. k \in 0..Len(s)
    BY <1>1, <2>1
  <2>4. w = Chosen(s, FALSE)[k]
    BY <2>1
  <2>3. \A j \in (k + 1)..Len(s) : Kept(s, k)[Len(w) + j - k] = s[j]
    BY ONLY s \in Seq(Int), <2>2, <2>4, KeptAt
  <2> QED
    BY <2>1, <2>3
<1>7. Len(c) = 0
  BY <1>1, <1>3
<1> HIDE DEF c, t
<1>8. t = s
  <2>1. Len(t) = Len(s)
    BY <1>1, <1>5, <1>7
  <2>2. \A k \in 1..Len(t) : t[k] = s[k]
    BY ONLY <1>1, <1>6, <1>7, <2>1
  <2> QED
    BY ONLY s \in Seq(Int), <1>5, <2>1, <2>2, SameSeq
<1> QED
  BY <1>1, <1>3, <1>4, <1>7, <1>8 DEF c, t

\* At the end what is kept is all that is left, and nothing is still to do.
LEMMA KeptLast ==
  ASSUME NEW s \in Seq(Int)
  PROVE  /\ Kept(s, Len(s)) = Repeats(s, FALSE)
         /\ Chosen(s, TRUE)[Len(s)] = Repeats(s, TRUE)
<1>1. Repeats(s, FALSE) = Chosen(s, FALSE)[Len(s)] /\ Repeats(s, TRUE) = Chosen(s, TRUE)[Len(s)]
  BY ChosenIs
<1>2. Len(s) \in 0..Len(s) /\ Len(s) \in Nat
  OBVIOUS
<1> DEFINE m == Len(s)
           c == Chosen(s, FALSE)[m]
           t == Kept(s, m)
<1>3. c \in Seq(Int) /\ t \in Seq(Int) /\ Len(t) = Len(c) + (Len(s) - m)
  BY <1>2, KeptIs
<1>4. \A k \in 1..Len(c) : t[k] = c[k]
  <2>1. \A m0 \in 0..Len(s) : \A k \in 1..Len(Chosen(s, FALSE)[m0]) :
          Kept(s, m0)[k] = Chosen(s, FALSE)[m0][k]
    <3>1. TAKE m0 \in 0..Len(s)
    <3> DEFINE w == Chosen(s, FALSE)[m0]
    <3>2. /\ \A k \in 1..Len(w) : Kept(s, m0)[k] = w[k]
          /\ \A j \in (m0 + 1)..Len(s) : Kept(s, m0)[Len(w) + j - m0] = s[j]
      BY ONLY s \in Seq(Int), m0 \in 0..Len(s), KeptAt
    <3> QED
      BY <3>2
  <2> QED
    BY <1>2, <2>1
<1>5. Len(t) = Len(c)
  <2> HIDE DEF c, t
  <2>1. Len(c) \in Nat
    BY ONLY <1>3
  <2> QED
    BY <1>2, <1>3, <2>1
<1> HIDE DEF c, t
<1>6. t = c
  BY ONLY <1>3, <1>4, <1>5, SameSeq
<1> QED
  BY <1>1, <1>6 DEF c, t

\* Nothing after a sequence is the sequence.
LEMMA NoneAfter ==
  ASSUME NEW s \in Seq(Int)
  PROVE  s \o <<>> = s
<1>1. <<>> \in Seq(Int) /\ Len(<<>>) = 0 /\ Len(s) \in Nat
  OBVIOUS
<1> DEFINE z == <<>>
           t == s \o z
<1>2. z \in Seq(Int) /\ Len(z) = 0
  BY <1>1
<1> HIDE DEF z
<1>3. t \in Seq(Int) /\ Len(t) = Len(s) + Len(z) /\ \A k \in 1..Len(s) : t[k] = s[k]
  BY ONLY s \in Seq(Int), <1>2, CatIs
<1> HIDE DEF t
<1>4. Len(t) = Len(s)
  BY ONLY <1>1, <1>2, <1>3
<1>5. t = s
  BY ONLY s \in Seq(Int), <1>3, <1>4, SameSeq
<1> QED
  BY <1>5 DEF t, z

LEMMA UniqueStart ==
  ASSUME Inv, NEW l \in Lists, NEW d \in Lists \cup {NULL}, list_unique(l, d)
  PROVE  Inv'
<1>1. Command /\ TypeOK /\ WantOK /\ ~list_empty(l)
  BY DEF list_unique, Inv
<1>2. PICK own \in Owners, rk \in Ranks : At(own, rk)
  BY DEF Inv
<1>3. /\ Placed(next, prev, own, rk) /\ Loose(next, prev, own)
      /\ \A m \in Lists : want[m] # NULL => Holds(want[m], m, data, own, rk)
  BY <1>1, <1>2, AtCommand
<1>4. IsAt(list_begin(l), l, 1, own, rk) /\ Top(l, rk) # 1 /\ Top(l, rk) \in Nat
      /\ l # NULL /\ data \in [Items -> Int]
  BY <1>1, <1>3, EmptyIs, TopType, NodeFacts, DataInt
<1>15. PICK s, q : s = Contents(l) /\ q = IF d \in Lists THEN Contents(d) ELSE <<>>
  OBVIOUS
<1> DEFINE u == [want EXCEPT ![l] = Repeats(s, FALSE)]
<1>5. /\ L' = l /\ e' = list_begin(l) /\ dup' = d /\ pc' = "unique"
      /\ want' = CASE d = NULL -> u
                   [] d = l    -> [want EXCEPT ![l] = NULL]
                   [] OTHER    -> [u EXCEPT ![d] = q \o Repeats(s, TRUE)]
      /\ UNCHANGED <<next, prev, data, a0, a1b0, b1, n, edge>>
  <2>1. s = Contents(l) /\ (d \in Lists => q = Contents(d))
    BY <1>15
  <2>2. /\ L' = l /\ e' = list_begin(l) /\ dup' = d /\ pc' = "unique"
        /\ UNCHANGED <<next, prev, data, a0, a1b0, b1, n, edge>>
    BY DEF list_unique, links
  <2>3. want' = CASE d = NULL -> u
                  [] d = l    -> [want EXCEPT ![l] = NULL]
                  [] OTHER    -> [u EXCEPT ![d] = Contents(d) \o Repeats(s, TRUE)]
    BY <2>1 DEF list_unique
  <2>4. CASE d \in Lists
    <3>1. q = Contents(d)
      BY <2>1, <2>4
    <3> QED
      BY <2>2, <2>3, <3>1
  <2>5. CASE d = NULL
    BY <2>2, <2>3, <2>5
  <2> QED
    BY <2>4, <2>5
<1>6. /\ want' = [m \in Lists |-> want'[m]]
      /\ \A m \in Lists : m \notin {l, d} => want'[m] = want[m]
      /\ d = l => want'[l] = NULL
      /\ d # l => want'[l] = Repeats(s, FALSE)
      /\ d # l /\ d # NULL => want'[d] = q \o Repeats(s, TRUE)
  <2>1. CASE d = NULL
    <3>1. want' = u /\ d # l
      <4>1. d # l
        BY <1>4, <2>1
      <4> HIDE DEF u
      <4> QED
        BY ONLY <1>5, <2>1, <4>1
    <3> QED
      BY <1>1, <1>4, <2>1, <3>1 DEF WantOK
  <2>2. CASE d = l
    <3>1. want' = [want EXCEPT ![l] = NULL]
      BY <1>4, <1>5, <2>2
    <3> QED
      BY <1>1, <2>2, <3>1 DEF WantOK
  <2>3. CASE d # NULL /\ d # l
    <3>1. want' = [u EXCEPT ![d] = q \o Repeats(s, TRUE)]
      BY <1>5, <2>3
    <3>2. d \in Lists
      BY <2>3
    <3> QED
      BY <1>1, <2>3, <3>1, <3>2 DEF WantOK
  <2> QED
    BY <2>1, <2>2, <2>3
<1>7. e' \in Node /\ own[e'] = l /\ rk[e'] = 1
  BY <1>4, <1>5 DEF IsAt
<1>8. e' \in Items
  <2>1. own[e'] # NULL /\ (rk[e'] = Top(own[e'], rk) <=> e' = tail(own[e']))
        /\ (e' \in Items <=> rk[e'] \in 1..(Top(own[e'], rk) - 1))
        /\ Top(own[e'], rk) \in Nat \ {0}
    BY <1>3, <1>4, <1>7, Between
  <2>2. Top(l, rk) \in Nat \ {0}
    BY <1>7, <2>1
  <2>3. rk[e'] \in 1..(Top(l, rk) - 1)
    BY ONLY <1>4, <1>7, <2>2
  <2> QED
    BY <1>7, <2>1, <2>3
<1>9. TypeOK' /\ WantOK'
  BY <1>1, <1>5, <1>6, <1>7 DEF TypeOK, WantOK
<1>10. Holds(s, l, data, own, rk)
  BY <1>3, <1>4, <1>15, ContentsHold
<1>11. d \in Lists => Holds(q, d, data, own, rk)
  BY <1>3, <1>4, <1>15, ContentsHold
<1>12. s \in Seq(Int) /\ Len(s) = Top(l, rk) - 1 /\ s[1] = data[e'] /\ 1 <= Len(s)
  <2>1. s \in Seq(Int) /\ Len(s) = Top(l, rk) - 1 /\ s[1] = data[e']
    BY <1>7, <1>8, <1>10 DEF Holds
  <2>2. Len(s) \in Nat /\ 1 <= Len(s)
    BY <1>4, <2>1
  <2> QED
    BY <2>1, <2>2
<1>13. Len(Chosen(s, FALSE)[1]) = 1 /\ Kept(s, 1) = s /\ Chosen(s, TRUE)[1] = <<>>
  BY ONLY <1>12, KeptFirst
<1>14. q \in Seq(Int) /\ q \o <<>> = q
  <2>1. q \in Seq(Int)
    <3>1. CASE d \in Lists
      BY <1>11, <3>1 DEF Holds
    <3>2. CASE d \notin Lists
      <4>1. q = <<>>
        BY <1>15, <3>2
      <4> QED
        BY <4>1
    <3> QED
      BY <3>1, <3>2
  <2> QED
    BY ONLY <2>1, NoneAfter
<1>16. ASSUME d # l PROVE UniqueAt(s, 1, q, own, rk)'
  <2>0. data' = data /\ dup' = d /\ L' = l
    BY <1>5
  <2>1. dup' # NULL => /\ want'[dup'] = q \o Repeats(s, TRUE)
                       /\ Holds(q \o Chosen(s, TRUE)[1], dup', data', own, rk)
    BY ONLY <1>6, <1>11, <1>13, <1>14, <1>16, <2>0, d \in Lists \cup {NULL}
  <2>2. Holds(Kept(s, 1), L', data', own, rk)
    BY ONLY <2>0, <1>10, <1>13
  <2>3. 1 \in 1..Len(s) /\ data'[e'] = s[1] /\ Len(Chosen(s, FALSE)[1]) = rk[e']
    <3>1. 1 \in 1..Len(s)
      BY ONLY <1>12
    <3>2. data'[e'] = s[1]
      BY ONLY <1>12, <2>0
    <3>3. Len(Chosen(s, FALSE)[1]) = rk[e']
      BY ONLY <1>7, <1>13
    <3> QED
      BY ONLY <3>1, <3>2, <3>3
  <2>4. want'[L'] = Repeats(s, FALSE)
    BY ONLY <1>6, <1>16, <2>0
  <2> QED
    BY ONLY <1>12, <1>14, <2>1, <2>2, <2>3, <2>4 DEF UniqueAt
<1>17. UniqueInv(own, rk)'
  <2>1. L' \in Lists /\ e' \in Items /\ own[e'] = L'
    BY <1>5, <1>7, <1>8
  <2>2. AsToldBut({L, dup}, own, rk)'
    <3>1. data' = data /\ L' = l /\ dup' = d
      BY <1>5
    <3> QED
      BY ONLY <1>3, <1>6, <3>1 DEF AsToldBut
  <2>3. dup' = L' => want'[L'] = NULL
    BY <1>5, <1>6
  <2>4. (dup # L => \E t, m, c : UniqueAt(t, m, c, own, rk))'
    BY <1>5, <1>16
  <2> QED
    BY ONLY <2>1, <2>2, <2>3, <2>4 DEF UniqueInv
<1>18. Shape(own, rk)'
  BY <1>3, <1>5 DEF Shape
<1>19. pc' = "unique"
  BY <1>5
<1>20. At(own, rk)'
  BY ONLY <1>17, <1>18, <1>19 DEF At
<1> QED
  BY ONLY <1>2, <1>9, <1>20 DEF Inv
\* The element unique looks at, after the one it is at.
LEMMA UniqueFacts ==
  ASSUME Inv, pc = "unique"
  PROVE  \E own \in Owners, rk \in Ranks :
           /\ Placed(next, prev, own, rk) /\ Loose(next, prev, own) /\ UniqueInv(own, rk)
           /\ L \in Lists /\ L # NULL /\ e \in Items /\ e \in Node /\ own[e] = L
           /\ rk[e] \in Nat /\ 0 < rk[e] /\ Top(L, rk) \in Nat
           /\ next[e] \in Node /\ own[next[e]] = L /\ rk[next[e]] = rk[e] + 1
           /\ next[e] = tail(L) => rk[e] + 1 = Top(L, rk)
           /\ next[e] # tail(L) => next[e] \in Items /\ rk[e] + 1 < Top(L, rk)
<1>1. PICK own \in Owners, rk \in Ranks : At(own, rk)
  BY DEF Inv
<1>2. Placed(next, prev, own, rk) /\ Loose(next, prev, own) /\ UniqueInv(own, rk)
  BY <1>1 DEF At, Shape
<1>3. L \in Lists /\ L # NULL /\ e \in Items /\ e \in Node /\ own[e] = L
  BY <1>2, NodeFacts DEF UniqueInv
<1>4. own[e] # NULL /\ Top(L, rk) \in Nat \ {0}
      /\ (e \in Items <=> rk[e] \in 1..(Top(own[e], rk) - 1))
  BY <1>2, <1>3, Between
<1>5. rk[e] \in Nat /\ 0 < rk[e] /\ Top(L, rk) \in Nat /\ rk[e] < Top(L, rk)
  <2>1. rk[e] \in 1..(Top(L, rk) - 1)
    BY ONLY <1>3, <1>4
  <2> QED
    BY ONLY <1>4, <2>1
<1>6. next[e] \in Node /\ own[next[e]] = L /\ rk[next[e]] = rk[e] + 1
  <2>1. IsAt(next[e], own[e], rk[e] + 1, own, rk)
    BY <1>2, <1>3, <1>4, <1>5, Neighbours
  <2> QED
    BY <1>3, <2>1 DEF IsAt
<1>7. /\ own[next[e]] # NULL
      /\ (rk[next[e]] = Top(own[next[e]], rk) <=> next[e] = tail(own[next[e]]))
      /\ (next[e] \in Items <=> rk[next[e]] \in 1..(Top(own[next[e]], rk) - 1))
  BY <1>2, <1>3, <1>6, Between
<1>8. next[e] = tail(L) => rk[e] + 1 = Top(L, rk)
  BY <1>6, <1>7
<1>9. next[e] # tail(L) => next[e] \in Items /\ rk[e] + 1 < Top(L, rk)
  <2>1. ASSUME next[e] # tail(L) PROVE rk[e] + 1 # Top(L, rk)
    BY <1>6, <1>7, <2>1
  <2>2. ASSUME rk[e] + 1 # Top(L, rk)
        PROVE  rk[e] + 1 < Top(L, rk) /\ rk[e] + 1 \in 1..(Top(L, rk) - 1)
    BY ONLY <1>5, <2>2
  <2> QED
    BY <1>6, <1>7, <2>1, <2>2
<1> QED
  BY ONLY <1>2, <1>3, <1>5, <1>6, <1>8, <1>9, own \in Owners, rk \in Ranks

\* It is the next of s, and is equal when that is again what came before.
LEMMA UniqueTurn ==
  ASSUME TypeOK, NEW own, NEW rk, UniqueInv(own, rk), Top(L, rk) \in Nat, rk[e] \in Nat,
         NEW x \in Items, own[x] = L, rk[x] = rk[e] + 1, rk[e] + 1 < Top(L, rk),
         NEW s, NEW m, NEW c, UniqueAt(s, m, c, own, rk)
  PROVE  /\ s \in Seq(Int) /\ c \in Seq(Int) /\ m \in 1..Len(s) /\ m \in 0..(Len(s) - 1)
         /\ m + 1 \in 1..Len(s) /\ m \in 0..Len(s)
         /\ data[x] = s[m + 1] /\ data[e] = s[m] /\ (equal(e, x) <=> Again(s, m + 1))
<1>1. /\ s \in Seq(Int) /\ c \in Seq(Int) /\ m \in 1..Len(s) /\ data[e] = s[m]
      /\ Len(Chosen(s, FALSE)[m]) = rk[e] /\ Holds(Kept(s, m), L, data, own, rk)
  BY DEF UniqueAt
<1>2. Len(s) \in Nat /\ m \in 0..Len(s) /\ m \in Nat
  BY <1>1
<1>3. /\ Len(Kept(s, m)) = Len(Chosen(s, FALSE)[m]) + (Len(s) - m)
      /\ (m < Len(s) => Kept(s, m)[Len(Chosen(s, FALSE)[m]) + 1] = s[m + 1])
  BY ONLY <1>1, <1>2, KeptIs
<1>4. Len(Kept(s, m)) = Top(L, rk) - 1 /\ Kept(s, m)[rk[x]] = data[x]
  BY <1>1 DEF Holds
<1>5. m < Len(s)
  <2>1. Top(L, rk) - 1 = rk[e] + (Len(s) - m)
    BY ONLY <1>1, <1>3, <1>4
  <2> QED
    BY ONLY <1>2, <2>1, rk[e] + 1 < Top(L, rk), Top(L, rk) \in Nat, rk[e] \in Nat
<1>6. m \in 0..(Len(s) - 1) /\ m + 1 \in 1..Len(s) /\ m + 1 > 1 /\ (m + 1) - 1 = m
  BY ONLY <1>1, <1>2, <1>5
<1>7. data[x] = s[m + 1]
  BY <1>1, <1>3, <1>4, <1>5
<1>8. equal(e, x) <=> s[m + 1] = s[m]
  <2>1. s[m] \in Int /\ s[m + 1] \in Int
    BY <1>1, <1>6
  <2>2. (~(s[m] < s[m + 1]) /\ ~(s[m + 1] < s[m])) <=> s[m + 1] = s[m]
    BY ONLY <2>1
  <2> QED
    BY ONLY <1>1, <1>7, <2>2 DEF equal, list_less
<1>9. Again(s, m + 1) <=> s[m + 1] = s[m]
  BY ONLY <1>6 DEF Again
<1> QED
  BY ONLY <1>1, <1>2, <1>6, <1>7, <1>8, <1>9

\* An element that is not equal is kept.
LEMMA UniqueKeeps ==
  ASSUME Inv, UniqueStep, ~equal(e, next[e])
  PROVE  Inv'
<1>1. pc = "unique" /\ pc' = "unique" /\ next[e] # tail(L) /\ TypeOK /\ WantOK
      /\ e' = next[e] /\ UNCHANGED <<next, prev, data, L, dup, a0, a1b0, b1, n, edge, want>>
  BY DEF UniqueStep, Inv, links
<1> DEFINE x == next[e]
<1>2. PICK own \in Owners, rk \in Ranks :
        /\ Placed(next, prev, own, rk) /\ Loose(next, prev, own) /\ UniqueInv(own, rk)
        /\ L \in Lists /\ rk[e] \in Nat /\ 0 < rk[e] /\ Top(L, rk) \in Nat
        /\ x \in Node /\ own[x] = L /\ rk[x] = rk[e] + 1
        /\ x \in Items /\ rk[e] + 1 < Top(L, rk)
  BY <1>1, UniqueFacts
<1> HIDE DEF x
<1>3. e' = x
  BY <1>1 DEF x
<1>4. ASSUME NEW s, NEW m, NEW c, UniqueAt(s, m, c, own, rk)
      PROVE  UniqueAt(s, m + 1, c, own, rk)'
  <2>1. /\ s \in Seq(Int) /\ c \in Seq(Int) /\ m \in 0..(Len(s) - 1)
        /\ m + 1 \in 1..Len(s)
        /\ data[x] = s[m + 1] /\ (equal(e, x) <=> Again(s, m + 1))
    BY ONLY <1>1, <1>2, <1>4, UniqueTurn
  <2>2. ~Again(s, m + 1)
    BY <2>1 DEF x
  <2>3. /\ Len(Chosen(s, FALSE)[m + 1]) = Len(Chosen(s, FALSE)[m]) + 1
        /\ Kept(s, m + 1) = Kept(s, m)
        /\ Chosen(s, TRUE)[m + 1] = Chosen(s, TRUE)[m]
    BY ONLY <2>1, <2>2, KeptStep
  <2>4. /\ Len(Chosen(s, FALSE)[m]) = rk[e]
        /\ Holds(Kept(s, m), L, data, own, rk) /\ want[L] = Repeats(s, FALSE)
        /\ dup # NULL => /\ want[dup] = c \o Repeats(s, TRUE)
                         /\ Holds(c \o Chosen(s, TRUE)[m], dup, data, own, rk)
    BY ONLY <1>4 DEF UniqueAt
  <2>5. /\ data'[e'] = s[m + 1] /\ Len(Chosen(s, FALSE)[m + 1]) = rk[e']
        /\ Holds(Kept(s, m + 1), L', data', own, rk) /\ want'[L'] = Repeats(s, FALSE)
        /\ dup' # NULL => /\ want'[dup'] = c \o Repeats(s, TRUE)
                          /\ Holds(c \o Chosen(s, TRUE)[m + 1], dup', data', own, rk)
    BY ONLY <1>1, <1>2, <1>3, <2>1, <2>3, <2>4
  <2> QED
    BY ONLY <2>1, <2>5 DEF UniqueAt
<1>5. UniqueInv(own, rk)'
  <2>1. L' \in Lists /\ e' \in Items /\ own[e'] = L'
    BY <1>1, <1>2, <1>3
  <2>2. AsToldBut({L, dup}, own, rk)' /\ (dup' = L' => want'[L'] = NULL)
    BY <1>1, <1>2 DEF AsToldBut, UniqueInv
  <2>3. (dup # L => \E s, m, c : UniqueAt(s, m, c, own, rk))'
    <3>1. dup # L => \E s, m, c : UniqueAt(s, m, c, own, rk)
      BY <1>2 DEF UniqueInv
    <3> QED
      BY <1>1, <1>4, <3>1
  <2> QED
    BY ONLY <2>1, <2>2, <2>3 DEF UniqueInv
<1>6. TypeOK' /\ WantOK'
  BY <1>1, <1>2, <1>3 DEF TypeOK, WantOK
<1>7. At(own, rk)'
  BY <1>1, <1>2, <1>5 DEF At, Shape
<1> QED
  BY ONLY <1>2, <1>6, <1>7 DEF Inv
\* One that is, and that nobody wants, is taken out of the list.
LEMMA UniqueFrees ==
  ASSUME Inv, UniqueStep, equal(e, next[e]), dup = NULL
  PROVE  Inv'
<1> DEFINE x == next[e]
           h == list_remove(heap, x)
           k == Dead(h, x)
<1>1. pc = "unique" /\ pc' = "unique" /\ x # tail(L) /\ TypeOK /\ WantOK /\ equal(e, x)
      /\ k.next = next' /\ k.prev = prev' /\ data' = [data EXCEPT ![x] = 0]
      /\ UNCHANGED <<e, L, dup, a0, a1b0, b1, n, edge, want>>
  BY DEF UniqueStep, Inv, SetHeap
<1>2. PICK own \in Owners, rk \in Ranks :
        /\ Placed(next, prev, own, rk) /\ Loose(next, prev, own) /\ UniqueInv(own, rk)
        /\ L \in Lists /\ L # NULL /\ e \in Items /\ e \in Node /\ own[e] = L
        /\ rk[e] \in Nat /\ 0 < rk[e] /\ Top(L, rk) \in Nat
        /\ x \in Node /\ own[x] = L /\ rk[x] = rk[e] + 1
        /\ x \in Items /\ rk[e] + 1 < Top(L, rk)
  BY <1>1, UniqueFacts
<1>3. h = list_remove([next |-> next, prev |-> prev], x)
  BY DEF heap
<1> HIDE DEF x, h
<1>4. own[x] # NULL /\ x # e
  BY <1>2
<1>5. PICK o \in Owners, r \in Ranks :
        /\ h = [next |-> h.next, prev |-> h.prev]
        /\ Placed(h.next, h.prev, o, r) /\ LooseBut(h.next, h.prev, o, {x})
        /\ \A y \in Node :
             /\ o[y] = IF y = x THEN NULL ELSE own[y]
             /\ r[y] = IF own[y] = L /\ rk[y] > rk[x] THEN rk[y] - 1 ELSE rk[y]
        /\ \A d, t, m : m \in Lists /\ Holds(t, m, d, own, rk)
             => Holds(IF m = L THEN RemoveAt(t, rk[x]) ELSE t, m, d, o, r)
  <2>1. Removed(h, x, own, rk)
    BY ONLY <1>2, <1>3, <1>4, RemoveDoes
  <2> QED
    BY ONLY <1>2, <2>1 DEF Removed
<1>6. o[x] = NULL /\ o[e] = L /\ r[e] = rk[e]
  <2>1. ~(rk[e] > rk[x])
    BY ONLY <1>2
  <2> QED
    BY <1>2, <1>4, <1>5, <2>1
<1>7. k = Dead([next |-> h.next, prev |-> h.prev], x)
  BY <1>5
<1> HIDE DEF k
<1>8. Placed(next', prev', o, r) /\ Loose(next', prev', o)
  <2>1. Placed(k.next, k.prev, o, r) /\ Loose(k.next, k.prev, o)
    BY ONLY <1>2, <1>5, <1>6, <1>7, DeadDoes
  <2> QED
    BY <1>1, <2>1
<1>9. ASSUME NEW t, NEW m \in Lists, Holds(t, m, data, own, rk)
      PROVE  Holds(IF m = L THEN RemoveAt(t, rk[x]) ELSE t, m, data', o, r)
  <2> DEFINE w == IF m = L THEN RemoveAt(t, rk[x]) ELSE t
  <2>1. Holds(w, m, data, o, r)
    BY ONLY <1>5, <1>9
  <2>2. \A y \in Items : o[y] = m => data'[y] = data[y]
    BY <1>1, <1>6, NodeFacts DEF TypeOK
  <2> HIDE DEF w
  <2>3. Holds(w, m, data', o, r)
    BY ONLY <2>1, <2>2, m \in Lists, HoldsFrame
  <2> QED
    BY <2>3 DEF w
<1>10. data'[e] = data[e]
  BY <1>1, <1>2, <1>4 DEF TypeOK
<1>11. ASSUME NEW s, NEW m, NEW c, UniqueAt(s, m, c, own, rk)
       PROVE  UniqueAt(s, m + 1, c, o, r)'
  <2>1. /\ s \in Seq(Int) /\ c \in Seq(Int) /\ m \in 0..(Len(s) - 1) /\ m + 1 \in 1..Len(s)
        /\ data[x] = s[m + 1] /\ data[e] = s[m] /\ (equal(e, x) <=> Again(s, m + 1))
        /\ m \in 1..Len(s)
    BY ONLY <1>1, <1>2, <1>11, UniqueTurn
  <2>2. Again(s, m + 1)
    BY <1>1, <2>1
  <2>3. /\ Chosen(s, FALSE)[m + 1] = Chosen(s, FALSE)[m]
        /\ RemoveAt(Kept(s, m), Len(Chosen(s, FALSE)[m]) + 1) = Kept(s, m + 1)
    BY ONLY <2>1, <2>2, KeptStep
  <2>4. /\ Len(Chosen(s, FALSE)[m]) = rk[e]
        /\ Holds(Kept(s, m), L, data, own, rk) /\ want[L] = Repeats(s, FALSE)
    BY ONLY <1>11 DEF UniqueAt
  <2>5. s[m + 1] = s[m]
    <3>1. (m + 1) - 1 = m
      BY ONLY <2>1
    <3> QED
      BY ONLY <2>2, <3>1 DEF Again
  <2>6. Holds(Kept(s, m + 1), L, data', o, r)
    <3>1. Holds(IF L = L THEN RemoveAt(Kept(s, m), rk[x]) ELSE Kept(s, m), L, data', o, r)
      BY ONLY <1>2, <1>9, <2>4
    <3>2. RemoveAt(Kept(s, m), rk[x]) = Kept(s, m + 1)
      BY ONLY <1>2, <2>3, <2>4
    <3> QED
      BY ONLY <3>1, <3>2
  <2>7. /\ data'[e'] = s[m + 1] /\ Len(Chosen(s, FALSE)[m + 1]) = r[e']
        /\ Holds(Kept(s, m + 1), L', data', o, r) /\ want'[L'] = Repeats(s, FALSE)
        /\ dup' = NULL
    BY ONLY <1>1, <1>6, <1>10, <2>1, <2>3, <2>4, <2>5, <2>6, dup = NULL
  <2> QED
    BY ONLY <2>1, <2>7 DEF UniqueAt
<1>12. UniqueInv(o, r)'
  <2>1. L' \in Lists /\ e' \in Items /\ o[e'] = L' /\ dup' # L'
    BY <1>1, <1>2, <1>6
  <2>2. AsToldBut({L, dup}, o, r)'
    <3>1. ASSUME NEW m \in Lists, m \notin {L, dup}, want[m] # NULL
          PROVE  Holds(want[m], m, data', o, r)
      <4>1. Holds(want[m], m, data, own, rk) /\ m # L
        BY <1>2, <3>1 DEF UniqueInv, AsToldBut
      <4> QED
        BY ONLY <1>9, <4>1, m \in Lists
    <3>2. want' = want /\ L' = L /\ dup' = dup
      BY <1>1
    <3> QED
      BY ONLY <3>1, <3>2 DEF AsToldBut
  <2>3. (dup # L => \E s, m, c : UniqueAt(s, m, c, o, r))'
    <3>1. \E s, m, c : UniqueAt(s, m, c, own, rk)
      BY <1>2, dup = NULL DEF UniqueInv
    <3> QED
      BY <1>11, <3>1
  <2> QED
    BY ONLY <2>1, <2>2, <2>3 DEF UniqueInv
<1>13. TypeOK' /\ WantOK'
  <2>1. next' \in [Node -> Node \cup {NULL}] /\ prev' \in [Node -> Node \cup {NULL}]
    BY <1>8 DEF Placed, Link
  <2>2. data' \in [Items -> Values \cup {0}]
    BY <1>1 DEF TypeOK
  <2> QED
    BY <1>1, <2>1, <2>2 DEF TypeOK, WantOK
<1>14. At(o, r)'
  BY <1>1, <1>8, <1>12 DEF At, Shape
<1> QED
  BY ONLY <1>5, <1>13, <1>14 DEF Inv
\* One that is goes to the end of the other list, which may be this one.
LEMMA UniqueMoves ==
  ASSUME Inv, UniqueStep, equal(e, next[e]), dup # NULL
  PROVE  Inv'
<1> DEFINE x == next[e]
           h == list_remove(heap, x)
           k == list_insert(h, tail(dup), x)
<1>1. pc = "unique" /\ pc' = "unique" /\ x # tail(L) /\ TypeOK /\ WantOK /\ equal(e, x)
      /\ k.next = next' /\ k.prev = prev' /\ dup \in Lists
      /\ UNCHANGED <<data, e, L, dup, a0, a1b0, b1, n, edge, want>>
  BY DEF UniqueStep, Inv, SetHeap, TypeOK
<1>2. PICK own \in Owners, rk \in Ranks :
        /\ Placed(next, prev, own, rk) /\ Loose(next, prev, own) /\ UniqueInv(own, rk)
        /\ L \in Lists /\ L # NULL /\ e \in Items /\ e \in Node /\ own[e] = L
        /\ rk[e] \in Nat /\ 0 < rk[e] /\ Top(L, rk) \in Nat
        /\ x \in Node /\ own[x] = L /\ rk[x] = rk[e] + 1
        /\ x \in Items /\ rk[e] + 1 < Top(L, rk)
  BY <1>1, UniqueFacts
<1>3. h = list_remove([next |-> next, prev |-> prev], x)
  BY DEF heap
<1> HIDE DEF x, h
<1>4. own[x] # NULL /\ x # e
  BY <1>2
<1>5. PICK o1 \in Owners, r1 \in Ranks :
        /\ h = [next |-> h.next, prev |-> h.prev]
        /\ Placed(h.next, h.prev, o1, r1) /\ LooseBut(h.next, h.prev, o1, {x})
        /\ \A y \in Node :
             /\ o1[y] = IF y = x THEN NULL ELSE own[y]
             /\ r1[y] = IF own[y] = L /\ rk[y] > rk[x] THEN rk[y] - 1 ELSE rk[y]
        /\ \A d, t, m : m \in Lists /\ Holds(t, m, d, own, rk)
             => Holds(IF m = L THEN RemoveAt(t, rk[x]) ELSE t, m, d, o1, r1)
  <2>1. Removed(h, x, own, rk)
    BY ONLY <1>2, <1>3, <1>4, RemoveDoes
  <2> QED
    BY ONLY <1>2, <2>1 DEF Removed
<1>6. o1[x] = NULL /\ o1[e] = L /\ r1[e] = rk[e]
  <2>1. ~(rk[e] > rk[x])
    BY ONLY <1>2
  <2> QED
    BY <1>2, <1>4, <1>5, <2>1
<1> DEFINE b == tail(dup)
<1>7. /\ b \in Node /\ o1[b] = dup /\ o1[b] # NULL /\ r1[b] = Top(dup, r1) /\ 0 < r1[b]
      /\ b # x
  <2>1. b \in Node /\ o1[b] = dup
    BY <1>1, <1>5, EndFacts DEF Placed, EndsPlaced
  <2>2. o1[b] # NULL
    BY <1>1, <2>1, NodeFacts
  <2>3. Top(dup, r1) \in Nat \ {0} /\ r1[b] = Top(dup, r1)
    <3>1. Top(o1[b], r1) \in Nat \ {0}
      BY <1>5, <2>1, <2>2, Between
    <3> QED
      BY <2>1, <3>1 DEF Top
  <2>4. b # x
    BY <1>1, <1>2, EndFacts
  <2> QED
    BY <2>1, <2>2, <2>3, <2>4
<1>8. k = list_insert([next |-> h.next, prev |-> h.prev], b, x)
  BY <1>5
<1> HIDE DEF k, b
<1>9. PICK o \in Owners, r \in Ranks :
        /\ Placed(next', prev', o, r) /\ Loose(next', prev', o)
        /\ \A y \in Node :
             /\ o[y] = IF y = x THEN dup ELSE o1[y]
             /\ r[y] = IF y = x THEN r1[b]
                       ELSE IF o1[y] = dup /\ r1[y] >= r1[b] THEN r1[y] + 1 ELSE r1[y]
        /\ \A d, t, v, m :
             /\ d \in [Items -> Int] /\ v \in Int /\ m \in Lists
             /\ Holds(t, m, d, o1, r1)
             => Holds(IF m = dup THEN InsertAt(t, r1[b], v) ELSE t, m,
                      [d EXCEPT ![x] = v], o, r)
  <2>1. Inserted(k, x, b, o1, r1)
    BY ONLY <1>2, <1>5, <1>6, <1>7, <1>8, InsertDoes
  <2> QED
    BY ONLY <1>1, <1>7, <2>1, ZenonT(30) DEF Inserted
<1>10. o[e] = L /\ (dup # L => r[e] = rk[e])
  BY <1>2, <1>4, <1>6, <1>9
<1>11. data \in [Items -> Int] /\ data[x] \in Int /\ [data EXCEPT ![x] = data[x]] = data
  <2>1. data \in [Items -> Int]
    BY <1>1, DataInt
  <2> QED
    BY <1>2, <2>1
<1>12. ASSUME NEW t, NEW m \in Lists, Holds(t, m, data, own, rk)
       PROVE  LET u == IF m = L THEN RemoveAt(t, rk[x]) ELSE t
              IN  Holds(IF m = dup THEN InsertAt(u, r1[b], data[x]) ELSE u, m, data, o, r)
                  /\ Holds(u, m, data, o1, r1)
  <2> DEFINE u == IF m = L THEN RemoveAt(t, rk[x]) ELSE t
  <2>1. Holds(u, m, data, o1, r1)
    BY ONLY <1>5, <1>12
  <2> HIDE DEF u
  <2>2. Holds(IF m = dup THEN InsertAt(u, r1[b], data[x]) ELSE u, m,
              [data EXCEPT ![x] = data[x]], o, r)
    BY ONLY <1>9, <1>11, <2>1, m \in Lists
  <2>3. Holds(IF m = dup THEN InsertAt(u, r1[b], data[x]) ELSE u, m, data, o, r)
    BY ONLY <1>11, <2>2
  <2> QED
    BY ONLY <2>1, <2>3 DEF u
<1>13. ASSUME NEW s, NEW m, NEW c, UniqueAt(s, m, c, own, rk), dup # L
       PROVE  UniqueAt(s, m + 1, c, o, r)'
  <2>1. /\ s \in Seq(Int) /\ c \in Seq(Int) /\ m \in 0..(Len(s) - 1) /\ m + 1 \in 1..Len(s)
        /\ data[x] = s[m + 1] /\ data[e] = s[m] /\ (equal(e, x) <=> Again(s, m + 1))
        /\ m \in 1..Len(s) /\ m \in 0..Len(s)
    BY ONLY <1>1, <1>2, <1>13, UniqueTurn
  <2>2. Again(s, m + 1)
    BY <1>1, <2>1
  <2>3. /\ Chosen(s, FALSE)[m + 1] = Chosen(s, FALSE)[m]
        /\ RemoveAt(Kept(s, m), Len(Chosen(s, FALSE)[m]) + 1) = Kept(s, m + 1)
        /\ Chosen(s, TRUE)[m + 1] = Append(Chosen(s, TRUE)[m], s[m + 1])
    BY ONLY <2>1, <2>2, KeptStep
  <2>4. /\ Len(Chosen(s, FALSE)[m]) = rk[e]
        /\ Holds(Kept(s, m), L, data, own, rk) /\ want[L] = Repeats(s, FALSE)
        /\ want[dup] = c \o Repeats(s, TRUE)
        /\ Holds(c \o Chosen(s, TRUE)[m], dup, data, own, rk)
    BY ONLY <1>13, dup # NULL DEF UniqueAt
  <2>5. s[m + 1] = s[m]
    <3>1. (m + 1) - 1 = m
      BY ONLY <2>1
    <3> QED
      BY ONLY <2>2, <3>1 DEF Again
  <2>6. Holds(Kept(s, m + 1), L, data, o, r)
    <3>1. LET u == IF L = L THEN RemoveAt(Kept(s, m), rk[x]) ELSE Kept(s, m)
          IN  Holds(IF L = dup THEN InsertAt(u, r1[b], data[x]) ELSE u, L, data, o, r)
              /\ Holds(u, L, data, o1, r1)
      BY ONLY <1>2, <1>12, <2>4
    <3>2. RemoveAt(Kept(s, m), rk[x]) = Kept(s, m + 1)
      BY ONLY <1>2, <2>3, <2>4
    <3> QED
      BY ONLY <1>13, <3>1, <3>2
  <2>7. Holds(c \o Chosen(s, TRUE)[m + 1], dup, data, o, r)
    <3>1. PICK w : w = Chosen(s, TRUE)[m]
      OBVIOUS
    <3>2. w \in Seq(Int) /\ data[x] \in Int
      BY <1>11, <2>1, <3>1, ChosenIs
    <3>3. LET u == IF dup = L THEN RemoveAt(c \o w, rk[x]) ELSE c \o w
          IN  Holds(IF dup = dup THEN InsertAt(u, r1[b], data[x]) ELSE u, dup, data, o, r)
              /\ Holds(u, dup, data, o1, r1)
      BY ONLY <1>1, <1>12, <2>4, <3>1
    <3>4. Holds(InsertAt(c \o w, r1[b], data[x]), dup, data, o, r)
          /\ Holds(c \o w, dup, data, o1, r1)
      BY ONLY <1>13, <3>3
    <3>5. r1[b] = Len(c \o w) + 1
      <4>1. Len(c \o w) = Top(dup, r1) - 1 /\ r1[b] = Top(dup, r1) /\ r1[b] \in Nat
        BY <1>5, <1>7, <3>4 DEF Holds, Ranks
      <4> QED
        BY ONLY <4>1
    <3>6. InsertAt(c \o w, Len(c \o w) + 1, data[x]) = c \o Append(w, data[x])
      BY ONLY <2>1, <3>2, PutLast
    <3>7. Chosen(s, TRUE)[m + 1] = Append(w, data[x])
      BY ONLY <2>1, <2>3, <3>1
    <3> QED
      BY ONLY <3>4, <3>5, <3>6, <3>7
  <2>8. /\ data'[e'] = s[m + 1] /\ Len(Chosen(s, FALSE)[m + 1]) = r[e']
        /\ Holds(Kept(s, m + 1), L', data', o, r) /\ want'[L'] = Repeats(s, FALSE)
        /\ want'[dup'] = c \o Repeats(s, TRUE)
        /\ Holds(c \o Chosen(s, TRUE)[m + 1], dup', data', o, r)
    BY ONLY <1>1, <1>10, <1>13, <2>1, <2>3, <2>4, <2>5, <2>6, <2>7
  <2> QED
    BY ONLY <2>1, <2>8 DEF UniqueAt
<1>14. UniqueInv(o, r)'
  <2>1. L' \in Lists /\ e' \in Items /\ o[e'] = L' /\ (dup' = L' => want'[L'] = NULL)
    BY <1>1, <1>2, <1>10 DEF UniqueInv
  <2>2. AsToldBut({L, dup}, o, r)'
    <3>1. ASSUME NEW m \in Lists, m \notin {L, dup}, want[m] # NULL
          PROVE  Holds(want[m], m, data, o, r)
      <4>1. Holds(want[m], m, data, own, rk) /\ m # L /\ m # dup
        BY <1>2, <3>1 DEF UniqueInv, AsToldBut
      <4>2. LET u == IF m = L THEN RemoveAt(want[m], rk[x]) ELSE want[m]
            IN  Holds(IF m = dup THEN InsertAt(u, r1[b], data[x]) ELSE u, m, data, o, r)
                /\ Holds(u, m, data, o1, r1)
        BY ONLY <1>12, <4>1, m \in Lists
      <4> QED
        BY ONLY <4>1, <4>2
    <3>2. want' = want /\ L' = L /\ dup' = dup /\ data' = data
      BY <1>1
    <3> QED
      BY ONLY <3>1, <3>2 DEF AsToldBut
  <2>3. (dup # L => \E s, m, c : UniqueAt(s, m, c, o, r))'
    <3>1. dup # L => \E s, m, c : UniqueAt(s, m, c, own, rk)
      BY <1>2 DEF UniqueInv
    <3>2. dup' = dup /\ L' = L
      BY <1>1
    <3> QED
      BY ONLY <1>13, <3>1, <3>2
  <2> QED
    BY ONLY <2>1, <2>2, <2>3 DEF UniqueInv
<1>15. TypeOK' /\ WantOK'
  <2>1. next' \in [Node -> Node \cup {NULL}] /\ prev' \in [Node -> Node \cup {NULL}]
    BY <1>9 DEF Placed, Link
  <2> QED
    BY <1>1, <2>1 DEF TypeOK, WantOK
<1>16. At(o, r)'
  BY <1>1, <1>9, <1>14 DEF At, Shape
<1> QED
  BY ONLY <1>9, <1>15, <1>16 DEF Inv
\* When the next is the tail all of s has been done.
LEMMA UniqueEnds ==
  ASSUME Inv, UniqueDone
  PROVE  Inv'
<1>1. pc = "unique" /\ pc' = "command" /\ next[e] = tail(L) /\ TypeOK /\ WantOK /\ NoLocals
      /\ UNCHANGED <<next, prev, data, want>>
  BY DEF UniqueDone, Inv, Return, links
<1>2. PICK own \in Owners, rk \in Ranks :
        /\ Placed(next, prev, own, rk) /\ Loose(next, prev, own) /\ UniqueInv(own, rk)
        /\ L \in Lists /\ L # NULL /\ rk[e] \in Nat /\ Top(L, rk) \in Nat
        /\ rk[e] + 1 = Top(L, rk)
  BY <1>1, UniqueFacts
<1>3. ASSUME dup # L
      PROVE  /\ Holds(want[L], L, data, own, rk)
             /\ dup # NULL => Holds(want[dup], dup, data, own, rk)
  <2>1. PICK s, m, c : UniqueAt(s, m, c, own, rk)
    BY <1>2, <1>3 DEF UniqueInv
  <2>2. /\ s \in Seq(Int) /\ m \in 1..Len(s) /\ Len(Chosen(s, FALSE)[m]) = rk[e]
        /\ Holds(Kept(s, m), L, data, own, rk) /\ want[L] = Repeats(s, FALSE)
        /\ dup # NULL => /\ want[dup] = c \o Repeats(s, TRUE)
                         /\ Holds(c \o Chosen(s, TRUE)[m], dup, data, own, rk)
    BY <2>1 DEF UniqueAt
  <2>3. Len(Kept(s, m)) = Len(Chosen(s, FALSE)[m]) + (Len(s) - m)
    <3>1. m \in 0..Len(s)
      BY <2>2
    <3> QED
      BY ONLY <2>2, <3>1, KeptIs
  <2>4. Len(Kept(s, m)) = Top(L, rk) - 1
    BY <2>2 DEF Holds
  <2>5. m = Len(s)
    <3>1. m \in Int /\ Len(s) \in Int
      BY ONLY <2>2
    <3>2. Top(L, rk) - 1 = rk[e] + (Len(s) - m)
      BY ONLY <2>2, <2>3, <2>4
    <3> QED
      BY ONLY <1>2, <3>1, <3>2
  <2>6. Kept(s, Len(s)) = Repeats(s, FALSE) /\ Chosen(s, TRUE)[Len(s)] = Repeats(s, TRUE)
    BY <2>2, KeptLast
  <2> QED
    BY ONLY <2>2, <2>5, <2>6
<1>4. ASSUME NEW m \in Lists, want'[m] # NULL PROVE Holds(want'[m], m, data', own, rk)
  <2>1. want' = want /\ data' = data /\ want[m] # NULL
    BY <1>1, <1>4
  <2>2. CASE m \notin {L, dup}
    BY <1>2, <2>1, <2>2 DEF UniqueInv, AsToldBut
  <2>3. CASE m \in {L, dup} /\ dup # L
    <3>1. m # NULL
      BY NodeFacts
    <3> QED
      BY ONLY <1>3, <2>1, <2>3, <3>1
  <2>4. CASE m \in {L, dup} /\ dup = L
    BY <1>2, <2>1, <2>4 DEF UniqueInv
  <2> QED
    BY <2>2, <2>3, <2>4
<1>5. Placed(next', prev', own, rk) /\ Loose(next', prev', own)
  BY <1>1, <1>2
<1>6. data' \in [Items -> Values \cup {0}] /\ want' = [m \in Lists |-> want'[m]]
  BY <1>1 DEF TypeOK, WantOK
<1> QED
  BY ONLY <1>1, <1>2, <1>4, <1>5, <1>6, CommandKept
-------------------------------------------------------------------------------
(* Every step keeps the invariant, and it is what the properties need.     *)

LEMMA LoopSteps ==
  ASSUME Inv, Loop
  PROVE  Inv'
<1>1. CASE ReverseStep \/ ReverseEnds
  BY <1>1, ReverseOn, ReverseLast
<1>2. CASE FindRuns \/ PassDone
  BY <1>2, FindRunsStep, PassDoneStep
<1>3. CASE MergeSkip \/ MergeMove \/ MergeDone
  BY <1>3, MergeSkipStep, MergeMoveStep, MergeDoneStep
<1>4. CASE UniqueStep
  <2>1. equal(e, next[e]) \/ ~equal(e, next[e])
    OBVIOUS
  <2> QED
    BY <1>4, <2>1, UniqueKeeps, UniqueFrees, UniqueMoves
<1>5. CASE UniqueDone
  BY <1>5, UniqueEnds
<1>6. CASE ShuffleStep \/ ShuffleDone
  BY <1>6, ShuffleSteps
<1> QED
  BY <1>1, <1>2, <1>3, <1>4, <1>5, <1>6 DEF Loop

LEMMA NextInv ==
  ASSUME Inv, [Next]_vars
  PROVE  Inv'
<1>1. CASE UNCHANGED vars
  <2>1. UNCHANGED <<next, prev, data, pc, L, dup, e, a0, a1b0, b1, n, edge, want>>
    BY <1>1 DEF vars, links, locals
  <2>2. PICK own \in Owners, rk \in Ranks : At(own, rk)
    BY DEF Inv
  <2>3. TypeOK' /\ WantOK'
    BY <2>1 DEF Inv, TypeOK, WantOK
  <2>4. At(own, rk)'
    <3>1. RunInv(own, rk)' <=> RunInv(own, rk)
      BY <2>1 DEF RunInv, AsToldBut, Goal
    <3>2. MergeInv(own, rk)' <=> MergeInv(own, rk)
      BY <2>1 DEF MergeInv, AsToldBut, Goal, MergedFirst
    <3>3. UniqueInv(own, rk)' <=> UniqueInv(own, rk)
      BY <2>1 DEF UniqueInv, AsToldBut, UniqueAt
    <3>4. ReverseInv(own, rk)' <=> ReverseInv(own, rk)
      <4>1. NextWas(own, rk)' = NextWas(own, rk) /\ PrevWas(own, rk)' = PrevWas(own, rk)
        BY <2>1 DEF NextWas, PrevWas, Turned
      <4> QED
        BY <2>1, <4>1 DEF ReverseInv, AsToldBut
    <3>5. (Shape(own, rk)' <=> Shape(own, rk))
          /\ (AsToldBut({}, own, rk)' <=> AsToldBut({}, own, rk))
      BY <2>1 DEF Shape, AsToldBut
    <3> QED
      BY <2>1, <2>2, <3>1, <3>2, <3>3, <3>4, <3>5 DEF At
  <2> QED
    BY <2>3, <2>4 DEF Inv
<1>2. ASSUME NEW l \in Lists, NEW v \in Values,
             \/ list_push_front(l, v) \/ list_push_back(l, v) \/ list_insert_ordered(l, v)
             \/ \E i \in 0..MaxIndex : list_insert_at(l, i, v)
      PROVE  Inv'
  BY <1>2, InsertSteps
<1>3. ASSUME NEW l \in Lists,
             \/ list_pop_front(l) \/ list_pop_back(l) \/ list_front_or_back(l)
             \/ \E i \in 0..MaxIndex : list_remove_at(l, i)
      PROVE  Inv'
  BY <1>3, RemoveSteps
<1>4. ASSUME NEW l \in Lists, list_reverse(l) \/ list_sort(l) \/ list_shuffle(l)
      PROVE  Inv'
  BY <1>4, ReverseStart, SortStart, ShuffleSteps
<1>5. ASSUME NEW l \in Lists, NEW d \in Lists \cup {NULL}, list_unique(l, d) PROVE Inv'
  BY <1>5, UniqueStart
<1>6. ASSUME NEW l \in Lists, NEW i \in 0..MaxIndex, NEW j \in 0..MaxIndex,
             list_swap(l, i, j)
      PROVE  Inv'
  BY <1>6, SwapStep
<1>7. ASSUME NEW to \in Lists, NEW from \in Lists, NEW i \in 0..MaxIndex,
             NEW j1 \in 0..MaxIndex, NEW j2 \in 0..MaxIndex,
             list_splice_at(to, i, from, j1, j2)
      PROVE  Inv'
  BY <1>7, SpliceStep
<1> QED
  BY <1>1, <1>2, <1>3, <1>4, <1>5, <1>6, <1>7, LoopSteps DEF Next

LEMMA InvLinked ==
  ASSUME Inv
  PROVE  Linked
<1>1. TypeOK
  BY DEF Inv
<1>2. ASSUME pc \notin {"reverse", "corrupt"} PROVE Whole
  <2>1. PICK own \in Owners, rk \in Ranks : At(own, rk)
    BY DEF Inv
  <2>2. Placed(next, prev, own, rk) /\ Loose(next, prev, own)
    BY <1>2, <2>1 DEF At, Shape
  <2> QED
    BY <2>2, WholeHolds
<1> QED
  BY <1>1, <1>2, MergeSorts DEF Linked

LEMMA InvDoesAsTold ==
  ASSUME Inv
  PROVE  DoesAsTold
<1> SUFFICES ASSUME Command, NEW l \in Lists
             PROVE  /\ want[l] # NULL => Contents(l) = want[l]
                    /\ ~list_empty(l) => Extremes(l)
  BY DEF DoesAsTold, Command
<1>1. PICK own \in Owners, rk \in Ranks : At(own, rk)
  BY DEF Inv
<1>2. /\ Placed(next, prev, own, rk)
      /\ want[l] # NULL => Holds(want[l], l, data, own, rk)
  BY <1>1, AtCommand
<1>3. data \in [Items -> Int]
  BY DataInt DEF Inv
<1>4. Holds(Contents(l), l, data, own, rk)
  BY <1>2, <1>3, ContentsHold
<1>5. want[l] # NULL => Contents(l) = want[l]
  BY <1>2, <1>4, HoldsOne
<1>6. ~list_empty(l) => Extremes(l)
  BY <1>2, <1>3, ExtremesAre
<1> QED
  BY <1>5, <1>6

(***************************************************************************)
(* Whatever list commands are given, for any number of lists and items and *)
(* all values: outside the loop of list_reverse the links of the lists are *)
(* whole, and inplace_merge has before it, and behind it, what its         *)
(* assertions say and merging needs.                                       *)
(***************************************************************************)
THEOREM LinksStayWhole == Spec => []Linked
<1>1. Init => Inv
  BY InitInv
<1>2. Inv /\ [Next]_vars => Inv'
  BY NextInv
<1>3. Inv => Linked
  BY InvLinked
<1> QED
  BY <1>1, <1>2, <1>3, PTL DEF Spec

(***************************************************************************)
(* And when a command is over each list holds what the command makes of    *)
(* the sequences the lists held before, with list_sort, list_reverse,      *)
(* list_unique and list_splice; and list_max and list_min find the first   *)
(* of the largest elements and of the smallest.                            *)
(***************************************************************************)
THEOREM CommandsDoAsTold == Spec => []DoesAsTold
<1>1. Init => Inv
  BY InitInv
<1>2. Inv /\ [Next]_vars => Inv'
  BY NextInv
<1>3. Inv => DoesAsTold
  BY InvDoesAsTold
<1> QED
  BY <1>1, <1>2, <1>3, PTL DEF Spec
-------------------------------------------------------------------------------
(* The hash table.  Powers of 2: x & (x - 1), and what a number of buckets *)
(* is rounded to.                                                          *)

Bit(x, y) == IF x % 2 = 1 /\ y % 2 = 1 THEN 1 ELSE 0
AndRow(f, x) == [y \in Nat |-> IF x = 0 THEN 0 ELSE 2 * f[x \div 2][y \div 2] + Bit(x, y)]

LEMMA HashSizes ==
  /\ MaxInt \in Nat /\ MaxElems \in Nat /\ MaxCount \in Nat
  /\ BEST_ELEMS_PER_BUCKET \in Nat /\ BEST_ELEMS_PER_BUCKET >= 1
  /\ MinBuckets \in Counts /\ is_power_of_2(MinBuckets)
  /\ Ints \subseteq Int /\ Inputs \subseteq Ints
<1>1. /\ MaxInt \in Nat /\ MaxElems \in Nat /\ MinBuckets \in Nat \ {0}
      /\ BEST_ELEMS_PER_BUCKET \in Nat \ {0} /\ is_power_of_2(MinBuckets)
      /\ Inputs \subseteq Ints
  BY HashAssumption
<1> QED
  BY <1>1 DEF MaxCount, Counts, Ints

LEMMA AndExists ==
  \E f : f \in [0..MaxCount -> [Nat -> Nat]] /\ \A x \in 0..MaxCount : f[x] = AndRow(f, x)
<1> DEFINE Built(f, i) == f \in [0..i -> [Nat -> Nat]] /\ \A x \in 0..i : f[x] = AndRow(f, x)
           S == {i \in Nat : \E f : Built(f, i)}
<1>0. MaxCount \in Nat
  BY HashSizes
<1>1. 0 \in S
  <2> DEFINE f0 == [x \in 0..0 |-> [y \in Nat |-> 0]]
  <2>1. f0 \in [0..0 -> [Nat -> Nat]]
    OBVIOUS
  <2>2. \A x \in 0..0 : f0[x] = AndRow(f0, x)
    BY DEF AndRow
  <2>3. Built(f0, 0)
    BY <2>1, <2>2
  <2> QED
    BY <2>3
<1>2. ASSUME NEW i \in 0..(MaxCount - 1), i \in S PROVE i + 1 \in S
  <2>1. PICK f : Built(f, i)
    BY <1>2
  <2> DEFINE z == AndRow(f, i + 1)
             g == [x \in 0..(i + 1) |-> IF x = i + 1 THEN z ELSE f[x]]
  <2>2. \A x \in 1..(i + 1) : x \div 2 \in 0..i
    BY <1>0
  <2>3. z \in [Nat -> Nat]
    <3>1. (i + 1) \div 2 \in 0..i /\ i + 1 # 0
      BY <1>0, <2>2
    <3>2. f[(i + 1) \div 2] \in [Nat -> Nat]
      BY <2>1, <3>1
    <3>3. ASSUME NEW y \in Nat
          PROVE  2 * f[(i + 1) \div 2][y \div 2] + Bit(i + 1, y) \in Nat
      <4>1. y \div 2 \in Nat
        OBVIOUS
      <4>2. f[(i + 1) \div 2][y \div 2] \in Nat
        BY <3>2, <4>1
      <4> QED
        BY <4>2 DEF Bit
    <3> QED
      BY <3>1, <3>3 DEF AndRow
  <2>4. z = AndRow(f, i + 1)
    OBVIOUS
  <2> HIDE DEF z
  <2>5. g \in [0..(i + 1) -> [Nat -> Nat]]
    <3>1. ASSUME NEW x \in 0..(i + 1) PROVE (IF x = i + 1 THEN z ELSE f[x]) \in [Nat -> Nat]
      <4>1. x = i + 1 \/ x \in 0..i
        BY <1>0
      <4>2. \A x1 \in 0..i : f[x1] \in [Nat -> Nat]
        BY <2>1
      <4> QED
        BY <2>3, <4>1, <4>2, Zenon
    <3> QED
      BY <3>1, Zenon
  <2>6. ASSUME NEW x \in 0..(i + 1) PROVE g[x] = AndRow(g, x)
    <3>1. x # 0 => g[x \div 2] = f[x \div 2]
      BY <2>2, <1>0
    <3>2. AndRow(g, x) = AndRow(f, x)
      BY <3>1 DEF AndRow
    <3>3. CASE x = i + 1
      BY <2>4, <3>2, <3>3
    <3>4. CASE x # i + 1
      <4>1. x \in 0..i
        BY <3>4, <1>0
      <4>2. f[x] = AndRow(f, x)
        BY <2>1, <4>1
      <4> QED
        BY <3>2, <3>4, <4>1, <4>2
    <3> QED
      BY <3>3, <3>4
  <2>7. Built(g, i + 1)
    <3> HIDE DEF g
    <3> QED
      BY <2>5, <2>6, Zenon
  <2>8. i + 1 \in Nat
    BY <1>0
  <2> HIDE DEF Built
  <2> QED
    BY ONLY <2>7, <2>8
<1>3. MaxCount \in S
  <2> HIDE DEF S
  <2>1. MaxCount \in 0..MaxCount
    BY <1>0
  <2> QED
    BY <1>0, <1>1, <1>2, <2>1, Climbs
<1> QED
  BY <1>3

LEMMA AndIs ==
  /\ bitand \in [0..MaxCount -> [Nat -> Nat]]
  /\ \A x \in 0..MaxCount, y \in Nat :
       bitand[x][y] = IF x = 0 THEN 0 ELSE 2 * bitand[x \div 2][y \div 2] + Bit(x, y)
<1> DEFINE AndOf(f) == f = [x \in 0..MaxCount |-> AndRow(f, x)]
<1>1. \E f : AndOf(f) /\ f \in [0..MaxCount -> [Nat -> Nat]]
  <2>1. PICK f : f \in [0..MaxCount -> [Nat -> Nat]] /\ \A x \in 0..MaxCount : f[x] = AndRow(f, x)
    BY AndExists
  <2>2. f = [x \in 0..MaxCount |-> AndRow(f, x)]
    BY <2>1
  <2> QED
    BY <2>1, <2>2
<1>2. bitand = CHOOSE f : AndOf(f)
  BY DEF bitand, AndRow, Bit
<1>3. AndOf(bitand)
  <2> HIDE DEF AndOf
  <2> QED
    BY <1>1, <1>2
<1>4. ASSUME NEW x \in 0..MaxCount, NEW y \in Nat
      PROVE  bitand[x][y] = IF x = 0 THEN 0 ELSE 2 * bitand[x \div 2][y \div 2] + Bit(x, y)
  <2>1. bitand[x] = AndRow(bitand, x)
    BY <1>3, Zenon
  <2> QED
    BY <2>1, Zenon DEF AndRow
<1> DEFINE Typed(i) == \A x \in 0..i : bitand[x] \in [Nat -> Nat]
           S == {i \in Nat : Typed(i)}
<1>5. bitand[0] = [y \in Nat |-> 0] /\ DOMAIN bitand = 0..MaxCount
  BY <1>3, HashSizes DEF AndRow
<1>6. 0 \in S
  BY <1>5
<1>7. ASSUME NEW i \in 0..(MaxCount - 1), i \in S PROVE i + 1 \in S
  <2>1. i + 1 \in 0..MaxCount /\ (i + 1) \div 2 \in 0..i /\ i + 1 # 0
    BY HashSizes
  <2>2. bitand[i + 1] = [y \in Nat |-> 2 * bitand[(i + 1) \div 2][y \div 2] + Bit(i + 1, y)]
    BY <1>3, <2>1 DEF AndRow
  <2>3. bitand[(i + 1) \div 2] \in [Nat -> Nat]
    BY <1>7, <2>1
  <2>4. ASSUME NEW y \in Nat
        PROVE  2 * bitand[(i + 1) \div 2][y \div 2] + Bit(i + 1, y) \in Nat
    <3>1. y \div 2 \in Nat
      OBVIOUS
    <3>2. bitand[(i + 1) \div 2][y \div 2] \in Nat
      BY <2>3, <3>1
    <3> QED
      BY <3>2 DEF Bit
  <2>5. bitand[i + 1] \in [Nat -> Nat]
    BY <2>2, <2>4
  <2>6. ASSUME NEW x \in 0..(i + 1) PROVE bitand[x] \in [Nat -> Nat]
    <3>1. x = i + 1 \/ x \in 0..i
      BY HashSizes
    <3> QED
      BY <1>7, <2>5, <3>1
  <2> QED
    BY <2>6, <2>1
<1>8. MaxCount \in S
  <2> HIDE DEF S
  <2>1. MaxCount \in 0..MaxCount /\ MaxCount \in Nat
    BY HashSizes
  <2> QED
    BY <1>6, <1>7, <2>1, Climbs
<1>9. bitand = [x \in 0..MaxCount |-> bitand[x]]
  BY <1>3
<1> QED
  BY <1>4, <1>8, <1>9

\* A number and another: what they share is no more than the first; of itself, all.
LEMMA AndLess ==
  \A x \in 0..MaxCount : /\ bitand[x][x] = x
                         /\ \A y \in Nat : bitand[x][y] \in 0..x
<1> DEFINE P(x) == bitand[x][x] = x /\ \A y \in Nat : bitand[x][y] \in 0..x
           S == {i \in Nat : \A x \in 0..i : P(x)}
<1>0. MaxCount \in Nat
  BY HashSizes
<1>1. 0 \in S
  <2>1. 0 \in 0..MaxCount
    BY <1>0
  <2>2. P(0)
    BY <2>1, AndIs
  <2> HIDE DEF P
  <2> QED
    BY <2>2
<1>2. ASSUME NEW i \in 0..(MaxCount - 1), i \in S PROVE i + 1 \in S
  <2> DEFINE x == i + 1 h == x \div 2
  <2>1. /\ x \in 0..MaxCount /\ x # 0 /\ h \in 0..i /\ h \in Nat /\ x \in Nat
        /\ x = 2 * h + (x % 2) /\ x % 2 \in 0..1
    BY <1>0
  <2>2. P(h)
    <3> HIDE DEF P, h
    <3> QED
      BY <1>2, <2>1
  <2> HIDE DEF x, h
  <2>3. ASSUME NEW y \in Nat PROVE bitand[x][y] \in 0..x
    <3>1. y \div 2 \in Nat
      OBVIOUS
    <3>2. bitand[x][y] = 2 * bitand[h][y \div 2] + Bit(x, y)
      BY <2>1, AndIs DEF h
    <3>3. bitand[h][y \div 2] \in 0..h
      BY <2>2, <3>1
    <3>4. Bit(x, y) \in 0..1 /\ Bit(x, y) <= x % 2
      BY <2>1 DEF Bit
    <3> QED
      BY <2>1, <3>2, <3>3, <3>4
  <2>4. bitand[x][x] = x
    <3>1. bitand[x][x] = 2 * bitand[h][h] + Bit(x, x)
      BY <2>1, AndIs DEF h
    <3>2. Bit(x, x) = x % 2
      BY <2>1 DEF Bit
    <3> QED
      BY <2>1, <2>2, <3>1, <3>2
  <2>5. P(i + 1)
    BY <2>3, <2>4 DEF x
  <2> HIDE DEF P
  <2>6. \A z \in 0..(i + 1) : P(z)
    <3>1. \A z \in 0..(i + 1) : z = i + 1 \/ z \in 0..i
      BY <1>0
    <3> QED
      BY <1>2, <2>5, <3>1
  <2> QED
    BY <2>6
<1>3. MaxCount \in S
  <2> HIDE DEF S
  <2>1. MaxCount \in 0..MaxCount
    BY <1>0
  <2> QED
    BY <1>0, <1>1, <1>2, <2>1, Climbs
<1> QED
  BY <1>3

LEMMA AndBelow ==
  \A k \in 1..MaxCount : bitand[k][k - 1] < k
<1> DEFINE T == {i \in Nat : \A j \in 1..i : bitand[j][j - 1] < j}
<1>1. 0 \in T
  OBVIOUS
<1>2. ASSUME NEW i \in 0..(MaxCount - 1), i \in T PROVE i + 1 \in T
  <2> DEFINE m == i + 1 q == m \div 2
  <2>1. /\ m \in 0..MaxCount /\ m # 0 /\ m \in Nat /\ m - 1 \in Nat /\ q \in 0..i
        /\ q \in Nat /\ q \in 0..MaxCount /\ m = 2 * q + (m % 2) /\ m % 2 \in 0..1
    BY HashSizes
  <2>2. bitand[m][m - 1] = 2 * bitand[q][(m - 1) \div 2] + Bit(m, m - 1)
    BY <2>1, AndIs
  <2>3. CASE m % 2 = 1
    <3>1. (m - 1) \div 2 = q /\ (m - 1) % 2 = 0
      BY <2>1, <2>3
    <3>2. Bit(m, m - 1) = 0 /\ bitand[q][q] = q
      BY <2>1, <3>1, AndLess DEF Bit
    <3>3. bitand[m][m - 1] < m
      <4>1. bitand[m][m - 1] = 2 * bitand[q][q] + Bit(m, m - 1)
        BY <2>2, <3>1
      <4> HIDE DEF m, q
      <4>2. bitand[m][m - 1] = 2 * q
        BY <2>1, <3>2, <4>1
      <4> QED
        BY <2>1, <2>3, <4>2
    <3> QED
      BY <3>3, <1>2, HashSizes
  <2>4. CASE m % 2 = 0
    <3>1. (m - 1) \div 2 = q - 1 /\ q >= 1 /\ q - 1 \in Nat
      BY <2>1, <2>4
    <3>2. Bit(m, m - 1) = 0 /\ bitand[q][q - 1] \in 0..q
      BY <2>1, <2>4, <3>1, AndLess DEF Bit
    <3>3. bitand[q][q - 1] < q
      <4> HIDE DEF q
      <4>1. q \in 1..i
        BY <2>1, <3>1, HashSizes
      <4> QED
        BY <1>2, <4>1
    <3>4. bitand[m][m - 1] < m
      <4>1. bitand[m][m - 1] = 2 * bitand[q][q - 1] + Bit(m, m - 1)
        BY <2>2, <3>1
      <4> HIDE DEF m, q
      <4>2. bitand[m][m - 1] = 2 * bitand[q][q - 1] /\ bitand[q][q - 1] \in Nat
        BY <3>2, <4>1
      <4> QED
        BY <2>1, <2>4, <3>3, <4>2
    <3> QED
      BY <3>4, <1>2, HashSizes
  <2> HIDE DEF m, q
  <2> QED
    BY <2>1, <2>3, <2>4
<1> HIDE DEF T
<1>3. MaxCount \in 0..MaxCount /\ MaxCount \in Nat
  BY HashSizes
<1>4. MaxCount \in T
  BY <1>1, <1>2, <1>3, Climbs
<1> QED
  BY <1>4 DEF T

\* Without its lowest 1.
LEMMA OffIs ==
  ASSUME NEW x \in Counts
  PROVE  /\ turn_off_least_1bit(x) \in 0..(x - 1)
         /\ x % 2 = 1 => turn_off_least_1bit(x) = x - 1
         /\ x % 2 = 0 => /\ x \div 2 \in Counts
                         /\ turn_off_least_1bit(x) = 2 * turn_off_least_1bit(x \div 2)
<1> DEFINE h == x \div 2
<1>1. /\ x \in 0..MaxCount /\ x # 0 /\ x - 1 \in Nat /\ h \in 0..MaxCount /\ h \in Nat
      /\ x \in Nat /\ x = 2 * h + (x % 2) /\ x % 2 \in 0..1
  BY HashSizes DEF Counts
<1>2. turn_off_least_1bit(x) = 2 * bitand[h][(x - 1) \div 2] + Bit(x, x - 1)
  BY <1>1, AndIs DEF turn_off_least_1bit
<1>3. ASSUME x % 2 = 1 PROVE turn_off_least_1bit(x) = x - 1
  <2>1. (x - 1) \div 2 = h /\ (x - 1) % 2 = 0
    BY <1>1, <1>3
  <2>2. Bit(x, x - 1) = 0 /\ bitand[h][h] = h
    BY <1>1, <2>1, AndLess DEF Bit
  <2> HIDE DEF h
  <2> QED
    BY <1>1, <1>2, <1>3, <2>1, <2>2
<1>4. ASSUME x % 2 = 0
      PROVE  /\ h \in Counts
             /\ turn_off_least_1bit(x) = 2 * turn_off_least_1bit(h)
             /\ turn_off_least_1bit(x) < x
  <2>1. (x - 1) \div 2 = h - 1 /\ h >= 1 /\ h - 1 \in Nat
    BY <1>1, <1>4
  <2>2. h \in Counts
    BY <1>1, <2>1, HashSizes DEF Counts
  <2>3. Bit(x, x - 1) = 0 /\ bitand[h][h - 1] \in 0..h
    BY <1>1, <1>4, <2>1, AndLess DEF Bit
  <2>4. bitand[h][h - 1] \in Nat /\ bitand[h][h - 1] < h
    <3>1. h \in 1..MaxCount
      BY <2>2 DEF Counts
    <3> HIDE DEF h
    <3> QED
      BY <2>3, <3>1, AndBelow, HashSizes
  <2> HIDE DEF h
  <2> QED
    BY <1>1, <1>2, <1>4, <2>1, <2>2, <2>3, <2>4 DEF turn_off_least_1bit
<1>5. turn_off_least_1bit(x) \in Nat
  <2>1. bitand[x][x - 1] \in 0..x
    BY <1>1, AndLess
  <2> QED
    BY <1>1, <2>1 DEF turn_off_least_1bit
<1> HIDE DEF h
<1>6. turn_off_least_1bit(x) \in 0..(x - 1)
  BY <1>1, <1>3, <1>4, <1>5
<1> QED
  BY <1>3, <1>4, <1>6 DEF h

\* A power of 2 that is not 1 is even, and its half is one.
LEMMA PowerHalf ==
  ASSUME NEW p \in Counts, is_power_of_2(p)
  PROVE  p = 1 \/ (p % 2 = 0 /\ p \div 2 \in Counts /\ is_power_of_2(p \div 2))
<1>1. p \in Nat /\ p >= 1 /\ p % 2 \in 0..1 /\ turn_off_least_1bit(p) = 0
  BY HashSizes DEF Counts, is_power_of_2
<1>2. CASE p % 2 = 1
  BY <1>1, <1>2, OffIs
<1>3. CASE p % 2 = 0
  <2>1. p \div 2 \in Counts /\ 0 = 2 * turn_off_least_1bit(p \div 2)
    BY <1>1, <1>3, OffIs
  <2>2. turn_off_least_1bit(p \div 2) \in Int
    BY <2>1, OffIs
  <2>3. turn_off_least_1bit(p \div 2) = 0 /\ p \div 2 # 0
    BY <2>1, <2>2, HashSizes DEF Counts
  <2> QED
    BY <1>3, <2>1, <2>3 DEF is_power_of_2
<1> QED
  BY <1>1, <1>2, <1>3

\* A number that is not a power of 2 keeps its highest 1.
LEMMA HighBit ==
  \A x \in Counts : \A p \in Counts :
    is_power_of_2(p) /\ p <= x /\ x < 2 * p /\ x # p => p <= turn_off_least_1bit(x)
<1> DEFINE P(x) == \A p \in Counts :
                     is_power_of_2(p) /\ p <= x /\ x < 2 * p /\ x # p => p <= turn_off_least_1bit(x)
           S == {i \in Nat : \A x \in 1..i : P(x)}
<1>0. MaxCount \in Nat
  BY HashSizes
<1>1. 0 \in S
  OBVIOUS
<1>2. ASSUME NEW i \in 0..(MaxCount - 1), i \in S PROVE i + 1 \in S
  <2> DEFINE x == i + 1 h == x \div 2
  <2>1. /\ x \in Counts /\ x \in Nat /\ h \in 0..i /\ h \in Nat
        /\ x = 2 * h + (x % 2) /\ x % 2 \in 0..1
    BY <1>0 DEF Counts
  <2>2. ASSUME NEW p \in Counts, is_power_of_2(p), p <= x, x < 2 * p, x # p
        PROVE  p <= turn_off_least_1bit(x)
    <3>0. p \in Nat /\ p >= 1
      BY <1>0 DEF Counts
    <3>1. CASE x % 2 = 1
      BY <2>1, <2>2, <3>0, <3>1, OffIs
    <3>2. CASE x % 2 = 0
      <4>1. h \in Counts /\ turn_off_least_1bit(x) = 2 * turn_off_least_1bit(h)
        BY <2>1, <3>2, OffIs
      <4>2. turn_off_least_1bit(h) \in Int
        BY <4>1, OffIs
      <4> DEFINE q == p \div 2
      <4>3. p # 1
        BY <2>1, <2>2, <3>2
      <4>4. p % 2 = 0 /\ q \in Counts /\ is_power_of_2(q)
        BY <2>2, <4>3, PowerHalf
      <4>5. p = 2 * q /\ q \in Nat
        BY <3>0, <4>4
      <4> HIDE DEF q, h, x
      <4>6. q <= h /\ h < 2 * q /\ h # q
        BY <2>1, <2>2, <3>0, <3>2, <4>5
      <4>7. P(h)
        <5> HIDE DEF P
        <5>1. h \in 1..i
          BY <1>0, <2>1, <4>1 DEF Counts
        <5> QED
          BY <1>2, <5>1
      <4>8. q <= turn_off_least_1bit(h)
        BY <4>4, <4>6, <4>7
      <4> QED
        BY <4>1, <4>2, <4>5, <4>8
    <3> QED
      BY <2>1, <3>1, <3>2
  <2>3. P(i + 1)
    BY <2>2
  <2> HIDE DEF P
  <2>4. \A z \in 1..(i + 1) : P(z)
    <3>1. \A z \in 1..(i + 1) : z = i + 1 \/ z \in 1..i
      BY <1>0
    <3> QED
      BY <1>2, <2>3, <3>1
  <2> QED
    BY <2>4, <1>0
<1>3. MaxCount \in S
  <2> HIDE DEF S
  <2>1. MaxCount \in 0..MaxCount
    BY <1>0
  <2> QED
    BY <1>0, <1>1, <1>2, <2>1, Climbs
<1> HIDE DEF P
<1>4. \A x \in Counts : P(x)
  BY <1>3 DEF Counts
<1> QED
  BY <1>4 DEF P

\* Every number has a power of 2 below it, and not by a factor of 2.
LEMMA HasPower ==
  \A x \in Counts : \E p \in Counts : is_power_of_2(p) /\ p <= x /\ x < 2 * p
<1> DEFINE P(x) == \E p \in Counts : is_power_of_2(p) /\ p <= x /\ x < 2 * p
           S == {i \in Nat : \A x \in 1..i : P(x)}
<1>0. MaxCount \in Nat /\ MaxCount >= 1
  BY HashSizes DEF Counts
<1>1. 0 \in S
  OBVIOUS
<1>2. ASSUME NEW i \in 0..(MaxCount - 1), i \in S PROVE i + 1 \in S
  <2> DEFINE x == i + 1 h == x \div 2
  <2>1. /\ x \in Counts /\ x \in Nat /\ h \in 0..i /\ h \in Nat /\ x <= MaxCount
        /\ x = 2 * h + (x % 2) /\ x % 2 \in 0..1
    BY <1>0 DEF Counts
  <2>2. ASSUME x = 1 PROVE P(i + 1)
    <3>1. 1 \in Counts /\ 1 % 2 = 1
      BY <1>0 DEF Counts
    <3>2. turn_off_least_1bit(1) = 0
      BY <3>1, OffIs
    <3>3. is_power_of_2(1)
      BY <3>2 DEF is_power_of_2
    <3> QED
      BY <2>2, <3>1, <3>3
  <2>3. ASSUME x # 1 PROVE P(i + 1)
    <3>1. h \in 1..i
      BY <1>0, <2>1, <2>3
    <3>2. P(h)
      <4> HIDE DEF P, h
      <4> QED
        BY <1>2, <3>1
    <3>3. PICK q \in Counts : is_power_of_2(q) /\ q <= h /\ h < 2 * q
      BY <3>2
    <3> HIDE DEF h, x
    <3>4. q \in Nat /\ q >= 1 /\ 2 * q \in Counts /\ 2 * q <= x /\ x < 2 * (2 * q)
      BY <1>0, <2>1, <3>3 DEF Counts
    <3>5. (2 * q) % 2 = 0 /\ (2 * q) \div 2 = q
      BY <3>4
    <3>6. turn_off_least_1bit(2 * q) = 2 * turn_off_least_1bit(q)
      BY <3>4, <3>5, OffIs
    <3>7. turn_off_least_1bit(q) = 0
      BY <3>3 DEF is_power_of_2
    <3>8. is_power_of_2(2 * q)
      BY <3>4, <3>6, <3>7 DEF is_power_of_2
    <3>9. 2 * q <= i + 1 /\ i + 1 < 2 * (2 * q)
      BY <3>4 DEF x
    <3> QED
      BY <3>4, <3>8, <3>9
  <2>4. P(i + 1)
    BY <2>2, <2>3
  <2> HIDE DEF P
  <2>5. \A z \in 1..(i + 1) : P(z)
    <3>1. \A z \in 1..(i + 1) : z = i + 1 \/ z \in 1..i
      BY <1>0
    <3> QED
      BY <1>2, <2>4, <3>1
  <2>6. i + 1 \in Nat
    BY <1>0
  <2> QED
    BY <2>5, <2>6
<1>3. MaxCount \in S
  <2> HIDE DEF S
  <2>1. MaxCount \in 0..MaxCount
    BY <1>0
  <2> QED
    BY <1>0, <1>1, <1>2, <2>1, Climbs
<1> HIDE DEF P
<1>4. \A x \in Counts : P(x)
  BY <1>3 DEF Counts
<1> QED
  BY <1>4 DEF P

LEMMA PowersApart ==
  ASSUME NEW p \in Counts, NEW q \in Counts, is_power_of_2(p), is_power_of_2(q), p < q
  PROVE  2 * p <= q
<1>1. SUFFICES ASSUME q < 2 * p PROVE FALSE
  BY HashSizes DEF Counts
<1>2. p <= turn_off_least_1bit(q)
  BY <1>1, HighBit, HashSizes DEF Counts
<1>3. turn_off_least_1bit(q) = 0 /\ p >= 1
  BY HashSizes DEF is_power_of_2, Counts
<1> QED
  BY <1>2, <1>3, HashSizes DEF Counts

RoundStep(f, x) == IF is_power_of_2(x) THEN x ELSE f[turn_off_least_1bit(x)]

LEMMA RoundExists ==
  \E f : f \in [Counts -> Counts] /\ \A x \in Counts : f[x] = RoundStep(f, x)
<1> DEFINE Built(f, i) == f \in [1..i -> Counts] /\ \A x \in 1..i : f[x] = RoundStep(f, x)
           S == {i \in Nat : \E f : Built(f, i)}
<1>0. MaxCount \in Nat
  BY HashSizes
<1>1. 0 \in S
  <2> DEFINE f0 == [x \in 1..0 |-> 1]
  <2>0. 1..0 = {}
    OBVIOUS
  <2>1. f0 \in [1..0 -> Counts] /\ \A x \in 1..0 : f0[x] = RoundStep(f0, x)
    BY <2>0
  <2>2. Built(f0, 0)
    BY <2>1
  <2> HIDE DEF Built
  <2> QED
    BY <2>2
<1>2. ASSUME NEW i \in 0..(MaxCount - 1), i \in S PROVE i + 1 \in S
  <2>1. PICK f : Built(f, i)
    BY <1>2
  <2> DEFINE z == RoundStep(f, i + 1)
             g == [x \in 1..(i + 1) |-> IF x = i + 1 THEN z ELSE f[x]]
  <2>2. ASSUME NEW x \in 1..(i + 1), ~is_power_of_2(x) PROVE turn_off_least_1bit(x) \in 1..i
    <3>1. x \in Counts /\ x # 0
      BY <1>0 DEF Counts
    <3>2. turn_off_least_1bit(x) # 0 /\ turn_off_least_1bit(x) \in 0..(x - 1)
      BY <2>2, <3>1, OffIs DEF is_power_of_2
    <3> QED
      BY <1>0, <3>1, <3>2
  <2>3. z \in Counts
    <3>1. i + 1 \in Counts /\ i + 1 \in 1..(i + 1)
      BY <1>0 DEF Counts
    <3> QED
      BY <2>1, <2>2, <3>1 DEF RoundStep
  <2>4. z = RoundStep(f, i + 1)
    OBVIOUS
  <2> HIDE DEF z
  <2>5. g \in [1..(i + 1) -> Counts]
    <3>1. ASSUME NEW x \in 1..(i + 1) PROVE (IF x = i + 1 THEN z ELSE f[x]) \in Counts
      <4>1. x = i + 1 \/ x \in 1..i
        BY <1>0
      <4>2. \A x1 \in 1..i : f[x1] \in Counts
        BY <2>1
      <4> QED
        BY <2>3, <4>1, <4>2
    <3> QED
      BY <3>1
  <2>6. ASSUME NEW x \in 1..(i + 1) PROVE g[x] = RoundStep(g, x)
    <3>1. ~is_power_of_2(x) => g[turn_off_least_1bit(x)] = f[turn_off_least_1bit(x)]
      BY <2>2, <1>0
    <3>2. RoundStep(g, x) = RoundStep(f, x)
      BY <3>1 DEF RoundStep
    <3>3. CASE x = i + 1
      BY <2>4, <3>2, <3>3
    <3>4. CASE x # i + 1
      <4>1. x \in 1..i
        BY <3>4, <1>0
      <4>2. f[x] = RoundStep(f, x)
        BY <2>1, <4>1
      <4> QED
        BY <3>2, <3>4, <4>1, <4>2
    <3> QED
      BY <3>3, <3>4
  <2>7. Built(g, i + 1)
    <3> HIDE DEF g
    <3> QED
      BY <2>5, <2>6, Zenon
  <2>8. i + 1 \in Nat
    BY <1>0
  <2> HIDE DEF Built
  <2> QED
    BY ONLY <2>7, <2>8
<1>3. MaxCount \in S
  <2> HIDE DEF S
  <2>1. MaxCount \in 0..MaxCount
    BY <1>0
  <2> QED
    BY <1>0, <1>1, <1>2, <2>1, Climbs
<1> QED
  BY <1>3 DEF Counts

\* The number of buckets is the highest power of 2.
LEMMA RoundedIs ==
  ASSUME NEW x \in Counts
  PROVE  /\ Rounded[x] \in Counts /\ is_power_of_2(Rounded[x])
         /\ Rounded[x] <= x /\ x < 2 * Rounded[x]
<1> DEFINE RoundOf(f) == f = [y \in Counts |-> RoundStep(f, y)]
           R == CHOOSE f : RoundOf(f)
<1>1. Rounded = R
  BY DEF Rounded, RoundStep
<1>2. RoundOf(R)
  <2>1. PICK f : f \in [Counts -> Counts] /\ \A y \in Counts : f[y] = RoundStep(f, y)
    BY RoundExists
  <2>2. RoundOf(f)
    BY <2>1
  <2> HIDE DEF RoundOf
  <2> QED
    BY <2>2
<1>3. \A y \in Counts : Rounded[y] = RoundStep(Rounded, y)
  <2> HIDE DEF R
  <2> QED
    BY <1>1, <1>2
<1> DEFINE P(y) == \A p \in Counts : is_power_of_2(p) /\ p <= y /\ y < 2 * p => Rounded[y] = p
           S == {i \in Nat : \A y \in 1..i : P(y)}
<1>0. MaxCount \in Nat
  BY HashSizes
<1>4. 0 \in S
  OBVIOUS
<1>5. ASSUME NEW i \in 0..(MaxCount - 1), i \in S PROVE i + 1 \in S
  <2> DEFINE y == i + 1
  <2>1. y \in Counts /\ y \in Nat
    BY <1>0 DEF Counts
  <2>2. ASSUME NEW p \in Counts, is_power_of_2(p), p <= y, y < 2 * p PROVE Rounded[y] = p
    <3>0. p \in Nat /\ p >= 1
      BY <1>0 DEF Counts
    <3>1. CASE y = p
      BY <1>3, <2>1, <2>2, <3>1 DEF RoundStep
    <3>2. CASE y # p
      <4>1. p <= turn_off_least_1bit(y)
        BY <2>1, <2>2, <3>2, HighBit
      <4>2. turn_off_least_1bit(y) \in 0..(y - 1)
        BY <2>1, OffIs
      <4>3. ~is_power_of_2(y)
        BY <3>0, <4>1, <4>2 DEF is_power_of_2
      <4>4. Rounded[y] = Rounded[turn_off_least_1bit(y)]
        BY <1>3, <2>1, <4>3 DEF RoundStep
      <4> HIDE DEF y
      <4>5. turn_off_least_1bit(y) \in 1..i /\ turn_off_least_1bit(y) < 2 * p
        <5>1. y = i + 1
          BY DEF y
        <5> QED
          BY <2>1, <2>2, <3>0, <4>1, <4>2, <5>1
      <4>6. P(turn_off_least_1bit(y))
        <5> HIDE DEF P
        <5> QED
          BY <1>5, <4>5
      <4> QED
        BY <2>2, <4>1, <4>4, <4>5, <4>6
    <3> QED
      BY <3>1, <3>2
  <2>3. P(i + 1)
    BY <2>2
  <2> HIDE DEF P
  <2>4. \A u \in 1..(i + 1) : P(u)
    <3>1. \A u \in 1..(i + 1) : u = i + 1 \/ u \in 1..i
      BY <1>0
    <3> QED
      BY <1>5, <2>3, <3>1
  <2>5. i + 1 \in Nat
    BY <1>0
  <2> QED
    BY <2>4, <2>5
<1>6. MaxCount \in S
  <2> HIDE DEF S
  <2>1. MaxCount \in 0..MaxCount
    BY <1>0
  <2> QED
    BY <1>0, <1>4, <1>5, <2>1, Climbs
<1>7. P(x)
  <2> HIDE DEF P
  <2> QED
    BY <1>6 DEF Counts
<1>8. PICK p \in Counts : is_power_of_2(p) /\ p <= x /\ x < 2 * p
  BY HasPower
<1> QED
  BY <1>7, <1>8

\* What rehash makes of a number of elements keeps to the ratios.
LEMMA NewCountIs ==
  ASSUME NEW cnt \in 0..MaxElems
  PROVE  LET new == new_bucket_cnt(cnt)
         IN  /\ new \in Counts /\ is_power_of_2(new) /\ new >= MinBuckets
             /\ cnt < 2 * BEST_ELEMS_PER_BUCKET * new
             /\ new > MinBuckets => cnt >= BEST_ELEMS_PER_BUCKET * new
<1> DEFINE B == BEST_ELEMS_PER_BUCKET
           m == cnt \div B
           w == Wanted(cnt)
           new == new_bucket_cnt(cnt)
<1>1. /\ cnt \in Nat /\ cnt <= MaxElems /\ MaxElems \in Nat /\ B \in Nat /\ B >= 1
      /\ MinBuckets \in Nat /\ MinBuckets >= 1 /\ MaxCount = MinBuckets + MaxElems
  BY HashSizes DEF Counts, MaxCount
<1>2. m \in Nat /\ B * m <= cnt /\ cnt < B * (m + 1)
  <2> HIDE DEF B
  <2> QED
    BY <1>1
<1>3. m <= cnt
  <2> HIDE DEF B, m
  <2>1. m <= B * m
    BY <1>1, <1>2
  <2> QED
    BY <1>1, <1>2, <2>1
<1>4. w = IF m < MinBuckets THEN MinBuckets ELSE m
  BY DEF Wanted
<1> HIDE DEF m, w, B
<1>5. w \in Counts /\ w \in Nat /\ w >= MinBuckets /\ m <= w
  BY <1>1, <1>2, <1>3, <1>4 DEF Counts
<1>6. new \in Counts /\ is_power_of_2(new) /\ new <= w /\ w < 2 * new
  BY <1>5, RoundedIs DEF new_bucket_cnt, w
<1> HIDE DEF new
<1>7. new \in Nat /\ new >= 1
  BY <1>1, <1>6, HashSizes DEF Counts
<1>8. new >= MinBuckets
  <2>1. SUFFICES ASSUME new < MinBuckets PROVE FALSE
    BY <1>1, <1>7
  <2>2. 2 * new <= MinBuckets
    BY <1>6, <2>1, PowersApart, HashSizes
  <2> QED
    BY <1>1, <1>5, <1>6, <1>7, <2>2
<1>9. cnt < 2 * B * new
  <2>1. m + 1 <= 2 * new /\ 2 * new \in Nat /\ m + 1 \in Nat
    BY <1>2, <1>5, <1>6, <1>7
  <2>2. B * (m + 1) <= B * (2 * new)
    <3>1. \A a, c \in Nat : a <= c => B * a <= B * c
      BY <1>1
    <3> QED
      BY <2>1, <3>1
  <2>3. B * (2 * new) = 2 * B * new
    BY <1>1, <1>7
  <2>4. B * (m + 1) \in Nat /\ B * (2 * new) \in Nat
    BY <1>1, <2>1
  <2> QED
    BY <1>1, <1>2, <2>2, <2>3, <2>4
<1>10. ASSUME new > MinBuckets PROVE cnt >= B * new
  <2>1. m = w /\ new <= m
    BY <1>1, <1>2, <1>4, <1>5, <1>6, <1>7, <1>10
  <2>2. B * new <= B * m
    <3>1. \A a, c \in Nat : a <= c => B * a <= B * c
      BY <1>1
    <3> QED
      BY <1>2, <1>7, <2>1, <3>1
  <2>3. B * m \in Nat /\ B * new \in Nat
    BY <1>1, <1>2, <1>7
  <2> QED
    BY <1>1, <1>2, <2>2, <2>3
<1> QED
  BY <1>6, <1>8, <1>9, <1>10 DEF B, new

\* The bucket a value belongs in is one of the table's.
LEMMA InTable ==
  ASSUME NEW cnt \in Counts, NEW v \in Ints
  PROVE  find_bucket(cnt, v) \in 0..(cnt - 1)
<1>1. cnt - 1 \in 0..MaxCount /\ hash[v] \in Nat
  BY HashSizes, HashAssumption DEF Counts
<1> QED
  BY <1>1, AndLess DEF find_bucket

-------------------------------------------------------------------------------
(* Tables: how many elements their buckets have, and where those are.      *)

Tables(cnt) == [0..(cnt - 1) -> Seq(Ints)]

ChainFrom(f, bs, m) ==
  /\ f \in [0..m -> Seq(Ints)] /\ f[0] = <<>>
  /\ \A k \in 1..m : f[k] = f[k - 1] \o bs[k - 1]

LEMMA ChainExists ==
  ASSUME NEW cnt \in Nat, NEW bs \in Tables(cnt), NEW m \in 0..cnt
  PROVE  \E f : ChainFrom(f, bs, m) /\ Chained(bs, m) = f[m]
<1> DEFINE T == Seq(Ints)
           step == [p \in (1..m) \X T |-> p[2] \o bs[p[1] - 1]]
           ChainOf(f) == f = [k \in 0..m |-> IF k = 0 THEN <<>> ELSE f[k - 1] \o bs[k - 1]]
           c == CHOOSE f : ChainOf(f)
<1>0. \A k \in 1..m : bs[k - 1] \in T
  BY DEF Tables
<1>1. StepOf(step, m, T)
  <2>1. ASSUME NEW p \in (1..m) \X T PROVE p[2] \o bs[p[1] - 1] \in T
    <3>1. p[1] \in 1..m /\ p[2] \in T
      OBVIOUS
    <3>2. bs[p[1] - 1] \in T
      BY <1>0, <3>1
    <3> QED
      BY <3>1, <3>2
  <2> HIDE DEF T
  <2> QED
    BY <2>1 DEF StepOf
<1>2. PICK f : IterateOf(f, step, <<>>, m, T)
  <2>1. <<>> \in T /\ m \in Nat
    OBVIOUS
  <2> HIDE DEF T, step
  <2> QED
    BY <1>1, <2>1, Iterates
<1>3. ChainFrom(f, bs, m)
  <2>1. f \in [0..m -> T] /\ f[0] = <<>>
    BY <1>2 DEF IterateOf
  <2>2. ASSUME NEW k \in 1..m PROVE f[k] = f[k - 1] \o bs[k - 1]
    <3>1. k - 1 \in 0..m
      OBVIOUS
    <3>2. f[k - 1] \in T
      BY <2>1, <3>1
    <3>3. <<k, f[k - 1]>> \in (1..m) \X T
      BY <3>2
    <3>4. f[k] = step[<<k, f[k - 1]>>]
      BY <1>2 DEF IterateOf
    <3> QED
      BY <3>3, <3>4
  <2> QED
    BY <2>1, <2>2 DEF ChainFrom
<1>4. ChainOf(f)
  <2>1. f = [k \in 0..m |-> f[k]]
    BY <1>3 DEF ChainFrom
  <2>2. ASSUME NEW k \in 0..m
        PROVE  f[k] = IF k = 0 THEN <<>> ELSE f[k - 1] \o bs[k - 1]
    <3>1. k = 0 \/ k \in 1..m
      OBVIOUS
    <3> QED
      BY <1>3, <3>1 DEF ChainFrom
  <2> QED
    BY <2>1, <2>2
<1>5. Chained(bs, m) = c[m]
  BY DEF Chained
<1>6. ChainOf(c)
  <2> HIDE DEF ChainOf
  <2> QED
    BY <1>4
<1> DEFINE S == {k \in Nat : c[k] = f[k]}
<1>7. 0 \in S
  <2>1. 0 \in 0..m /\ f[0] = <<>>
    BY <1>3 DEF ChainFrom
  <2>2. c = [k \in 0..m |-> IF k = 0 THEN <<>> ELSE c[k - 1] \o bs[k - 1]]
    BY <1>6
  <2> HIDE DEF c
  <2>3. c[0] = <<>>
    BY <2>1, <2>2
  <2> QED
    BY <2>1, <2>3
<1>8. ASSUME NEW k \in 0..(m - 1), k \in S PROVE k + 1 \in S
  <2>1. k + 1 \in 1..m /\ k + 1 \in 0..m /\ k + 1 # 0 /\ (k + 1) - 1 = k /\ k + 1 \in Nat
    OBVIOUS
  <2>2. c[k + 1] = c[k] \o bs[k]
    BY <1>6, <2>1
  <2>3. f[k + 1] = f[k] \o bs[k]
    BY <1>3, <2>1 DEF ChainFrom
  <2> HIDE DEF c
  <2> QED
    BY <1>8, <2>1, <2>2, <2>3
<1>9. m \in S
  <2> HIDE DEF S
  <2> QED
    BY <1>7, <1>8, Climbs
<1> QED
  BY <1>3, <1>5, <1>9

LEMMA ChainedIs ==
  ASSUME NEW cnt \in Nat, NEW bs \in Tables(cnt)
  PROVE  /\ \A k \in 0..cnt : Chained(bs, k) \in Seq(Ints)
         /\ Chained(bs, 0) = <<>>
         /\ \A k \in 0..(cnt - 1) : Chained(bs, k + 1) = Chained(bs, k) \o bs[k]
<1>1. ASSUME NEW k \in 0..cnt PROVE Chained(bs, k) \in Seq(Ints)
  <2>1. PICK f : ChainFrom(f, bs, k) /\ Chained(bs, k) = f[k]
    BY ChainExists
  <2>2. k \in 0..k
    OBVIOUS
  <2> QED
    BY <2>1, <2>2 DEF ChainFrom
<1>2. Chained(bs, 0) = <<>>
  <2>0. 0 \in 0..cnt
    OBVIOUS
  <2>1. PICK f : ChainFrom(f, bs, 0) /\ Chained(bs, 0) = f[0]
    BY <2>0, ChainExists
  <2> QED
    BY <2>1 DEF ChainFrom
<1>3. ASSUME NEW k \in 0..(cnt - 1) PROVE Chained(bs, k + 1) = Chained(bs, k) \o bs[k]
  <2>0. k \in 0..cnt /\ k + 1 \in 0..cnt /\ k + 1 \in 1..(k + 1) /\ (k + 1) - 1 = k
    OBVIOUS
  <2>1. PICK f : ChainFrom(f, bs, k + 1) /\ Chained(bs, k + 1) = f[k + 1]
    BY <2>0, ChainExists
  <2>2. PICK g : ChainFrom(g, bs, k) /\ Chained(bs, k) = g[k]
    BY <2>0, ChainExists
  <2> DEFINE S == {j \in Nat : f[j] = g[j]}
  <2>3. 0 \in S
    BY <2>1, <2>2 DEF ChainFrom
  <2>4. ASSUME NEW j \in 0..(k - 1), j \in S PROVE j + 1 \in S
    <3>1. j + 1 \in 1..k /\ j + 1 \in 1..(k + 1) /\ (j + 1) - 1 = j /\ j + 1 \in Nat
      OBVIOUS
    <3>2. f[j + 1] = f[j] \o bs[j] /\ g[j + 1] = g[j] \o bs[j]
      BY <2>1, <2>2, <3>1 DEF ChainFrom
    <3> QED
      BY <2>4, <3>1, <3>2
  <2>5. k \in S
    <3> HIDE DEF S
    <3>1. k \in 0..k /\ k \in Nat
      OBVIOUS
    <3> QED
      BY <2>3, <2>4, <3>1, Climbs
  <2>6. f[k + 1] = f[k] \o bs[k]
    BY <2>0, <2>1 DEF ChainFrom
  <2> QED
    BY <2>1, <2>2, <2>5, <2>6
<1> QED
  BY <1>1, <1>2, <1>3

\* The elements in the buckets before one.
Preceding(bs, k) == Len(Chained(bs, k))

LEMMA AheadIs ==
  ASSUME NEW cnt \in Nat, NEW bs \in Tables(cnt)
  PROVE  /\ \A k \in 0..cnt : Preceding(bs, k) \in Nat
         /\ Preceding(bs, 0) = 0
         /\ \A k \in 0..(cnt - 1) : /\ Len(bs[k]) \in Nat
                                    /\ Preceding(bs, k + 1) = Preceding(bs, k) + Len(bs[k])
<1>1. \A k \in 0..cnt : Preceding(bs, k) \in Nat
  BY ChainedIs DEF Preceding
<1>2. Preceding(bs, 0) = 0
  BY ChainedIs DEF Preceding
<1>3. ASSUME NEW k \in 0..(cnt - 1)
      PROVE  Len(bs[k]) \in Nat /\ Preceding(bs, k + 1) = Preceding(bs, k) + Len(bs[k])
  <2>1. bs[k] \in Seq(Ints) /\ k \in 0..cnt
    BY DEF Tables
  <2>2. Chained(bs, k) \in Seq(Ints) /\ Chained(bs, k + 1) = Chained(bs, k) \o bs[k]
    BY <2>1, ChainedIs
  <2>3. \A u, w \in Seq(Ints) : Len(u \o w) = Len(u) + Len(w)
    OBVIOUS
  <2> QED
    BY <2>1, <2>2, <2>3 DEF Preceding
<1> QED
  BY <1>1, <1>2, <1>3

LEMMA JoinIs ==
  ASSUME NEW u \in Seq(Ints), NEW w \in Seq(Ints)
  PROVE  /\ u \o w \in Seq(Ints) /\ Len(u \o w) = Len(u) + Len(w)
         /\ DOMAIN (u \o w) = 1..(Len(u) + Len(w))
         /\ \A k \in 1..(Len(u) + Len(w)) :
              (u \o w)[k] = IF k <= Len(u) THEN u[k] ELSE w[k - Len(u)]
<1>1. u \o w \in Seq(Ints) /\ Len(u \o w) = Len(u) + Len(w)
  OBVIOUS
<1>2. DOMAIN (u \o w) = 1..(Len(u) + Len(w))
  BY <1>1
<1>3. \A k \in 1..(Len(u) + Len(w)) :
        (u \o w)[k] = IF k <= Len(u) THEN u[k] ELSE w[k - Len(u)]
  OBVIOUS
<1> QED
  BY <1>1, <1>2, <1>3

\* A bucket changes: the table has as many more or fewer.
LEMMA OneBucket ==
  ASSUME NEW cnt \in Nat, NEW bs \in Tables(cnt), NEW ds \in Tables(cnt), NEW b \in 0..(cnt - 1),
         \A k \in 0..(cnt - 1) : k # b => Len(ds[k]) = Len(bs[k])
  PROVE  Preceding(ds, cnt) = Preceding(bs, cnt) + Len(ds[b]) - Len(bs[b])
<1> DEFINE dl == Len(ds[b]) bl == Len(bs[b])
<1>1. dl \in Nat /\ bl \in Nat
  BY AheadIs
<1>2. \A k \in 0..cnt : Preceding(ds, k) \in Nat /\ Preceding(bs, k) \in Nat
  BY AheadIs
<1>3. Preceding(ds, b + 1) = Preceding(ds, b) + dl /\ Preceding(bs, b + 1) = Preceding(bs, b) + bl
  BY AheadIs
<1> HIDE DEF dl, bl
<1> DEFINE Same(k) == /\ k <= b => Preceding(ds, k) = Preceding(bs, k)
                      /\ k > b => Preceding(ds, k) = Preceding(bs, k) + dl - bl
           S == {k \in Nat : Same(k)}
<1>4. Same(0)
  BY AheadIs
<1>5. ASSUME NEW k \in 0..(cnt - 1), Same(k) PROVE Same(k + 1)
  <2>0. k \in 0..cnt /\ k + 1 \in 0..cnt /\ Preceding(ds, k) \in Nat /\ Preceding(bs, k) \in Nat
    BY <1>2
  <2>1. CASE k = b
    BY <1>1, <1>3, <1>5, <2>0, <2>1
  <2>2. CASE k # b
    <3>1. /\ Preceding(ds, k + 1) = Preceding(ds, k) + Len(ds[k])
          /\ Preceding(bs, k + 1) = Preceding(bs, k) + Len(ds[k])
          /\ Len(ds[k]) \in Nat
      BY <2>2, AheadIs
    <3> QED
      BY <1>1, <1>5, <2>0, <2>2, <3>1
  <2> QED
    BY <2>1, <2>2
<1> HIDE DEF Same
<1>6. 0 \in S /\ \A k \in 0..(cnt - 1) : k \in S => k + 1 \in S
  BY <1>4, <1>5
<1>7. cnt \in S
  <2> HIDE DEF S
  <2>1. cnt \in 0..cnt
    OBVIOUS
  <2> QED
    BY <1>6, <2>1, Climbs
<1>8. Same(cnt) /\ cnt > b
  BY <1>7
<1>9. Preceding(ds, cnt) = Preceding(bs, cnt) + dl - bl
  BY <1>8 DEF Same
<1> QED
  BY <1>9 DEF dl, bl

LEMMA NoElements ==
  ASSUME NEW cnt \in Counts
  PROVE  Empty(cnt) \in Tables(cnt) /\ Preceding(Empty(cnt), cnt) = 0
<1>0. cnt \in Nat
  BY HashSizes DEF Counts
<1>1. Empty(cnt) \in Tables(cnt) /\ \A k \in 0..(cnt - 1) : Empty(cnt)[k] = <<>>
  BY DEF Empty, Tables
<1> DEFINE S == {k \in Nat : Preceding(Empty(cnt), k) = 0}
<1>2. 0 \in S
  BY <1>0, <1>1, AheadIs
<1>3. ASSUME NEW k \in 0..(cnt - 1), k \in S PROVE k + 1 \in S
  BY <1>0, <1>1, <1>3, AheadIs
<1>4. cnt \in S
  <2> HIDE DEF S
  <2>1. cnt \in 0..cnt
    BY <1>0
  <2> QED
    BY <1>0, <1>2, <1>3, <2>1, Climbs
<1> QED
  BY <1>1, <1>4

\* Every element is in the bucket it is looked for in.
Homed(bs, cnt) ==
  \A b \in 0..(cnt - 1) : \A k \in DOMAIN bs[b] : find_bucket(cnt, bs[b][k]) = b

LEMMA InsertHolds ==
  ASSUME NEW cnt \in Counts, NEW bs \in Tables(cnt), NEW v \in Ints
  PROVE  LET ds == insert_elem(bs, find_bucket(cnt, v), v)
         IN  /\ ds \in Tables(cnt) /\ Preceding(ds, cnt) = Preceding(bs, cnt) + 1
             /\ Homed(bs, cnt) => Homed(ds, cnt)
<1> DEFINE b == find_bucket(cnt, v)
           ds == insert_elem(bs, b, v)
<1>0. cnt \in Nat
  BY HashSizes DEF Counts
<1>1. b \in 0..(cnt - 1)
  BY InTable
<1> HIDE DEF b
<1>2. bs[b] \in Seq(Ints) /\ DOMAIN bs = 0..(cnt - 1)
  BY <1>1 DEF Tables
<1>3. /\ <<v>> \o bs[b] \in Seq(Ints) /\ Len(<<v>> \o bs[b]) = Len(bs[b]) + 1
      /\ \A k \in DOMAIN (<<v>> \o bs[b]) :
           \/ (<<v>> \o bs[b])[k] = v
           \/ k - 1 \in DOMAIN bs[b] /\ (<<v>> \o bs[b])[k] = bs[b][k - 1]
  <2>1. <<v>> \in Seq(Ints) /\ Len(<<v>>) = 1 /\ <<v>>[1] = v
    OBVIOUS
  <2> QED
    BY <1>2, <2>1
<1>4. /\ ds[b] = <<v>> \o bs[b] /\ DOMAIN ds = 0..(cnt - 1)
      /\ \A k \in 0..(cnt - 1) : k # b => ds[k] = bs[k]
  BY <1>1, <1>2 DEF insert_elem
<1>5. ds \in Tables(cnt)
  BY <1>1, <1>2, <1>3 DEF insert_elem, Tables
<1> HIDE DEF ds
<1>6. Preceding(ds, cnt) = Preceding(bs, cnt) + 1
  <2>1. Preceding(ds, cnt) = Preceding(bs, cnt) + Len(ds[b]) - Len(bs[b])
    BY <1>0, <1>1, <1>4, <1>5, OneBucket
  <2>2. Preceding(bs, cnt) \in Nat /\ Len(bs[b]) \in Nat
    BY <1>0, <1>1, AheadIs
  <2> QED
    BY <1>3, <1>4, <2>1, <2>2
<1>7. ASSUME Homed(bs, cnt) PROVE Homed(ds, cnt)
  <2>1. ASSUME NEW c \in 0..(cnt - 1), NEW k \in DOMAIN ds[c] PROVE find_bucket(cnt, ds[c][k]) = c
    <3>1. CASE c # b
      BY <1>4, <1>7, <3>1 DEF Homed
    <3>2. CASE c = b
      BY <1>1, <1>3, <1>4, <1>7, <3>2 DEF Homed, b
    <3> QED
      BY <3>1, <3>2
  <2> QED
    BY <2>1 DEF Homed
<1> QED
  BY <1>5, <1>6, <1>7 DEF ds, b

LEMMA RemoveHolds ==
  ASSUME NEW cnt \in Counts, NEW bs \in Tables(cnt), NEW v \in Ints, NEW b \in 0..(cnt - 1),
         find_elem(bs[b], v)
  PROVE  LET ds == remove_elem(bs, b, v)
         IN  /\ ds \in Tables(cnt) /\ Preceding(ds, cnt) = Preceding(bs, cnt) - 1
             /\ Homed(bs, cnt) => Homed(ds, cnt)
<1> DEFINE s == bs[b]
           K == {k \in DOMAIN s : s[k] = v}
           i == Min(K)
           t == RemoveAt(s, i)
           ds == remove_elem(bs, b, v)
<1>0. cnt \in Nat /\ s \in Seq(Ints) /\ DOMAIN bs = 0..(cnt - 1)
  BY HashSizes DEF Counts, Tables
<1>1. i \in 1..Len(s)
  <2>1. K \in SUBSET Nat /\ K # {}
    <3>1. PICK k \in DOMAIN s : ~(s[k] < v) /\ ~(v < s[k])
      BY DEF find_elem
    <3>2. k \in 1..Len(s) /\ s[k] \in Int /\ v \in Int
      BY <1>0, <3>1, HashSizes
    <3>3. k \in K
      BY <3>1, <3>2
    <3> QED
      BY <1>0, <3>3
  <2>2. PICK e0 \in K : \A k \in K : e0 <= k
    <3> HIDE DEF K
    <3> QED
      BY <2>1, HasLeast
  <2>3. i \in K
    <3> HIDE DEF K
    <3> QED
      BY <2>2 DEF Min
  <2> QED
    BY <1>0, <2>3
<1> HIDE DEF i, s
<1>2. /\ t \in Seq(Ints) /\ Len(t) = Len(s) - 1
      /\ \A k \in DOMAIN t : \E j \in DOMAIN s : t[k] = s[j]
  <2> DEFINE u == SubSeq(s, 1, i - 1) w == SubSeq(s, i + 1, Len(s))
  <2>1. /\ u \in Seq(Ints) /\ Len(u) = i - 1 /\ \A k \in 1..(i - 1) : u[k] = s[k]
        /\ w \in Seq(Ints) /\ Len(w) = Len(s) - i
        /\ \A k \in 1..(Len(s) - i) : w[k] = s[k + i]
    BY <1>0, <1>1
  <2>2. t = u \o w
    BY <1>0, <1>1 DEF RemoveAt
  <2> HIDE DEF u, w, t
  <2>3. /\ t \in Seq(Ints) /\ Len(t) = Len(u) + Len(w) /\ DOMAIN t = 1..Len(t)
        /\ \A k \in 1..Len(t) : t[k] = IF k <= Len(u) THEN u[k] ELSE w[k - Len(u)]
    <3>1. /\ u \o w \in Seq(Ints) /\ Len(u \o w) = Len(u) + Len(w)
          /\ DOMAIN (u \o w) = 1..(Len(u) + Len(w))
          /\ \A k \in 1..(Len(u) + Len(w)) :
               (u \o w)[k] = IF k <= Len(u) THEN u[k] ELSE w[k - Len(u)]
      BY <2>1, JoinIs
    <3> QED
      BY <2>2, <3>1
  <2>4. ASSUME NEW k \in 1..Len(t) PROVE \E j \in DOMAIN s : t[k] = s[j]
    <3>1. CASE k <= i - 1
      <4>0. k \in 1..(i - 1) /\ k \in 1..Len(s) /\ k <= Len(u)
        BY <1>0, <1>1, <2>1, <3>1
      <4>1. k \in DOMAIN s /\ t[k] = u[k] /\ u[k] = s[k]
        BY <1>0, <2>1, <2>3, <4>0
      <4> QED
        BY <4>1
    <3>2. CASE ~(k <= i - 1)
      <4>0. /\ k - (i - 1) \in 1..(Len(s) - i) /\ k + 1 \in 1..Len(s) /\ ~(k <= Len(u))
            /\ (k - (i - 1)) + i = k + 1
        BY <1>0, <1>1, <2>1, <2>3, <3>2
      <4>1. k + 1 \in DOMAIN s /\ t[k] = w[k - (i - 1)]
        BY <1>0, <2>1, <2>3, <4>0
      <4>2. w[k - (i - 1)] = s[k + 1]
        BY <2>1, <4>0
      <4> QED
        BY <4>1, <4>2
    <3> QED
      BY <3>1, <3>2
  <2>5. Len(t) = Len(s) - 1
    BY <1>0, <1>1, <2>1, <2>3
  <2> QED
    BY <2>3, <2>4, <2>5
<1>3. ds = [bs EXCEPT ![b] = t]
  BY DEF remove_elem, i, s
<1> HIDE DEF t, ds
<1>4. ds[b] = t /\ DOMAIN ds = 0..(cnt - 1) /\ \A k \in 0..(cnt - 1) : k # b => ds[k] = bs[k]
  BY <1>0, <1>3
<1>5. ds \in Tables(cnt)
  BY <1>2, <1>3 DEF Tables
<1>6. Preceding(ds, cnt) = Preceding(bs, cnt) - 1
  <2>1. Preceding(ds, cnt) = Preceding(bs, cnt) + Len(ds[b]) - Len(bs[b])
    BY <1>0, <1>4, <1>5, OneBucket
  <2>2. Preceding(bs, cnt) \in Nat /\ Len(bs[b]) \in Nat
    BY <1>0, AheadIs
  <2> QED
    BY <1>2, <1>4, <2>1, <2>2 DEF s
<1>7. ASSUME Homed(bs, cnt) PROVE Homed(ds, cnt)
  <2>1. ASSUME NEW c \in 0..(cnt - 1), NEW k \in DOMAIN ds[c] PROVE find_bucket(cnt, ds[c][k]) = c
    <3>1. CASE c # b
      BY <1>4, <1>7, <3>1 DEF Homed
    <3>2. CASE c = b
      BY <1>2, <1>4, <1>7, <3>2 DEF Homed, s
    <3> QED
      BY <3>1, <3>2
  <2> QED
    BY <2>1 DEF Homed
<1> QED
  BY <1>5, <1>6, <1>7 DEF ds

LEMMA MovedHolds ==
  ASSUME NEW old \in Counts, NEW new \in Counts, NEW bs \in Tables(old)
  PROVE  /\ Moved(bs, old, new) \in Tables(new)
         /\ Preceding(Moved(bs, old, new), new) = Preceding(bs, old)
         /\ Homed(Moved(bs, old, new), new)
<1> DEFINE els == Chained(bs, old)
           len == Len(els)
           T == Tables(new)
           move(t, k) == insert_elem(t, find_bucket(new, els[k]), els[k])
           step == [p \in (1..len) \X T |-> move(p[2], p[1])]
           MovedOf(f) == f = [k \in 0..len |-> IF k = 0 THEN Empty(new) ELSE move(f[k - 1], k)]
           c == CHOOSE f : MovedOf(f)
<1>0. old \in Nat /\ new \in Nat
  BY HashSizes DEF Counts
<1>1. els \in Seq(Ints) /\ len \in Nat /\ \A k \in 1..len : els[k] \in Ints
  <2>1. els \in Seq(Ints)
    BY <1>0, ChainedIs
  <2> HIDE DEF els
  <2> QED
    BY <2>1
<1>2. Moved(bs, old, new) = c[len]
  BY DEF Moved
<1> HIDE DEF els, len, T
<1>3. ASSUME NEW t \in T, NEW k \in 1..len
      PROVE  /\ move(t, k) \in T /\ Preceding(move(t, k), new) = Preceding(t, new) + 1
             /\ Homed(t, new) => Homed(move(t, k), new)
  BY <1>1, InsertHolds DEF T
<1> HIDE DEF move
<1>4. Empty(new) \in T /\ Preceding(Empty(new), new) = 0 /\ Homed(Empty(new), new)
  <2>1. Homed(Empty(new), new)
    BY DEF Empty, Homed
  <2> QED
    BY <2>1, NoElements DEF T
<1>5. PICK f : IterateOf(f, step, Empty(new), len, T)
  <2>1. StepOf(step, len, T)
    <3>1. ASSUME NEW p \in (1..len) \X T PROVE move(p[2], p[1]) \in T
      BY <1>3
    <3> QED
      BY <3>1 DEF StepOf
  <2> HIDE DEF step
  <2> QED
    BY <1>1, <1>4, <2>1, Iterates
<1>6. f \in [0..len -> T] /\ f[0] = Empty(new)
  BY <1>5 DEF IterateOf
<1>7. ASSUME NEW k \in 1..len PROVE f[k - 1] \in T /\ f[k] = move(f[k - 1], k)
  <2>1. k - 1 \in 0..len
    BY <1>1
  <2>2. f[k - 1] \in T
    BY <1>6, <2>1
  <2>3. <<k, f[k - 1]>> \in (1..len) \X T
    BY <2>2
  <2>4. f[k] = step[<<k, f[k - 1]>>]
    BY <1>5 DEF IterateOf
  <2> QED
    BY <2>2, <2>3, <2>4
<1>8. MovedOf(f)
  <2>1. ASSUME NEW k \in 0..len PROVE f[k] = IF k = 0 THEN Empty(new) ELSE move(f[k - 1], k)
    <3>1. k = 0 \/ k \in 1..len
      BY <1>1
    <3> QED
      BY <1>6, <1>7, <3>1
  <2>2. f = [k \in 0..len |-> f[k]]
    BY <1>6
  <2> QED
    BY <2>1, <2>2
<1>9. MovedOf(c)
  <2> HIDE DEF MovedOf
  <2> QED
    BY <1>8
<1> HIDE DEF c
<1> DEFINE Good(k) == c[k] \in T /\ Preceding(c[k], new) = k /\ Homed(c[k], new)
           S == {k \in Nat : Good(k)}
<1>10. Good(0)
  <2>1. 0 \in 0..len
    BY <1>1
  <2>2. c[0] = Empty(new)
    BY <1>9, <2>1
  <2> QED
    BY <1>4, <2>2
<1>11. ASSUME NEW k \in 0..(len - 1), Good(k) PROVE Good(k + 1)
  <2>1. k + 1 \in 1..len /\ k + 1 \in 0..len /\ k + 1 # 0 /\ (k + 1) - 1 = k
    BY <1>1
  <2>2. c[k + 1] = move(c[k], k + 1)
    BY <1>9, <2>1
  <2> QED
    BY <1>3, <1>11, <2>1, <2>2
<1> HIDE DEF Good
<1>12. 0 \in S /\ \A k \in 0..(len - 1) : k \in S => k + 1 \in S
  BY <1>1, <1>10, <1>11
<1>13. len \in S
  <2> HIDE DEF S
  <2>1. len \in 0..len
    BY <1>1
  <2> QED
    BY <1>1, <1>12, <2>1, Climbs
<1> QED
  BY <1>2, <1>13 DEF Good, T, Preceding, len, els

-------------------------------------------------------------------------------
(* The iterator: after nth calls it is at the nth element of the table.      *)

LEMMA LeastOf ==
  ASSUME NEW K \in SUBSET Nat, K # {}
  PROVE  Min(K) \in K /\ \A k \in K : Min(K) <= k
<1>1. PICK e0 \in K : \A k \in K : e0 <= k
  BY HasLeast
<1> QED
  BY <1>1 DEF Min

LEMMA AheadUp ==
  ASSUME NEW cnt \in Nat, NEW bs \in Tables(cnt), NEW a \in 0..cnt, NEW b \in 0..cnt, a <= b
  PROVE  /\ Preceding(bs, a) <= Preceding(bs, b)
         /\ (\A k \in a..(b - 1) : bs[k] = <<>>) => Preceding(bs, a) = Preceding(bs, b)
<1> DEFINE Up(j) == /\ Preceding(bs, a) <= Preceding(bs, a + j)
                    /\ (\A k \in a..(a + j - 1) : bs[k] = <<>>) => Preceding(bs, a) = Preceding(bs, a + j)
           S == {j \in Nat : Up(j)}
<1>1. Up(0)
  <2>1. Preceding(bs, a) \in Nat /\ a + 0 = a
    BY AheadIs
  <2> QED
    BY <2>1
<1>2. ASSUME NEW j \in 0..((b - a) - 1), Up(j) PROVE Up(j + 1)
  <2>1. /\ a + j \in 0..(cnt - 1) /\ a + j \in 0..cnt /\ a + (j + 1) = (a + j) + 1
        /\ a + j \in a..(a + (j + 1) - 1)
    OBVIOUS
  <2>2. /\ Preceding(bs, (a + j) + 1) = Preceding(bs, a + j) + Len(bs[a + j]) /\ Len(bs[a + j]) \in Nat
        /\ Preceding(bs, a + j) \in Nat /\ Preceding(bs, a) \in Nat
    BY <2>1, AheadIs
  <2>3. Preceding(bs, a) <= Preceding(bs, a + (j + 1))
    BY <1>2, <2>1, <2>2
  <2>4. ASSUME \A k \in a..(a + (j + 1) - 1) : bs[k] = <<>>
        PROVE  Preceding(bs, a) = Preceding(bs, a + (j + 1))
    <3>1. bs[a + j] = <<>> /\ Len(<<>>) = 0
      BY <2>1, <2>4
    <3>2. \A k \in a..(a + j - 1) : bs[k] = <<>>
      BY <2>4
    <3> QED
      BY <1>2, <2>1, <2>2, <3>1, <3>2
  <2> QED
    BY <2>3, <2>4
<1> HIDE DEF Up
<1>3. 0 \in S /\ \A j \in 0..((b - a) - 1) : j \in S => j + 1 \in S
  BY <1>1, <1>2
<1>4. b - a \in S
  <2> HIDE DEF S
  <2>1. b - a \in Nat /\ b - a \in 0..(b - a)
    OBVIOUS
  <2> QED
    BY <1>3, <2>1, Climbs
<1>5. a + (b - a) = b
  OBVIOUS
<1>6. Up(b - a)
  BY <1>4
<1> QED
  BY <1>5, <1>6 DEF Up

\* The iterator is at the nth element, or at the head of the first bucket.
AtNth(i, nth) ==
  /\ i \in Nat \X Nat /\ i[1] \in 0..(bucket_cnt - 1) /\ i[2] \in 0..Len(buckets[i[1]])
  /\ Preceding(buckets, i[1]) + i[2] = nth
  /\ nth > 0 => i[2] > 0

LEMMA NextIs ==
  ASSUME bucket_cnt \in Nat, buckets \in Tables(bucket_cnt), NEW i, NEW nth \in Nat, AtNth(i, nth)
  PROVE  /\ nth <= Preceding(buckets, bucket_cnt)
         /\ nth < Preceding(buckets, bucket_cnt) => AtNth(hash_next(i), nth + 1)
         /\ nth = Preceding(buckets, bucket_cnt) => hash_next(i) = <<bucket_cnt, 0>>
<1> DEFINE b == i[1] k == i[2] t == Preceding(buckets, bucket_cnt)
           later == {c \in (b + 1)..(bucket_cnt - 1) : buckets[c] # <<>>}
<1>1. /\ b \in 0..(bucket_cnt - 1) /\ k \in 0..Len(buckets[b]) /\ b \in Nat /\ k \in Nat
      /\ Preceding(buckets, b) + k = nth /\ b \in 0..bucket_cnt /\ b + 1 \in 0..bucket_cnt
      /\ bucket_cnt \in 0..bucket_cnt
  BY DEF AtNth
<1>2. /\ hash_next(i) = IF k < Len(buckets[b]) THEN <<b, k + 1>>
                        ELSE IF later = {} THEN <<bucket_cnt, 0>> ELSE <<Min(later), 1>>
  BY DEF hash_next
<1> HIDE DEF b, k
<1>3. /\ Len(buckets[b]) \in Nat /\ Preceding(buckets, b) \in Nat /\ t \in Nat
      /\ Preceding(buckets, b + 1) = Preceding(buckets, b) + Len(buckets[b])
  BY <1>1, AheadIs
<1>4. Preceding(buckets, b + 1) <= t
  BY <1>1, AheadUp
<1>5. CASE k < Len(buckets[b])
  <2>1. nth < t
    BY <1>1, <1>3, <1>4, <1>5
  <2>2. AtNth(<<b, k + 1>>, nth + 1)
    <3>1. /\ k + 1 \in 0..Len(buckets[b]) /\ k + 1 \in Nat /\ k + 1 > 0
          /\ Preceding(buckets, b) + (k + 1) = nth + 1
      BY <1>1, <1>3, <1>5
    <3> QED
      BY <1>1, <3>1 DEF AtNth
  <2> QED
    BY <1>2, <1>5, <1>3, <2>1, <2>2
<1>6. CASE ~(k < Len(buckets[b]))
  <2>1. k = Len(buckets[b]) /\ nth = Preceding(buckets, b + 1)
    BY <1>1, <1>3, <1>6
  <2>2. CASE later = {}
    <3>1. \A c \in (b + 1)..(bucket_cnt - 1) : buckets[c] = <<>>
      BY <2>2
    <3>2. nth = t
      BY <1>1, <2>1, <3>1, AheadUp
    <3> QED
      BY <1>2, <1>3, <1>6, <2>2, <3>2
  <2>3. CASE later # {}
    <3> DEFINE m == Min(later)
    <3>1. later \in SUBSET Nat
      BY <1>1
    <3>2. m \in later /\ \A c \in later : m <= c
      <4> HIDE DEF later
      <4> QED
        BY <2>3, <3>1, LeastOf
    <3> HIDE DEF m
    <3>3. m \in (b + 1)..(bucket_cnt - 1) /\ m \in 0..(bucket_cnt - 1) /\ m \in Nat /\ buckets[m] # <<>>
      BY <1>1, <3>2
    <3>4. \A c \in (b + 1)..(m - 1) : buckets[c] = <<>>
      BY <1>1, <3>2, <3>3
    <3>5. Preceding(buckets, b + 1) = Preceding(buckets, m)
      BY <1>1, <3>3, <3>4, AheadUp
    <3>6. Len(buckets[m]) >= 1
      <4>1. buckets[m] \in Seq(Ints)
        BY <3>3 DEF Tables
      <4> QED
        BY <3>3, <4>1
    <3>7. AtNth(<<m, 1>>, nth + 1)
      BY <2>1, <3>3, <3>5, <3>6 DEF AtNth
    <3>8. nth < t
      <4>1. /\ Preceding(buckets, m + 1) = Preceding(buckets, m) + Len(buckets[m])
            /\ Preceding(buckets, m) \in Nat /\ Preceding(buckets, m + 1) \in Nat /\ Len(buckets[m]) \in Nat
        BY <1>1, <3>3, AheadIs
      <4>2. Preceding(buckets, m + 1) <= t
        BY <1>1, <3>3, AheadUp
      <4> QED
        BY <1>3, <2>1, <3>5, <3>6, <4>1, <4>2
    <3>9. hash_next(i) = <<m, 1>>
      BY <1>2, <1>6, <2>3 DEF m
    <3> QED
      BY <1>3, <3>7, <3>8, <3>9
  <2> QED
    BY <2>2, <2>3
<1> QED
  BY <1>5, <1>6

advance(i) == IF i[1] = bucket_cnt THEN i ELSE hash_next(i)

LEMMA VisitedIs ==
  ASSUME bucket_cnt \in Nat
  PROVE  /\ Visited[0] = hash_first
         /\ \A nth \in 1..(MaxElems + 1) : Visited[nth] = advance(Visited[nth - 1])
<1> DEFINE m == MaxElems + 1
           T == Nat \X Nat
           step == [p \in (1..m) \X T |-> advance(p[2])]
           CurOf(f) == f = [nth \in 0..m |-> IF nth = 0 THEN hash_first ELSE advance(f[nth - 1])]
           c == CHOOSE f : CurOf(f)
<1>0. m \in Nat
  BY HashSizes
<1> HIDE DEF m
<1>1. ASSUME NEW i \in T PROVE advance(i) \in T
  <2> DEFINE later == {b \in (i[1] + 1)..(bucket_cnt - 1) : buckets[b] # <<>>}
  <2>1. i[1] \in Nat /\ i[2] \in Nat
    OBVIOUS
  <2>2. later # {} => Min(later) \in Nat
    <3>1. later \in SUBSET Nat
      BY <2>1
    <3> HIDE DEF later
    <3> QED
      BY <3>1, LeastOf
  <2>3. hash_next(i) = IF i[2] < Len(buckets[i[1]]) THEN <<i[1], i[2] + 1>>
                       ELSE IF later = {} THEN <<bucket_cnt, 0>> ELSE <<Min(later), 1>>
    BY DEF hash_next
  <2> HIDE DEF later
  <2>4. hash_next(i) \in T
    BY <2>1, <2>2, <2>3
  <2> QED
    BY <2>4 DEF advance
<1>2. hash_first \in T
  BY DEF hash_first
<1>3. StepOf(step, m, T)
  <2>1. ASSUME NEW p \in (1..m) \X T PROVE advance(p[2]) \in T
    <3>1. p[2] \in T
      OBVIOUS
    <3> QED
      BY <1>1, <3>1
  <2> HIDE DEF T
  <2> QED
    BY <2>1 DEF StepOf
<1> HIDE DEF T
<1>4. PICK f : IterateOf(f, step, hash_first, m, T)
  <2> HIDE DEF step
  <2> QED
    BY <1>0, <1>2, <1>3, Iterates
<1>5. f \in [0..m -> T] /\ f[0] = hash_first
  BY <1>4 DEF IterateOf
<1>6. ASSUME NEW nth \in 1..m PROVE f[nth] = advance(f[nth - 1])
  <2>1. nth - 1 \in 0..m
    BY <1>0
  <2>2. f[nth - 1] \in T
    BY <1>5, <2>1
  <2>3. <<nth, f[nth - 1]>> \in (1..m) \X T
    BY <2>2
  <2>4. f[nth] = step[<<nth, f[nth - 1]>>]
    BY <1>4 DEF IterateOf
  <2> QED
    BY <2>3, <2>4
<1>7. CurOf(f)
  <2>1. ASSUME NEW nth \in 0..m PROVE f[nth] = IF nth = 0 THEN hash_first ELSE advance(f[nth - 1])
    <3>1. nth = 0 \/ nth \in 1..m
      BY <1>0
    <3> QED
      BY <1>5, <1>6, <3>1
  <2>2. f = [nth \in 0..m |-> f[nth]]
    BY <1>5
  <2> QED
    BY <2>1, <2>2
<1>8. Visited = c
  BY DEF Visited, advance, m
<1>9. CurOf(Visited)
  <2> HIDE DEF CurOf
  <2> QED
    BY <1>7, <1>8
<1> HIDE DEF c
<1>10. Visited[0] = hash_first
  BY <1>0, <1>9
<1>11. ASSUME NEW nth \in 1..m PROVE Visited[nth] = advance(Visited[nth - 1])
  <2>1. nth \in 0..m /\ nth # 0
    BY <1>0
  <2> QED
    BY <1>9, <2>1
<1> QED
  BY <1>10, <1>11 DEF m

\* dumpdata prints every element, and nothing else.
LEMMA DumpedIs ==
  ASSUME bucket_cnt \in Nat \ {0}, buckets \in Tables(bucket_cnt),
         Preceding(buckets, bucket_cnt) <= MaxElems
  PROVE  /\ Len(Dumped) = Preceding(buckets, bucket_cnt)
         /\ \A v : v \in ToSet(Dumped) <=>
              \E b \in 0..(bucket_cnt - 1) : \E k \in DOMAIN buckets[b] : buckets[b][k] = v
<1> DEFINE t == Preceding(buckets, bucket_cnt)
           S == {nth \in Nat : AtNth(Visited[nth], nth)}
<1>0. /\ bucket_cnt \in Nat /\ 0 \in 0..(bucket_cnt - 1) /\ t \in Nat /\ MaxElems \in Nat
      /\ bucket_cnt \in 0..bucket_cnt
  BY AheadIs, HashSizes
<1>1. 0 \in S
  <2>1. Visited[0] = <<0, 0>>
    BY <1>0, VisitedIs DEF hash_first
  <2>2. Preceding(buckets, 0) = 0 /\ Len(buckets[0]) \in Nat
    BY <1>0, AheadIs
  <2>3. AtNth(<<0, 0>>, 0)
    BY <1>0, <2>2 DEF AtNth
  <2> QED
    BY <2>1, <2>3
<1>2. ASSUME NEW nth \in 0..(t - 1), nth \in S PROVE nth + 1 \in S
  <2>1. nth \in Nat /\ nth + 1 \in 1..(MaxElems + 1) /\ (nth + 1) - 1 = nth /\ nth < t
    BY <1>0
  <2>2. AtNth(Visited[nth], nth) /\ Visited[nth][1] # bucket_cnt
    BY <1>0, <1>2 DEF AtNth
  <2>3. Visited[nth + 1] = hash_next(Visited[nth])
    BY <1>0, <2>1, <2>2, VisitedIs DEF advance
  <2>4. AtNth(hash_next(Visited[nth]), nth + 1)
    BY <1>0, <2>1, <2>2, NextIs
  <2> QED
    BY <2>1, <2>3, <2>4
<1>3. \A nth \in 0..t : nth \in S
  <2> HIDE DEF S, t
  <2> QED
    BY <1>0, <1>1, <1>2, Climbs
<1>4. \A nth \in 0..t : AtNth(Visited[nth], nth)
  BY <1>3
<1>5. Visited[t + 1][1] = bucket_cnt
  <2>1. t + 1 \in 1..(MaxElems + 1) /\ (t + 1) - 1 = t /\ t \in 0..t
    BY <1>0
  <2>2. AtNth(Visited[t], t) /\ Visited[t][1] # bucket_cnt
    BY <1>0, <1>4, <2>1 DEF AtNth
  <2>3. Visited[t + 1] = hash_next(Visited[t])
    BY <1>0, <2>1, <2>2, VisitedIs DEF advance
  <2>4. hash_next(Visited[t]) = <<bucket_cnt, 0>>
    BY <1>0, <2>2, NextIs
  <2> QED
    BY <2>3, <2>4
<1> DEFINE Ended == {m \in 0..(MaxElems + 1) : Visited[m][1] = bucket_cnt}
<1>6. Min(Ended) = t + 1
  <2>1. t + 1 \in Ended /\ Ended \in SUBSET Nat
    BY <1>0, <1>5
  <2>2. \A m \in Ended : t + 1 <= m
    <3>1. ASSUME NEW m \in Ended, m <= t PROVE FALSE
      <4>1. m \in 0..t /\ Visited[m][1] = bucket_cnt
        BY <1>0, <3>1
      <4>2. AtNth(Visited[m], m)
        BY <1>4, <4>1
      <4> QED
        BY <1>0, <4>1, <4>2 DEF AtNth
    <3>2. \A m \in Ended : m \in Int
      BY <1>0
    <3> HIDE DEF Ended
    <3> QED
      BY <1>0, <3>1, <3>2
  <2>3. Min(Ended) \in Ended /\ Min(Ended) <= t + 1
    <3> HIDE DEF Ended
    <3> QED
      BY <2>1, LeastOf
  <2>4. Min(Ended) \in Nat
    BY <2>1, <2>3
  <2> HIDE DEF Ended
  <2> QED
    BY <1>0, <2>2, <2>3, <2>4
<1>7. Dumped = [nth \in 1..t |-> buckets[Visited[nth][1]][Visited[nth][2]]]
  <2>1. Min(Ended) - 1 = t
    BY <1>0, <1>6
  <2>2. Dumped = [nth \in 1..(Min(Ended) - 1) |-> buckets[Visited[nth][1]][Visited[nth][2]]]
    BY DEF Dumped, hash_cur
  <2> HIDE DEF Ended, t
  <2> QED
    BY <2>1, <2>2
<1>8. ASSUME NEW nth \in 1..t
      PROVE  /\ Visited[nth][1] \in 0..(bucket_cnt - 1)
             /\ Visited[nth][2] \in DOMAIN buckets[Visited[nth][1]]
  <2>1. AtNth(Visited[nth], nth) /\ nth > 0
    BY <1>0, <1>4
  <2>2. /\ Visited[nth][1] \in 0..(bucket_cnt - 1) /\ Visited[nth][2] \in Nat
        /\ Visited[nth][2] \in 0..Len(buckets[Visited[nth][1]]) /\ Visited[nth][2] > 0
    BY <2>1 DEF AtNth
  <2>3. buckets[Visited[nth][1]] \in Seq(Ints)
    BY <2>2 DEF Tables
  <2> QED
    BY <2>2, <2>3
<1>9. Len(Dumped) = t
  <2>1. Dumped \in [1..t -> Ints]
    <3>1. ASSUME NEW nth \in 1..t PROVE buckets[Visited[nth][1]][Visited[nth][2]] \in Ints
      <4>1. buckets[Visited[nth][1]] \in Seq(Ints)
        BY <1>8 DEF Tables
      <4> QED
        BY <1>8, <4>1
    <3> HIDE DEF t
    <3> QED
      BY <1>7, <3>1
  <2> HIDE DEF t
  <2>2. Dumped \in Seq(Ints)
    BY <1>0, <2>1
  <2>3. DOMAIN Dumped = 1..t
    BY <2>1
  <2> QED
    BY <1>0, <2>2, <2>3
<1>10. ASSUME NEW v, v \in ToSet(Dumped)
       PROVE  \E b \in 0..(bucket_cnt - 1) : \E k \in DOMAIN buckets[b] : buckets[b][k] = v
  <2>1. PICK nth \in DOMAIN Dumped : Dumped[nth] = v
    BY <1>10 DEF ToSet
  <2>2. nth \in 1..t /\ v = buckets[Visited[nth][1]][Visited[nth][2]]
    BY <1>7, <2>1
  <2> QED
    BY <1>8, <2>2
<1>11. ASSUME NEW b \in 0..(bucket_cnt - 1), NEW k \in DOMAIN buckets[b]
       PROVE  buckets[b][k] \in ToSet(Dumped)
  <2> DEFINE nth == Preceding(buckets, b) + k
  <2>1. k \in 1..Len(buckets[b]) /\ Len(buckets[b]) \in Nat
    BY DEF Tables
  <2>2. /\ Preceding(buckets, b + 1) = Preceding(buckets, b) + Len(buckets[b])
        /\ Preceding(buckets, b) \in Nat /\ b + 1 \in 0..bucket_cnt /\ b \in Nat
    BY <1>0, AheadIs
  <2>3. Preceding(buckets, b + 1) <= t
    BY <1>0, <2>2, AheadUp
  <2>4. nth \in 1..t
    BY <1>0, <2>1, <2>2, <2>3
  <2> DEFINE c == Visited[nth][1] j == Visited[nth][2]
  <2>5. AtNth(Visited[nth], nth) /\ nth > 0
    BY <1>0, <1>4, <2>4
  <2>6. /\ c \in 0..(bucket_cnt - 1) /\ j \in 1..Len(buckets[c])
        /\ Preceding(buckets, c) + j = Preceding(buckets, b) + k
    BY <2>5 DEF AtNth
  <2> HIDE DEF c, j
  <2>7. /\ Preceding(buckets, c + 1) = Preceding(buckets, c) + Len(buckets[c]) /\ c + 1 \in 0..bucket_cnt
        /\ Preceding(buckets, c) \in Nat /\ Len(buckets[c]) \in Nat /\ c \in Nat
    BY <1>0, <2>6, AheadIs
  <2>8. ~(c < b)
    <3>1. SUFFICES ASSUME c < b PROVE FALSE
      OBVIOUS
    <3>2. Preceding(buckets, c + 1) <= Preceding(buckets, b)
      BY <1>0, <2>2, <2>7, <3>1, AheadUp
    <3>3. Preceding(buckets, c) + j <= Preceding(buckets, c + 1)
      BY <2>6, <2>7
    <3>4. Preceding(buckets, b) + k > Preceding(buckets, b)
      BY <2>1, <2>2
    <3> QED
      BY <2>2, <2>6, <2>7, <3>2, <3>3, <3>4
  <2>9. ~(b < c)
    <3>1. SUFFICES ASSUME b < c PROVE FALSE
      OBVIOUS
    <3>2. Preceding(buckets, b + 1) <= Preceding(buckets, c)
      BY <1>0, <2>2, <2>6, <2>7, <3>1, AheadUp
    <3>3. Preceding(buckets, b) + k <= Preceding(buckets, b + 1)
      BY <2>1, <2>2
    <3>4. Preceding(buckets, c) + j > Preceding(buckets, c)
      BY <2>6, <2>7
    <3> QED
      BY <2>2, <2>6, <2>7, <3>2, <3>3, <3>4
  <2>10. c = b /\ j = k
    <3>1. c = b
      BY <2>2, <2>7, <2>8, <2>9
    <3> QED
      BY <2>1, <2>2, <2>6, <3>1
  <2>11. nth \in DOMAIN Dumped /\ Dumped[nth] = buckets[c][j]
    BY <1>7, <2>4 DEF c, j
  <2> HIDE DEF nth
  <2> QED
    BY <2>10, <2>11 DEF ToSet
<1> QED
  BY <1>9, <1>10, <1>11

-------------------------------------------------------------------------------
(***************************************************************************)
(* The count is that of the elements, and unless a value was changed where *)
(* it is, every element is in the bucket it is looked for in.              *)
(***************************************************************************)
HashInv ==
  /\ HashType /\ LoadInBounds
  /\ elem_cnt = Preceding(buckets, bucket_cnt)
  /\ ~stale => Homed(buckets, bucket_cnt)

LEMMA HashInvFinds == HashInv => FindsAll
<1> SUFFICES ASSUME HashInv PROVE FindsAll
  OBVIOUS
<1>1. /\ bucket_cnt \in Counts /\ bucket_cnt \in Nat \ {0} /\ buckets \in Tables(bucket_cnt)
      /\ Preceding(buckets, bucket_cnt) = elem_cnt /\ elem_cnt <= MaxElems
  BY HashSizes DEF HashInv, HashType, Tables, Counts
<1>2. /\ Len(Dumped) = elem_cnt
      /\ \A v : v \in ToSet(Dumped) <=>
              \E b \in 0..(bucket_cnt - 1) : \E k \in DOMAIN buckets[b] : buckets[b][k] = v
  BY <1>1, DumpedIs
<1>3. ASSUME ~stale, NEW v \in Ints
      PROVE  find_elem(buckets[find_bucket(bucket_cnt, v)], v) <=> v \in ToSet(Dumped)
  <2> DEFINE h == find_bucket(bucket_cnt, v)
  <2>1. h \in 0..(bucket_cnt - 1)
    BY <1>1, InTable
  <2> HIDE DEF h
  <2>2. buckets[h] \in Seq(Ints) /\ v \in Int /\ \A w \in Ints : w \in Int
    BY <1>1, <2>1, HashSizes DEF Tables
  <2>3. find_elem(buckets[h], v) <=> \E k \in DOMAIN buckets[h] : buckets[h][k] = v
    <3>1. ASSUME NEW k \in DOMAIN buckets[h]
          PROVE  (~(buckets[h][k] < v) /\ ~(v < buckets[h][k])) <=> buckets[h][k] = v
      <4>1. buckets[h][k] \in Int
        BY <2>2
      <4> QED
        BY <2>2, <4>1
    <3> QED
      BY <3>1 DEF find_elem
  <2>4. ASSUME NEW b \in 0..(bucket_cnt - 1), NEW k \in DOMAIN buckets[b], buckets[b][k] = v
        PROVE  b = h
    BY <1>3, <2>4 DEF HashInv, Homed, h
  <2>5. find_elem(buckets[h], v) <=> v \in ToSet(Dumped)
    BY <1>2, <2>1, <2>3, <2>4
  <2> QED
    BY <2>5 DEF h
<1> QED
  BY <1>2, <1>3 DEF FindsAll, HashInv

LEMMA HashInitInv == HashInit => HashInv
<1> SUFFICES ASSUME HashInit PROVE HashInv
  OBVIOUS
<1>1. MinBuckets \in Counts /\ is_power_of_2(MinBuckets) /\ MinBuckets \in Nat /\ MinBuckets >= 1
  BY HashSizes DEF Counts
<1>2. /\ bucket_cnt = MinBuckets /\ buckets = Empty(bucket_cnt) /\ elem_cnt = 0
      /\ stale = FALSE /\ tidy = TRUE
  BY DEF HashInit
<1>3. buckets \in Tables(bucket_cnt) /\ Preceding(buckets, bucket_cnt) = 0
  BY <1>1, <1>2, NoElements
<1>4. Homed(buckets, bucket_cnt)
  BY <1>2 DEF Homed, Empty
<1>5. LoadInBounds
  <2>1. 0 \in 0..MaxElems /\ 0 < 2 * BEST_ELEMS_PER_BUCKET * MinBuckets
    <3>1. BEST_ELEMS_PER_BUCKET \in Nat /\ BEST_ELEMS_PER_BUCKET >= 1 /\ MaxElems \in Nat
      BY HashSizes
    <3> QED
      BY <1>1, <3>1
  <2> QED
    BY <1>1, <1>2, <2>1 DEF LoadInBounds
<1>6. HashType
  <2>0. MaxElems \in Nat
    BY HashSizes
  <2>1. elem_cnt \in 0..MaxElems
    BY <1>2, <2>0
  <2>2. bucket_cnt \in Counts /\ is_power_of_2(bucket_cnt) /\ bucket_cnt >= MinBuckets
    BY <1>1, <1>2
  <2> QED
    BY <1>2, <1>3, <2>1, <2>2 DEF HashType, Tables
<1> QED
  BY <1>2, <1>3, <1>4, <1>5, <1>6 DEF HashInv

\* Growing, shrinking, or the failure of malloc.
LEMMA RehashHolds ==
  ASSUME HashType, NEW bs \in Tables(bucket_cnt), NEW cnt \in 0..MaxElems,
         cnt = Preceding(bs, bucket_cnt), ~stale => Homed(bs, bucket_cnt), rehash(bs, cnt)
  PROVE  HashInv'
<1> DEFINE new == new_bucket_cnt(cnt)
<1>1. /\ bucket_cnt \in Counts /\ is_power_of_2(bucket_cnt) /\ bucket_cnt >= MinBuckets
      /\ stale \in BOOLEAN /\ elem_cnt' = cnt
  BY DEF HashType, rehash
<1>2. /\ new \in Counts /\ is_power_of_2(new) /\ new >= MinBuckets
      /\ cnt < 2 * BEST_ELEMS_PER_BUCKET * new
      /\ new > MinBuckets => cnt >= BEST_ELEMS_PER_BUCKET * new
  BY NewCountIs
<1>3. \/ /\ new = bucket_cnt
         /\ buckets' = bs /\ tidy' = TRUE /\ UNCHANGED <<bucket_cnt, stale>>
      \/ /\ buckets' = Moved(bs, bucket_cnt, new) /\ bucket_cnt' = new
         /\ stale' = FALSE /\ tidy' = TRUE
      \/ buckets' = bs /\ tidy' = FALSE /\ UNCHANGED <<bucket_cnt, stale>>
  BY DEF rehash
<1> HIDE DEF new
<1>4. CASE /\ new = bucket_cnt
           /\ buckets' = bs /\ tidy' = TRUE /\ UNCHANGED <<bucket_cnt, stale>>
  BY <1>1, <1>2, <1>4 DEF HashInv, HashType, LoadInBounds, Tables
<1>5. CASE /\ buckets' = Moved(bs, bucket_cnt, new) /\ bucket_cnt' = new
           /\ stale' = FALSE /\ tidy' = TRUE
  <2>1. /\ buckets' \in Tables(new) /\ Preceding(buckets', new) = Preceding(bs, bucket_cnt)
        /\ Homed(buckets', new)
    BY <1>1, <1>2, <1>5, MovedHolds
  <2> QED
    BY <1>1, <1>2, <1>5, <2>1 DEF HashInv, HashType, LoadInBounds, Tables
<1>6. CASE buckets' = bs /\ tidy' = FALSE /\ UNCHANGED <<bucket_cnt, stale>>
  BY <1>1, <1>6 DEF HashInv, HashType, LoadInBounds, Tables
<1> QED
  BY <1>3, <1>4, <1>5, <1>6

LEMMA HashFacts ==
  ASSUME HashInv
  PROVE  /\ HashType /\ bucket_cnt \in Counts /\ bucket_cnt \in Nat \ {0}
         /\ buckets \in Tables(bucket_cnt) /\ elem_cnt = Preceding(buckets, bucket_cnt)
         /\ elem_cnt \in 0..MaxElems /\ elem_cnt \in Nat
         /\ \A v \in Inputs : v \in Ints /\ find_bucket(bucket_cnt, v) \in 0..(bucket_cnt - 1)
         /\ ~stale => Homed(buckets, bucket_cnt)
BY HashSizes, InTable DEF HashInv, HashType, Tables, Counts

LEMMA InsertCommand ==
  ASSUME HashInv, NEW v \in Inputs, hash_insert(v)
  PROVE  HashInv'
<1> DEFINE b == find_bucket(bucket_cnt, v)
<1>1. CASE rehash(buckets, elem_cnt)
  BY <1>1, HashFacts, RehashHolds
<1>2. CASE elem_cnt < MaxElems /\ rehash(insert_elem(buckets, b, v), elem_cnt + 1)
  <2>1. elem_cnt + 1 \in 0..MaxElems
    BY <1>2, HashFacts, HashSizes
  <2>2. /\ insert_elem(buckets, b, v) \in Tables(bucket_cnt)
        /\ Preceding(insert_elem(buckets, b, v), bucket_cnt) = elem_cnt + 1
        /\ ~stale => Homed(insert_elem(buckets, b, v), bucket_cnt)
    BY HashFacts, InsertHolds
  <2> QED
    BY <1>2, <2>1, <2>2, HashFacts, RehashHolds
<1> QED
  BY <1>1, <1>2 DEF hash_insert

LEMMA ReplaceCommand ==
  ASSUME HashInv, NEW v \in Inputs, hash_replace(v)
  PROVE  HashInv'
<1> DEFINE b == find_bucket(bucket_cnt, v)
<1>1. CASE /\ find_elem(buckets[b], v)
           /\ rehash(insert_elem(remove_elem(buckets, b, v), b, v), elem_cnt)
  <2> DEFINE rs == remove_elem(buckets, b, v)
  <2>1. /\ rs \in Tables(bucket_cnt) /\ Preceding(rs, bucket_cnt) = elem_cnt - 1
        /\ ~stale => Homed(rs, bucket_cnt)
    BY <1>1, HashFacts, RemoveHolds
  <2> HIDE DEF rs
  <2>2. /\ insert_elem(rs, b, v) \in Tables(bucket_cnt)
        /\ Preceding(insert_elem(rs, b, v), bucket_cnt) = elem_cnt
        /\ ~stale => Homed(insert_elem(rs, b, v), bucket_cnt)
    BY <2>1, HashFacts, InsertHolds
  <2>3. rehash(insert_elem(rs, b, v), elem_cnt)
    BY <1>1 DEF rs
  <2> QED
    BY <2>2, <2>3, HashFacts, RehashHolds
<1>2. CASE elem_cnt < MaxElems /\ rehash(insert_elem(buckets, b, v), elem_cnt + 1)
  <2>1. elem_cnt + 1 \in 0..MaxElems
    BY <1>2, HashFacts, HashSizes
  <2>2. /\ insert_elem(buckets, b, v) \in Tables(bucket_cnt)
        /\ Preceding(insert_elem(buckets, b, v), bucket_cnt) = elem_cnt + 1
        /\ ~stale => Homed(insert_elem(buckets, b, v), bucket_cnt)
    BY HashFacts, InsertHolds
  <2> QED
    BY <1>2, <2>1, <2>2, HashFacts, RehashHolds
<1> QED
  BY <1>1, <1>2 DEF hash_replace

LEMMA DeleteCommand ==
  ASSUME HashInv, NEW v \in Inputs, hash_delete(v)
  PROVE  HashInv'
<1> DEFINE b == find_bucket(bucket_cnt, v)
           rs == remove_elem(buckets, b, v)
<1>1. find_elem(buckets[b], v) /\ rehash(rs, elem_cnt - 1)
  BY DEF hash_delete
<1>2. /\ rs \in Tables(bucket_cnt) /\ Preceding(rs, bucket_cnt) = elem_cnt - 1
      /\ ~stale => Homed(rs, bucket_cnt)
  BY <1>1, HashFacts, RemoveHolds
<1> HIDE DEF rs
<1>3. elem_cnt - 1 \in 0..MaxElems
  <2>1. Preceding(rs, bucket_cnt) \in Nat
    <3>1. bucket_cnt \in 0..bucket_cnt /\ bucket_cnt \in Nat
      BY HashFacts
    <3> QED
      BY <1>2, <3>1, AheadIs
  <2> QED
    BY <1>2, <2>1, HashFacts, HashSizes
<1> QED
  BY <1>1, <1>2, <1>3, HashFacts, RehashHolds

LEMMA ApplyCommand ==
  ASSUME HashInv, NEW action, hash_apply(action)
  PROVE  HashInv'
<1> DEFINE f(v) == IF action = "square" THEN square(v) ELSE triple(v)
           changed == [b \in 0..(bucket_cnt - 1) |->
                         [k \in DOMAIN buckets[b] |-> f(buckets[b][k])]]
<1>1. /\ \A b \in 0..(bucket_cnt - 1) : \A k \in DOMAIN changed[b] : changed[b][k] \in Ints
      /\ buckets' = changed /\ stale' = (stale \/ changed # buckets)
      /\ UNCHANGED <<bucket_cnt, elem_cnt, tidy>>
  BY DEF hash_apply
<1>2. ASSUME NEW b \in 0..(bucket_cnt - 1)
      PROVE  changed[b] \in Seq(Ints) /\ Len(changed[b]) = Len(buckets[b])
  <2>1. buckets[b] \in Seq(Ints)
    BY HashFacts DEF Tables
  <2> DEFINE nth == Len(buckets[b])
  <2>2. nth \in Nat /\ DOMAIN buckets[b] = 1..nth
    BY <2>1
  <2> HIDE DEF f
  <2>3. changed[b] = [k \in 1..nth |-> f(buckets[b][k])]
    BY <2>2
  <2>4. \A k \in 1..nth : f(buckets[b][k]) \in Ints
    BY <1>1, <2>3
  <2> HIDE DEF changed
  <2>5. changed[b] \in [1..nth -> Ints]
    BY <2>3, <2>4
  <2>6. changed[b] \in Seq(Ints) /\ DOMAIN changed[b] = 1..nth
    BY <2>2, <2>5
  <2> QED
    BY <2>2, <2>6
<1>3. DOMAIN changed = 0..(bucket_cnt - 1) /\ changed = [b \in 0..(bucket_cnt - 1) |-> changed[b]]
  OBVIOUS
<1> HIDE DEF changed
<1>4. changed \in Tables(bucket_cnt)
  BY <1>2, <1>3 DEF Tables
<1>5. Preceding(changed, bucket_cnt) = Preceding(buckets, bucket_cnt)
  <2>1. 0 \in 0..(bucket_cnt - 1) /\ bucket_cnt \in Nat /\ bucket_cnt \in 0..bucket_cnt
    BY HashFacts
  <2>2. Preceding(changed, bucket_cnt) = Preceding(buckets, bucket_cnt) + Len(changed[0]) - Len(buckets[0])
    BY <1>2, <1>4, <2>1, HashFacts, OneBucket
  <2>3. Len(changed[0]) = Len(buckets[0]) /\ Len(buckets[0]) \in Nat
        /\ Preceding(buckets, bucket_cnt) \in Nat
    BY <1>2, <2>1, HashFacts, AheadIs
  <2> QED
    BY <2>2, <2>3
<1>6. ~stale' => Homed(buckets', bucket_cnt')
  BY <1>1, HashFacts
<1> QED
  BY <1>1, <1>4, <1>5, <1>6 DEF HashInv, HashType, LoadInBounds, Tables

LEMMA ClearCommand ==
  ASSUME HashInv, hash_clear
  PROVE  HashInv'
<1>1. /\ buckets' = Empty(bucket_cnt) /\ elem_cnt' = 0 /\ stale' = FALSE /\ tidy' = FALSE
      /\ bucket_cnt' = bucket_cnt
  BY DEF hash_clear
<1>2. buckets' \in Tables(bucket_cnt) /\ Preceding(buckets', bucket_cnt) = 0
  BY <1>1, HashFacts, NoElements
<1>3. Homed(buckets', bucket_cnt)
  BY <1>1 DEF Homed, Empty
<1>4. 0 \in 0..MaxElems
  BY HashSizes
<1> QED
  BY <1>1, <1>2, <1>3, <1>4 DEF HashInv, HashType, LoadInBounds, Tables

LEMMA HashNextInv == HashInv /\ [HashNext]_hash_vars => HashInv'
<1> SUFFICES ASSUME HashInv, [HashNext]_hash_vars PROVE HashInv'
  OBVIOUS
<1>1. CASE \E v \in Inputs : hash_insert(v) \/ hash_replace(v) \/ hash_delete(v)
  BY <1>1, InsertCommand, ReplaceCommand, DeleteCommand
<1>2. CASE \E action \in {"square", "triple"} : hash_apply(action)
  BY <1>2, ApplyCommand
<1>3. CASE hash_clear
  BY <1>3, ClearCommand
<1>4. CASE UNCHANGED hash_vars
  BY <1>4 DEF HashInv, HashType, LoadInBounds, Homed, Preceding, hash_vars, table, find_bucket, Tables
<1> QED
  BY <1>1, <1>2, <1>3, <1>4 DEF HashNext

(***************************************************************************)
(* Whatever the hash function, the table finds what it holds: hash_find    *)
(* finds exactly the values that dumpdata prints, until a value is changed *)
(* where it is; hash_size is their number; and the ratios of elements to   *)
(* buckets are kept, through growing, shrinking and failures of malloc.    *)
(***************************************************************************)
THEOREM TableFindsAll == HashSpec => []FindsAll
<1>1. HashSpec => []HashInv
  BY HashInitInv, HashNextInv, PTL DEF HashSpec
<1> QED
  BY <1>1, HashInvFinds, PTL
===============================================================================
