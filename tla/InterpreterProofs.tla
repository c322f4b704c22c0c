-------------------------- MODULE InterpreterProofs --------------------------
(***************************************************************************)
(* What the tables of names know of the structures, proved for every size  *)
(* of the tables, every number of structures and any names.                *)
(***************************************************************************)
EXTENDS Interpreter, FiniteSetTheorems, WellFoundedInduction, TLAPS

-------------------------------------------------------------------------------
(***************************************************************************)
(* The inductive invariant.  The types: a structure that is live has a     *)
(* number that was given out, and a null pointer is of none.               *)
(***************************************************************************)
Entries == [itsAddress : 0..made, name : Names \cup {NoName}]

Types ==
  /\ made \in 0..MaxMade /\ count \in [KindSet -> 0..MAX_COUNT]
  /\ entries \in [KindSet -> [1..MAX_COUNT -> Entries]]
  /\ live \in [KindSet -> SUBSET Entries]
  /\ \A k \in KindSet : \A s \in live[k] : s.itsAddress # Null
  /\ status \in {"running", "quit", "crashed", "beyond"}

(***************************************************************************)
(* What is named is live: a delete takes one entry's structure, and no     *)
(* other entry below the count has it too.                                 *)
(***************************************************************************)
Named(k) ==
  /\ \A s, t \in live[k] : s.itsAddress = t.itsAddress => s = t
  /\ \A i \in 1..count[k] :
       entries[k][i].itsAddress # Null => entries[k][i] \in live[k]
  /\ \A i, j \in 1..count[k] :
       i # j /\ entries[k][i].itsAddress # Null
         => entries[k][i].itsAddress # entries[k][j].itsAddress

\* The counts; a bitmap lost to bitmap_expand is live and can be deleted again.
Counted(k) ==
  /\ IsFiniteSet(live[k])
  /\ k # "bitmap" => count[k] = Cardinality(live[k])
  /\ count[k] <= Cardinality(live[k])

\* Every entry below the count has its structure, the later made the higher up.
InOrder(k) ==
  /\ live[k] = {entries[k][i] : i \in 1..count[k]}
  /\ \A i, j \in 1..count[k] :
       i < j => entries[k][i].itsAddress < entries[k][j].itsAddress

Beyond == status = "beyond" => \E k \in KindSet : count[k] >= MAX_COUNT

Inv ==
  /\ Types /\ Beyond
  /\ \A k \in KindSet : Named(k) /\ Counted(k) /\ (orderly => InOrder(k))

-------------------------------------------------------------------------------
(***************************************************************************)
(* Helpers.  A lookup finds an entry below the count.                      *)
(***************************************************************************)
LEMMA FoundBelow ==
  ASSUME Types, NEW k \in KindSet, NEW name, Found(k, name) # 0
  PROVE  Found(k, name) \in 1..count[k]
<1> DEFINE at == {i \in 1..count[k] : entries[k][i].name = name}
<1>1. at # {} /\ Found(k, name) = Min(at)
  BY DEF Found
<1>2. at \subseteq Nat
  BY DEF Types
<1>3. PICK e \in at : \A i \in at : ~(<<i, e>> \in OpToRel(<, Nat))
  <2>1. IsWellFoundedOn(OpToRel(<, Nat), Nat)
    BY NatLessThanWellFounded
  <2> QED
    BY <1>1, <1>2, <2>1, WFMin
<1>4. \A i \in at : ~(i < e)
  BY <1>2, <1>3 DEF OpToRel
<1>5. \A i \in at : e =< i
  BY <1>2, <1>4
<1>6. Min(at) \in at
  BY <1>5 DEF Min
<1> QED
  BY <1>1, <1>6

\* The numbers the proofs count with.
LEMMA Below ==
  ASSUME Types, NEW k \in KindSet
  PROVE  /\ count[k] \in Nat /\ count[k] =< MAX_COUNT
         /\ 1..count[k] \subseteq 1..MAX_COUNT
         /\ made \in Nat /\ made + 1 # Null /\ made + 1 # made
         /\ \A i \in 1..MAX_COUNT : entries[k][i] \in Entries
         /\ \A s \in Entries : s.itsAddress \in 0..made /\ s.itsAddress < made + 1
<1>1. count[k] \in 0..MAX_COUNT /\ MAX_COUNT \in Nat
  BY TablesAssumption DEF Types
<1>2. made \in Nat
  BY TablesAssumption DEF Types
<1>3. \A i \in 1..MAX_COUNT : entries[k][i] \in Entries
  BY DEF Types
<1>4. \A s \in Entries : s.itsAddress \in 0..made
  BY DEF Entries
<1>5. \A s \in Entries : s.itsAddress < made + 1
  BY <1>2, <1>4
<1> QED
  BY <1>1, <1>2, <1>3, <1>4, <1>5 DEF Null

KindInv(k) == Named(k) /\ Counted(k) /\ (orderly => InOrder(k))

\* A kind a step does not touch, below its count, keeps its part.
LEMMA KindFrame ==
  ASSUME NEW k \in KindSet, KindInv(k), orderly' => orderly,
         count'[k] = count[k], live'[k] = live[k],
         \A i \in 1..count[k] : entries'[k][i] = entries[k][i]
  PROVE  KindInv(k)'
BY DEF KindInv, Named, Counted, InOrder

-------------------------------------------------------------------------------
(***************************************************************************)
(* create.                                                                 *)
(***************************************************************************)
LEMMA EntriesGrow ==
  ASSUME Types, made' = made + 1
  PROVE  /\ Entries \subseteq Entries'
         /\ \A name \in Names : Entry(made + 1, name) \in Entries'
<1>1. made \in Nat /\ 0..made \subseteq 0..made' /\ made + 1 \in 0..made'
  BY TablesAssumption DEF Types
<1> QED
  BY <1>1 DEF Entries, Entry

\* With memory the new structure is named last, and is the latest made.
LEMMA CreatedStep ==
  ASSUME Inv, NEW k \in KindSet, NEW name \in Names,
         status = "running", made < MaxMade, made' = made + 1,
         count[k] < MAX_COUNT, Created(k, name)
  PROVE  Inv'
<1> DEFINE new == Entry(made + 1, name)
           top == count[k] + 1
<1>1. Types /\ \A l \in KindSet : KindInv(l)
  BY DEF Inv, KindInv
<1>2. /\ entries' = [entries EXCEPT ![k][top] = new]
      /\ count' = [count EXCEPT ![k] = top]
      /\ live' = [live EXCEPT ![k] = @ \cup {new}]
      /\ UNCHANGED <<status, orderly>>
  BY DEF Created
<1>3. /\ count[k] \in Nat /\ top \in 1..MAX_COUNT /\ top \in 0..MAX_COUNT
      /\ made' \in 0..MaxMade /\ 1..top = (1..count[k]) \cup {top}
      /\ \A i \in 1..count[k] : i < top /\ ~(top < i) /\ i # top
      /\ ~(top < top)
  BY <1>1, Below, TablesAssumption DEF Types
<1>4. new.itsAddress = made + 1 /\ new.itsAddress # Null /\ new \in Entries'
  BY <1>1, Below, EntriesGrow DEF Entry
<1>5. Types'
  <2>1. entries' \in [KindSet -> [1..MAX_COUNT -> Entries']]
    BY <1>1, <1>2, <1>3, <1>4, EntriesGrow DEF Types
  <2>2. live' \in [KindSet -> SUBSET Entries']
    BY <1>1, <1>2, <1>4, EntriesGrow DEF Types
  <2>3. \A l \in KindSet : \A s \in live'[l] : s.itsAddress # Null
    BY <1>1, <1>2, <1>4 DEF Types
  <2>4. count' \in [KindSet -> 0..MAX_COUNT]
    BY <1>1, <1>2, <1>3 DEF Types
  <2> QED
    BY <1>1, <1>2, <1>3, <2>1, <2>2, <2>3, <2>4 DEF Types
<1>6. Beyond'
  BY <1>2 DEF Beyond
<1>7. ASSUME NEW l \in KindSet, l # k
      PROVE  KindInv(l)'
  <2>1. /\ count'[l] = count[l] /\ live'[l] = live[l]
        /\ \A i \in 1..count[l] : entries'[l][i] = entries[l][i]
    BY <1>1, <1>2, <1>7 DEF Types
  <2> QED
    BY <1>1, <1>2, <2>1, KindFrame
<1>8. /\ count'[k] = top /\ live'[k] = live[k] \cup {new} /\ entries'[k][top] = new
      /\ \A i \in 1..count[k] : entries'[k][i] = entries[k][i]
  BY <1>1, <1>2, <1>3, Below DEF Types
<1>9. /\ \A s \in live[k] : s.itsAddress < made + 1 /\ s.itsAddress # made + 1
      /\ \A i \in 1..count[k] : /\ entries[k][i].itsAddress < made + 1
                                /\ entries[k][i].itsAddress # made + 1
      /\ new \notin live[k]
  <2>1. live[k] \subseteq Entries /\ \A i \in 1..count[k] : entries[k][i] \in Entries
    BY <1>1, Below DEF Types
  <2>2. \A s \in Entries : s.itsAddress < made + 1 /\ s.itsAddress # made + 1
    BY <1>1, Below
  <2> QED
    BY <1>4, <2>1, <2>2
<1>10. Named(k)'
  BY <1>1, <1>3, <1>4, <1>8, <1>9 DEF KindInv, Named
<1>11. Counted(k)'
  <2>1. IsFiniteSet(live'[k]) /\ Cardinality(live'[k]) = Cardinality(live[k]) + 1
    <3>1. IsFiniteSet(live[k])
      BY <1>1 DEF KindInv, Counted
    <3>2. /\ IsFiniteSet(live[k] \cup {new})
          /\ new \notin live[k] =>
               Cardinality(live[k] \cup {new}) = Cardinality(live[k]) + 1
      BY <3>1, FS_AddElement
    <3> QED
      BY <1>8, <1>9, <3>2
  <2>2. Cardinality(live[k]) \in Nat
    BY <1>1, FS_CardinalityType DEF KindInv, Counted
  <2> QED
    BY <1>1, <1>3, <1>8, <2>1, <2>2 DEF KindInv, Counted
<1>12. orderly' => InOrder(k)'
  <2> SUFFICES ASSUME orderly'
               PROVE  InOrder(k)'
    OBVIOUS
  <2>1. InOrder(k)
    BY <1>1, <1>2 DEF KindInv
  <2>2. live'[k] = {entries'[k][i] : i \in 1..top}
    BY <1>3, <1>8, <2>1 DEF InOrder
  <2>3. \A i, j \in 1..top : i < j => entries'[k][i].itsAddress < entries'[k][j].itsAddress
    BY <1>3, <1>4, <1>8, <1>9, <2>1 DEF InOrder
  <2> QED
    BY <1>8, <2>2, <2>3 DEF InOrder
<1> QED
  BY <1>5, <1>6, <1>7, <1>10, <1>11, <1>12 DEF Inv, KindInv

\* Without memory only the entry at the count changes, above the named ones.
LEMMA NotCreatedStep ==
  ASSUME Inv, NEW k \in KindSet, status = "running", made < MaxMade, made' = made + 1,
         count[k] < MAX_COUNT, NotCreated(k)
  PROVE  Inv'
<1> DEFINE top == count[k] + 1
<1>1. Types /\ \A l \in KindSet : KindInv(l)
  BY DEF Inv, KindInv
<1>2. /\ UNCHANGED <<count, live, orderly>> /\ status' \in {"running", "crashed"}
      /\ \/ UNCHANGED entries
         \/ \E a \in {Null, made + 1} : entries' = [entries EXCEPT ![k][top].itsAddress = a]
  BY DEF NotCreated
<1>3. /\ top \in 1..MAX_COUNT /\ made' \in 0..MaxMade /\ top \notin 1..count[k]
      /\ 0 \in 0..made' /\ made + 1 \in 0..made'
  BY <1>1, Below, TablesAssumption DEF Types
<1>4. Types'
  <2>1. entries' \in [KindSet -> [1..MAX_COUNT -> Entries']]
    <3>1. entries \in [KindSet -> [1..MAX_COUNT -> Entries']]
      BY <1>1, EntriesGrow DEF Types
    <3>2. \A s \in Entries' : \A a \in {Null, made + 1} :
            [s EXCEPT !.itsAddress = a] \in Entries'
      BY <1>3 DEF Entries, Null
    <3>3. ASSUME NEW a \in {Null, made + 1},
                 entries' = [entries EXCEPT ![k][top].itsAddress = a]
          PROVE  entries' \in [KindSet -> [1..MAX_COUNT -> Entries']]
      <4>1. entries' = [entries EXCEPT ![k] = [entries[k] EXCEPT ![top] =
                        [entries[k][top] EXCEPT !.itsAddress = a]]]
        BY <3>3
      <4>2. entries[k] \in [1..MAX_COUNT -> Entries'] /\ entries[k][top] \in Entries'
        BY <1>3, <3>1
      <4>3. [entries[k][top] EXCEPT !.itsAddress = a] \in Entries'
        BY <3>2, <4>2
      <4> QED
        BY <3>1, <4>1, <4>2, <4>3
    <3> QED
      BY <1>2, <3>1, <3>3
  <2>2. live' \in [KindSet -> SUBSET Entries']
    BY <1>1, <1>2, EntriesGrow DEF Types
  <2> QED
    BY <1>1, <1>2, <1>3, <2>1, <2>2 DEF Types
<1>5. Beyond'
  BY <1>2 DEF Beyond
<1>6. ASSUME NEW l \in KindSet
      PROVE  KindInv(l)'
  <2>1. \A i \in 1..count[l] : entries'[l][i] = entries[l][i]
    <3>1. \A i \in 1..count[l] : i \in 1..MAX_COUNT /\ (l # k \/ i # top)
      BY <1>1, <1>3, Below
    <3>2. ASSUME NEW a, entries' = [entries EXCEPT ![k][top].itsAddress = a],
                 NEW i \in 1..count[l]
          PROVE  entries'[l][i] = entries[l][i]
      <4>1. /\ entries \in [KindSet -> [1..MAX_COUNT -> Entries]]
            /\ entries[k] \in [1..MAX_COUNT -> Entries]
        BY <1>1 DEF Types
      <4>2. CASE l = k
        BY <3>1, <3>2, <4>1, <4>2
      <4>3. CASE l # k
        BY <3>2, <4>1, <4>3
      <4> QED
        BY <4>2, <4>3
    <3> QED
      BY <1>2, <3>2
  <2> QED
    BY <1>1, <1>2, <2>1, KindFrame
<1> QED
  BY <1>4, <1>5, <1>6 DEF Inv, KindInv

\* The entry behind a full table.
LEMMA BeyondStep ==
  ASSUME Inv, NEW k \in KindSet, made < MaxMade, made' = made + 1,
         ~(count[k] < MAX_COUNT), status' = "beyond",
         UNCHANGED <<entries, count, live, orderly>>
  PROVE  Inv'
<1>1. Types /\ \A l \in KindSet : KindInv(l)
  BY DEF Inv, KindInv
<1>2. Beyond'
  <2>1. count[k] >= MAX_COUNT
    BY <1>1, Below, TablesAssumption
  <2> QED
    BY <2>1 DEF Beyond
<1>3. Types'
  <2>1. made' \in 0..MaxMade
    BY <1>1, Below, TablesAssumption
  <2> QED
    BY <1>1, <2>1, EntriesGrow DEF Types
<1>4. \A l \in KindSet : KindInv(l)'
  BY <1>1, KindFrame
<1> QED
  BY <1>2, <1>3, <1>4 DEF Inv, KindInv

-------------------------------------------------------------------------------
(***************************************************************************)
(* delete: what it takes of the structures, and that it keeps the rest.    *)
(***************************************************************************)
LEMMA Taken ==
  ASSUME Types, NEW k \in KindSet, KindInv(k), NEW i \in 1..count[k], Removed(k, i)
  PROVE  /\ entries[k][i].itsAddress = Null => live'[k] = live[k]
         /\ entries[k][i].itsAddress # Null =>
              entries[k][i] \in live[k] /\ live'[k] = live[k] \ {entries[k][i]}
         /\ \A l \in KindSet : l # k => live'[l] = live[l]
<1>1. /\ live'[k] = {s \in live[k] : s.itsAddress # entries[k][i].itsAddress}
      /\ \A l \in KindSet : l # k => live'[l] = live[l]
  BY DEF Removed, Types
<1>2. CASE entries[k][i].itsAddress = Null
  BY <1>1, <1>2 DEF Types
<1>3. CASE entries[k][i].itsAddress # Null
  <2>1. entries[k][i] \in live[k]
    BY <1>3 DEF KindInv, Named
  <2>2. \A s \in live[k] : s.itsAddress = entries[k][i].itsAddress <=> s = entries[k][i]
    BY <2>1 DEF KindInv, Named
  <2> QED
    BY <1>1, <1>3, <2>1, <2>2
<1> QED
  BY <1>1, <1>2, <1>3

\* What is left below the count keeps its names; the last of them falls behind.
LEMMA RemovedStep ==
  ASSUME Inv, NEW k \in KindSet, NEW i \in 1..count[k], Removed(k, i),
         k # "bitmap" => entries[k][i].itsAddress # Null,
         UNCHANGED made, status = "running", UNCHANGED status
  PROVE  Inv'
<1> DEFINE n == count[k] - 1
<1>1. Types /\ \A l \in KindSet : KindInv(l)
  BY DEF Inv, KindInv
<1>2. /\ entries' = [entries EXCEPT ![k][i].itsAddress = Null]
      /\ count' = [count EXCEPT ![k] = n]
      /\ orderly' = (orderly /\ i = count[k])
  BY DEF Removed
<1>3. /\ count[k] \in Nat /\ i \in 1..MAX_COUNT /\ n \in 0..MAX_COUNT
      /\ 1..count[k] = (1..n) \cup {count[k]} /\ 1..n \subseteq 1..count[k]
      /\ count[k] \notin 1..n /\ i \in Nat
      /\ \A j \in 1..n : j < count[k]
  BY <1>1, Below, TablesAssumption
<1>4. /\ count'[k] = n
      /\ \A j \in 1..MAX_COUNT : j # i => entries'[k][j] = entries[k][j]
      /\ entries'[k][i].itsAddress = Null
  <2>0. entries \in [KindSet -> [1..MAX_COUNT -> Entries]] /\ k \in KindSet
    BY <1>1 DEF Types
  <2>1. entries[k] \in [1..MAX_COUNT -> Entries] /\ entries[k][i] \in Entries
    <3>1. entries[k] \in [1..MAX_COUNT -> Entries]
      BY <2>0
    <3> QED
      BY <1>3, <3>1
  <2>2. entries'[k] = [entries[k] EXCEPT ![i] = [entries[k][i] EXCEPT !.itsAddress = Null]]
    BY <1>2, <2>0
  <2>3. [entries[k][i] EXCEPT !.itsAddress = Null].itsAddress = Null
    BY <2>1 DEF Entries
  <2>4. count'[k] = n
    BY <1>1, <1>2 DEF Types
  <2>5. /\ entries'[k][i] = [entries[k][i] EXCEPT !.itsAddress = Null]
        /\ \A j \in 1..MAX_COUNT : j # i => entries'[k][j] = entries[k][j]
    BY <1>3, <2>1, <2>2
  <2> QED
    BY <2>3, <2>4, <2>5
<1>5. Types'
  <2>1. entries' \in [KindSet -> [1..MAX_COUNT -> Entries]]
    <3>1. \A s \in Entries : [s EXCEPT !.itsAddress = Null] \in Entries
      BY <1>1, Below DEF Entries, Null
    <3> QED
      BY <1>1, <1>2, <1>3, <3>1 DEF Types
  <2>2. live' \in [KindSet -> SUBSET Entries]
    BY <1>1 DEF Types, Removed
  <2>3. \A l \in KindSet : live'[l] \subseteq live[l]
    BY <1>1, Taken
  <2>4. Entries' = Entries
    BY DEF Entries
  <2> QED
    BY <1>1, <1>2, <1>3, <2>1, <2>2, <2>3, <2>4 DEF Types
<1>6. Beyond'
  BY DEF Beyond
<1>7. ASSUME NEW l \in KindSet, l # k
      PROVE  KindInv(l)'
  <2>1. /\ count'[l] = count[l] /\ live'[l] = live[l]
        /\ \A j \in 1..count[l] : entries'[l][j] = entries[l][j]
    BY <1>1, <1>2, <1>7, Taken DEF Types
  <2> QED
    BY <1>1, <1>2, <2>1, KindFrame
<1>8. Named(k)'
  <2>1. \A s, t \in live'[k] : s.itsAddress = t.itsAddress => s = t
    BY <1>1, Taken DEF KindInv, Named
  <2>2. ASSUME NEW j \in 1..n, entries'[k][j].itsAddress # Null
        PROVE  /\ j # i /\ entries'[k][j] = entries[k][j] /\ entries[k][j] \in live'[k]
    <3>1. j # i /\ j \in 1..count[k] /\ j \in 1..MAX_COUNT
      BY <1>1, <1>3, <1>4, <2>2, Below
    <3>2. entries[k][j] \in live[k]
      BY <1>1, <1>4, <2>2, <3>1 DEF KindInv, Named
    <3>3. entries[k][j].itsAddress # entries[k][i].itsAddress
      BY <1>1, <1>4, <2>2, <3>1 DEF KindInv, Named
    <3> QED
      BY <1>1, <1>4, <3>1, <3>2, <3>3, Taken
  <2>3. ASSUME NEW j \in 1..n, NEW m \in 1..n, j # m, entries'[k][j].itsAddress # Null
        PROVE  entries'[k][j].itsAddress # entries'[k][m].itsAddress
    <3>1. CASE m = i
      BY <1>4, <2>3, <3>1
    <3>2. CASE m # i
      <4>1. entries'[k][m] = entries[k][m] /\ entries'[k][j] = entries[k][j]
        BY <1>1, <1>3, <1>4, <2>2, <2>3, <3>2, Below
      <4> QED
        BY <1>1, <1>3, <2>3, <4>1 DEF KindInv, Named
    <3> QED
      BY <3>1, <3>2
  <2> QED
    BY <1>4, <2>1, <2>2, <2>3 DEF Named
<1>9. Counted(k)'
  <2>1. IsFiniteSet(live[k]) /\ Cardinality(live[k]) \in Nat
        /\ count[k] =< Cardinality(live[k])
        /\ (k # "bitmap" => count[k] = Cardinality(live[k]))
    BY <1>1, FS_CardinalityType DEF KindInv, Counted
  <2>2. CASE entries[k][i].itsAddress = Null
    <3>1. live'[k] = live[k] /\ k = "bitmap"
      BY <1>1, <2>2, Taken
    <3> QED
      BY <1>3, <1>4, <2>1, <3>1 DEF Counted
  <2>3. CASE entries[k][i].itsAddress # Null
    <3>1. entries[k][i] \in live[k] /\ live'[k] = live[k] \ {entries[k][i]}
      BY <1>1, <2>3, Taken
    <3>2. IsFiniteSet(live'[k]) /\ Cardinality(live'[k]) = Cardinality(live[k]) - 1
      BY <2>1, <3>1, FS_RemoveElement
    <3> QED
      BY <1>3, <1>4, <2>1, <3>2 DEF Counted
  <2> QED
    BY <2>2, <2>3
<1>10. orderly' => InOrder(k)'
  <2> SUFFICES ASSUME orderly'
               PROVE  InOrder(k)'
    OBVIOUS
  <2>1. InOrder(k) /\ i = count[k]
    BY <1>1, <1>2 DEF KindInv
  <2>2. \A j \in 1..n : entries'[k][j] = entries[k][j] /\ entries[k][j] # entries[k][i]
    <3>1. \A j \in 1..n : j \in 1..MAX_COUNT /\ j \in 1..count[k] /\ j # i /\ j < i
      BY <1>1, <1>3, <2>1, Below
    <3>2. \A j \in 1..n : entries[k][j].itsAddress < entries[k][i].itsAddress
      BY <2>1, <3>1 DEF InOrder
    <3>3. entries[k][i].itsAddress \in Nat
      BY <1>1, <1>3, Below
    <3>4. ~(entries[k][i].itsAddress < entries[k][i].itsAddress)
      BY <3>3
    <3> QED
      BY <1>4, <3>1, <3>2, <3>4
  <2>3. entries[k][i] \in live[k] /\ entries[k][i].itsAddress # Null
    BY <1>1, <2>1 DEF InOrder, Types
  <2>4. live'[k] = {entries[k][j] : j \in 1..n}
    BY <1>1, <1>3, <2>1, <2>2, <2>3, Taken DEF InOrder
  <2>5. live'[k] = {entries'[k][j] : j \in 1..n}
    BY <2>2, <2>4
  <2>6. \A j, m \in 1..n : j < m => entries'[k][j].itsAddress < entries'[k][m].itsAddress
    BY <1>3, <2>1, <2>2 DEF InOrder
  <2> QED
    BY <1>4, <2>5, <2>6 DEF InOrder
<1> QED
  BY <1>5, <1>6, <1>7, <1>8, <1>9, <1>10 DEF Inv, KindInv

\* delete takes a structure of the first kind that has any, or none.
LEMMA DeleteStep ==
  ASSUME Inv, NEW name \in Names, Delete(name)
  PROVE  Inv'
<1>1. Types /\ \A l \in KindSet : KindInv(l)
  BY DEF Inv, KindInv
<1>2. CASE UNCHANGED <<entries, count, live, orderly>>
           /\ status' \in {"running", "crashed"}
  <2>1. Types' /\ Beyond'
    BY <1>1, <1>2 DEF Delete, Types, Entries, Beyond
  <2> QED
    BY <1>1, <1>2, <2>1, KindFrame DEF Inv, KindInv
<1>3. ASSUME NEW k \in KindSet, First(k), Found(k, name) # 0,
             ~(k # "bitmap" /\ entries[k][Found(k, name)].itsAddress = Null),
             Removed(k, Found(k, name)), UNCHANGED status
      PROVE  Inv'
  <2>1. Found(k, name) \in 1..count[k]
    BY <1>1, <1>3, FoundBelow
  <2>2. PICK i \in 1..count[k] : i = Found(k, name)
    BY <2>1
  <2> QED
    BY <1>3, <2>2, RemovedStep DEF Delete
<1> QED
  BY <1>2, <1>3 DEF Delete

-------------------------------------------------------------------------------
(***************************************************************************)
(* The other commands, and the invariant.                                  *)
(***************************************************************************)
LEMMA ExpandStep ==
  ASSUME Inv, NEW name, Expand(name)
  PROVE  Inv'
<1> DEFINE k == "bitmap"
           i == Found(k, name)
<1>1. Types /\ (\A l \in KindSet : KindInv(l)) /\ k \in KindSet
  BY DEF Inv, KindInv, KindSet, Kinds
<1>2. /\ entries' = [entries EXCEPT ![k][i].itsAddress = Null]
      /\ UNCHANGED <<count, live, made, status>> /\ ~orderly'
  BY DEF Expand
<1>3. i \in 1..count[k] /\ i \in 1..MAX_COUNT
  BY <1>1, FoundBelow, Below DEF Expand
<1>4. /\ \A j \in 1..MAX_COUNT : j # i => entries'[k][j] = entries[k][j]
      /\ entries'[k][i].itsAddress = Null
      /\ entries' \in [KindSet -> [1..MAX_COUNT -> Entries]]
      /\ \A l \in KindSet : l # k => entries'[l] = entries[l]
  <2> HIDE DEF i
  <2>1. entries[k] \in [1..MAX_COUNT -> Entries] /\ entries[k][i] \in Entries
    BY <1>1, <1>3 DEF Types
  <2>2. entries' = [entries EXCEPT ![k] = [entries[k] EXCEPT ![i] =
                    [entries[k][i] EXCEPT !.itsAddress = Null]]]
    BY <1>2
  <2>3. /\ [entries[k][i] EXCEPT !.itsAddress = Null].itsAddress = Null
        /\ [entries[k][i] EXCEPT !.itsAddress = Null] \in Entries
    BY <1>1, <2>1, Below DEF Entries, Null
  <2> QED
    BY <1>1, <1>3, <2>1, <2>2, <2>3 DEF Types
<1>5. Types' /\ Beyond'
  BY <1>1, <1>2, <1>4 DEF Inv, Types, Entries, Beyond
<1>6. ASSUME NEW l \in KindSet, l # k
      PROVE  KindInv(l)'
  BY <1>1, <1>2, <1>4, <1>6, KindFrame
<1>7. Named(k)'
  <2>1. \A j \in 1..count[k] : j = i \/ (j # i /\ entries'[k][j] = entries[k][j])
    BY <1>1, <1>4, Below
  <2> HIDE DEF i
  <2> QED
    BY <1>1, <1>2, <1>4, <2>1 DEF KindInv, Named
<1>8. Counted(k)'
  BY <1>1, <1>2 DEF KindInv, Counted
<1> QED
  BY <1>2, <1>5, <1>6, <1>7, <1>8 DEF Inv, KindInv

\* Every step keeps the invariant.
LEMMA Step ==
  ASSUME Inv, [TablesNext]_tables_vars
  PROVE  Inv'
<1>1. CASE /\ UNCHANGED <<entries, count, made, live, orderly>>
           /\ status' \in {"crashed", "quit", status}
  <2>1. Types' /\ Beyond'
    BY <1>1 DEF Inv, Types, Entries, Beyond
  <2> QED
    BY <1>1, <2>1, KindFrame DEF Inv, KindInv
<1>2. ASSUME NEW k \in KindSet, NEW name \in Names, Create(k, name)
      PROVE  Inv'
  BY <1>2, CreatedStep, NotCreatedStep, BeyondStep DEF Create
<1>3. ASSUME NEW name \in Names, Delete(name) \/ Expand(name)
      PROVE  Inv'
  BY <1>3, DeleteStep, ExpandStep
<1>4. ASSUME NEW name, NEW k, NEW checked,
             OnStructure(k, name, checked) \/ Dumpdata(name) \/ Quit
      PROVE  Inv'
  BY <1>1, <1>4 DEF OnStructure, Dumpdata, Quit
<1>5. CASE UNCHANGED tables_vars
  BY <1>1, <1>5 DEF tables_vars
<1> QED
  BY <1>2, <1>3, <1>4, <1>5 DEF TablesNext

\* The tables are empty at first.
LEMMA Start == TablesInit => Inv
<1> SUFFICES ASSUME TablesInit
             PROVE  Inv
  OBVIOUS
<1>1. 0 \in 0..MaxMade /\ 0 \in 0..MAX_COUNT /\ 1..0 = {}
  BY TablesAssumption
<1>2. Types /\ Beyond
  BY <1>1, TablesAssumption DEF TablesInit, Types, Entries, Entry, Beyond, Null
<1>3. ASSUME NEW k \in KindSet
      PROVE  Named(k) /\ Counted(k) /\ InOrder(k)
  <2>1. live[k] = {} /\ count[k] = 0
    BY DEF TablesInit
  <2> QED
    BY <1>1, <2>1, FS_EmptySet DEF Named, Counted, InOrder
<1> QED
  BY <1>2, <1>3 DEF Inv

(***************************************************************************)
(* A name leads to no structure that is gone and to none of another name,  *)
(* though delete leaves its entry in the middle of the table and takes the *)
(* last one's name away; and deleted in order, the tables are exactly the  *)
(* structures that live.                                                   *)
(***************************************************************************)
THEOREM NamesLeadToLive == TablesSpec => []NamesKept
<1>1. ASSUME Inv
      PROVE  NamesKept
  <2>1. TablesTypeOK
    BY <1>1 DEF Inv, Types, TablesTypeOK
  <2>2. status = "beyond" => \E k \in KindSet : Cardinality(live[k]) >= MAX_COUNT
    <3>1. \A k \in KindSet : /\ count[k] \in Nat /\ Cardinality(live[k]) \in Nat
                            /\ count[k] =< Cardinality(live[k])
      BY <1>1, Below, FS_CardinalityType DEF Inv, Counted
    <3> QED
      BY <1>1, <3>1, TablesAssumption DEF Inv, Beyond
  <2> QED
    BY <1>1, <2>1, <2>2 DEF Inv, Named, Counted, InOrder, NamesKept
<1> QED
  BY <1>1, Start, Step, PTL DEF TablesSpec
===============================================================================
