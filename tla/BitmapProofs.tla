----------------------------- MODULE BitmapProofs -----------------------------
(***************************************************************************)
(* Proofs about the bitmap, for longs of any width, bitmaps of any size    *)
(* and every sequence of commands.                                         *)
(***************************************************************************)
EXTENDS Bitmap, FiniteSetTheorems, WellFoundedInduction, TLAPS

\* A set of naturals that has an element has a least one.
LEMMA HasLeast ==
  ASSUME NEW S \in SUBSET Nat, S # {}
  PROVE  Min(S) \in S /\ \A k \in S : Min(S) <= k
<1>1. PICK e \in S : \A k \in S : ~(<<k, e>> \in OpToRel(<, Nat))
  <2>1. IsWellFoundedOn(OpToRel(<, Nat), Nat)
    BY NatLessThanWellFounded
  <2> QED
    BY <2>1, WFMin
<1>2. \A k \in S : ~(k < e)
  BY <1>1 DEF OpToRel
<1>3. \A k \in S : e =< k
  BY <1>2
<1> QED
  BY <1>3 DEF Min

-------------------------------------------------------------------------------
(***************************************************************************)
(* A bit's number is its element's times the width and its place in it.    *)
(***************************************************************************)
At(b, i) == i % ELEM_BITS \in b[elem_idx(i)]

LEMMA Places ==
  ASSUME ELEM_BITS \in Widths
  PROVE  /\ ELEM_BITS \in Nat \ {0} /\ Low \subseteq Word
         /\ \A i \in Nat : /\ elem_idx(i) \in Nat /\ i % ELEM_BITS \in Word
                           /\ i = elem_idx(i) * ELEM_BITS + (i % ELEM_BITS)
<1>1. ELEM_BITS \in Nat \ {0} /\ AsmBits \in Nat /\ AsmBits <= ELEM_BITS
  BY BitmapAssumption
<1>2. Low \subseteq Word
  BY <1>1 DEF Low, Word
<1>3. ASSUME NEW i \in Nat
      PROVE  /\ elem_idx(i) \in Nat /\ i % ELEM_BITS \in Word
             /\ i = elem_idx(i) * ELEM_BITS + (i % ELEM_BITS)
  BY <1>1 DEF elem_idx, Word
<1> QED
  BY <1>1, <1>2, <1>3

\* Two bits with the same element and the same place are one bit.
LEMMA OnePlace ==
  ASSUME ELEM_BITS \in Widths, NEW i \in Nat, NEW k \in Nat,
         elem_idx(i) = elem_idx(k), i % ELEM_BITS = k % ELEM_BITS
  PROVE  i = k
<1>1. /\ i = elem_idx(i) * ELEM_BITS + (i % ELEM_BITS)
      /\ k = elem_idx(k) * ELEM_BITS + (k % ELEM_BITS)
  BY Places
<1> QED
  BY <1>1

\* A bit that is in the bitmap has an element in one with enough of them.
LEMMA HasElement ==
  ASSUME ELEM_BITS \in Widths, NEW cnt \in Nat, NEW i \in 0..(cnt - 1)
  PROVE  elem_idx(i) \in 0..(elements(cnt, ELEM_BITS) - 1)
<1>1. ELEM_BITS \in Nat \ {0}
  BY Places
<1> QED
  BY <1>1 DEF elem_idx, elements

\* bitmap_test looks at the bit.
LEMMA TestIs ==
  ASSUME NEW i
  PROVE  bitmap_test(i) <=> At(bits, i)
BY DEF bitmap_test, bit_mask, At

-------------------------------------------------------------------------------
(***************************************************************************)
(* What an operation leaves of the elements b: their number, their width,  *)
(* and the bits that the instructions do not reach.                        *)
(***************************************************************************)
Keeps(b, new) ==
  /\ DOMAIN new = DOMAIN b
  /\ \A k \in DOMAIN b : new[k] \ Low = b[k] \ Low

LEMMA MarkIs ==
  ASSUME ELEM_BITS \in Widths, NEW b, NEW i \in Nat, elem_idx(i) \in DOMAIN b
  PROVE  /\ Keeps(b, bitmap_mark(b, i))
         /\ \A k \in Nat : elem_idx(k) \in DOMAIN b /\ Reachable(k) =>
              (At(bitmap_mark(b, i), k) <=> k = i \/ At(b, k))
<1> DEFINE new == bitmap_mark(b, i)
<1>1. /\ DOMAIN new = DOMAIN b
      /\ new[elem_idx(i)] = b[elem_idx(i)] \cup ({i % ELEM_BITS} \cap Low)
      /\ \A e \in DOMAIN b : e # elem_idx(i) => new[e] = b[e]
  BY DEF bitmap_mark, orl, bit_mask
<1> HIDE DEF new
<1>2. Keeps(b, new)
  BY <1>1 DEF Keeps
<1>3. ASSUME NEW k \in Nat, elem_idx(k) \in DOMAIN b, Reachable(k)
      PROVE  At(new, k) <=> k = i \/ At(b, k)
  <2>1. CASE elem_idx(k) # elem_idx(i)
    BY <1>1, <1>3, <2>1 DEF At
  <2>2. CASE elem_idx(k) = elem_idx(i)
    <3>1. At(new, k) <=> At(b, k) \/ k % ELEM_BITS = i % ELEM_BITS
      BY <1>1, <1>3, <2>2 DEF At, Reachable
    <3> QED
      BY <2>2, <3>1, OnePlace
  <2> QED
    BY <2>1, <2>2
<1> QED
  BY <1>2, <1>3 DEF new

LEMMA ResetIs ==
  ASSUME ELEM_BITS \in Widths, NEW b, NEW i \in Nat, elem_idx(i) \in DOMAIN b
  PROVE  /\ Keeps(b, bitmap_reset(b, i))
         /\ \A k \in Nat : elem_idx(k) \in DOMAIN b /\ Reachable(k) =>
              (At(bitmap_reset(b, i), k) <=> k # i /\ At(b, k))
<1> DEFINE new == bitmap_reset(b, i)
<1>0. Low \subseteq Word /\ i % ELEM_BITS \in Word
  BY Places
<1>1. /\ DOMAIN new = DOMAIN b
      /\ new[elem_idx(i)] = b[elem_idx(i)] \ (Low \ (Word \ {i % ELEM_BITS}))
      /\ \A e \in DOMAIN b : e # elem_idx(i) => new[e] = b[e]
  BY DEF bitmap_reset, andl, bit_mask
<1> HIDE DEF new
<1>2. Keeps(b, new)
  BY <1>1 DEF Keeps
<1>3. ASSUME NEW k \in Nat, elem_idx(k) \in DOMAIN b, Reachable(k)
      PROVE  At(new, k) <=> k # i /\ At(b, k)
  <2>1. CASE elem_idx(k) # elem_idx(i)
    BY <1>1, <1>3, <2>1 DEF At
  <2>2. CASE elem_idx(k) = elem_idx(i)
    <3>1. At(new, k) <=> At(b, k) /\ k % ELEM_BITS # i % ELEM_BITS
      BY <1>0, <1>1, <1>3, <2>2 DEF At, Reachable
    <3> QED
      BY <2>2, <3>1, OnePlace
  <2> QED
    BY <2>1, <2>2
<1> QED
  BY <1>2, <1>3 DEF new

LEMMA FlipIs ==
  ASSUME ELEM_BITS \in Widths, NEW b, NEW i \in Nat, elem_idx(i) \in DOMAIN b
  PROVE  /\ Keeps(b, bitmap_flip(b, i))
         /\ \A k \in Nat : elem_idx(k) \in DOMAIN b /\ Reachable(k) =>
              (At(bitmap_flip(b, i), k) <=>
                 \/ k = i /\ ~At(b, k)
                 \/ k # i /\ At(b, k))
<1> DEFINE new == bitmap_flip(b, i)
           one == {i % ELEM_BITS} \cap Low
<1>1. /\ DOMAIN new = DOMAIN b
      /\ new[elem_idx(i)] = (b[elem_idx(i)] \ one) \cup (one \ b[elem_idx(i)])
      /\ \A e \in DOMAIN b : e # elem_idx(i) => new[e] = b[e]
  BY DEF bitmap_flip, xorl, bit_mask
<1> HIDE DEF new
<1>2. Keeps(b, new)
  BY <1>1 DEF Keeps
<1>3. ASSUME NEW k \in Nat, elem_idx(k) \in DOMAIN b, Reachable(k)
      PROVE  At(new, k) <=> (k = i /\ ~At(b, k)) \/ (k # i /\ At(b, k))
  <2>1. CASE elem_idx(k) # elem_idx(i)
    BY <1>1, <1>3, <2>1 DEF At
  <2>2. CASE elem_idx(k) = elem_idx(i)
    <3>1. At(new, k) <=> \/ k % ELEM_BITS = i % ELEM_BITS /\ ~At(b, k)
                         \/ k % ELEM_BITS # i % ELEM_BITS /\ At(b, k)
      BY <1>1, <1>3, <2>2 DEF At, Reachable
    <3> QED
      BY <2>2, <3>1, OnePlace
  <2> QED
    BY <2>1, <2>2
<1> QED
  BY <1>2, <1>3 DEF new

-------------------------------------------------------------------------------
(***************************************************************************)
(* The loop of bitmap_set_multiple.  A function that follows it exists for *)
(* every number of turns, so the loop is one.                              *)
(***************************************************************************)
Loops(f, b, start, cnt, value) ==
  f = [k \in 0..cnt |-> IF k = 0 THEN b ELSE bitmap_set(f[k - 1], start + k - 1, value)]

LEMMA LoopExists ==
  ASSUME NEW b, NEW start \in Nat, NEW cnt \in Nat, NEW value
  PROVE  \E f : Loops(f, b, start, cnt, value)
<1> DEFINE bad == {n \in Nat : ~ \E f : Loops(f, b, start, n, value)}
<1>1. SUFFICES ASSUME bad # {} PROVE FALSE
  OBVIOUS
<1> DEFINE m == Min(bad)
<1>2. m \in Nat /\ (~ \E f : Loops(f, b, start, m, value)) /\ \A n \in bad : m <= n
  BY <1>1, HasLeast
<1> HIDE DEF m
<1>3. CASE m = 0
  <2>1. Loops([k \in 0..0 |-> b], b, start, 0, value)
    BY DEF Loops
  <2> QED
    BY <1>2, <1>3, <2>1
<1>4. CASE m # 0
  <2>1. m - 1 \in Nat /\ m - 1 \notin bad
    BY <1>2, <1>4
  <2>2. PICK f : Loops(f, b, start, m - 1, value)
    BY <2>1
  <2> DEFINE g == [k \in 0..m |-> IF k <= m - 1 THEN f[k]
                                  ELSE bitmap_set(f[m - 1], start + m - 1, value)]
  <2>3. ASSUME NEW k \in 0..m
        PROVE  g[k] = IF k = 0 THEN b ELSE bitmap_set(g[k - 1], start + k - 1, value)
    <3>1. CASE k = m
      <4>1. g[m - 1] = f[m - 1] /\ g[m] = bitmap_set(f[m - 1], start + m - 1, value)
        BY <1>2, <2>1
      <4> QED
        BY <3>1, <4>1, <1>4
    <3>2. CASE k # m
      <4>1. k \in 0..(m - 1) /\ g[k] = f[k]
        BY <1>2, <3>2
      <4>2. f[k] = IF k = 0 THEN b ELSE bitmap_set(f[k - 1], start + k - 1, value)
        BY <2>2, <4>1 DEF Loops
      <4>3. k # 0 => g[k - 1] = f[k - 1]
        BY <1>2, <4>1
      <4> QED
        BY <4>1, <4>2, <4>3
    <3> QED
      BY <3>1, <3>2
  <2>4. Loops(g, b, start, m, value)
    BY <2>3 DEF Loops
  <2> QED
    BY <1>2, <2>4
<1> QED
  BY <1>3, <1>4

LEMMA LoopIs ==
  ASSUME NEW b, NEW start \in Nat, NEW cnt \in Nat, NEW value
  PROVE  \E f : /\ Loops(f, b, start, cnt, value)
                /\ bitmap_set_multiple(b, start, cnt, value) = f[cnt]
<1>1. \E f : Loops(f, b, start, cnt, value)
  BY LoopExists
<1>2. Loops(CHOOSE f : Loops(f, b, start, cnt, value), b, start, cnt, value)
  BY <1>1
<1>3. bitmap_set_multiple(b, start, cnt, value) =
        (CHOOSE f : Loops(f, b, start, cnt, value))[cnt]
  BY DEF bitmap_set_multiple, Loops
<1> QED
  BY <1>2, <1>3

\* So a group of bits is made VALUE, and no other bit is changed.
LEMMA FillIs ==
  ASSUME ELEM_BITS \in Widths, NEW b, NEW start \in Nat, NEW cnt \in Nat,
         NEW value \in BOOLEAN,
         \A i \in start..(start + cnt - 1) : elem_idx(i) \in DOMAIN b
  PROVE  LET new == bitmap_set_multiple(b, start, cnt, value)
         IN  /\ Keeps(b, new)
             /\ \A k \in Nat : elem_idx(k) \in DOMAIN b /\ Reachable(k) =>
                  (At(new, k) <=> IF k \in start..(start + cnt - 1) THEN value
                                  ELSE At(b, k))
<1>1. PICK f : /\ Loops(f, b, start, cnt, value)
               /\ bitmap_set_multiple(b, start, cnt, value) = f[cnt]
  BY LoopIs
<1> DEFINE Done(n) ==
             /\ Keeps(b, f[n])
             /\ \A k \in Nat : elem_idx(k) \in DOMAIN b /\ Reachable(k) =>
                  (At(f[n], k) <=> IF k \in start..(start + n - 1) THEN value
                                   ELSE At(b, k))
           bad == {n \in 0..cnt : ~Done(n)}
<1>2. SUFFICES ASSUME bad # {} PROVE FALSE
  BY <1>1
<1> DEFINE m == Min(bad)
<1>3. m \in 0..cnt /\ ~Done(m) /\ \A n \in bad : m <= n
  <2>1. bad \in SUBSET Nat
    OBVIOUS
  <2> HIDE DEF bad
  <2>2. m \in bad /\ \A n \in bad : m <= n
    BY <1>2, <2>1, HasLeast
  <2> QED
    BY <2>2 DEF bad
<1> HIDE DEF m
<1>4. CASE m = 0
  <2>1. f[0] = b
    BY <1>1 DEF Loops
  <2>2. \A k \in Nat : k \notin start..(start + 0 - 1)
    OBVIOUS
  <2>3. Done(0)
    BY <2>1, <2>2 DEF Keeps
  <2> QED
    BY <1>3, <1>4, <2>3
<1>5. CASE m # 0
  <2> DEFINE i == start + m - 1
  <2>1. m - 1 \in 0..cnt /\ Done(m - 1)
    <3>1. m - 1 \in 0..cnt /\ ~(m <= m - 1)
      BY <1>3, <1>5
    <3> QED
      BY <1>3, <3>1
  <2>2. f[m] = bitmap_set(f[m - 1], i, value)
    BY <1>1, <1>3, <1>5 DEF Loops
  <2>3. i \in Nat /\ i \in start..(start + cnt - 1) /\ elem_idx(i) \in DOMAIN f[m - 1]
    <3>1. i \in Nat /\ i \in start..(start + cnt - 1)
      BY <1>3, <1>5
    <3> QED
      BY <2>1, <3>1 DEF Keeps
  <2> HIDE DEF Done
  <2>4. /\ Keeps(f[m - 1], f[m])
        /\ \A k \in Nat : elem_idx(k) \in DOMAIN f[m - 1] /\ Reachable(k) =>
             (At(f[m], k) <=> IF k = i THEN value ELSE At(f[m - 1], k))
    <3>1. CASE value
      BY <2>2, <2>3, <3>1, MarkIs DEF bitmap_set
    <3>2. CASE ~value
      BY <2>2, <2>3, <3>2, ResetIs DEF bitmap_set
    <3> QED
      BY <3>1, <3>2
  <2>5. Keeps(b, f[m])
    BY <2>1, <2>4 DEF Keeps, Done
  <2>6. ASSUME NEW k \in Nat, elem_idx(k) \in DOMAIN b, Reachable(k)
        PROVE  At(f[m], k) <=> IF k \in start..(start + m - 1) THEN value ELSE At(b, k)
    <3>1. /\ At(f[m], k) <=> IF k = i THEN value ELSE At(f[m - 1], k)
          /\ At(f[m - 1], k) <=> IF k \in start..(start + (m - 1) - 1) THEN value
                                 ELSE At(b, k)
      BY <2>1, <2>4, <2>6 DEF Keeps, Done
    <3>2. k \in start..(start + m - 1) <=> k = i \/ k \in start..(start + (m - 1) - 1)
      BY <1>3, <1>5
    <3> QED
      BY <3>1, <3>2
  <2> QED
    BY <1>3, <2>5, <2>6 DEF Done
<1> QED
  BY <1>4, <1>5

-------------------------------------------------------------------------------
(***************************************************************************)
(* The inductive invariant: the elements are numbered and have no bits past*)
(* the end (Slack), and the bits that can be reached are right.            *)
(***************************************************************************)
RightBits ==
  \A i \in 0..(bit_cnt - 1) : Reachable(i) => (At(bits, i) <=> i \in marked)

Trimmed ==
  /\ DOMAIN bits \subseteq Nat
  /\ \A k \in DOMAIN bits : \A j \in bits[k] : k * ELEM_BITS + j < bit_cnt

Inv == ELEM_BITS \in Widths /\ BitmapTypeOK /\ Trimmed /\ RightBits

\* What a command makes of the elements, it makes of the bitmap.
LEMMA ChangeStep ==
  ASSUME Inv, NEW b, Keeps(bits, b), Changes(b), marked' \subseteq 0..(bit_cnt - 1),
         \A i \in 0..(bit_cnt - 1) : Reachable(i) => (At(b, i) <=> i \in marked')
  PROVE  Inv'
<1>1. /\ DOMAIN bits' = DOMAIN bits
      /\ \A k \in DOMAIN bits : bits'[k] = {j \in b[k] : k * ELEM_BITS + j < bit_cnt}
      /\ ELEM_BITS' = ELEM_BITS /\ bit_cnt' = bit_cnt /\ outcome' = outcome
  BY DEF Changes, Slack, Keeps
<1>2. Low \subseteq Word /\ ELEM_BITS \in Nat
  BY Places DEF Inv
<1>3. ASSUME NEW k \in DOMAIN bits
      PROVE  bits'[k] \subseteq Word
  <2>1. b[k] \ Low = bits[k] \ Low /\ bits[k] \subseteq Word
    BY DEF Keeps, Inv, BitmapTypeOK
  <2>2. \A j \in bits[k] : k * ELEM_BITS + j < bit_cnt
    BY DEF Inv, Trimmed
  <2> QED
    BY <1>1, <1>2, <2>1, <2>2
<1>4. BitmapTypeOK'
  BY <1>1, <1>3 DEF Inv, BitmapTypeOK, elem_idx, Word
<1>5. Trimmed'
  BY <1>1 DEF Inv, Trimmed
<1>6. ASSUME NEW i \in 0..(bit_cnt - 1), Reachable(i)
      PROVE  i % ELEM_BITS \in bits'[elem_idx(i)] <=> i \in marked'
  <2>1. bit_cnt \in Nat /\ i \in Nat /\ i < bit_cnt /\ elem_idx(i) \in DOMAIN bits
    BY BitmapAssumption DEF Inv, BitmapTypeOK
  <2>2. i = elem_idx(i) * ELEM_BITS + (i % ELEM_BITS)
    BY <2>1, Places DEF Inv
  <2>3. i % ELEM_BITS \in bits'[elem_idx(i)] <=> At(b, i)
    BY <1>1, <2>1, <2>2 DEF At
  <2> QED
    BY <1>6, <2>3
<1>7. RightBits'
  BY <1>1, <1>6 DEF RightBits, At, Reachable, elem_idx
<1> QED
  BY <1>1, <1>3, <1>4, <1>5, <1>7 DEF Inv

\* A command that ends the program leaves the bitmap.
LEMMA EndsStep ==
  ASSUME Inv, NEW how \in {"aborted", "corrupt", "null"}, Halts(how)
  PROVE  Inv' /\ bits' = bits
BY DEF Halts, Inv, BitmapTypeOK, Trimmed, RightBits, At, Reachable, elem_idx, Word

LEMMA OneBitStep ==
  ASSUME Inv, NEW i \in 0..MaxBits, mark(i) \/ reset(i) \/ flip(i)
  PROVE  Inv'
<1>0. /\ ELEM_BITS \in Widths /\ i \in Nat /\ bit_cnt \in Nat
      /\ \A k \in 0..(bit_cnt - 1) : k \in Nat /\ elem_idx(k) \in DOMAIN bits
      /\ \A k \in 0..(bit_cnt - 1) : Reachable(k) => (At(bits, k) <=> k \in marked)
  BY BitmapAssumption DEF Inv, BitmapTypeOK, RightBits
<1>1. CASE elem_idx(i) \notin DOMAIN bits
  BY <1>1, EndsStep DEF mark, reset, flip, OneBit
<1>2. CASE elem_idx(i) \in DOMAIN bits /\ mark(i)
  <2>1. Changes(bitmap_mark(bits, i)) /\ marked' = (marked \cup {i}) \cap 0..(bit_cnt - 1)
    BY <1>2 DEF mark, OneBit
  <2>2. /\ Keeps(bits, bitmap_mark(bits, i))
        /\ \A k \in Nat : elem_idx(k) \in DOMAIN bits /\ Reachable(k) =>
             (At(bitmap_mark(bits, i), k) <=> k = i \/ At(bits, k))
    BY <1>0, <1>2, MarkIs
  <2>3. \A k \in 0..(bit_cnt - 1) :
          Reachable(k) => (At(bitmap_mark(bits, i), k) <=> k \in marked')
    BY <1>0, <2>1, <2>2
  <2> QED
    BY <2>1, <2>2, <2>3, ChangeStep
<1>3. CASE elem_idx(i) \in DOMAIN bits /\ reset(i)
  <2>1. Changes(bitmap_reset(bits, i)) /\ marked' = (marked \ {i}) \cap 0..(bit_cnt - 1)
    BY <1>3 DEF reset, OneBit
  <2>2. /\ Keeps(bits, bitmap_reset(bits, i))
        /\ \A k \in Nat : elem_idx(k) \in DOMAIN bits /\ Reachable(k) =>
             (At(bitmap_reset(bits, i), k) <=> k # i /\ At(bits, k))
    BY <1>0, <1>3, ResetIs
  <2>3. \A k \in 0..(bit_cnt - 1) :
          Reachable(k) => (At(bitmap_reset(bits, i), k) <=> k \in marked')
    BY <1>0, <2>1, <2>2
  <2> QED
    BY <2>1, <2>2, <2>3, ChangeStep
<1>4. CASE elem_idx(i) \in DOMAIN bits /\ flip(i)
  <2>1. /\ Changes(bitmap_flip(bits, i))
        /\ marked' = (IF i \in marked THEN marked \ {i} ELSE marked \cup {i})
                       \cap 0..(bit_cnt - 1)
    BY <1>4 DEF flip, OneBit
  <2>2. /\ Keeps(bits, bitmap_flip(bits, i))
        /\ \A k \in Nat : elem_idx(k) \in DOMAIN bits /\ Reachable(k) =>
             (At(bitmap_flip(bits, i), k) <=> \/ k = i /\ ~At(bits, k)
                                              \/ k # i /\ At(bits, k))
    BY <1>0, <1>4, FlipIs
  <2>3. \A k \in 0..(bit_cnt - 1) :
          Reachable(k) => (At(bitmap_flip(bits, i), k) <=> k \in marked')
    BY <1>0, <2>1, <2>2
  <2> QED
    BY <2>1, <2>2, <2>3, ChangeStep
<1> QED
  BY <1>1, <1>2, <1>3, <1>4

LEMMA FillStep ==
  ASSUME Inv, NEW start \in Nat, NEW cnt \in Nat, NEW value \in BOOLEAN,
         Fill(start, cnt, value)
  PROVE  Inv'
<1> DEFINE new == bitmap_set_multiple(bits, start, cnt, value)
           group == start..(start + cnt - 1)
<1>1. CASE start + cnt > bit_cnt /\ Halts("aborted")
  BY <1>1, EndsStep
<1>2. CASE /\ start + cnt <= bit_cnt /\ Changes(new)
           /\ marked' = IF value THEN marked \cup group ELSE marked \ group
  <2>0. /\ ELEM_BITS \in Widths /\ bit_cnt \in Nat /\ marked \subseteq 0..(bit_cnt - 1)
        /\ \A k \in 0..(bit_cnt - 1) : k \in Nat /\ elem_idx(k) \in DOMAIN bits
        /\ \A k \in 0..(bit_cnt - 1) : Reachable(k) => (At(bits, k) <=> k \in marked)
    BY BitmapAssumption DEF Inv, BitmapTypeOK, RightBits
  <2>1. group \subseteq 0..(bit_cnt - 1)
    BY <1>2, <2>0
  <2>2. /\ Keeps(bits, new)
        /\ \A k \in Nat : elem_idx(k) \in DOMAIN bits /\ Reachable(k) =>
             (At(new, k) <=> IF k \in group THEN value ELSE At(bits, k))
    BY <2>0, <2>1, FillIs
  <2> HIDE DEF group, new
  <2>3. \A k \in 0..(bit_cnt - 1) : Reachable(k) => (At(new, k) <=> k \in marked')
    BY <1>2, <2>0, <2>2
  <2>4. marked' \subseteq 0..(bit_cnt - 1)
    BY <1>2, <2>0, <2>1
  <2> QED
    BY <1>2, <2>2, <2>3, <2>4, ChangeStep
<1> QED
  BY <1>1, <1>2 DEF Fill

-------------------------------------------------------------------------------
(***************************************************************************)
(* bitmap_scan.  A place fits when the group that begins there is in the   *)
(* bitmap and all VALUE.                                                   *)
(***************************************************************************)
Fits(i, cnt, value) == i + cnt <= bit_cnt /\ ~bitmap_contains(i, cnt, ~value)

FitsFrom(i, cnt, value) == {m \in i..bit_cnt : Fits(m, cnt, value)}

Tries(f, start, cnt, value) ==
  f = [i \in start..(bit_cnt + 1) |->
         IF i > bit_cnt - cnt THEN BITMAP_ERROR
         ELSE IF ~bitmap_contains(i, cnt, ~value) THEN i ELSE f[i + 1]]

First(i, cnt, value) ==
  IF FitsFrom(i, cnt, value) = {} THEN BITMAP_ERROR ELSE Min(FitsFrom(i, cnt, value))

\* The first place that fits, from one place on: that place, or from the next on.
LEMMA FirstIs ==
  ASSUME bit_cnt \in Nat, NEW i \in Nat, NEW cnt \in Nat, NEW value
  PROVE  /\ i > bit_cnt - cnt => First(i, cnt, value) = BITMAP_ERROR
         /\ i <= bit_cnt - cnt =>
              First(i, cnt, value) = IF ~bitmap_contains(i, cnt, ~value) THEN i
                                     ELSE First(i + 1, cnt, value)
<1> HIDE DEF bitmap_contains
<1>1. ASSUME i > bit_cnt - cnt PROVE First(i, cnt, value) = BITMAP_ERROR
  <2>1. FitsFrom(i, cnt, value) = {}
    BY <1>1 DEF FitsFrom, Fits
  <2> QED
    BY <2>1 DEF First
<1>2. ASSUME i <= bit_cnt - cnt, ~bitmap_contains(i, cnt, ~value)
      PROVE  First(i, cnt, value) = i
  <2>1. i \in FitsFrom(i, cnt, value) /\ FitsFrom(i, cnt, value) \subseteq Nat
        /\ \A m \in FitsFrom(i, cnt, value) : i <= m
    BY <1>2 DEF FitsFrom, Fits
  <2>2. Min(FitsFrom(i, cnt, value)) \in FitsFrom(i, cnt, value)
        /\ Min(FitsFrom(i, cnt, value)) <= i
    BY <2>1, HasLeast
  <2> QED
    BY <2>1, <2>2 DEF First
<1>3. ASSUME i <= bit_cnt - cnt, bitmap_contains(i, cnt, ~value)
      PROVE  First(i, cnt, value) = First(i + 1, cnt, value)
  <2>1. FitsFrom(i, cnt, value) = FitsFrom(i + 1, cnt, value)
    BY <1>3 DEF FitsFrom, Fits
  <2> QED
    BY <2>1 DEF First
<1> QED
  BY <1>1, <1>2, <1>3

\* So the loop finds it.
LEMMA ScanIs ==
  ASSUME bit_cnt \in Nat, NEW start \in 0..bit_cnt, NEW cnt \in Nat, NEW value
  PROVE  bitmap_scan(start, cnt, value) = First(start, cnt, value)
<1> DEFINE g == [i \in start..(bit_cnt + 1) |-> First(i, cnt, value)]
<1>1. Tries(g, start, cnt, value)
  <2>1. ASSUME NEW i \in start..(bit_cnt + 1)
        PROVE  g[i] = IF i > bit_cnt - cnt THEN BITMAP_ERROR
                      ELSE IF ~bitmap_contains(i, cnt, ~value) THEN i ELSE g[i + 1]
    <3>1. CASE i > bit_cnt - cnt
      BY <3>1, FirstIs
    <3>2. CASE i <= bit_cnt - cnt
      <4>1. i + 1 \in start..(bit_cnt + 1) /\ i \in Nat
        BY <3>2
      <4> QED
        BY <3>2, <4>1, FirstIs
    <3> QED
      BY <3>1, <3>2
  <2> QED
    BY <2>1 DEF Tries
<1> DEFINE f == CHOOSE f : Tries(f, start, cnt, value)
<1>2. Tries(f, start, cnt, value)
  BY <1>1
<1> HIDE DEF f, g
<1>3. \A i \in start..(bit_cnt + 1) : f[i] = First(i, cnt, value)
  <2> DEFINE bad == {d \in 0..(bit_cnt + 1 - start) :
                       f[bit_cnt + 1 - d] # First(bit_cnt + 1 - d, cnt, value)}
  <2>1. ASSUME bad # {} PROVE FALSE
    <3> DEFINE d == Min(bad)
               i == bit_cnt + 1 - d
    <3>1. d \in bad /\ \A e \in bad : d <= e
      <4>1. bad \in SUBSET Nat
        OBVIOUS
      <4> HIDE DEF bad
      <4> QED
        BY <2>1, <4>1, HasLeast
    <3> HIDE DEF d
    <3>2. d \in 0..(bit_cnt + 1 - start) /\ f[i] # First(i, cnt, value)
          /\ i \in start..(bit_cnt + 1) /\ i \in Nat
      BY <3>1
    <3>3. f[i] = IF i > bit_cnt - cnt THEN BITMAP_ERROR
                 ELSE IF ~bitmap_contains(i, cnt, ~value) THEN i ELSE f[i + 1]
      BY <1>2, <3>2 DEF Tries
    <3>4. i <= bit_cnt - cnt => f[i + 1] = First(i + 1, cnt, value)
      <4>1. ASSUME i <= bit_cnt - cnt PROVE f[i + 1] = First(i + 1, cnt, value)
        <5>1. d - 1 \in 0..(bit_cnt + 1 - start) /\ ~(d <= d - 1) /\ bit_cnt + 1 - (d - 1) = i + 1
          BY <3>2, <4>1
        <5>2. d - 1 \notin bad
          BY <3>1, <5>1
        <5> QED
          BY <5>1, <5>2
      <4> QED
        BY <4>1
    <3> QED
      BY <3>2, <3>3, <3>4, FirstIs
  <2> SUFFICES ASSUME NEW i \in start..(bit_cnt + 1) PROVE f[i] = First(i, cnt, value)
    OBVIOUS
  <2>2. bit_cnt + 1 - i \in 0..(bit_cnt + 1 - start) /\ bit_cnt + 1 - (bit_cnt + 1 - i) = i
    OBVIOUS
  <2>3. bit_cnt + 1 - i \notin bad
    BY <2>1
  <2> QED
    BY <2>2, <2>3
<1>4. bitmap_scan(start, cnt, value) = IF cnt <= bit_cnt THEN f[start] ELSE BITMAP_ERROR
  BY DEF bitmap_scan, Tries, f
<1>5. cnt > bit_cnt => First(start, cnt, value) = BITMAP_ERROR
  BY FirstIs
<1>6. start \in start..(bit_cnt + 1)
  OBVIOUS
<1> QED
  BY <1>3, <1>4, <1>5, <1>6

\* What it finds is in the bitmap.
LEMMA ScanFinds ==
  ASSUME bit_cnt \in Nat, NEW start \in 0..bit_cnt, NEW cnt \in Nat, NEW value,
         bitmap_scan(start, cnt, value) # BITMAP_ERROR
  PROVE  bitmap_scan(start, cnt, value) \in FitsFrom(start, cnt, value)
<1>1. FitsFrom(start, cnt, value) \in SUBSET Nat
  BY DEF FitsFrom
<1> QED
  BY <1>1, ScanIs, HasLeast DEF First

LEMMA ScanStep ==
  ASSUME Inv, NEW start \in 0..MaxBits, NEW cnt \in 0..MaxBits, NEW value \in BOOLEAN,
         scan_and_flip(start, cnt, value)
  PROVE  Inv'
<1> DEFINE i == bitmap_scan(start, cnt, value)
<1>1. CASE Halts("aborted")
  BY <1>1, EndsStep
<1>2. CASE start <= bit_cnt /\ i # BITMAP_ERROR /\ Fill(i, cnt, ~value)
  <2>1. bit_cnt \in Nat /\ start \in 0..bit_cnt /\ cnt \in Nat
    BY <1>2, BitmapAssumption DEF Inv, BitmapTypeOK
  <2>2. i \in FitsFrom(start, cnt, value)
    BY <1>2, <2>1, ScanFinds
  <2>3. i \in Nat /\ (~value) \in BOOLEAN
    BY <2>1, <2>2 DEF FitsFrom
  <2> HIDE DEF i
  <2> QED
    BY <1>2, <2>1, <2>3, FillStep
<1> QED
  BY <1>1, <1>2 DEF scan_and_flip

-------------------------------------------------------------------------------
(***************************************************************************)
(* bitmap_create and bitmap_expand make new elements; what malloc left in  *)
(* them shows in the bits that cannot be reached only.                     *)
(***************************************************************************)
LEMMA CreatedIs ==
  ASSUME ELEM_BITS \in Widths, NEW cnt \in Nat, NEW b \in NewBits(cnt, ELEM_BITS)
  PROVE  /\ DOMAIN b = 0..(elements(cnt, ELEM_BITS) - 1)
         /\ \A k \in DOMAIN b : /\ k \in Nat /\ b[k] \subseteq Word
                                /\ \A j \in b[k] : j \in Low => k * ELEM_BITS + j >= cnt
         /\ \A i \in 0..(cnt - 1) : elem_idx(i) \in DOMAIN b
<1> DEFINE last == elements(cnt, ELEM_BITS) - 1
<1>1. PICK junk \in [0..last -> SUBSET (0..(ELEM_BITS - 1))] :
        b = [k \in 0..last |->
               {j \in junk[k] : j \notin Low \/ k * ELEM_BITS + j >= cnt}]
  BY DEF NewBits
<1>2. \A i \in 0..(cnt - 1) : elem_idx(i) \in 0..last
  BY HasElement
<1> HIDE DEF last
<1>3. DOMAIN b = 0..last
  BY <1>1
<1>4. ASSUME NEW k \in 0..last
      PROVE  /\ k \in Nat /\ b[k] \subseteq Word
             /\ \A j \in b[k] : j \in Low => k * ELEM_BITS + j >= cnt
  BY <1>1 DEF Word
<1> QED
  BY <1>2, <1>3, <1>4 DEF last

LEMMA InitMarked == BitmapInit => Inv
<1> SUFFICES ASSUME BitmapInit PROVE Inv
  OBVIOUS
<1>1. PICK b \in NewBits(bit_cnt, ELEM_BITS) : bits = Slack(b)
  BY DEF BitmapInit
<1>2. /\ ELEM_BITS \in Widths /\ bit_cnt \in 0..MaxBits /\ bit_cnt \in Nat
      /\ outcome = "command" /\ marked = {}
  BY BitmapAssumption DEF BitmapInit
<1>3. /\ \A k \in DOMAIN b : /\ k \in Nat /\ b[k] \subseteq Word
                             /\ \A j \in b[k] : j \in Low => k * ELEM_BITS + j >= bit_cnt
      /\ \A i \in 0..(bit_cnt - 1) : elem_idx(i) \in DOMAIN b
  BY <1>2, CreatedIs
<1>4. /\ DOMAIN bits = DOMAIN b
      /\ \A k \in DOMAIN b : bits[k] = {j \in b[k] : k * ELEM_BITS + j < bit_cnt}
  BY <1>1 DEF Slack
<1>5. BitmapTypeOK /\ Trimmed
  BY <1>2, <1>3, <1>4 DEF BitmapTypeOK, Trimmed
<1>6. ASSUME NEW i \in 0..(bit_cnt - 1), Reachable(i) PROVE ~At(bits, i)
  <2>1. i = elem_idx(i) * ELEM_BITS + (i % ELEM_BITS) /\ elem_idx(i) \in DOMAIN b
    BY <1>2, <1>3, Places
  <2>2. i < bit_cnt /\ ~(i >= bit_cnt)
    BY <1>2
  <2> QED
    BY <1>3, <1>4, <1>6, <2>1, <2>2 DEF At, Reachable
<1> QED
  BY <1>2, <1>5, <1>6 DEF Inv, RightBits

LEMMA ExpandStep ==
  ASSUME Inv, NEW size \in Int, expand(size)
  PROVE  Inv'
<1> DEFINE cnt == bit_cnt + size
           ones == {i \in 0..(bit_cnt - 1) : bitmap_test(i)}
<1>1. CASE \E how \in {"null", "aborted"} : Halts(how)
  BY <1>1, EndsStep
<1>2. CASE ~ \E how \in {"null", "aborted"} : Halts(how)
  <2>1. PICK b \in NewBits(cnt, ELEM_BITS) :
          /\ cnt \in 0..MaxBits /\ bit_cnt' = cnt
          /\ bits' = [k \in DOMAIN b |->
                        {j \in 0..(ELEM_BITS - 1) :
                           LET i == k * ELEM_BITS + j
                           IN  i < cnt /\ (j \in b[k] \/ (j \in Low /\ i \in ones))}]
          /\ marked' = marked \cap 0..(cnt - 1)
          /\ ELEM_BITS' = ELEM_BITS /\ outcome' = outcome
    BY <1>2 DEF expand
  <2>2. cnt \in Nat /\ bit_cnt \in Nat /\ ELEM_BITS \in Widths
    BY <2>1, BitmapAssumption DEF Inv, BitmapTypeOK
  <2>3. \A i \in ones : Reachable(i) => i \in marked
    BY TestIs DEF Inv, RightBits
  <2>4. \A i \in marked : Reachable(i) => i \in ones
    BY TestIs DEF Inv, RightBits, BitmapTypeOK
  <2> HIDE DEF cnt, ones
  <2>5. /\ \A k \in DOMAIN b : /\ k \in Nat /\ b[k] \subseteq Word
                               /\ \A j \in b[k] : j \in Low => k * ELEM_BITS + j >= cnt
        /\ \A i \in 0..(cnt - 1) : elem_idx(i) \in DOMAIN b
    BY <2>2, CreatedIs
  <2>6. /\ DOMAIN bits' = DOMAIN b
        /\ \A k \in DOMAIN b : bits'[k] = {j \in 0..(ELEM_BITS - 1) :
             /\ k * ELEM_BITS + j < cnt
             /\ j \in b[k] \/ (j \in Low /\ k * ELEM_BITS + j \in ones)}
    BY <2>1
  <2>7. BitmapTypeOK'
    <3>1. \A k \in DOMAIN b : bits'[k] \subseteq 0..(ELEM_BITS - 1)
      BY <2>6
    <3>2. marked' \subseteq 0..(cnt - 1) /\ outcome' \in {"command", "aborted", "corrupt", "null"}
      BY <2>1 DEF Inv, BitmapTypeOK
    <3> QED
      BY <2>1, <2>5, <2>6, <3>1, <3>2 DEF BitmapTypeOK, elem_idx, Word
  <2>8. Trimmed'
    BY <2>1, <2>5, <2>6 DEF Trimmed
  <2>9. ASSUME NEW i \in 0..(cnt - 1), Reachable(i)
        PROVE  i % ELEM_BITS \in bits'[elem_idx(i)] <=> i \in marked'
    <3>1. /\ i \in Nat /\ i < cnt /\ ~(i >= cnt) /\ elem_idx(i) \in DOMAIN b
          /\ i % ELEM_BITS \in Low
      BY <2>2, <2>5, <2>9 DEF Reachable
    <3>2. /\ i = elem_idx(i) * ELEM_BITS + (i % ELEM_BITS)
          /\ i % ELEM_BITS \in 0..(ELEM_BITS - 1)
      BY <2>2, <3>1, Places DEF Word
    <3>3. i % ELEM_BITS \notin b[elem_idx(i)]
      BY <2>5, <3>1, <3>2
    <3>4. i % ELEM_BITS \in bits'[elem_idx(i)] <=> i \in ones
      BY <2>6, <3>1, <3>2, <3>3
    <3> QED
      BY <2>1, <2>3, <2>4, <2>9, <3>4
  <2>10. RightBits'
    BY <2>1, <2>9 DEF RightBits, At, Reachable, elem_idx
  <2> QED
    BY <2>1, <2>2, <2>7, <2>8, <2>10 DEF Inv
<1> QED
  BY <1>1, <1>2

-------------------------------------------------------------------------------
\* Every command keeps the invariant.
LEMMA CommandStep ==
  ASSUME Inv, [BitmapNext]_bitmap_vars
  PROVE  Inv'
<1> USE BitmapAssumption
<1>1. ASSUME NEW start \in 0..MaxBits, NEW cnt \in 0..MaxBits, ask(start, cnt)
      PROVE  Inv'
  BY <1>1, EndsStep DEF ask
<1>2. ASSUME NEW i \in 0..MaxBits, mark(i) \/ reset(i) \/ flip(i)
      PROVE  Inv'
  BY <1>2, OneBitStep
<1>3. ASSUME NEW value \in BOOLEAN, set_all(value)
      PROVE  Inv'
  <2>1. bit_cnt \in Nat
    BY DEF Inv, BitmapTypeOK
  <2> QED
    BY <1>3, <2>1, FillStep DEF set_all
<1>4. ASSUME NEW value \in BOOLEAN, NEW i \in 0..MaxBits, set(i, value)
      PROVE  Inv'
  BY <1>4, FillStep DEF set
<1>5. ASSUME NEW value \in BOOLEAN, NEW start \in 0..MaxBits, NEW cnt \in 0..MaxBits,
             set_multiple(start, cnt, value)
      PROVE  Inv'
  BY <1>5, FillStep DEF set_multiple
<1>6. ASSUME NEW value \in BOOLEAN, NEW start \in 0..MaxBits, NEW cnt \in 0..MaxBits,
             scan_and_flip(start, cnt, value)
      PROVE  Inv'
  BY <1>6, ScanStep
<1>7. ASSUME NEW size \in -MaxBits..MaxBits, expand(size)
      PROVE  Inv'
  BY <1>7, ExpandStep
<1>8. CASE UNCHANGED bitmap_vars
  BY <1>8 DEF bitmap_vars, Inv, BitmapTypeOK, Trimmed, RightBits, At, Reachable, elem_idx, Word
<1> QED
  BY <1>1, <1>2, <1>3, <1>4, <1>5, <1>6, <1>7, <1>8 DEF BitmapNext

LEMMA Invariance == BitmapSpec => []Inv
<1>1. Inv /\ [BitmapNext]_bitmap_vars => Inv'
  BY CommandStep
<1> QED
  BY <1>1, InitMarked, PTL DEF BitmapSpec

(***************************************************************************)
(* In a bitmap of any size, after any commands, each bit that the 32-bit   *)
(* instructions reach is what the last command that named it made it, and  *)
(* every bit has its element: for every width of a long.                   *)
(***************************************************************************)
THEOREM BitsAreRight == BitmapSpec => []ReachableBitsRight
<1>1. Inv => ReachableBitsRight
  BY TestIs DEF Inv, RightBits, ReachableBitsRight
<1> QED
  BY <1>1, Invariance, PTL

(***************************************************************************)
(* Where a long is as wide as the instructions, bitmap.c's operations do   *)
(* what their comments say to every bit.                                   *)
(***************************************************************************)
THEOREM AllRightIn32Bits ==
  ASSUME \A w \in Widths : w = AsmBits
  PROVE  BitmapSpec => []AllBitsRight
<1>1. Inv => AllBitsRight
  <2>1. ASSUME Inv, NEW i \in 0..(bit_cnt - 1)
        PROVE  Reachable(i)
    BY <2>1, BitmapAssumption DEF Inv, BitmapTypeOK, Reachable, Low
  <2> QED
    BY <2>1, TestIs DEF Inv, RightBits, AllBitsRight
<1> QED
  BY <1>1, Invariance, PTL

-------------------------------------------------------------------------------
\* The count of a group is its size when no bit of it is the other value.
LEMMA CountIs ==
  ASSUME NEW i \in Nat, NEW cnt \in Nat, NEW value \in BOOLEAN
  PROVE  bitmap_count(i, cnt, value) = cnt <=> ~bitmap_contains(i, cnt, ~value)
<1> DEFINE group == i..(i + cnt - 1)
           same == {k \in group : bitmap_test(k) = value}
<1>1. IsFiniteSet(group) /\ Cardinality(group) = cnt
  BY FS_Interval
<1>2. same \in SUBSET group
  OBVIOUS
<1> HIDE DEF group
<1>3. Cardinality(same) = cnt <=> same = group
  BY <1>1, <1>2, FS_Subset
<1>4. \A k \in group : bitmap_test(k) \in BOOLEAN
  BY DEF bitmap_test
<1>5. same = group <=> ~ \E k \in group : bitmap_test(k) = ~value
  BY <1>4
<1> QED
  BY <1>3, <1>5 DEF bitmap_count, bitmap_contains, group

(***************************************************************************)
(* The scan finds the first place where the group fits, up to the very last*)
(* one, and the queries agree on every group of bits, in every bitmap.     *)
(***************************************************************************)
THEOREM QueriesDoAgree == BitmapSpec => []QueriesAgree
<1>1. Inv => QueriesAgree
  <2> SUFFICES ASSUME Inv, NEW start \in 0..bit_cnt, NEW cnt \in 0..MaxBits,
                      NEW value \in BOOLEAN
      PROVE LET fits == {i \in start..bit_cnt :
                           i + cnt <= bit_cnt /\ bitmap_count(i, cnt, value) = cnt}
                i    == bitmap_scan(start, cnt, value)
            IN  /\ IF fits = {} THEN i = BITMAP_ERROR ELSE i = Min(fits)
                /\ start + cnt <= bit_cnt =>
                     /\ bitmap_all(start, cnt)  <=> bitmap_count(start, cnt, TRUE) = cnt
                     /\ bitmap_none(start, cnt) <=> bitmap_count(start, cnt, FALSE) = cnt
                     /\ bitmap_any(start, cnt)  <=> ~bitmap_none(start, cnt)
    BY DEF QueriesAgree
  <2> DEFINE fits == {i \in start..bit_cnt :
                        i + cnt <= bit_cnt /\ bitmap_count(i, cnt, value) = cnt}
  <2>1. bit_cnt \in Nat /\ cnt \in Nat /\ start \in Nat
    BY BitmapAssumption DEF Inv, BitmapTypeOK
  <2>2. fits = FitsFrom(start, cnt, value)
    <3>1. \A i \in start..bit_cnt :
            bitmap_count(i, cnt, value) = cnt <=> ~bitmap_contains(i, cnt, ~value)
      BY <2>1, CountIs
    <3> QED
      BY <3>1 DEF FitsFrom, Fits
  <2>3. bitmap_scan(start, cnt, value) = IF fits = {} THEN BITMAP_ERROR ELSE Min(fits)
    BY <2>1, <2>2, ScanIs DEF First
  <2>4. bitmap_all(start, cnt)  <=> bitmap_count(start, cnt, TRUE) = cnt
    <3>1. bitmap_count(start, cnt, TRUE) = cnt <=> ~bitmap_contains(start, cnt, ~TRUE)
      BY <2>1, CountIs
    <3>2. (~TRUE) = FALSE
      OBVIOUS
    <3> QED
      BY <3>1, <3>2 DEF bitmap_all
  <2>5. bitmap_none(start, cnt) <=> bitmap_count(start, cnt, FALSE) = cnt
    <3>1. bitmap_count(start, cnt, FALSE) = cnt <=> ~bitmap_contains(start, cnt, ~FALSE)
      BY <2>1, CountIs
    <3>2. (~FALSE) = TRUE
      OBVIOUS
    <3> QED
      BY <3>1, <3>2 DEF bitmap_none
  <2>6. bitmap_any(start, cnt) <=> ~bitmap_none(start, cnt)
    BY DEF bitmap_any, bitmap_none
  <2> QED
    BY <2>3, <2>4, <2>5, <2>6
<1> QED
  BY <1>1, Invariance, PTL
===============================================================================
