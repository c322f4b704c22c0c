-------------------------------- MODULE Bitmap --------------------------------
(***************************************************************************)
(* A bitmap of bitmap.c under the commands of main.c.  Its elements are    *)
(* unsigned longs; the instructions that change a bit are 32 bits wide     *)
(* (orl, andl, xorl on %k1).  Where longs are wider, the upper bits of an  *)
(* element keep what malloc found there.  An element is the set of the     *)
(* numbers of its bits that are 1.                                         *)
(***************************************************************************)
EXTENDS Integers, FiniteSets, FiniteSetsExt

CONSTANTS
  Widths,  \* the widths of an unsigned long: 32 and 64 in the builds
  AsmBits, \* the bits that orl, andl and xorl change: 32
  MaxBits, \* the largest size of a bitmap (a bound)
  BITMAP_ERROR

ASSUME BitmapAssumption ==
  /\ AsmBits \in Nat \ {0} /\ MaxBits \in Nat
  /\ \A w \in Widths : w \in Nat /\ w >= AsmBits
  /\ BITMAP_ERROR \notin 0..MaxBits

VARIABLES
  ELEM_BITS, \* the width in this build
  bit_cnt,   \* the size of the bitmap
  bits,      \* its elements, numbered from 0
  outcome,   \* "command", or how the program ended
  marked     \* history: the bits that should be 1

bitmap_vars == <<ELEM_BITS, bit_cnt, bits, outcome, marked>>

-------------------------------------------------------------------------------
elem_idx(i) == i \div ELEM_BITS
bit_mask(i) == {i % ELEM_BITS}
elements(cnt, width) == (cnt + width - 1) \div width

Low == 0..(AsmBits - 1)

orl(w, mask)  == w \cup (mask \cap Low)
andl(w, mask) == w \ (Low \ mask)
xorl_Or(w, mask) == w \cup (mask \cap Low)
xorl(w, mask) == (w \ (mask \cap Low)) \cup ((mask \cap Low) \ w)

Word == 0..(ELEM_BITS - 1)

\* Bits of the elements b, marked, reset or flipped.
bitmap_mark(b, i)  == [b EXCEPT ![elem_idx(i)] = orl(@, bit_mask(i))]
bitmap_reset(b, i) == [b EXCEPT ![elem_idx(i)] = andl(@, Word \ bit_mask(i))]
bitmap_flip(b, i)  == [b EXCEPT ![elem_idx(i)] = xorl(@, bit_mask(i))]
bitmap_set(b, i, value) == IF value THEN bitmap_mark(b, i) ELSE bitmap_reset(b, i)

bitmap_test(i) == bit_mask(i) \subseteq bits[elem_idx(i)]

\* Every bit from start on, cnt of them, of the elements b.
bitmap_set_multiple(b, start, cnt, value) ==
  LET loop[k \in 0..cnt] == IF k = 0 THEN b ELSE bitmap_set(loop[k - 1], start + k - 1, value)
  IN  loop[cnt]

bitmap_count(start, cnt, value) ==
  Cardinality({i \in start..(start + cnt - 1) : bitmap_test(i) = value})

bitmap_contains(start, cnt, value) ==
  \E i \in start..(start + cnt - 1) : bitmap_test(i) = value
bitmap_any(start, cnt)  == bitmap_contains(start, cnt, TRUE)
bitmap_none(start, cnt) == ~bitmap_contains(start, cnt, TRUE)
bitmap_all(start, cnt)  == ~bitmap_contains(start, cnt, FALSE)

\* The loop that tries every place from start to the last.
bitmap_scan_Short(start, cnt, value) ==
  LET try[i \in start..(bit_cnt + 1)] ==
        IF i >= bit_cnt - cnt THEN BITMAP_ERROR
        ELSE IF ~bitmap_contains(i, cnt, ~value) THEN i ELSE try[i + 1]
  IN  IF cnt <= bit_cnt THEN try[start] ELSE BITMAP_ERROR
bitmap_scan(start, cnt, value) ==
  LET try[i \in start..(bit_cnt + 1)] ==
        IF i > bit_cnt - cnt THEN BITMAP_ERROR
        ELSE IF ~bitmap_contains(i, cnt, ~value) THEN i ELSE try[i + 1]
  IN  IF cnt <= bit_cnt THEN try[start] ELSE BITMAP_ERROR

-------------------------------------------------------------------------------
\* Elements for cnt bits as malloc gives them, with all bits that can be
\* reset reset: bitmap_create ends with bitmap_set_all(b, false).
NewBits(cnt, width) ==
  {[k \in 0..(elements(cnt, width) - 1) |->
      {j \in junk[k] : j \notin Low \/ k * width + j >= cnt}] :
     junk \in [0..(elements(cnt, width) - 1) -> SUBSET (0..(width - 1))]}

Slack(b) == \* bits past the end are never read: leave them out
  [k \in DOMAIN b |-> {j \in b[k] : k * ELEM_BITS + j < bit_cnt}]

BitmapInit ==
  /\ ELEM_BITS \in Widths
  /\ bit_cnt \in 0..MaxBits
  /\ \E b \in NewBits(bit_cnt, ELEM_BITS) : bits = Slack(b)
  /\ outcome = "command" /\ marked = {}

Changes(b) == bits' = Slack(b) /\ UNCHANGED <<ELEM_BITS, bit_cnt, outcome>>

Halts(how) == outcome' = how /\ UNCHANGED <<ELEM_BITS, bit_cnt, bits, marked>>

Running == outcome = "command"

\* bitmap_mark, bitmap_reset and bitmap_flip check nothing: past the last
\* element they write into memory that is not the bitmap's.
OneBit(i, b, m) ==
  /\ Running
  /\ \/ /\ elem_idx(i) \in DOMAIN bits
        /\ Changes(b) /\ marked' = m \cap 0..(bit_cnt - 1)
     \/ elem_idx(i) \notin DOMAIN bits /\ Halts("corrupt")

mark(i)  == OneBit(i, bitmap_mark(bits, i), marked \cup {i})
reset(i) == OneBit(i, bitmap_reset(bits, i), marked \ {i})
flip(i)  == OneBit(i, bitmap_flip(bits, i),
                   IF i \in marked THEN marked \ {i} ELSE marked \cup {i})

\* bitmap_set_multiple and all that call it, with its assertions.
Fill(start, cnt, value) ==
  \/ /\ start + cnt <= bit_cnt
     /\ Changes(bitmap_set_multiple(bits, start, cnt, value))
     /\ LET group == start..(start + cnt - 1)
        IN  marked' = IF value THEN marked \cup group ELSE marked \ group
  \/ start + cnt > bit_cnt /\ Halts("aborted")

set(i, value) == Running /\ Fill(i, 1, value)
set_all(value) == Running /\ Fill(0, bit_cnt, value)
set_multiple(start, cnt, value) == Running /\ Fill(start, cnt, value)

scan_and_flip(start, cnt, value) ==
  LET i == bitmap_scan(start, cnt, value)
  IN  /\ Running
      /\ \/ start > bit_cnt /\ Halts("aborted")
         \/ start <= bit_cnt /\ i # BITMAP_ERROR /\ Fill(i, cnt, ~value)

(***************************************************************************)
(* bitmap_expand copies the bits that are 1 to a new bitmap.  A negative   *)
(* size makes it smaller, and a bit that then has no place fails an        *)
(* assertion.  If memory runs out, main has a null pointer for a bitmap.   *)
(* The sum of the sizes is a number of the model: what it is as a size_t   *)
(* when it is negative or too large is left out, with MaxBits.             *)
(***************************************************************************)
expand(size) ==
  LET cnt  == bit_cnt + size
      ones == {i \in 0..(bit_cnt - 1) : bitmap_test(i)}
  IN  /\ Running /\ cnt \in 0..MaxBits
      /\ \/ Halts("null")
         \/ (\E i \in ones : i >= cnt) /\ Halts("aborted")
         \/ /\ \A i \in ones : i < cnt
            /\ bit_cnt' = cnt
            /\ \E b \in NewBits(cnt, ELEM_BITS) :
                 bits' = [k \in DOMAIN b |->
                            {j \in 0..(ELEM_BITS - 1) :
                               LET i == k * ELEM_BITS + j
                               IN  i < cnt /\ (j \in b[k] \/ (j \in Low /\ i \in ones))}]
            /\ marked' = marked \cap 0..(cnt - 1)
            /\ UNCHANGED <<ELEM_BITS, outcome>>

\* The commands that only ask assert the same of their group.
ask(start, cnt) == Running /\ start + cnt > bit_cnt /\ Halts("aborted")

BitmapNext ==
  \/ \E start, cnt \in 0..MaxBits : ask(start, cnt)
  \/ \E i \in 0..MaxBits : mark(i) \/ reset(i) \/ flip(i)
  \/ \E value \in BOOLEAN :
       \/ set_all(value)
       \/ \E i \in 0..MaxBits : set(i, value)
       \/ \E start, cnt \in 0..MaxBits :
            set_multiple(start, cnt, value) \/ scan_and_flip(start, cnt, value)
  \/ \E size \in -MaxBits..MaxBits : expand(size)

BitmapSpec == BitmapInit /\ [][BitmapNext]_bitmap_vars

-------------------------------------------------------------------------------
\* Every variable has its type.
BitmapTypeOK ==
  /\ bit_cnt \in 0..MaxBits
  /\ \A i \in 0..(bit_cnt - 1) : elem_idx(i) \in DOMAIN bits
  /\ \A k \in DOMAIN bits : bits[k] \subseteq Word
  /\ outcome \in {"command", "aborted", "corrupt", "null"}
  /\ marked \subseteq 0..(bit_cnt - 1)

Reachable(i) == i % ELEM_BITS \in Low

(***************************************************************************)
(* A bit that the 32-bit instructions can reach is 1 exactly when the last *)
(* command that named it made it so, alone, in a group, by a scan, or in   *)
(* the bitmap that was expanded since.  In a build with longs of 32 bits   *)
(* that is every bit.  And the bits have their elements to be in.          *)
(***************************************************************************)
ReachableBitsRight ==
  /\ BitmapTypeOK
  /\ \A i \in 0..(bit_cnt - 1) : Reachable(i) => (bitmap_test(i) <=> i \in marked)

(***************************************************************************)
(* The same of every bit, as bitmap.c says of its operations: that         *)
(* bitmap_create "sets all of its bits to false" (line 54), bitmap_mark    *)
(* "sets the bit numbered BIT_IDX in B to true" (line 131), being          *)
(* "equivalent to `b->bits[idx] |= mask'" (line 137).  In a build with     *)
(* longs wider than the instructions it does not hold: an upper bit is     *)
(* what malloc left there, and neither bitmap_create nor a mark changes it.*)
(***************************************************************************)
AllBitsRight == \A i \in 0..(bit_cnt - 1) : bitmap_test(i) <=> i \in marked

(***************************************************************************)
(* bitmap_scan returns the first place at or after START where CNT bits    *)
(* are VALUE, the very last one that fits included, and BITMAP_ERROR if    *)
(* there is none; count, any, none and all agree with one another on any   *)
(* group of bits.                                                          *)
(***************************************************************************)
QueriesAgree ==
  \A start \in 0..bit_cnt, cnt \in 0..MaxBits, value \in BOOLEAN :
    LET fits == {i \in start..bit_cnt :
                   i + cnt <= bit_cnt /\ bitmap_count(i, cnt, value) = cnt}
        i    == bitmap_scan(start, cnt, value)
    IN  /\ IF fits = {} THEN i = BITMAP_ERROR ELSE i = Min(fits)
        /\ start + cnt <= bit_cnt =>
             /\ bitmap_all(start, cnt)  <=> bitmap_count(start, cnt, TRUE) = cnt
             /\ bitmap_none(start, cnt) <=> bitmap_count(start, cnt, FALSE) = cnt
             /\ bitmap_any(start, cnt)  <=> ~bitmap_none(start, cnt)
===============================================================================
