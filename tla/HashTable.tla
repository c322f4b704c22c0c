------------------------------- MODULE HashTable ------------------------------
(***************************************************************************)
(* The hash table of hash.c, with the elements and the commands main.c     *)
(* gives it, and any hash function.  An element is its value; a bucket is  *)
(* a sequence of them, front first; buckets are numbered from 0.           *)
(*                                                                         *)
(* The table grows and shrinks: the two numbers that decide when are       *)
(* constants here, so that a handful of elements can make it do so.        *)
(***************************************************************************)
EXTENDS Integers, SequencesExt

CONSTANTS
  Inputs,                \* the integers commands give
  MaxInt,                \* the largest magnitude hash_apply may reach (a bound)
  MaxElems,              \* the elements a table may have (a bound)
  BEST_ELEMS_PER_BUCKET, \* 2 in the code
  MinBuckets,            \* 4 in the code
  hash                   \* the hash function of the table, h->hash

Ints     == -MaxInt..MaxInt
MaxCount == MinBuckets + MaxElems
Counts   == 1..MaxCount

\* x & y, for an x that is a number of buckets or less.
bitand[x \in 0..MaxCount] ==
  [y \in Nat |->
     IF x = 0 THEN 0
     ELSE 2 * bitand[x \div 2][y \div 2] + IF x % 2 = 1 /\ y % 2 = 1 THEN 1 ELSE 0]

turn_off_least_1bit(x) == bitand[x][x - 1]
is_power_of_2(x) == x # 0 /\ turn_off_least_1bit(x) = 0

ASSUME HashAssumption ==
  /\ MaxInt \in Nat /\ Inputs \subseteq Ints /\ MaxElems \in Nat
  /\ BEST_ELEMS_PER_BUCKET \in Nat \ {0}
  /\ MinBuckets \in Nat \ {0} /\ is_power_of_2(MinBuckets)
  /\ hash \in [Ints -> Nat]

VARIABLES
  buckets, bucket_cnt, elem_cnt, \* struct hash
  stale, \* history: hash_apply changed a value since the buckets were last made
  tidy   \* history: the last change ended in a rehash that had the memory it needed

table == <<buckets, bucket_cnt, elem_cnt>>
hash_vars  == <<table, stale, tidy>>

-------------------------------------------------------------------------------
find_bucket(cnt, v) == bitand[cnt - 1][hash[v]]

find_elem(b, v) == \E k \in DOMAIN b : ~(b[k] < v) /\ ~(v < b[k])

insert_elem(bs, b, v) == [bs EXCEPT ![b] = <<v>> \o @]
remove_elem(bs, b, v) ==
  [bs EXCEPT ![b] = RemoveAt(@, Min({k \in DOMAIN bs[b] : bs[b][k] = v}))]

\* For a number of buckets, the power of 2 it is made.
Rounded ==
  LET loop[x \in Counts] == IF is_power_of_2(x) THEN x ELSE loop[turn_off_least_1bit(x)]
  IN  loop

\* The number of buckets rehash wants for cnt elements.
Wanted(cnt) ==
  LET m == cnt \div BEST_ELEMS_PER_BUCKET IN IF m < MinBuckets THEN MinBuckets ELSE m
new_bucket_cnt(cnt) == Rounded[Wanted(cnt)]

Empty(cnt) == [b \in 0..(cnt - 1) |-> <<>>]

\* The elements of the first cnt buckets, one bucket after the other.
Chained(bs, cnt) ==
  LET chained[k \in 0..cnt] == IF k = 0 THEN <<>> ELSE chained[k - 1] \o bs[k - 1]
  IN  chained[cnt]

\* The elements go to the front of their new bucket, one by one from the
\* first bucket on.
Moved_OldIndex(bs, old, new) ==
  LET els == Chained(bs, old)
      moved[k \in 0..Len(els)] ==
        IF k = 0 THEN Empty(new)
        ELSE insert_elem(moved[k - 1], find_bucket(old, els[k]) % new, els[k])
  IN  moved[Len(els)]
Moved_NewCount(bs, old, new) ==
  LET els == Chained(bs, IF new < old THEN new ELSE old)
      moved[k \in 0..Len(els)] ==
        IF k = 0 THEN Empty(new)
        ELSE insert_elem(moved[k - 1], find_bucket(new, els[k]), els[k])
  IN  moved[Len(els)]
Moved(bs, old, new) ==
  LET els == Chained(bs, old)
      moved[k \in 0..Len(els)] ==
        IF k = 0 THEN Empty(new)
        ELSE insert_elem(moved[k - 1], find_bucket(new, els[k]), els[k])
  IN  moved[Len(els)]

\* rehash of a table with these buckets and this many elements; malloc may fail.
rehash(bs, cnt) ==
  LET new == new_bucket_cnt(cnt)
  IN  /\ elem_cnt' = cnt
      /\ \/ /\ new = bucket_cnt
            /\ buckets' = bs /\ tidy' = TRUE /\ UNCHANGED <<bucket_cnt, stale>>
         \/ /\ new # bucket_cnt
            /\ buckets' = Moved(bs, bucket_cnt, new) /\ bucket_cnt' = new
            /\ stale' = FALSE /\ tidy' = TRUE
         \/ /\ new # bucket_cnt
            /\ buckets' = bs /\ tidy' = FALSE /\ UNCHANGED <<bucket_cnt, stale>>

-------------------------------------------------------------------------------
(* The commands.                                                           *)

HashInit ==
  /\ bucket_cnt = MinBuckets /\ buckets = Empty(MinBuckets) /\ elem_cnt = 0
  /\ stale = FALSE /\ tidy = TRUE

hash_insert(v) ==
  LET b == find_bucket(bucket_cnt, v)
  IN  \/ find_elem(buckets[b], v) /\ rehash(buckets, elem_cnt)
      \/ /\ ~find_elem(buckets[b], v) /\ elem_cnt < MaxElems
         /\ rehash(insert_elem(buckets, b, v), elem_cnt + 1)

hash_replace(v) ==
  LET b == find_bucket(bucket_cnt, v)
  IN  \/ /\ find_elem(buckets[b], v)
         /\ rehash(insert_elem(remove_elem(buckets, b, v), b, v), elem_cnt)
      \/ /\ ~find_elem(buckets[b], v) /\ elem_cnt < MaxElems
         /\ rehash(insert_elem(buckets, b, v), elem_cnt + 1)

hash_delete(v) ==
  LET b == find_bucket(bucket_cnt, v)
  IN  /\ find_elem(buckets[b], v)
      /\ rehash(remove_elem(buckets, b, v), elem_cnt - 1)

square(v) == v * v
triple(v) == v * v * v

\* With main's square or triple, which change the values where they are.
hash_apply(action) ==
  LET f(v) == IF action = "square" THEN square(v) ELSE triple(v)
      changed == [b \in 0..(bucket_cnt - 1) |->
                    [k \in DOMAIN buckets[b] |-> f(buckets[b][k])]]
  IN  /\ \A b \in 0..(bucket_cnt - 1) : \A k \in DOMAIN changed[b] : changed[b][k] \in Ints
      /\ buckets' = changed
      /\ stale' = (stale \/ changed # buckets)
      /\ UNCHANGED <<bucket_cnt, elem_cnt, tidy>>

\* The buckets are emptied, and remain as many.
hash_clear ==
  /\ buckets' = Empty(bucket_cnt) /\ elem_cnt' = 0
  /\ stale' = FALSE /\ tidy' = FALSE
  /\ UNCHANGED bucket_cnt

HashNext ==
  \/ \E v \in Inputs : hash_insert(v) \/ hash_replace(v) \/ hash_delete(v)
  \/ \E action \in {"square", "triple"} : hash_apply(action)
  \/ hash_clear

HashSpec == HashInit /\ [][HashNext]_hash_vars

-------------------------------------------------------------------------------
(* The iterator of dumpdata: a bucket and a place in it, 0 at its head.    *)

hash_first == <<0, 0>>

hash_next(i) ==
  LET later == {b \in (i[1] + 1)..(bucket_cnt - 1) : buckets[b] # <<>>}
  IN  IF i[2] < Len(buckets[i[1]]) THEN <<i[1], i[2] + 1>>
      ELSE IF later = {} THEN <<bucket_cnt, 0>> ELSE <<Min(later), 1>>

hash_cur(i) == buckets[i[1]][i[2]]

\* Where it is after n calls of hash_next; it stays at the end.
Visited ==
  LET at[n \in 0..(MaxElems + 1)] ==
        IF n = 0 THEN hash_first
        ELSE LET i == at[n - 1] IN IF i[1] = bucket_cnt THEN i ELSE hash_next(i)
  IN  at

Dumped ==
  LET end == Min({n \in 0..(MaxElems + 1) : Visited[n][1] = bucket_cnt})
  IN  [n \in 1..(end - 1) |-> hash_cur(Visited[n])]

-------------------------------------------------------------------------------
Elements == Chained(buckets, bucket_cnt)

\* Every variable has its type.
HashType ==
  /\ bucket_cnt \in Counts /\ is_power_of_2(bucket_cnt) /\ bucket_cnt >= MinBuckets
  /\ buckets \in [0..(bucket_cnt - 1) -> Seq(Ints)]
  /\ elem_cnt \in 0..MaxElems
  /\ stale \in BOOLEAN /\ tidy \in BOOLEAN

(***************************************************************************)
(* hash_find finds exactly the values that dumpdata prints, unless         *)
(* hash_apply has changed a value since the buckets were last made: a      *)
(* resize, and only that, puts changed values where they are looked for.   *)
(* And always dumpdata prints as many as hash_size says: the iterator      *)
(* passes over empty buckets, and the count is right through growing,      *)
(* shrinking, replacing and failures of malloc.  After a change for which  *)
(* memory was found there are at least BEST elements to a bucket, or the   *)
(* least number of buckets, and fewer than twice BEST: the ratios hash.c   *)
(* gives above rehash.                                                     *)
(***************************************************************************)
LoadInBounds ==
  tidy => /\ elem_cnt < 2 * BEST_ELEMS_PER_BUCKET * bucket_cnt
          /\ bucket_cnt > MinBuckets =>
               elem_cnt >= BEST_ELEMS_PER_BUCKET * bucket_cnt
FindsAll ==
  LET dump == Dumped
  IN  /\ HashType /\ LoadInBounds /\ elem_cnt = Len(dump)
      /\ ~stale => LET had == ToSet(dump)
                   IN  \A v \in Ints :
                         find_elem(buckets[find_bucket(bucket_cnt, v)], v) <=> v \in had

(***************************************************************************)
(* The table is a set of integers as long as none of them is changed in    *)
(* place, whatever the resizes; after that it loses or invents nothing,    *)
(* but may not find what it has, nor see that it has it twice.             *)
(***************************************************************************)
Held == LET els == Elements
         IN  [v \in ToSet(els) |-> Cardinality({k \in DOMAIN els : els[k] = v})]
Bag == INSTANCE IntBag WITH Ints <- Inputs, items <- Held, exact <- ~stale
ImplementsBag == Bag!Spec
===============================================================================
