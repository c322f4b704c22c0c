-------------------------------- MODULE IntBag --------------------------------
(***************************************************************************)
(* What a hash table of prj1 promises whoever uses it: a set of integers.  *)
(* That holds while it is exact.  A command that changes the integers      *)
(* where they are (hash_apply) makes it a bag, since two of them may become*)
(* equal, and inexact: it may fail to find an integer that it has.  It     *)
(* may become exact again with any later change.                           *)
(***************************************************************************)
EXTENDS Integers, Bags

CONSTANTS Ints \* the integers it may hold

VARIABLES items, exact
vars == <<items, exact>>

Init == items = EmptyBag /\ exact = TRUE

\* Does the table find v?
Finds(v)  == BagIn(v, items)
Misses(v) == ~BagIn(v, items) \/ ~exact

Update(bag) == items' = bag /\ (exact => exact')

Insert(v) == \/ Misses(v) /\ Update(items (+) SetToBag({v}))
             \/ Finds(v) /\ Update(items)

Delete(v) == \/ Finds(v) /\ Update(items (-) SetToBag({v}))
             \/ Misses(v) /\ Update(items)

Replace(v) == \/ Finds(v) /\ Update(items)
              \/ Misses(v) /\ Update(items (+) SetToBag({v}))

Apply(f(_)) == items' = BagOfAll(f, items) /\ exact' = FALSE

Clear == items' = EmptyBag /\ exact' = TRUE

Next ==
  \/ \E v \in Ints : Insert(v) \/ Delete(v) \/ Replace(v)
  \/ Apply(LAMBDA v : v * v) \/ Apply(LAMBDA v : v * v * v)
  \/ Clear

Spec == Init /\ [][Next]_vars
===============================================================================
