--------------------------------- MODULE List ---------------------------------
(***************************************************************************)
(* The lists of list.c under the list commands of main.c.  A heap of nodes *)
(* with next and prev: every list has a head and a tail, and every item is *)
(* a node with a value.  The commands that only move a few pointers are    *)
(* one action; sort, unique, reverse and shuffle, which loop over a list,  *)
(* are a step for each turn of their loop.                                 *)
(*                                                                         *)
(* An item no list reaches any more is never freed by the code; here it    *)
(* may be malloc'ed again, and its dead fields are reset.                  *)
(***************************************************************************)
EXTENDS Integers, SequencesExt

CONSTANTS
  Lists,   \* the lists that have been created
  Items,   \* the items memory has room for (a bound)
  Values,  \* the values of items
  NULL     \* the null pointer

head(l) == <<l, "head">>
tail(l) == <<l, "tail">>
Ends == {head(l) : l \in Lists} \cup {tail(l) : l \in Lists}
Node == Items \cup Ends

ASSUME ListAssumption ==
  /\ Values \subseteq Int /\ Values # {}
  /\ IsFiniteSet(Items) /\ Items \cap Ends = {}
  /\ NULL \notin Node \cup Lists

MaxIndex == Cardinality(Items) + 1

VARIABLES
  next, prev, \* the links of every node
  data,       \* the value of every item
  pc,         \* the loop main is in, or "command"
  L, dup,     \* the list a loop is about, and where unique puts what it removes
  e,          \* the element a loop is at: a0 of list_sort, elem of list_unique
  a0, a1b0,   \* where inplace_merge is
  b1,         \* the end of the second run
  n,          \* output_run_cnt, or the swaps a shuffle has left
  edge,       \* history: the node before the two runs that are being merged
  want        \* history: what each list should hold, NULL when nothing is said

links  == <<next, prev>>
locals == <<L, dup, e, a0, a1b0, b1, n, edge>>
vars   == <<links, data, pc, locals, want>>

-------------------------------------------------------------------------------
(* Pointers.  A heap is a record of the two link functions.                *)

heap == [next |-> next, prev |-> prev]

is_interior(h, x) == h.prev[x] # NULL /\ h.next[x] # NULL
is_tail(h, x)     == h.prev[x] # NULL /\ h.next[x] = NULL

list_begin(l) == next[head(l)]

\* The i-th element from the front; the walk stays where there is no next.
get_list_elem_via_index(l, i) ==
  LET walk[k \in 0..i] ==
        IF k = 0 THEN list_begin(l)
        ELSE IF next[walk[k - 1]] = NULL THEN walk[k - 1] ELSE next[walk[k - 1]]
  IN  walk[i]

\* The turns it takes to walk to the tail (more than there are items: never).
list_size(l) ==
  LET walk[k \in 0..MaxIndex] ==
        IF get_list_elem_via_index(l, k) = tail(l) \/ k = MaxIndex
          THEN k ELSE walk[k + 1]
  IN  walk[0]

list_empty(l) == list_begin(l) = tail(l)

list_less(x, y) == data[x] < data[y]

equal_OneSided(x, y) == ~list_less(x, y)
equal(x, y) == ~list_less(x, y) /\ ~list_less(y, x)

list_insert_OneWay(h, before, x) ==
  [h EXCEPT !.prev[x] = h.prev[before], !.next[x] = before,
            !.next[h.prev[before]] = x]
list_insert(h, before, x) ==
  LET h1 == [h EXCEPT !.prev[x] = h.prev[before], !.next[x] = before]
      h2 == [h1 EXCEPT !.next[h1.prev[before]] = x]
  IN  [h2 EXCEPT !.prev[before] = x]

list_remove(h, x) ==
  LET h1 == [h EXCEPT !.next[h.prev[x]] = h.next[x]]
  IN  [h1 EXCEPT !.prev[h1.next[x]] = h1.prev[x]]

\* FIRST up to LAST, exclusive, move to just before BEFORE.
list_splice(h, before, first, last) ==
  LET z  == h.prev[last]
      h1 == [h  EXCEPT !.next[h.prev[first]] = h.next[z]]
      h2 == [h1 EXCEPT !.prev[h1.next[z]] = h1.prev[first]]
      h3 == [h2 EXCEPT !.prev[first] = h2.prev[before]]
      h4 == [h3 EXCEPT !.next[z] = before]
      h5 == [h4 EXCEPT !.next[h4.prev[before]] = first]
  IN  [h5 EXCEPT !.prev[before] = z]

\* The end of the longest nondecreasing run that starts at x, at the latest the
\* tail, which has no next.
find_end_of_run_Strict(x) ==
  LET walk[y \in Node] ==
        IF next[y] = NULL \/ ~list_less(prev[y], y) THEN y ELSE walk[next[y]]
  IN  walk[next[x]]
find_end_of_run(x) ==
  LET walk[y \in Node] ==
        IF next[y] = NULL \/ list_less(y, prev[y]) THEN y ELSE walk[next[y]]
  IN  walk[next[x]]

\* list_max with less, list_min with greater: a later element must be better.
Best(l, better) ==
  LET walk[k \in 0..MaxIndex] ==  \* the best of the elements up to the k-th
        IF k = 0 THEN list_begin(l)
        ELSE IF <<walk[k - 1], get_list_elem_via_index(l, k)>> \in better
               THEN get_list_elem_via_index(l, k)
        ELSE walk[k - 1]
  IN  walk[MaxIndex]
list_max(l) == Best(l, {p \in Items \X Items : list_less(p[1], p[2])})
list_min(l) == Best(l, {p \in Items \X Items : list_less(p[2], p[1])})

-------------------------------------------------------------------------------
Unused == {x \in Items : next[x] = NULL}
Fresh  == CHOOSE x \in Unused : TRUE

Contents(l) ==
  [k \in 1..list_size(l) |-> data[get_list_elem_via_index(l, k - 1)]]

SetHeap(h) == next' = h.next /\ prev' = h.prev

\* Nothing points to x any more.
Dead(h, x) == [h EXCEPT !.next[x] = NULL, !.prev[x] = NULL]

Told(l, s) == want' = [want EXCEPT ![l] = s]

Command  == pc = "command"
NoLocals == L' = NULL /\ dup' = NULL /\ e' = NULL /\ a0' = NULL /\ a1b0' = NULL
            /\ b1' = NULL /\ n' = 0 /\ edge' = NULL
Return   == pc' = "command" /\ NoLocals
AssertionFails == pc' = "aborted" /\ UNCHANGED <<links, data, locals, want>>

Init ==
  /\ next = [x \in Node |-> IF \E l \in Lists : x = head(l)
                             THEN tail(CHOOSE l \in Lists : x = head(l)) ELSE NULL]
  /\ prev = [x \in Node |-> IF \E l \in Lists : x = tail(l)
                             THEN head(CHOOSE l \in Lists : x = tail(l)) ELSE NULL]
  /\ data = [x \in Items |-> 0]
  /\ pc = "command"
  /\ L = NULL /\ dup = NULL /\ e = NULL /\ a0 = NULL /\ a1b0 = NULL /\ b1 = NULL
  /\ n = 0 /\ edge = NULL
  /\ want = [l \in Lists |-> <<>>]

-------------------------------------------------------------------------------
(* Commands without a loop that changes anything.                          *)

\* A new item with value v goes before the node x of list l, i-th from 0.
NewItem(l, x, i, v) ==
  /\ Unused # {}
  /\ SetHeap(list_insert(heap, x, Fresh))
  /\ data' = [data EXCEPT ![Fresh] = v]
  /\ Told(l, InsertAt(Contents(l), i + 1, v))
  /\ UNCHANGED <<pc, locals>>

list_push_front(l, v) == Command /\ NewItem(l, list_begin(l), 0, v)
list_push_back(l, v)  == Command /\ NewItem(l, tail(l), list_size(l), v)

\* list_next of the tail fails its assertion.
list_insert_at(l, i, v) ==
  /\ Command
  /\ \/ i <= list_size(l) /\ NewItem(l, get_list_elem_via_index(l, i), i, v)
     \/ i > list_size(l) /\ AssertionFails

list_insert_ordered(l, v) ==
  /\ Command
  /\ LET s == Contents(l)
         i == CHOOSE k \in 0..Len(s) :
                /\ k < Len(s) => v < s[k + 1]
                /\ \A j \in 1..k : ~(v < s[j])
     IN  NewItem(l, get_list_elem_via_index(l, i), i, v)

Unlink(l, x, i) ==
  /\ SetHeap(Dead(list_remove(heap, x), x))
  /\ data' = [data EXCEPT ![x] = 0]
  /\ Told(l, RemoveAt(Contents(l), i + 1))
  /\ UNCHANGED <<pc, locals>>

list_pop_front(l) == Command /\ ~list_empty(l) /\ Unlink(l, list_begin(l), 0)
list_pop_back(l)  == Command /\ ~list_empty(l)
                     /\ Unlink(l, prev[tail(l)], list_size(l) - 1)

list_remove_at(l, i) ==
  /\ Command
  /\ \/ i < list_size(l) /\ Unlink(l, get_list_elem_via_index(l, i), i)
     \/ i >= list_size(l) /\ AssertionFails

\* list_front and list_back assert that there is something to return.
list_front_or_back(l) == Command /\ list_empty(l) /\ AssertionFails

(***************************************************************************)
(* list_splice to i from j1 to j2 asserts that FIRST and the element       *)
(* before LAST are interior, and no more: it trusts its caller that they   *)
(* are a range, and that BEFORE is not in it.  After a command that breaks *)
(* this, what the lists are is not followed.                               *)
(***************************************************************************)
list_splice_at(to, i, from, j1, j2) ==
  LET before == get_list_elem_via_index(to, i)
      first  == get_list_elem_via_index(from, j1)
      last   == get_list_elem_via_index(from, j2)
      proper == j1 <= j2 /\ (to = from => i \notin j1..(j2 - 1))
      s      == Contents(from)
      moved  == SubSeq(s, j1 + 1, j2)
      left   == SubSeq(s, 1, j1) \o SubSeq(s, j2 + 1, Len(s))
      k      == IF to = from /\ i >= j2 THEN i - (j2 - j1) ELSE i
      base   == IF to = from THEN left ELSE Contents(to)
  IN  /\ Command
      /\ \/ /\ i > list_size(to) \/ j1 > list_size(from) \/ j2 > list_size(from)
            /\ AssertionFails
         \/ /\ i <= list_size(to) /\ j1 <= list_size(from) /\ j2 <= list_size(from)
            /\ first # last
            /\ ~is_interior(heap, first) \/ ~is_interior(heap, prev[last])
            /\ AssertionFails
         \/ /\ i <= list_size(to) /\ j1 <= list_size(from) /\ j2 <= list_size(from)
            /\ first # last
            /\ is_interior(heap, first) /\ is_interior(heap, prev[last])
            /\ SetHeap(list_splice(heap, before, first, last))
            /\ pc' = IF proper THEN "command" ELSE "corrupt"
            /\ want' = IF proper
                         THEN [want EXCEPT
                                 ![from] = left,
                                 ![to] = SubSeq(base, 1, k) \o moved
                                         \o SubSeq(base, k + 1, Len(base))]
                         ELSE want
            /\ UNCHANGED <<data, locals>>

\* The values change places, the nodes do not.
Swap(l, i, j) ==
  LET x == get_list_elem_via_index(l, i)
      y == get_list_elem_via_index(l, j)
  IN  /\ data' = [data EXCEPT ![x] = data[y], ![y] = data[x]]
      /\ Told(l, [Contents(l) EXCEPT ![i + 1] = Contents(l)[j + 1],
                                     ![j + 1] = Contents(l)[i + 1]])

\* The tail is an element to list_swap, with whatever lies behind it as data.
list_swap(l, i, j) ==
  /\ Command
  /\ \/ /\ i < list_size(l) /\ j < list_size(l)
        /\ Swap(l, i, j) /\ UNCHANGED <<links, pc, locals>>
     \/ /\ i > list_size(l) \/ j > list_size(l)
        /\ AssertionFails
     \/ /\ i <= list_size(l) /\ j <= list_size(l) /\ i # j
        /\ list_size(l) \in {i, j}
        /\ \E v \in Values :
             data' = [data EXCEPT ![get_list_elem_via_index(l, IF i < j THEN i ELSE j)] = v]
        /\ pc' = "corrupt" /\ UNCHANGED <<links, locals, want>>

-------------------------------------------------------------------------------
(* list_reverse: swap the links of every element, then those at the ends.  *)

list_reverse(l) ==
  /\ Command /\ ~list_empty(l)
  /\ pc' = "reverse" /\ L' = l /\ e' = list_begin(l)
  /\ Told(l, Reverse(Contents(l)))
  /\ UNCHANGED <<links, data, dup, a0, a1b0, b1, n, edge>>

ReverseStep ==
  /\ pc = "reverse" /\ e # tail(L)
  /\ next' = [next EXCEPT ![e] = prev[e]]
  /\ prev' = [prev EXCEPT ![e] = next[e]]
  /\ e' = prev'[e]
  /\ UNCHANGED <<data, pc, L, dup, a0, a1b0, b1, n, edge, want>>

\* swap(&head.next, &tail.prev), then swap(&head.next->prev, &tail.prev->next)
ReverseEnds ==
  LET first == prev[tail(L)]
      last  == next[head(L)]
  IN  /\ pc = "reverse" /\ e = tail(L)
      /\ next' = [next EXCEPT ![head(L)] = first, ![last] = prev[first]]
      /\ prev' = [prev EXCEPT ![tail(L)] = last, ![first] = next[last]]
      /\ Return /\ UNCHANGED <<data, want>>

-------------------------------------------------------------------------------
(* list_sort: passes over the list that merge two runs at a time.          *)

\* The values of s from the smallest to the largest; Place is where the k-th goes.
Place(s, k) ==
  Cardinality({j \in DOMAIN s : s[j] < s[k] \/ (s[j] = s[k] /\ j <= k)})
Sorted(s) == [i \in DOMAIN s |-> s[CHOOSE k \in DOMAIN s : Place(s, k) = i]]

list_sort(l) ==
  /\ Command
  /\ pc' = "run" /\ L' = l /\ e' = list_begin(l) /\ n' = 0
  /\ Told(l, Sorted(Contents(l)))
  /\ UNCHANGED <<links, data, dup, a0, a1b0, b1, edge>>

\* The next two runs, A0...A1B0 and A1B0...B1, are found.
FindRuns ==
  LET second == find_end_of_run(e)
  IN  /\ pc = "run" /\ e # tail(L) /\ second # tail(L)
      /\ n' = 1 + n
      /\ a0' = e /\ a1b0' = second /\ b1' = find_end_of_run(second)
      /\ edge' = prev[e]
      /\ pc' = "merge"
      /\ UNCHANGED <<links, data, L, dup, e, want>>

MergeSkip ==
  /\ pc = "merge" /\ a0 # a1b0 /\ a1b0 # b1
  /\ ~list_less(a1b0, a0)
  /\ a0' = next[a0]
  /\ UNCHANGED <<links, data, pc, L, dup, e, a1b0, b1, n, edge, want>>

MergeMove ==
  /\ pc = "merge" /\ a0 # a1b0 /\ a1b0 # b1
  /\ list_less(a1b0, a0)
  /\ a1b0' = next[a1b0]
  /\ SetHeap(list_splice(heap, a0, a1b0, next[a1b0]))
  /\ UNCHANGED <<data, pc, L, dup, e, a0, b1, n, edge, want>>

MergeDone ==
  /\ pc = "merge" /\ (a0 = a1b0 \/ a1b0 = b1)
  /\ pc' = "run" /\ e' = b1 /\ a0' = NULL /\ a1b0' = NULL /\ b1' = NULL
  /\ edge' = NULL
  /\ UNCHANGED <<links, data, L, dup, n, want>>

\* The end of a pass: at the tail, or with one run left, which counts too.
PassEnds(runs) ==
  /\ \/ runs > 1 /\ e' = list_begin(L) /\ n' = 0
        /\ UNCHANGED <<pc, L, dup, a0, a1b0, b1, edge>>
     \/ runs <= 1 /\ Return
  /\ UNCHANGED <<links, data, want>>

PassDone ==
  /\ pc = "run"
  /\ \/ e = tail(L) /\ PassEnds(n)
     \/ e # tail(L) /\ find_end_of_run(e) = tail(L) /\ PassEnds(n + 1)

-------------------------------------------------------------------------------
(* list_unique, with or without a list for what it removes.                *)

\* The values of s that are, or are not, those of their neighbours before them.
Repeats(s, repeated) ==
  LET chosen[k \in 0..Len(s)] ==
        IF k = 0 THEN <<>>
        ELSE IF repeated = (k > 1 /\ s[k] = s[k - 1]) THEN Append(chosen[k - 1], s[k])
        ELSE chosen[k - 1]
  IN  chosen[Len(s)]

list_unique(l, d) ==
  /\ Command /\ ~list_empty(l)
  /\ pc' = "unique" /\ L' = l /\ dup' = d /\ e' = list_begin(l)
  /\ LET s == Contents(l)
         u == [want EXCEPT ![l] = Repeats(s, FALSE)]
     IN  want' = CASE d = NULL -> u
                   [] d = l    -> [want EXCEPT ![l] = NULL]
                   [] OTHER    -> [u EXCEPT ![d] = Contents(d) \o Repeats(s, TRUE)]
  /\ UNCHANGED <<links, data, a0, a1b0, b1, n, edge>>

UniqueStep ==
  LET x    == next[e]
      gone == list_remove(heap, x)
      same == equal(e, x)
  IN  /\ pc = "unique" /\ x # tail(L)
      /\ \/ /\ same /\ dup # NULL
            /\ SetHeap(list_insert(gone, tail(dup), x))
            /\ UNCHANGED <<data, e>>
         \/ /\ same /\ dup = NULL
            /\ SetHeap(Dead(gone, x)) /\ data' = [data EXCEPT ![x] = 0]
            /\ UNCHANGED e
         \/ ~same /\ e' = x /\ UNCHANGED <<links, data>>
      /\ UNCHANGED <<pc, L, dup, a0, a1b0, b1, n, edge, want>>

UniqueDone ==
  /\ pc = "unique" /\ next[e] = tail(L)
  /\ Return /\ UNCHANGED <<links, data, want>>

-------------------------------------------------------------------------------
(***************************************************************************)
(* list_shuffle draws how many swaps to make until it is not 0, modulo the *)
(* size: with a single element it draws for ever.  With more the draws end.*)
(***************************************************************************)
list_shuffle(l) ==
  /\ Command /\ ~list_empty(l)
  /\ \/ list_size(l) = 1 /\ pc' = "draws" /\ n' = 0
     \/ n' \in 1..(list_size(l) - 1) /\ pc' = "shuffle"
  /\ L' = l
  /\ UNCHANGED <<links, data, dup, e, a0, a1b0, b1, edge, want>>

ShuffleStep ==
  /\ pc = "shuffle" /\ n > 0
  /\ n' = n - 1
  /\ \E i, j \in 0..(list_size(L) - 1) : Swap(L, i, j)
  /\ UNCHANGED <<links, pc, L, dup, e, a0, a1b0, b1, edge>>

ShuffleDone ==
  /\ pc = "shuffle" /\ n = 0
  /\ Return /\ UNCHANGED <<links, data, want>>

-------------------------------------------------------------------------------
Loop == ReverseStep \/ ReverseEnds
        \/ FindRuns \/ MergeSkip \/ MergeMove \/ MergeDone \/ PassDone
        \/ UniqueStep \/ UniqueDone \/ ShuffleStep \/ ShuffleDone

Next ==
  \/ \E l \in Lists, v \in Values :
       \/ list_push_front(l, v) \/ list_push_back(l, v) \/ list_insert_ordered(l, v)
       \/ \E i \in 0..MaxIndex : list_insert_at(l, i, v)
  \/ \E l \in Lists :
       \/ list_pop_front(l) \/ list_pop_back(l) \/ list_front_or_back(l)
       \/ list_reverse(l) \/ list_sort(l) \/ list_shuffle(l)
       \/ \E d \in Lists \cup {NULL} : list_unique(l, d)
       \/ \E i \in 0..MaxIndex : list_remove_at(l, i)
       \/ \E i, j \in 0..MaxIndex : list_swap(l, i, j)
  \/ \E to, from \in Lists, i, j1, j2 \in 0..MaxIndex :
       list_splice_at(to, i, from, j1, j2)
  \/ Loop

Spec == Init /\ [][Next]_vars /\ WF_vars(Loop)

-------------------------------------------------------------------------------
\* Every variable has its type.
TypeOK ==
  /\ next \in [Node -> Node \cup {NULL}] /\ prev \in [Node -> Node \cup {NULL}]
  /\ data \in [Items -> Values \cup {0}]
  /\ pc \in {"command", "reverse", "run", "merge", "unique", "draws", "shuffle",
             "aborted", "corrupt"}
  /\ L \in Lists \cup {NULL} /\ dup \in Lists \cup {NULL}
  /\ {e, a0, a1b0, b1, edge} \subseteq Node \cup {NULL}
  /\ n \in 0..MaxIndex

(***************************************************************************)
(* Whatever the commands so far, and at every turn of their loops but      *)
(* those of list_reverse, the links of each list agree in both directions  *)
(* from its head to its tail, and no item is in two lists or, linked, in   *)
(* none; no cursor of a loop leaves them.  At every turn of a merge, what  *)
(* list.c asserts of it: the rest of either run is sorted.  And what makes *)
(* it a merge: what is merged so far, from the edge of the pair to A0, is  *)
(* sorted and not greater than anything that follows up to B1.             *)
(***************************************************************************)
Members(l) == {get_list_elem_via_index(l, k) : k \in 0..MaxIndex} \ {tail(l)}
Whole ==
  /\ \A l \in Lists : /\ prev[head(l)] = NULL /\ next[tail(l)] = NULL
                      /\ list_size(l) < MaxIndex
                      /\ Members(l) \subseteq Items
  /\ \A x \in Node : next[x] # NULL => prev[next[x]] = x
  /\ \A l, m \in Lists : l # m => Members(l) \cap Members(m) = {}
  /\ UNION {Members(l) : l \in Lists} = Items \ Unused
Span(x, y) == \* the nodes from x to y, exclusive
  LET walk[z \in Node] == IF z = y \/ next[z] = NULL THEN {} ELSE {z} \cup walk[next[z]]
  IN  walk[x]
is_sorted(x, y) ==
  \A z \in Span(x, y) : next[z] # y => ~list_less(next[z], z)
MergeSorted ==
  /\ is_sorted(a0, a1b0) /\ is_sorted(a1b0, b1)
  /\ a1b0 \in Span(a0, b1) \cup {b1}
  /\ is_sorted(next[edge], a0)
  /\ \A x \in Span(next[edge], a0), y \in Span(a0, b1) : ~list_less(y, x)
Linked ==
  /\ TypeOK
  /\ pc \notin {"reverse", "corrupt"} => Whole
  /\ pc = "merge" => MergeSorted

(***************************************************************************)
(* When a command is over every list holds what the command, understood as *)
(* one on sequences, makes of what the lists held before: sort sorts,      *)
(* unique keeps one of each group of equal neighbours and appends the      *)
(* others to the second list, splice moves a range, and so on.  What       *)
(* list_max and list_min then return is, of the elements with the largest  *)
(* and the smallest value, the one that comes first.                       *)
(***************************************************************************)
Extremes(l) ==
  LET s == Contents(l)
      place(x) == CHOOSE k \in DOMAIN s : get_list_elem_via_index(l, k - 1) = x
      i == place(list_max(l))
      j == place(list_min(l))
  IN  \A k \in DOMAIN s : /\ s[k] <= s[i] /\ (k < i => s[k] < s[i])
                          /\ s[k] >= s[j] /\ (k < j => s[k] > s[j])
DoesAsTold ==
  pc = "command" => \A l \in Lists : /\ want[l] # NULL => Contents(l) = want[l]
                                     /\ ~list_empty(l) => Extremes(l)

(***************************************************************************)
(* Sort, reverse, shuffle, and unique with another list or none, come to   *)
(* their end.  The two loops that may not: shuffle of one element, and     *)
(* unique of a list onto itself, which may meet again what it appended.    *)
(***************************************************************************)
Looping == pc \in {"reverse", "run", "merge", "shuffle"} \/ (pc = "unique" /\ dup # L)
CommandsEnd == Looping ~> (pc = "command")
===============================================================================
