------------------------------ MODULE MCSession -------------------------------
(***************************************************************************)
(* Sessions of the interpreter of prj1.  Structures share nothing but the  *)
(* tables of their names, so a session that mixes commands on several says *)
(* no more than one that stays with the lists, with a hash table, with a   *)
(* bitmap, or with the tables.                                             *)
(***************************************************************************)
EXTENDS List, HashTable, HashBytes, Bitmap, Interpreter

\* Three values for three items, in two lists.
MCValues == 0..2

\* Values that one, two and four buckets part in different ways.
MCInputs == {-1, 1, 2, 3, 4}
Hashes   == CHOOSE h \in {[v \in -16..16 |-> hash_int(v)]} : h = h  \* evaluated once
MCHash   == Hashes

\* Two builds: longs as wide as the instructions, and twice as wide.
MCWidths == {2, 4}

VARIABLE session  \* what the commands of this session are about

session_vars == <<session, vars, hash_vars, bitmap_vars, tables_vars>>

\* Bitmaps are all there are in a session about them, and of one kind otherwise.
SessionInit ==
  /\ session \in {"lists", "hash table", "bitmap", "tables"}
  /\ Init /\ HashInit /\ BitmapInit /\ TablesInit
  /\ session # "bitmap" => ELEM_BITS = AsmBits /\ bit_cnt = 0

SessionNext ==
  /\ UNCHANGED session
  /\ \/ /\ session = "lists" /\ Next
        /\ UNCHANGED <<hash_vars, bitmap_vars, tables_vars>>
     \/ /\ session = "hash table" /\ HashNext
        /\ UNCHANGED <<vars, bitmap_vars, tables_vars>>
     \/ /\ session = "bitmap" /\ BitmapNext
        /\ UNCHANGED <<vars, hash_vars, tables_vars>>
     \/ /\ session = "tables" /\ TablesNext
        /\ UNCHANGED <<vars, hash_vars, bitmap_vars>>

SessionSpec ==
  /\ SessionInit /\ [][SessionNext]_session_vars
  /\ WF_session_vars(session = "lists" /\ Loop /\ SessionNext)
===============================================================================
