----------------------------- MODULE Interpreter -----------------------------
(***************************************************************************)
(* The command interpreter of prj1 (main.c): its three tables of named     *)
(* structures with their counts, the commands create, delete, dumpdata and *)
(* quit, and how every other command comes from a name to a structure.     *)
(* What a command then does to the structure is the matter of List,        *)
(* HashTable and Bitmap; here a structure is a number.                     *)
(***************************************************************************)
EXTENDS Naturals, FiniteSets, FiniteSetsExt

CONSTANTS
  Names,        \* the names a user gives
  NoName,       \* the name of an entry never used: the empty string
  MAX_COUNT,    \* main.c: the size of each table
  MaxMade       \* bound: structures made in a run

ASSUME TablesAssumption ==
  MAX_COUNT \in Nat \ {0} /\ MaxMade \in Nat /\ NoName \notin Names

\* The tables, in the order delete and dumpdata look them through.
Kinds == <<"list", "bitmap", "hashtable">>
KindSet == {Kinds[i] : i \in 1..3}

\* A null pointer.
Null == 0

VARIABLES
  entries,   \* LISTS, BITMAPS, HASHTABLE: for each entry itsAddress and name
  count,     \* list_cnt, bitmap_cnt, hash_cnt
  status,    \* running, quit, crashed, or beyond: an entry behind its table
             \* was written, and what the program does is not defined
  made,      \* structures made so far
  live,      \* history: the structures made by create and not yet destroyed,
             \* with their names; the earlier it was made the smaller its number
  orderly    \* history: every delete took the structure made last of its kind
             \* and no bitmap_expand went without memory

tables_vars == <<entries, count, status, made, live, orderly>>

Entry(address, name) == [itsAddress |-> address, name |-> name]

TablesInit ==
  /\ entries = [k \in KindSet |-> [i \in 1..MAX_COUNT |-> Entry(Null, NoName)]]
  /\ count = [k \in KindSet |-> 0]
  /\ status = "running" /\ made = 0
  /\ live = [k \in KindSet |-> {}]
  /\ orderly = TRUE

\* return_list_address, return_bitmap_address, return_hash_address: the first
\* entry below the count with the name; 0 stands for NULL.
Found(k, name) ==
  LET at == {i \in 1..count[k] : entries[k][i].name = name}
  IN IF at = {} THEN 0 ELSE Min(at)

-----------------------------------------------------------------------------
(* create.  The entry at the count takes the new structure, whatever the   *)
(* entry holds.                                                            *)

Created(k, name) ==
  /\ entries' = [entries EXCEPT ![k][count[k] + 1] = Entry(made + 1, name)]
  /\ count' = [count EXCEPT ![k] = @ + 1]
  /\ live' = [live EXCEPT ![k] = @ \cup {Entry(made + 1, name)}]
  /\ UNCHANGED <<status, orderly>>

\* There is no memory.  The pointer is stored before it is looked at, and the
\* name and the count stay: a null pointer for a bitmap, a header without
\* buckets for a hash table; list_init and hash_init of no header crash.
NotCreated(k) ==
  /\ \/ k = "bitmap" /\ entries' = [entries EXCEPT ![k][count[k] + 1].itsAddress = Null]
          /\ UNCHANGED status
     \/ k = "hashtable" /\ UNCHANGED status
          /\ entries' = [entries EXCEPT ![k][count[k] + 1].itsAddress = made + 1]
     \/ k \in {"list", "hashtable"} /\ status' = "crashed" /\ UNCHANGED entries
  /\ UNCHANGED <<count, live, orderly>>

Create(k, name) ==
  /\ status = "running" /\ made < MaxMade
  /\ made' = made + 1
  /\ IF count[k] < MAX_COUNT
     THEN Created(k, name) \/ NotCreated(k)
     ELSE status' = "beyond" /\ UNCHANGED <<entries, count, live, orderly>>

(* delete.  The tables after the first one that is in use are not looked   *)
(* into, whether or not the name was found in that one.                    *)

First(k) ==
  /\ count[k] > 0
  /\ \A i, j \in 1..3 : Kinds[j] = k /\ i < j => count[Kinds[i]] = 0

\* Mutant: the count stays as it is.
Removed_Counted(k, i) ==
  LET gone == entries[k][i].itsAddress IN
  /\ entries' = [entries EXCEPT ![k][i].itsAddress = Null]
  /\ count' = count
  /\ live' = [live EXCEPT ![k] = {s \in @ : s.itsAddress # gone}]
  /\ orderly' = (orderly /\ i = count[k])

\* The entry loses its structure and stays where it is; the count goes down.
Removed(k, i) ==
  LET gone == entries[k][i].itsAddress IN
  /\ entries' = [entries EXCEPT ![k][i].itsAddress = Null]
  /\ count' = [count EXCEPT ![k] = @ - 1]
  /\ live' = [live EXCEPT ![k] = {s \in @ : s.itsAddress # gone}]
  /\ orderly' = (orderly /\ i = count[k])

\* list_empty and hash_destroy crash on a null pointer, bitmap_destroy takes it.
Delete(name) ==
  /\ status = "running"
  /\ UNCHANGED made
  /\ \/ \E k \in KindSet :
          /\ First(k) /\ Found(k, name) # 0
          /\ IF k # "bitmap" /\ entries[k][Found(k, name)].itsAddress = Null
             THEN status' = "crashed" /\ UNCHANGED <<entries, count, live, orderly>>
             ELSE Removed(k, Found(k, name)) /\ UNCHANGED status
     \/ /\ \A k \in KindSet : First(k) => Found(k, name) = 0
        /\ UNCHANGED <<entries, count, status, live, orderly>>

-----------------------------------------------------------------------------
(* The commands on a structure.                                            *)

\* A name that is not found is a null pointer that every command follows.  The
\* pointer in the entry is looked at by most commands on lists and hash tables
\* (checked) and by none on bitmaps; list_empty, list_sort, list_unique,
\* list_insert_ordered, hash_empty and hash_apply follow it too.
OnStructure(k, name, checked) ==
  LET i == Found(k, name) IN
  /\ status = "running" /\ (k = "bitmap" => ~checked)
  /\ i # 0 => entries[k][i].itsAddress = Null /\ ~checked
  /\ status' = "crashed"
  /\ UNCHANGED <<entries, count, made, live, orderly>>

\* bitmap_expand puts its result into the entry: the larger copy, with the old
\* bitmap's place in the model, or NULL when there is no memory.
Expand(name) ==
  LET i == Found("bitmap", name) IN
  /\ status = "running" /\ i # 0 /\ entries["bitmap"][i].itsAddress # Null
  /\ entries' = [entries EXCEPT !["bitmap"][i].itsAddress = Null]
  /\ orderly' = FALSE
  /\ UNCHANGED <<count, status, made, live>>

\* dumpdata takes the first kind that knows the name; it looks at the pointer
\* of a list or a bitmap, and follows a hash table's before it looks.
Dumpdata(name) ==
  /\ status = "running"
  /\ Found("list", name) = 0 /\ Found("bitmap", name) = 0
  /\ Found("hashtable", name) # 0
  /\ entries["hashtable"][Found("hashtable", name)].itsAddress = Null
  /\ status' = "crashed"
  /\ UNCHANGED <<entries, count, made, live, orderly>>

Quit ==
  /\ status = "running" /\ status' = "quit"
  /\ UNCHANGED <<entries, count, made, live, orderly>>

TablesNext ==
  \/ \E name \in Names :
       \/ \E k \in KindSet :
            Create(k, name) \/ \E checked \in BOOLEAN : OnStructure(k, name, checked)
       \/ Delete(name) \/ Expand(name) \/ Dumpdata(name)
  \/ Quit

TablesSpec == TablesInit /\ [][TablesNext]_tables_vars

-----------------------------------------------------------------------------
(* Properties.                                                             *)

TablesTypeOK ==
  /\ \A k \in KindSet : DOMAIN entries[k] = 1..MAX_COUNT /\ count[k] \in 0..MAX_COUNT
  /\ made \in 0..MaxMade
  /\ status \in {"running", "quit", "crashed", "beyond"}

\* As long as every delete takes the structure made last, the tables are the
\* structures in the order they were made: each can be named, by the oldest of
\* its name, and nothing that is named is gone.  A delete out of order leaves a
\* null pointer in its entry and takes the name of one other structure instead:
\* even then a name never leads to a structure destroyed or of another name, the
\* counts of lists and hash tables are the numbers that are live, and an entry
\* behind a table is written only when as many are live as it has entries.
NamesKept ==
  /\ TablesTypeOK
  /\ \A k \in KindSet :
       /\ orderly => /\ live[k] = {entries[k][i] : i \in 1..count[k]}
                     /\ \A i, j \in 1..count[k] :
                          i < j => entries[k][i].itsAddress < entries[k][j].itsAddress
       /\ k # "bitmap" => count[k] = Cardinality(live[k])
       /\ count[k] <= Cardinality(live[k])
       /\ \A i \in 1..count[k] :
            entries[k][i].itsAddress # Null => entries[k][i] \in live[k]
  /\ status = "beyond" => \E k \in KindSet : Cardinality(live[k]) >= MAX_COUNT

\* Readme.md of prj1 says of `delete' (line 12) that it "Deletes the given data
\* structure."  A structure that return_list_address, return_bitmap_address or
\* return_hash_address finds by its name would then be found by delete, but the
\* `else if' of main.c has it look into the tables of one kind only.
DeleteDeletes ==
  status = "running" =>
    \A name \in Names :
      (\E k \in KindSet : Found(k, name) # 0)
        => \E k \in KindSet : First(k) /\ Found(k, name) # 0
=============================================================================
