------------------------------ MODULE StockStore ------------------------------
(***************************************************************************)
(* The life of stock.txt across runs of the event-driven server: main      *)
(* loads it into the tree one line at a time, the event loop changes the   *)
(* stocks and rewrites the file when the last client is gone, a connection *)
(* that fails ends the run without that, and the SIGINT handler, which     *)
(* main installs before it loads anything, replaces the file and exits.    *)
(* The server has a single thread, so the handler freezes everything else  *)
(* wherever it arrives: it is one action.                                  *)
(***************************************************************************)
EXTENDS StockTree, FiniteSets

CONSTANTS
  Files,        \* the contents stock.txt may have before the first run
  Levels,       \* the values a trade may leave a stock at (a bound)
  FopenMayFail  \* may fopen of stock.txt fail?

ASSUME StoreAssumption ==
  /\ Files # {} /\ <<>> \notin Files
  /\ Levels \subseteq Int
  /\ FopenMayFail \in BOOLEAN

VARIABLES
  file,     \* stock.txt: a sequence of lines, or NULL when it is removed
  phase,    \* where main is; "down" when no server runs
  ROOT,     \* the pointer: "null", "malloced" (never written) or "tree"
  tree,     \* what ROOT points to
  rest,     \* what fscanf has not read yet
  ledger,   \* history: the stock last recorded for every id ever sold
  kept,     \* history: the ledger when stock.txt was last written
  original, \* history: the file of the very first run
  spoilt    \* history: an fopen failed, or SIGINT came before the load ended

vars == <<file, phase, ROOT, tree, rest, ledger, kept, original, spoilt>>

Phases == {"down", "start", "opened", "load", "serve", "saving"}

IdsOf(f) == {f[k].id : k \in DOMAIN f}

FirstLine(f, id) ==
  f[CHOOSE k \in DOMAIN f : f[k].id = id /\ \A j \in 1..(k - 1) : f[j].id # id]

(***************************************************************************)
(* The file images save_new_FILE(ROOT, fp) can leave.  Walking a ROOT that *)
(* was malloc'ed and never written is undefined: the process dies with the *)
(* file empty, or the fresh block reads as zeros and one line is written.  *)
(***************************************************************************)
SavedImages ==
  CASE ROOT = "null"     -> {<<>>}
    [] ROOT = "malloced" -> {<<>>, <<[id |-> 0, stock |-> 0]>>}
    [] ROOT = "tree"     -> {save_new_FILE(tree)}

Init ==
  /\ file \in Files
  /\ original = file
  /\ ledger = [id \in IdsOf(file) |-> FirstLine(file, id).stock]
  /\ kept = ledger
  /\ phase = "start" /\ ROOT = "null" /\ tree = NoTree /\ rest = <<>>
  /\ spoilt = FALSE

\* Without a stream, fscanf is given NULL and the server dies.
OpenFile ==
  /\ phase = "start"
  /\ \/ file # NULL /\ phase' = "opened" /\ rest' = file /\ UNCHANGED spoilt
     \/ /\ file = NULL \/ FopenMayFail
        /\ phase' = "down" /\ spoilt' = TRUE /\ UNCHANGED rest
  /\ UNCHANGED <<file, ROOT, tree, ledger, kept, original>>

MallocRoot ==
  /\ phase = "opened"
  /\ phase' = "load" /\ ROOT' = "malloced"
  /\ UNCHANGED <<file, tree, rest, ledger, kept, original, spoilt>>

ScanLine ==
  /\ phase = "load" /\ rest # <<>>
  /\ tree' = LoadLine(tree, Head(rest))
  /\ rest' = Tail(rest) /\ ROOT' = "tree"
  /\ UNCHANGED <<file, phase, ledger, kept, original, spoilt>>

EndOfFile ==
  /\ phase = "load" /\ rest = <<>>
  /\ phase' = "serve"
  /\ UNCHANGED <<file, ROOT, tree, rest, ledger, kept, original, spoilt>>

\* A buy or a sell the event loop accepts.
Trade ==
  /\ phase = "serve" /\ ROOT = "tree"
  /\ \E id \in Ids(tree), n \in Levels :
       /\ find_stock(tree, id) = id
       /\ tree' = [tree EXCEPT !.stock[id] = n]
       /\ ledger' = (id :> n) @@ ledger
  /\ UNCHANGED <<file, phase, ROOT, rest, kept, original, spoilt>>

\* A connection that fails, a client too many, or an accept or a select that
\* does, ends the server by exit(0) or SIGPIPE, and nothing is saved: what was
\* traded since stock.txt was last written is gone.
ConnectionFails ==
  /\ phase = "serve"
  /\ phase' = "down" /\ ledger' = kept
  /\ UNCHANGED <<file, ROOT, tree, rest, kept, original, spoilt>>

\* Every client is gone: fopen("stock.txt", "w") truncates the file, ...
SaveOpen ==
  /\ phase = "serve"
  /\ \/ phase' = "saving" /\ file' = <<>> /\ UNCHANGED spoilt
     \/ FopenMayFail /\ phase' = "down" /\ spoilt' = TRUE /\ UNCHANGED file
  /\ UNCHANGED <<ROOT, tree, rest, ledger, kept, original>>

\* ... and fclose flushes the lines save_new_FILE printed, unless the file
\* has lost its name.
SaveClose ==
  /\ phase = "saving"
  /\ phase' = "serve"
  /\ file' \in IF file = NULL THEN {NULL} ELSE SavedImages
  /\ kept' = ledger
  /\ UNCHANGED <<ROOT, tree, rest, ledger, original, spoilt>>

(***************************************************************************)
(* remove, fopen, save_new_FILE, fclose and exit(0), with main frozen; if  *)
(* fopen fails the server goes on, without a file.  With no file to remove *)
(* the handler returns at once.  A stream of an interrupted save writes to *)
(* the removed file at exit.                                               *)
(***************************************************************************)
handle_sigint ==
  /\ phase \in Phases \ {"down"} /\ file # NULL
  /\ \/ /\ file' \in SavedImages /\ phase' = "down"
        /\ spoilt' = (spoilt \/ phase \notin {"serve", "saving"})
        /\ kept' = ledger
     \/ /\ FopenMayFail
        /\ file' = NULL /\ spoilt' = TRUE /\ UNCHANGED <<phase, kept>>
  /\ UNCHANGED <<ROOT, tree, rest, ledger, original>>

Restart ==
  /\ phase = "down"
  /\ phase' = "start" /\ ROOT' = "null" /\ tree' = NoTree /\ rest' = <<>>
  /\ UNCHANGED <<file, ledger, kept, original, spoilt>>

Next == OpenFile \/ MallocRoot \/ ScanLine \/ EndOfFile \/ Trade
        \/ ConnectionFails \/ SaveOpen \/ SaveClose \/ handle_sigint \/ Restart

Spec == Init /\ [][Next]_vars

-------------------------------------------------------------------------------
\* Every variable has its type.
TypeOK ==
  /\ phase \in Phases /\ ROOT \in {"null", "malloced", "tree"}
  /\ tree.root \in Ids(tree) \cup {NULL}
  /\ tree.left \in [Ids(tree) -> Ids(tree) \cup {NULL}]
  /\ tree.right \in [Ids(tree) -> Ids(tree) \cup {NULL}]
  /\ ledger \in [DOMAIN ledger -> Int] /\ kept \in [DOMAIN kept -> Int]
  /\ spoilt \in BOOLEAN

(***************************************************************************)
(* While main loads, a lookup finds exactly the ids of the lines read so   *)
(* far, whatever their order: insert_Node never hangs a node where         *)
(* find_stock does not look, and the tree has the type it should.  Saving  *)
(* and loading again gives the same tree, node for node: the V-L-R order   *)
(* of save_new_FILE re-inserts every parent before its children.           *)
(***************************************************************************)
SaveLoadRoundTrip == ROOT = "tree" => Load(save_new_FILE(tree)) = tree
LookupFindsLoaded ==
  /\ TypeOK /\ SaveLoadRoundTrip
  /\ phase = "load" /\ file # NULL =>
       LET read == IdsOf(SubSeq(file, 1, Len(file) - Len(rest)))
       IN  \A id \in IdsOf(file) \cup {0} :
             find_stock(tree, id) = IF id \in read THEN id ELSE NULL


(***************************************************************************)
(* Between two runs stock.txt holds, for every id it ever held and once,   *)
(* the stock the last trade left: nothing is lost by SIGINT, in the middle *)
(* of a save included, and by the restart, unless an fopen failed or SIGINT*)
(* came before the file was loaded.  A connection that fails loses the     *)
(* trades since the file was last written, and no earlier ones.            *)
(***************************************************************************)
NothingLost ==
  phase \in {"down", "start"} /\ ~spoilt =>
    /\ IdsOf(file) = IdsOf(original)
    /\ \A id \in IdsOf(original) : FirstLine(file, id).stock = ledger[id]
===============================================================================
