----------------------------- MODULE StockThreads -----------------------------
(***************************************************************************)
(* The threaded stock server: main accepts connections, counts them and    *)
(* starts a thread for each; a thread serves the lines of its client; the  *)
(* thread that leaves last rewrites stock.txt.  A step is one access to    *)
(* what threads share: an item's semaphore or left_stock, showString,      *)
(* thread_count under its mutex, stock.txt.  byte_cnt, which only a log    *)
(* line reads, is left out.                                                *)
(*                                                                         *)
(* The tree is built before the first Accept and keeps its shape, so it is *)
(* VLR, its ids in the order the recursive walks visit them.               *)
(***************************************************************************)
EXTENDS Integers, Sequences, FiniteSets

CONSTANTS
  Clients,       \* the clients, each on one connection at a time
  VLR,           \* the ids of the tree, node before left before right
  InitStock,     \* left_stock of every item as loaded
  Requests,      \* the lines clients send: records [cmd, id, count]
  Showers,       \* the clients that ever send show (a bound)
  MaxStock,      \* a bound: no client sells what has this many left
  FopenMayFail,  \* may fopen of stock.txt fail?
  CallsMayFail,  \* may malloc, accept, pthread_create, or a read, a write or
                 \* a close of a connection fail, and end the server?
  Readers,       \* the clients that read what they are sent
  NoOne          \* no client; also the string terminator, a torn file

Items == {VLR[k] : k \in DOMAIN VLR}
Lines == [id : Items, stock : Int]
Commands == {"show", "buy", "sell", "exit", "other"}

ASSUME ThreadsAssumption ==
  /\ VLR \in Seq(Int) /\ IsFiniteSet(Clients) /\ NoOne \notin Clients
  /\ \A j, k \in DOMAIN VLR : VLR[j] = VLR[k] => j = k
  /\ InitStock \in [Items -> Int] /\ MaxStock \in Int /\ Showers \subseteq Clients
  /\ Readers \subseteq Clients
  /\ Requests \subseteq [cmd : Commands, id : Int, count : Int]
  /\ NoOne \notin Lines /\ NoOne \notin Seq(Lines)
  /\ FopenMayFail \in BOOLEAN /\ CallsMayFail \in BOOLEAN

VARIABLES
  stock, sem,          \* the left_stock and the mutex of every item
  thread_count, mutex, \* thread_count_mutex: the thread that holds it
  backlog,             \* connections waiting for Accept, in order
  conn,                \* main: the connection it accepted, or NoOne
  pc, req, verdict,    \* each thread: place, line, answer to it
  reg, pos, line,      \* ... register, place in the tree, local line
  showString,          \* memory: lines and terminators
  seen,                \* history: what was in stock since a show began
  file, fp,            \* stock.txt, and the stream of a saving thread
  status               \* "up", or "exited"

treeVars == <<stock, sem, seen>>
mainVars == <<backlog, conn, thread_count, mutex>>
lineVars == <<req, verdict>>
regVars  == <<reg, pos, line>>
fileVars == <<file, fp, status>>
vars == <<treeVars, mainVars, pc, lineVars, regVars, showString, fileVars>>

-------------------------------------------------------------------------------
Closed == [at |-> "closed", buf |-> <<>>]
Opened == [at |-> "live", buf |-> <<>>]

\* The lines of a walk that reads each stock now.
Image(s) == [k \in DOMAIN VLR |-> [id |-> VLR[k], stock |-> s[VLR[k]]]]

\* What a stream leaves that writes from the start over what is there.
Overlay(old, new) == new \o SubSeq(old, Len(new) + 1, Len(old))

\* What exit(0) leaves: open streams are flushed.
Flushed == IF fp.at = "live" THEN Overlay(file, fp.buf) ELSE file

\* The C string in showString ends at the first terminator.
strlen(mem) ==
  (CHOOSE k \in DOMAIN mem :
     mem[k] = NoOne /\ \A j \in 1..(k - 1) : mem[j] # NoOne) - 1

\* strcat's copy of l and the terminator, at an offset it has scanned for.
Copied(mem, offset, l) ==
  LET len == IF Len(mem) > offset + 2 THEN Len(mem) ELSE offset + 2
  IN  [k \in 1..len |-> CASE k = offset + 1 -> l
                          [] k = offset + 2 -> NoOne
                          [] OTHER -> IF k <= Len(mem) THEN mem[k] ELSE NoOne]

\* A line that is done with, and registers that are, are reset.
NoLine == [cmd |-> "other", id |-> 0, count |-> 0]

IsTrade(r) == r.cmd \in {"buy", "sell"}

Init ==
  /\ stock = InitStock /\ sem = [i \in Items |-> 1]
  /\ thread_count = 0 /\ mutex = NoOne /\ backlog = <<>> /\ conn = NoOne
  /\ pc = [c \in Clients |-> "out"]
  /\ req = [c \in Clients |-> NoLine]
  /\ verdict = [c \in Clients |-> "none"]
  /\ reg = [c \in Clients |-> 0] /\ pos = [c \in Clients |-> 1]
  /\ line = [c \in Clients |-> NoOne]
  /\ showString = <<NoOne>> /\ seen = [c \in Clients |-> {}]
  /\ file = Image(InitStock) /\ fp = Closed /\ status = "up"

Goto(c, label) == pc' = [pc EXCEPT ![c] = label]

-------------------------------------------------------------------------------
(* Clients connect; main accepts, counts and starts a thread.              *)

Connect(c) ==
  /\ pc[c] = "out" /\ Goto(c, "backlog")
  /\ backlog' = Append(backlog, c)
  /\ UNCHANGED <<treeVars, conn, thread_count, mutex, lineVars, regVars,
                 showString, fileVars>>

Accept ==
  /\ conn = NoOne /\ backlog # <<>>
  /\ conn' = Head(backlog) /\ backlog' = Tail(backlog)
  /\ Goto(Head(backlog), "accepted")
  /\ UNCHANGED <<treeVars, thread_count, mutex, lineVars, regVars, showString,
                 fileVars>>

CountUp ==
  /\ conn # NoOne /\ pc[conn] = "accepted" /\ mutex = NoOne
  /\ thread_count' = thread_count + 1
  /\ Goto(conn, "counted")
  /\ UNCHANGED <<treeVars, backlog, conn, mutex, lineVars, regVars, showString,
                 fileVars>>

Pthread_create ==
  /\ conn # NoOne /\ pc[conn] = "counted"
  /\ Goto(conn, "readline") /\ conn' = NoOne
  /\ UNCHANGED <<treeVars, backlog, thread_count, mutex, lineVars, regVars,
                 showString, fileVars>>

\* A failed malloc, accept or pthread_create ends the process by exit(0),
\* wherever the threads are.
MainFails ==
  /\ CallsMayFail /\ (conn # NoOne => pc[conn] = "counted")
  /\ status' = "exited" /\ file' = Flushed
  /\ UNCHANGED <<treeVars, mainVars, pc, lineVars, regVars, showString, fp>>

-------------------------------------------------------------------------------
(* A thread reads a line and finds out what it asks for.                   *)

ReadLine(c) ==
  /\ pc[c] = "readline" /\ Goto(c, "dispatch")
  /\ \E r \in Requests :
       /\ r.cmd = "show" => c \in Showers
       /\ r.cmd = "sell" /\ r.id \in Items => stock[r.id] < MaxStock
       /\ req' = [req EXCEPT ![c] = r]
  /\ UNCHANGED <<treeVars, mainVars, verdict, regVars, showString, fileVars>>

EndOfInput(c) ==
  /\ pc[c] = "readline" /\ Goto(c, "close")
  /\ UNCHANGED <<treeVars, mainVars, lineVars, regVars, showString, fileVars>>

\* A failed read, write or close ends the process, by exit(0) or by SIGPIPE.
ConnFails(c) ==
  /\ CallsMayFail /\ pc[c] \in {"readline", "write", "close"}
  /\ status' = "exited" /\ file' \in {file, Flushed}
  /\ UNCHANGED <<treeVars, mainVars, pc, lineVars, regVars, showString, fp>>

\* The chain of strncmp and, for a trade, find_stock.
Dispatch(c) ==
  /\ pc[c] = "dispatch"
  /\ Goto(c, CASE req[c].cmd = "show"  -> "reset"
               [] IsTrade(req[c])      -> IF req[c].id \in Items THEN "P"
                                          ELSE "write"
               [] req[c].cmd = "exit"  -> "close"
               [] req[c].cmd = "other" -> "readline")
  /\ verdict' = [verdict EXCEPT
       ![c] = IF IsTrade(req[c]) /\ req[c].id \notin Items THEN "invalid"
              ELSE "none"]
  /\ req' = [req EXCEPT ![c] = IF @.cmd \in {"exit", "other"} THEN NoLine ELSE @]
  /\ UNCHANGED <<treeVars, mainVars, regVars, showString, fileVars>>

-------------------------------------------------------------------------------
(* buy and sell: P, the test and the load, the store, V.                   *)

\* Mutant: a taken semaphore stops nobody.
Taken_Never(i) == FALSE

Taken(i) == sem[i] = 0

P(c) ==
  /\ pc[c] = "P" /\ ~Taken(req[c].id)
  /\ sem' = [sem EXCEPT ![req[c].id] = @ - 1]
  /\ Goto(c, "test")
  /\ UNCHANGED <<stock, seen, mainVars, lineVars, regVars, showString,
                 fileVars>>

\* Mutants: a buy may take one more than there are; or all it asks for.
Short_OffByOne(r) == r.cmd = "buy" /\ stock[r.id] + 1 < r.count
Short_Never(r) == FALSE

Short(r) == r.cmd = "buy" /\ stock[r.id] < r.count

\* Mutant: the critical section is not left before there are enough.
Test_Waits(c) ==
  /\ pc[c] = "test" /\ Goto(c, IF Short(req[c]) THEN "test" ELSE "store")
  /\ reg' = [reg EXCEPT ![c] = stock[req[c].id]]
  /\ UNCHANGED <<treeVars, mainVars, lineVars, pos, line, showString,
                 fileVars>>

Test(c) ==
  /\ pc[c] = "test" /\ Goto(c, IF Short(req[c]) THEN "V" ELSE "store")
  /\ verdict' = [verdict EXCEPT ![c] = IF Short(req[c]) THEN "short" ELSE @]
  /\ reg' = [reg EXCEPT ![c] = IF Short(req[c]) THEN 0 ELSE stock[req[c].id]]
  /\ UNCHANGED <<treeVars, mainVars, req, pos, line, showString, fileVars>>

Store(c) ==
  /\ pc[c] = "store" /\ Goto(c, "V")
  /\ LET i == req[c].id
         n == IF req[c].cmd = "buy" THEN reg[c] - req[c].count
              ELSE reg[c] + req[c].count
     IN  /\ stock' = [stock EXCEPT ![i] = n]
         /\ seen' = [d \in Clients |->
                       IF seen[d] = {} THEN {}
                       ELSE seen[d] \cup {[id |-> i, stock |-> n]}]
  /\ verdict' = [verdict EXCEPT ![c] = "success"]
  /\ reg' = [reg EXCEPT ![c] = 0]
  /\ UNCHANGED <<sem, mainVars, req, pos, line, showString, fileVars>>

V(c) ==
  /\ pc[c] = "V" /\ Goto(c, "write")
  /\ sem' = [sem EXCEPT ![req[c].id] = @ + 1]
  /\ UNCHANGED <<stock, seen, mainVars, lineVars, regVars, showString,
                 fileVars>>

\* Rio_writen of the answer: the verdict, or showString.  It returns when the
\* client has read enough of it, which a client may never do.
Reply(c) ==
  /\ pc[c] = "write" /\ Goto(c, "readline")
  /\ req' = [req EXCEPT ![c] = NoLine]
  /\ verdict' = [verdict EXCEPT ![c] = "none"]
  /\ seen' = [seen EXCEPT ![c] = {}]
  /\ UNCHANGED <<stock, sem, mainVars, regVars, showString, fileVars>>

-------------------------------------------------------------------------------
(* show: empty the string, then sprintf and strcat at every node.          *)

\* Mutant: the string of the last show stays.
Emptied_Not(mem) == mem

Emptied(mem) == [mem EXCEPT ![1] = NoOne]

ResetString(c) ==
  /\ pc[c] = "reset" /\ Goto(c, IF VLR = <<>> THEN "write" ELSE "sprintf")
  /\ showString' = Emptied(showString)
  /\ seen' = [seen EXCEPT ![c] = {[id |-> i, stock |-> stock[i]] : i \in Items}]
  /\ pos' = [pos EXCEPT ![c] = 1]
  /\ UNCHANGED <<stock, sem, mainVars, lineVars, reg, line, fileVars>>

Sprintf(c) ==
  /\ pc[c] = "sprintf" /\ Goto(c, "scan")
  /\ line' = [line EXCEPT ![c] =
                [id |-> VLR[pos[c]], stock |-> stock[VLR[pos[c]]]]]
  /\ UNCHANGED <<treeVars, mainVars, lineVars, reg, pos, showString, fileVars>>

StrcatScan(c) ==
  /\ pc[c] = "scan" /\ Goto(c, "copy")
  /\ reg' = [reg EXCEPT ![c] = strlen(showString)]
  /\ UNCHANGED <<treeVars, mainVars, lineVars, pos, line, showString,
                 fileVars>>

StrcatCopy(c) ==
  /\ pc[c] = "copy"
  /\ showString' = Copied(showString, reg[c], line[c])
  /\ pos' = [pos EXCEPT ![c] = IF @ < Len(VLR) THEN @ + 1 ELSE 1]
  /\ line' = [line EXCEPT ![c] = NoOne] /\ reg' = [reg EXCEPT ![c] = 0]
  /\ Goto(c, IF pos[c] < Len(VLR) THEN "sprintf" ELSE "write")
  /\ UNCHANGED <<treeVars, mainVars, lineVars, fileVars>>

-------------------------------------------------------------------------------
(* A thread leaves: Close, count down, and the last one saves.             *)

Close(c) ==
  /\ pc[c] = "close" /\ Goto(c, "leave")
  /\ UNCHANGED <<treeVars, mainVars, lineVars, regVars, showString, fileVars>>

\* Mutant: the test is off by one, and no thread saves.
Last_Missed(count) == count = -1

Last(count) == count = 0

\* Mutant: the mutex is given back before the save.
CountDown_UnlocksFirst(c) ==
  /\ pc[c] = "leave" /\ mutex = NoOne
  /\ thread_count' = thread_count - 1
  /\ Goto(c, IF Last(thread_count') THEN "fopen" ELSE "out")
  /\ UNCHANGED <<treeVars, backlog, conn, mutex, lineVars, regVars, showString,
                 fileVars>>

CountDown(c) ==
  /\ pc[c] = "leave" /\ mutex = NoOne
  /\ thread_count' = thread_count - 1
  /\ IF Last(thread_count') THEN mutex' = c /\ Goto(c, "fopen")
                          ELSE mutex' = mutex /\ Goto(c, "out")
  /\ UNCHANGED <<treeVars, backlog, conn, lineVars, regVars, showString,
                 fileVars>>

Fopen(c) ==
  /\ pc[c] = "fopen"
  /\ \/ /\ file' = <<>> /\ fp' = Opened
        /\ Goto(c, IF VLR = <<>> THEN "fclose" ELSE "fprintf")
     \/ FopenMayFail /\ Goto(c, "unlock") /\ UNCHANGED <<file, fp>>
  /\ pos' = [pos EXCEPT ![c] = 1]
  /\ UNCHANGED <<treeVars, mainVars, lineVars, reg, line, showString, status>>

\* save_new_FILE at one node; the stream keeps the line in its buffer.
Fprintf(c) ==
  /\ pc[c] = "fprintf"
  /\ fp' = [fp EXCEPT !.buf = Append(@, [id |-> VLR[pos[c]],
                                         stock |-> stock[VLR[pos[c]]]])]
  /\ pos' = [pos EXCEPT ![c] = IF @ < Len(VLR) THEN @ + 1 ELSE 1]
  /\ Goto(c, IF pos[c] < Len(VLR) THEN "fprintf" ELSE "fclose")
  /\ UNCHANGED <<treeVars, mainVars, lineVars, reg, line, showString, file,
                 status>>

Fclose(c) ==
  /\ pc[c] = "fclose" /\ Goto(c, "unlock")
  /\ file' = Flushed /\ fp' = Closed
  /\ UNCHANGED <<treeVars, mainVars, lineVars, regVars, showString, status>>

\* Mutant: the thread that saved keeps the mutex.
Unlock_Kept(c) ==
  /\ pc[c] = "unlock" /\ Goto(c, "out")
  /\ UNCHANGED <<treeVars, mainVars, lineVars, regVars, showString, fileVars>>

Unlock(c) ==
  /\ pc[c] = "unlock" /\ Goto(c, "out")
  /\ mutex' = NoOne
  /\ UNCHANGED <<treeVars, backlog, conn, thread_count, lineVars, regVars,
                 showString, fileVars>>

-------------------------------------------------------------------------------
MainGoesOn == status = "up" /\ (Accept \/ CountUp \/ Pthread_create)

Main == MainGoesOn \/ (status = "up" /\ MainFails)

\* The steps that wait for the client.
Client(c) ==
  /\ status = "up"
  /\ \/ Connect(c) \/ ReadLine(c) \/ EndOfInput(c) \/ Reply(c)
     \/ ConnFails(c)

\* The steps a thread takes on its own.
Work(c) ==
  /\ status = "up"
  /\ \/ Dispatch(c) \/ P(c) \/ Test(c) \/ Store(c) \/ V(c)
     \/ ResetString(c) \/ Sprintf(c) \/ StrcatScan(c) \/ StrcatCopy(c)
     \/ Close(c) \/ CountDown(c) \/ Fopen(c) \/ Fprintf(c) \/ Fclose(c)
     \/ Unlock(c)

Exited == status = "exited" /\ UNCHANGED vars

Next == Main \/ (\E c \in Clients : Client(c) \/ Work(c)) \/ Exited

Spec == Init /\ [][Next]_vars

\* main and the threads go on, and an answer gets through to a client that
\* reads; nobody has to connect, to send, to leave or to read, or to fail.
FairSpec ==
  /\ Spec /\ WF_vars(MainGoesOn) /\ \A c \in Clients : WF_vars(Work(c))
  /\ \A c \in Readers : WF_vars(status = "up" /\ Reply(c))

-------------------------------------------------------------------------------
Before  == {"out", "backlog", "accepted"}
Trading == {"dispatch", "P", "test", "store", "V"}
Showing == {"reset", "sprintf", "scan", "copy"}
Counted == {"counted", "readline", "write", "close", "leave"}
           \cup Trading \cup Showing
Saving  == {"fopen", "fprintf", "fclose", "unlock"}
Labels  == Before \cup Counted \cup Saving

TreeType ==
  /\ stock \in [Items -> Int] /\ sem \in [Items -> 0..1]
  /\ seen \in [Clients -> SUBSET Lines]
MainType ==
  /\ thread_count \in Int /\ mutex \in Clients \cup {NoOne}
  /\ backlog \in Seq(Clients) /\ conn \in Clients \cup {NoOne}
PlaceType == pc \in [Clients -> Labels]
LineType ==
  /\ req \in [Clients -> [cmd : Commands, id : Int, count : Int]]
  /\ verdict \in [Clients -> {"none", "invalid", "short", "success"}]
RegType ==
  /\ reg \in [Clients -> Int] /\ pos \in [Clients -> Nat]
  /\ line \in [Clients -> Lines \cup {NoOne}]
StringType == showString \in Seq(Lines \cup {NoOne})
FileType ==
  /\ file \in Seq(Lines) /\ fp \in [at : {"closed", "live"}, buf : Seq(Lines)]
  /\ status \in {"up", "exited"}

\* Every variable has its type; a semaphore never counts beyond one.
TypeOK == /\ TreeType /\ MainType /\ PlaceType /\ LineType
          /\ RegType /\ StringType /\ FileType

(***************************************************************************)
(* As long as nobody asks for a negative count, no interleaving of buyers  *)
(* drives an item below zero: the test `left_stock < inputCnt' still holds *)
(* when the thread stores.                                                 *)
(***************************************************************************)
NoOversell ==
  (\A r \in Requests : r.count >= 0) /\ (\A i \in Items : InitStock[i] >= 0)
    => \A i \in Items : stock[i] >= 0

(***************************************************************************)
(* The value a thread is about to store is computed from what is there: no *)
(* other thread's buy or sell is overwritten.                              *)
(***************************************************************************)
NoLostUpdate == \A c \in Clients : pc[c] = "store" => reg[c] = stock[req[c].id]

(***************************************************************************)
(* While a thread saves nobody else is served: main cannot count, hence    *)
(* cannot start, a thread before the mutex is unlocked; and thread_count,  *)
(* by which the last one knows itself, is the number of connections        *)
(* counted and not yet left.                                               *)
(***************************************************************************)
CountsThreads == thread_count = Cardinality({c \in Clients : pc[c] \in Counted})
SavesAlone ==
  /\ CountsThreads
  /\ \A c \in Clients : pc[c] \in Saving =>
       /\ mutex = c /\ thread_count = 0
       /\ \A d \in Clients \ {c} : pc[d] \in Before

(***************************************************************************)
(* stock.txt is incomplete only while the last thread saves: a connection  *)
(* that fails ends the server with a whole file, whenever it fails.  What  *)
(* leaves an incomplete file for good is an exit of main during the save   *)
(* with no connection in hand: its malloc or its accept has failed.  And   *)
(* when nobody is served or saves, and fopen never failed, stock.txt is up *)
(* to date.                                                                *)
(***************************************************************************)
FileWhole ==
  DOMAIN file # DOMAIN VLR => \E c \in Clients :
    pc[c] \in Saving /\ (status = "exited" => conn = NoOne)
QuietFile ==
  ~FopenMayFail /\ (\A c \in Clients : pc[c] \in Before) => file = Image(stock)
FileKept == FileWhole /\ QuietFile

(***************************************************************************)
(* What a show answers is one line for every item, in V-L-R order, each    *)
(* with a stock the item had while the answer was put together.            *)
(***************************************************************************)
ShowWhole ==
  \A c \in Clients : pc[c] = "write" /\ req[c].cmd = "show" =>
    /\ strlen(showString) = Len(VLR)
    /\ \A k \in DOMAIN VLR : /\ showString[k].id = VLR[k]
                             /\ showString[k] \in seen[c]

-------------------------------------------------------------------------------
(* The server implements the exchange of StockExchange: every order is     *)
(* decided in one step (the failed test, the store, or the lookup that     *)
(* finds nothing), every client is told its own decision, and stock.txt is *)
(* the ledger of a moment when nobody was served.                          *)

Orders == {r \in Requests : IsTrade(r)}

Session(c) ==
  IF pc[c] \notin Counted THEN [at |-> "out"]
  ELSE IF ~IsTrade(req[c]) THEN [at |-> "idle"]
  ELSE IF verdict[c] = "none" THEN [at |-> "asked", order |-> req[c]]
  ELSE [at |-> "told", order |-> req[c], verdict |-> verdict[c]]

Book ==
  IF DOMAIN file # DOMAIN VLR THEN NoOne
  ELSE [i \in Items |-> file[CHOOSE k \in DOMAIN VLR : VLR[k] = i].stock]

Exchange == INSTANCE StockExchange WITH
  InitLedger <- InitStock, Torn <- NoOne, ledger <- stock,
  session <- [c \in Clients |-> Session(c)], book <- Book

\* Every behaviour of the server is one of the exchange.
ImplementsExchange == Exchange!Spec

-------------------------------------------------------------------------------
(***************************************************************************)
(* Main takes the backlog in order, and neither a saving thread nor those  *)
(* that leave, nor a client that never reads its answer, keep it from      *)
(* counting: every connection gets its thread, unless a call that fails    *)
(* ends the server.                                                        *)
(***************************************************************************)
Served ==
  \A c \in Clients :
    pc[c] = "backlog" ~> pc[c] = "readline" \/ status = "exited"

(***************************************************************************)
(* A thread that has its semaphore, or needs none, answers its client if   *)
(* that client reads, whether the other clients read or not; with the same *)
(* exception.                                                              *)
(***************************************************************************)
Answered ==
  \A c \in Readers :
    pc[c] \in {"test", "write"} \cup Showing
      ~> pc[c] = "readline" \/ status = "exited"
===============================================================================
