----------------------------- MODULE StockEvents -----------------------------
(***************************************************************************)
(* The event-driven stock server: one thread that waits in select for the  *)
(* listening socket and the clients of its pool, accepts at most one       *)
(* connection a round and then serves one line of each ready client.  The  *)
(* clients go on sending meanwhile.                                        *)
(*                                                                         *)
(* A descriptor is the client it is connected to; the listening one is     *)
(* NoOne.  The tree is a function on its ids.  What a line says is chosen  *)
(* when the server reads it.  byte_cnt, which only a log line reads, is    *)
(* left out.                                                               *)
(***************************************************************************)
EXTENDS Integers, Sequences, FiniteSets

CONSTANTS
  Clients,       \* the clients, each on one connection at a time
  Items,         \* the ids of the tree
  InitStock,     \* left_stock of every item as loaded
  Requests,      \* the lines clients send: records [cmd, id, count]
  Slots,         \* FD_SETSIZE (a bound)
  MaxInbox,      \* how many lines a socket holds (a bound)
  MaxStock,      \* a bound: no client sells what has this many left
  Halves,        \* do clients send a line in two writes?
  MayFail,       \* may fopen, a read or a write fail?
  Readers,       \* the clients that read what they are sent
  NoOne          \* no client

Commands == {"show", "buy", "sell", "exit", "other"}

ASSUME EventsAssumption ==
  /\ IsFiniteSet(Clients) /\ NoOne \notin Clients /\ Items \subseteq Int
  /\ InitStock \in [Items -> Int] /\ MaxStock \in Int
  /\ Requests \subseteq [cmd : Commands, id : Int, count : Int]
  /\ Slots \in Nat \ {0} /\ MaxInbox \in Nat \ {0}
  /\ Halves \in BOOLEAN /\ MayFail \in BOOLEAN /\ Readers \subseteq Clients

VARIABLES
  stock, file, showString,   \* the tree, stock.txt, the string of show
  clientfd, maxi, read_set,  \* the pool: slots, highest used, descriptors
  ready_set, nready,         \* what select returned, what is left of it
  pc, i, req, verdict,       \* main: place, slot, line, answer to it
  backlog, link,             \* connections waiting for Accept; their state
  inbox, half, eof,          \* each socket: lines, part of a line, closed
  lastLeft,                  \* history: how the last client left
  status                     \* "up", or "exited"

treeVars   == <<stock, file, showString>>
poolVars   == <<clientfd, maxi, read_set>>
selectVars == <<ready_set, nready>>
mainVars   == <<pc, i, req, verdict>>
listenVars == <<backlog, link>>
socketVars == <<inbox, half, eof>>
serverVars == <<treeVars, poolVars, selectVars, mainVars>>
vars == <<serverVars, listenVars, socketVars, lastLeft, status>>

-------------------------------------------------------------------------------
NoLine == [cmd |-> "other", id |-> 0, count |-> 0]
SlotSet == 0..(Slots - 1)
IsTrade(r) == r.cmd \in {"buy", "sell"}

Init ==
  /\ stock = InitStock /\ file = InitStock /\ showString = [j \in {} |-> 0]
  /\ clientfd = [j \in SlotSet |-> NoOne] /\ maxi = -1 /\ read_set = {}
  /\ ready_set = {} /\ nready = 0
  /\ pc = "select" /\ i = 0 /\ req = NoLine /\ verdict = "none"
  /\ backlog = <<>> /\ link = [c \in Clients |-> "out"]
  /\ inbox = [c \in Clients |-> <<>>] /\ half = [c \in Clients |-> "none"]
  /\ eof = [c \in Clients |-> FALSE]
  /\ lastLeft = "eof" /\ status = "up"

-------------------------------------------------------------------------------
(* What clients do.  They may write before they are accepted.              *)

Connect(c) ==
  /\ link[c] = "out"
  /\ link' = [link EXCEPT ![c] = "backlog"] /\ backlog' = Append(backlog, c)
  /\ UNCHANGED <<serverVars, socketVars, lastLeft>>

Writes(c) == link[c] # "out" /\ ~eof[c] /\ Len(inbox[c]) < MaxInbox

SendLine(c) ==
  /\ Writes(c) /\ half[c] = "none"
  /\ inbox' = [inbox EXCEPT ![c] = Append(@, "line")]
  /\ UNCHANGED <<serverVars, listenVars, half, eof, lastLeft>>

SendHalf(c) ==
  /\ Halves /\ Writes(c) /\ half[c] = "none"
  /\ half' = [half EXCEPT ![c] = "sent"]
  /\ UNCHANGED <<serverVars, listenVars, inbox, eof, lastLeft>>

\* The beginning of the line may be gone by now.
SendRest(c) ==
  /\ Writes(c) /\ half[c] # "none"
  /\ inbox' = [inbox EXCEPT
                 ![c] = Append(@, IF half[c] = "sent" THEN "line" ELSE "rest")]
  /\ half' = [half EXCEPT ![c] = "none"]
  /\ UNCHANGED <<serverVars, listenVars, eof, lastLeft>>

Hangup(c) ==
  /\ link[c] # "out" /\ ~eof[c]
  /\ eof' = [eof EXCEPT ![c] = TRUE]
  /\ UNCHANGED <<serverVars, listenVars, inbox, half, lastLeft>>

-------------------------------------------------------------------------------
(* A round: select, one Accept, then the slots in order.                   *)

Readable(c) == inbox[c] # <<>> \/ half[c] = "sent" \/ eof[c]

\* Mutant: a connection is accepted when no client of the pool is ready.
Accepts_Last(ready) == ready = {NoOne}
Accepts(ready) == NoOne \in ready

Select ==
  /\ pc = "select"
  /\ LET ready == {c \in read_set : Readable(c)}
                  \cup (IF backlog # <<>> THEN {NoOne} ELSE {})
     IN  /\ ready # {}
         /\ ready_set' = ready /\ nready' = Cardinality(ready)
         /\ pc' = IF Accepts(ready) THEN "accept" ELSE "check"
  /\ i' = 0
  /\ UNCHANGED <<treeVars, poolVars, req, verdict, listenVars, socketVars,
                 lastLeft, status>>

Free == {j \in SlotSet : clientfd[j] = NoOne}

\* Mutant: the listening descriptor is never taken off the count.
Counted_Not(n) == n
Counted(n) == n - 1

add_client ==
  LET slot == CHOOSE j \in Free : \A k \in Free : j <= k
      c == Head(backlog)
  IN  /\ pc = "accept" /\ Free # {}
      /\ backlog' = Tail(backlog) /\ link' = [link EXCEPT ![c] = "open"]
      /\ nready' = Counted(nready)
      /\ clientfd' = [clientfd EXCEPT ![slot] = c]
      /\ read_set' = read_set \cup {c}
      /\ maxi' = IF slot > maxi THEN slot ELSE maxi
      /\ pc' = "check"
      /\ UNCHANGED <<treeVars, ready_set, i, req, verdict, socketVars, lastLeft,
                     status>>

\* No slot, or no descriptor, is left: app_error or unix_error, and exit.
TooManyClients ==
  /\ pc = "accept" /\ Free = {}
  /\ status' = "exited"
  /\ UNCHANGED <<serverVars, listenVars, socketVars, lastLeft>>

\* Mutant: the highest slot is left out.
Turns_OffByOne(k) == k < maxi /\ nready > 0
Turns(k) == k <= maxi /\ nready > 0

RoundEnd ==
  /\ pc = "check" /\ ~Turns(i)
  /\ pc' = "select" /\ ready_set' = {} /\ nready' = 0 /\ i' = 0
  /\ UNCHANGED <<treeVars, poolVars, req, verdict, listenVars, socketVars,
                 lastLeft, status>>

IsReady(c) == c # NoOne /\ c \in ready_set

NextSlot ==
  /\ pc = "check" /\ Turns(i) /\ ~IsReady(clientfd[i])
  /\ i' = i + 1
  /\ UNCHANGED <<treeVars, poolVars, selectVars, pc, req, verdict, listenVars,
                 socketVars, lastLeft, status>>

At(c) == pc = "check" /\ Turns(i) /\ IsReady(clientfd[i]) /\ c = clientfd[i]

Sendable(r) == r.cmd = "sell" /\ r.id \in Items => stock[r.id] < MaxStock

\* What is left of a line whose beginning is gone is no command.
Says(l) == IF l = "rest" THEN {NoLine} ELSE {r \in Requests : Sendable(r)}

(***************************************************************************)
(* Rio_readlineb works on a copy of clientrio[i], which is always empty:   *)
(* one read takes all the socket holds, the first line is served, and what *)
(* follows it goes with the copy.                                          *)
(***************************************************************************)
ReadLine(c) ==
  /\ At(c) /\ inbox[c] # <<>>
  /\ req' \in Says(Head(inbox[c])) /\ pc' = "serve" /\ nready' = nready - 1
  /\ inbox' = [inbox EXCEPT ![c] = <<>>]
  /\ half' = [half EXCEPT ![c] = IF @ = "sent" THEN "lost" ELSE @]
  /\ UNCHANGED <<treeVars, poolVars, ready_set, i, verdict, listenVars, eof,
                 lastLeft, status>>

\* A line that ends with the connection is served: it may be cut short.
ReadCutLine(c) ==
  /\ At(c) /\ inbox[c] = <<>> /\ half[c] = "sent" /\ eof[c]
  /\ req' \in Says("line") \cup Says("rest")
  /\ pc' = "serve" /\ nready' = nready - 1
  /\ half' = [half EXCEPT ![c] = "none"]
  /\ UNCHANGED <<treeVars, poolVars, ready_set, i, verdict, listenVars, inbox,
                 eof, lastLeft, status>>

\* Mutants: the slot that is leaving still counts; the highest never does.
AllClosed_TooSoon(fds) == \A j \in SlotSet : j <= maxi => clientfd[j] = NoOne
AllClosed_OffByOne(fds) == \A j \in SlotSet : j < maxi => fds[j] = NoOne

AllClosed(fds) == \A j \in SlotSet : j <= maxi => fds[j] = NoOne

\* Close, FD_CLR and the free slot; what the socket holds is gone.
CloseSlot(c, how) ==
  /\ clientfd' = [clientfd EXCEPT ![i] = NoOne]
  /\ read_set' = read_set \ {c}
  /\ link' = [link EXCEPT ![c] = "out"]
  /\ inbox' = [inbox EXCEPT ![c] = <<>>] /\ half' = [half EXCEPT ![c] = "none"]
  /\ eof' = [eof EXCEPT ![c] = FALSE]
  /\ lastLeft' = how

ReadEof(c) ==
  /\ At(c) /\ inbox[c] = <<>> /\ half[c] # "sent" /\ eof[c]
  /\ CloseSlot(c, "eof") /\ nready' = nready - 1 /\ i' = i + 1
  /\ pc' = IF AllClosed(clientfd') THEN "save" ELSE "check"
  /\ UNCHANGED <<treeVars, maxi, ready_set, req, verdict, backlog,
                 status>>

Save ==
  /\ pc = "save" /\ file' = stock /\ pc' = "check"
  /\ UNCHANGED <<stock, showString, poolVars, selectVars, i, req, verdict,
                 listenVars, socketVars, lastLeft, status>>

-------------------------------------------------------------------------------
(* The line: it is decided, then answered.                                 *)

Current(c) == c = clientfd[i]

Show ==
  /\ pc = "serve" /\ req.cmd = "show"
  /\ showString' = stock /\ pc' = "answer"
  /\ UNCHANGED <<stock, file, poolVars, selectVars, i, req, verdict, listenVars,
                 socketVars, lastLeft, status>>

Short(r) == r.cmd = "buy" /\ stock[r.id] < r.count

Trade ==
  /\ pc = "serve" /\ IsTrade(req) /\ pc' = "answer"
  /\ LET n == IF req.cmd = "buy" THEN - req.count ELSE req.count
     IN  \/ /\ req.id \notin Items
            /\ verdict' = "invalid" /\ stock' = stock
         \/ /\ req.id \in Items /\ Short(req)
            /\ verdict' = "short" /\ stock' = stock
         \/ /\ req.id \in Items /\ ~Short(req)
            /\ verdict' = "success"
            /\ stock' = [stock EXCEPT ![req.id] = @ + n]
  /\ UNCHANGED <<file, showString, poolVars, selectVars, i, req, listenVars,
                 socketVars, lastLeft, status>>

\* Exit closes the connection as EOF does, but never saves.
Exit(c) ==
  /\ pc = "serve" /\ req.cmd = "exit" /\ Current(c)
  /\ CloseSlot(c, "exit") /\ req' = NoLine
  /\ pc' = "check" /\ i' = i + 1
  /\ UNCHANGED <<treeVars, maxi, selectVars, verdict, backlog, status>>

Ignore ==
  /\ pc = "serve" /\ req.cmd = "other"
  /\ pc' = "check" /\ i' = i + 1
  /\ UNCHANGED <<treeVars, poolVars, selectVars, req, verdict, listenVars,
                 socketVars, lastLeft, status>>

\* Rio_writen of the answer.  It returns when the client has read enough of
\* it, which a client may never do: the server waits for it till then.
Answer ==
  /\ pc = "answer"
  /\ pc' = "check" /\ i' = i + 1 /\ req' = NoLine /\ verdict' = "none"
  /\ UNCHANGED <<treeVars, poolVars, selectVars, listenVars, socketVars,
                 lastLeft, status>>

\* A read or a write that fails ends the server, and so does fopen here.
Fails ==
  /\ MayFail
  /\ \/ pc = "check" /\ Turns(i) /\ IsReady(clientfd[i])
     \/ pc \in {"answer", "save"}
  /\ status' = "exited"
  /\ UNCHANGED <<serverVars, listenVars, socketVars, lastLeft>>

-------------------------------------------------------------------------------
Client(c) ==
  /\ status = "up" /\ UNCHANGED status
  /\ Connect(c) \/ SendLine(c) \/ SendHalf(c) \/ SendRest(c) \/ Hangup(c)

Server ==
  /\ status = "up"
  /\ \/ Select \/ add_client \/ TooManyClients \/ RoundEnd \/ NextSlot \/ Save
     \/ Show \/ Trade \/ Ignore
     \/ \E c \in Clients :
          ReadLine(c) \/ ReadCutLine(c) \/ ReadEof(c) \/ Exit(c)

Exited == status = "exited" /\ UNCHANGED vars

Next == Server \/ (\E c \in Clients : Client(c))
        \/ (status = "up" /\ (Answer \/ Fails)) \/ Exited

Spec == Init /\ [][Next]_vars

\* The server runs, clients end the lines they have begun, and an answer gets
\* through to a client that reads; the other clients need not read theirs.
FairSpec ==
  /\ Spec /\ WF_vars(Server)
  /\ \A c \in Clients : WF_vars(status = "up" /\ UNCHANGED status /\ SendRest(c))
  /\ WF_vars(status = "up" /\ Answer /\ clientfd[i] \in Readers)

-------------------------------------------------------------------------------
\* Every variable has its type.
TypeOK ==
  /\ stock \in [Items -> Int] /\ file \in [Items -> Int]
  /\ clientfd \in [SlotSet -> Clients \cup {NoOne}]
  /\ maxi \in -1..(Slots - 1) /\ read_set \subseteq Clients
  /\ ready_set \subseteq Clients \cup {NoOne} /\ nready \in Nat
  /\ pc \in {"select", "accept", "check", "serve", "answer", "save"}
  /\ i \in 0..Slots /\ req \in [cmd : Commands, id : Int, count : Int]
  /\ verdict \in {"none", "invalid", "short", "success"}
  /\ backlog \in Seq(Clients) /\ link \in [Clients -> {"out", "backlog", "open"}]
  /\ \A c \in Clients : inbox[c] \in Seq({"line", "rest"})
  /\ half \in [Clients -> {"none", "sent", "lost"}] /\ eof \in [Clients -> BOOLEAN]
  /\ lastLeft \in {"eof", "exit"}
  /\ status \in {"up", "exited"}

(***************************************************************************)
(* The pool's books agree: the slots hold exactly the open connections,    *)
(* each once, none above maxi, and select watches exactly those; and       *)
(* nready is the number of ready clients the round has yet to come to: the *)
(* early end of check_clients' loop passes over none of them.              *)
(***************************************************************************)
NreadyCounts ==
  pc = "check" => nready = Cardinality({j \in SlotSet : j >= i /\ IsReady(clientfd[j])})
PoolAgrees ==
  /\ TypeOK /\ NreadyCounts
  /\ read_set = {clientfd[j] : j \in SlotSet} \ {NoOne}
  /\ read_set = {c \in Clients : link[c] = "open"}
  /\ \A j, k \in SlotSet : clientfd[j] = clientfd[k] /\ j # k => clientfd[j] = NoOne
  /\ \A j \in SlotSet : j > maxi => clientfd[j] = NoOne

\* When the last client has hung up, stock.txt holds the stocks of the tree.
SavedWhenHungUp ==
  status = "up" /\ pc = "select" /\ read_set = {} /\ lastLeft = "eof"
    => file = stock

-------------------------------------------------------------------------------
(* The event loop implements the exchange of StockExchange, which the      *)
(* threaded server implements too.                                         *)

Session(c) ==
  IF c \notin read_set THEN [at |-> "out"]
  ELSE IF pc \notin {"serve", "answer"} \/ ~IsTrade(req) \/ clientfd[i] # c
    THEN [at |-> "idle"]
  ELSE IF verdict = "none" THEN [at |-> "asked", order |-> req]
  ELSE [at |-> "told", order |-> req, verdict |-> verdict]

Exchange == INSTANCE StockExchange WITH
  Orders <- {r \in Requests : IsTrade(r)}, InitLedger <- InitStock,
  Torn <- NoOne, ledger <- stock, session <- [c \in Clients |-> Session(c)],
  book <- file

\* Every behaviour of the event loop is one of the exchange.
ImplementsExchange == Exchange!Spec

-------------------------------------------------------------------------------
\* The one thread is in the write of an answer that its client does not read.
Jammed == pc = "answer" /\ clientfd[i] \notin Readers

(***************************************************************************)
(* What a client of the pool has sent is taken from its socket, however    *)
(* busy the others are, as long as nobody leaves a line half sent          *)
(* (FairSpec); and a client that hangs up is taken out of the pool.  The   *)
(* exception is a client that never reads its answer: the server writes to *)
(* it for ever, and nobody is heard any more.                              *)
(***************************************************************************)
LetGo ==
  \A c \in Clients : c \in read_set /\ eof[c] ~> c \notin read_set \/ []Jammed
Heard ==
  /\ \A c \in Clients :
       c \in read_set /\ inbox[c] # <<>> ~> inbox[c] = <<>> \/ []Jammed
  /\ LetGo

\* A connection is accepted, though a round takes only one, with the same
\* exception.
Accepted ==
  \A c \in Clients : link[c] = "backlog" ~> link[c] = "open" \/ []Jammed
==============================================================================
