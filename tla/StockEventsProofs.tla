--------------------------- MODULE StockEventsProofs ---------------------------
(***************************************************************************)
(* The event loop's pool, its save and its clients' orders, proved for     *)
(* every number of clients and of slots, every tree, every set of lines    *)
(* clients may send and every bound.                                       *)
(***************************************************************************)
EXTENDS StockEvents, FiniteSetTheorems, WellFoundedInduction, TLAPS

-------------------------------------------------------------------------------
(***************************************************************************)
(* The inductive invariant.  The types, by the groups of the variables: a  *)
(* step keeps those of the groups it leaves alone.                         *)
(***************************************************************************)
TreeType == stock \in [Items -> Int] /\ file \in [Items -> Int]

PoolType ==
  /\ clientfd \in [SlotSet -> Clients \cup {NoOne}]
  /\ maxi \in -1..(Slots - 1) /\ read_set \subseteq Clients

SelectType == ready_set \subseteq Clients \cup {NoOne} /\ nready \in Nat

MainType ==
  /\ pc \in {"select", "accept", "check", "serve", "answer", "save"}
  /\ i \in 0..Slots /\ req \in [cmd : Commands, id : Int, count : Int]
  /\ verdict \in {"none", "invalid", "short", "success"}

ListenType ==
  backlog \in Seq(Clients) /\ link \in [Clients -> {"out", "backlog", "open"}]

SocketType ==
  /\ inbox \in [Clients -> Seq({"line", "rest"})]
  /\ half \in [Clients -> {"none", "sent", "lost"}] /\ eof \in [Clients -> BOOLEAN]

EndType == lastLeft \in {"eof", "exit"} /\ status \in {"up", "exited"}

Types ==
  TreeType /\ PoolType /\ SelectType /\ MainType /\ ListenType /\ SocketType /\ EndType

(***************************************************************************)
(* The pool: slots, descriptors and connections tell the same story, and   *)
(* who waits for Accept waits once.                                        *)
(***************************************************************************)

BooksAgree ==
  /\ read_set = {clientfd[j] : j \in SlotSet} \ {NoOne}
  /\ read_set = {c \in Clients : link[c] = "open"}
  /\ \A j, k \in SlotSet : clientfd[j] = clientfd[k] /\ j # k => clientfd[j] = NoOne
  /\ \A j \in SlotSet : j > maxi => clientfd[j] = NoOne

QueueInv ==
  /\ \A k \in DOMAIN backlog : link[backlog[k]] = "backlog"
  /\ \A j, k \in DOMAIN backlog : backlog[j] = backlog[k] => j = k

(***************************************************************************)
(* A round: what is left of nready is the number of ready clients in the   *)
(* slots from here on, at every place of the round and not just where the  *)
(* loop looks at it; and a line is served from a slot that is in use.      *)
(***************************************************************************)
Pending(k) == {j \in SlotSet : j >= k /\ IsReady(clientfd[j])}

RoundInv ==
  /\ ready_set \subseteq read_set \cup {NoOne} \/ pc # "accept"
  /\ pc = "accept" => /\ backlog # <<>> /\ NoOne \in ready_set /\ i = 0
                      /\ nready = Cardinality(ready_set)
  /\ pc \in {"check", "save"} => nready = Cardinality(Pending(i))
  /\ pc \in {"serve", "answer"} =>
       /\ nready = Cardinality(Pending(i + 1))
       /\ i \in SlotSet /\ clientfd[i] # NoOne
  /\ pc = "save" => read_set = {}

(***************************************************************************)
(* The save: the tree differs from stock.txt only while somebody is in the *)
(* pool, after an exit, or on the way to the save itself.                  *)
(***************************************************************************)
FileInv == read_set = {} /\ lastLeft = "eof" /\ pc # "save" => file = stock

PoolInv == Types /\ BooksAgree /\ QueueInv /\ RoundInv

EventsInv == PoolInv /\ FileInv

-------------------------------------------------------------------------------
\* A set of slots is finite, and so is what is pending.
LEMMA SlotsFinite ==
  /\ SlotSet \subseteq Nat /\ IsFiniteSet(SlotSet)
  /\ \A S \in SUBSET SlotSet : IsFiniteSet(S) /\ Cardinality(S) \in Nat
<1>1. SlotSet \subseteq Nat /\ IsFiniteSet(SlotSet)
  BY EventsAssumption, FS_Interval DEF SlotSet
<1>2. ASSUME NEW S \in SUBSET SlotSet PROVE IsFiniteSet(S) /\ Cardinality(S) \in Nat
  BY <1>1, <1>2, FS_Subset, FS_CardinalityType
<1> QED
  BY <1>1, <1>2

\* The slots a set of descriptors of the pool sits in are as many as they are.
LEMMA AsManySlots ==
  ASSUME PoolType, BooksAgree, NEW R \in SUBSET read_set
  PROVE  /\ IsFiniteSet(R)
         /\ Cardinality({j \in SlotSet : clientfd[j] \in R}) = Cardinality(R)
<1> DEFINE S == {j \in SlotSet : clientfd[j] \in R}
           f == [j \in S |-> clientfd[j]]
<1>1. f \in [S -> R]
  OBVIOUS
<1>2. \A j, k \in S : f[j] = f[k] => j = k
  BY DEF BooksAgree
<1>3. \A c \in R : \E j \in S : f[j] = c
  BY DEF BooksAgree
<1>4. f \in Bijection(S, R)
  BY <1>1, <1>2, <1>3 DEF Bijection, Injection, IsInjective, Surjection
<1>5. IsFiniteSet(S)
  BY SlotsFinite
<1> HIDE DEF S, f
<1>6. IsFiniteSet(R) /\ Cardinality(R) = Cardinality(S)
  BY <1>4, <1>5, FS_Bijection DEF ExistsBijection
<1> QED
  BY <1>6 DEF S

\* The free slot add_client takes is one that is free.
LEMMA FirstFree ==
  ASSUME Free # {}
  PROVE  (CHOOSE j \in Free : \A k \in Free : j <= k) \in Free
<1>1. Free \subseteq Nat
  BY SlotsFinite DEF Free
<1>2. PICK e \in Free : \A k \in Free : ~(<<k, e>> \in OpToRel(<, Nat))
  <2>1. IsWellFoundedOn(OpToRel(<, Nat), Nat)
    BY NatLessThanWellFounded
  <2> QED
    BY <1>1, <2>1, WFMin
<1>3. \A k \in Free : ~(k < e)
  BY <1>1, <1>2 DEF OpToRel
<1>4. \A k \in Free : e <= k
  BY <1>1, <1>3
<1> QED
  BY <1>4

\* The count of the slots still to come: a ready one is in it, others are not.
LEMMA PendingStep ==
  ASSUME NEW k \in SlotSet
  PROVE  /\ Cardinality(Pending(k)) \in Nat /\ Cardinality(Pending(k + 1)) \in Nat
         /\ IsReady(clientfd[k]) =>
              Cardinality(Pending(k)) = Cardinality(Pending(k + 1)) + 1
         /\ ~IsReady(clientfd[k]) => Pending(k) = Pending(k + 1)
<1>0. Pending(k) \in SUBSET SlotSet /\ Pending(k + 1) \in SUBSET SlotSet
  BY DEF Pending
<1>1. \A j \in SlotSet : (j >= k <=> j >= k + 1 \/ j = k) /\ ~(k >= k + 1)
  BY SlotsFinite
<1>2. IsReady(clientfd[k]) => Pending(k) = Pending(k + 1) \cup {k} /\ k \notin Pending(k + 1)
  BY <1>1 DEF Pending
<1>3. ~IsReady(clientfd[k]) => Pending(k) = Pending(k + 1)
  BY <1>1 DEF Pending
<1>4. Cardinality(Pending(k + 1) \cup {k}) =
        IF k \in Pending(k + 1) THEN Cardinality(Pending(k + 1))
        ELSE Cardinality(Pending(k + 1)) + 1
  BY <1>0, SlotsFinite, FS_AddElement
<1> QED
  BY <1>0, <1>2, <1>3, <1>4, SlotsFinite

-------------------------------------------------------------------------------
\* The parts are the type invariant of the specification.
LEMMA TypesAreTypes == Types => TypeOK
BY DEF Types, TypeOK, TreeType, PoolType, SelectType, MainType, ListenType,
       SocketType, EndType

\* A client whose slot the round has come to sits in it, and is counted.
LEMMA AtSlot ==
  ASSUME PoolInv, NEW c \in Clients, At(c)
  PROVE  /\ pc = "check" /\ i \in SlotSet /\ i <= maxi /\ i + 1 \in 0..Slots
         /\ c = clientfd[i] /\ c \in read_set /\ link[c] = "open"
         /\ nready \in Nat \ {0} /\ nready - 1 = Cardinality(Pending(i + 1))
<1> USE DEF PoolInv, Types
<1>1. pc = "check" /\ i <= maxi /\ nready > 0 /\ c = clientfd[i] /\ IsReady(c)
  BY DEF At, Turns
<1>2. i \in SlotSet /\ i + 1 \in 0..Slots
  BY <1>1, EventsAssumption DEF MainType, PoolType, SlotSet
<1>3. nready = Cardinality(Pending(i + 1)) + 1
  BY <1>1, <1>2, PendingStep DEF RoundInv
<1>4. c \in read_set /\ link[c] = "open"
  BY <1>1, <1>2, EventsAssumption DEF BooksAgree
<1> QED
  BY <1>1, <1>2, <1>3, <1>4, PendingStep DEF SelectType

\* A line is served from a slot that is in use, with the next one to come.
LEMMA ServedSlot ==
  ASSUME PoolInv, pc \in {"serve", "answer"}
  PROVE  /\ i \in SlotSet /\ i + 1 \in 0..Slots
         /\ clientfd[i] \in Clients /\ clientfd[i] \in read_set
         /\ link[clientfd[i]] = "open"
<1>1. i \in SlotSet /\ clientfd[i] # NoOne
  BY DEF PoolInv, RoundInv
<1>2. i + 1 \in 0..Slots
  BY <1>1, EventsAssumption DEF SlotSet
<1> QED
  BY <1>1, <1>2 DEF PoolInv, Types, PoolType, BooksAgree

(***************************************************************************)
(* A step keeps the types of the groups of variables it leaves alone.      *)
(***************************************************************************)
LEMMA TypeFrames ==
  /\ TreeType /\ UNCHANGED <<stock, file>> => TreeType'
  /\ PoolType /\ UNCHANGED poolVars => PoolType'
  /\ SelectType /\ UNCHANGED selectVars => SelectType'
  /\ MainType /\ UNCHANGED mainVars => MainType'
  /\ ListenType /\ UNCHANGED listenVars => ListenType'
  /\ SocketType /\ UNCHANGED socketVars => SocketType'
  /\ EndType /\ UNCHANGED <<lastLeft, status>> => EndType'
<1>1. TreeType /\ UNCHANGED <<stock, file>> => TreeType'
  BY DEF TreeType
<1>2. PoolType /\ UNCHANGED poolVars => PoolType'
  BY DEF PoolType, poolVars
<1>3. SelectType /\ UNCHANGED selectVars => SelectType'
  BY DEF SelectType, selectVars
<1>4. MainType /\ UNCHANGED mainVars => MainType'
  BY DEF MainType, mainVars
<1>5. ListenType /\ UNCHANGED listenVars => ListenType'
  BY DEF ListenType, listenVars
<1>6. SocketType /\ UNCHANGED socketVars => SocketType'
  BY DEF SocketType, socketVars
<1>7. EndType /\ UNCHANGED <<lastLeft, status>> => EndType'
  BY DEF EndType
<1> QED
  BY <1>1, <1>2, <1>3, <1>4, <1>5, <1>6, <1>7

\* Every step keeps the types.
LEMMA TypeStep ==
  ASSUME PoolInv, [Next]_vars
  PROVE  Types'
<1> USE DEF PoolInv, Types
<1>1. ASSUME NEW c \in Clients, Connect(c), UNCHANGED status PROVE Types'
  <2>1. ListenType'
    BY <1>1 DEF Connect, ListenType
  <2> QED
    BY <1>1, TypeFrames, <2>1
       DEF Connect, serverVars, treeVars
<1>2. ASSUME NEW c \in Clients, SendLine(c), UNCHANGED status PROVE Types'
  <2>1. SocketType'
    BY <1>2 DEF SendLine, SocketType
  <2> QED
    BY <1>2, TypeFrames, <2>1
       DEF SendLine, serverVars, treeVars
<1>3. ASSUME NEW c \in Clients, SendHalf(c), UNCHANGED status PROVE Types'
  <2>1. SocketType'
    BY <1>3 DEF SendHalf, SocketType
  <2> QED
    BY <1>3, TypeFrames, <2>1
       DEF SendHalf, serverVars, treeVars
<1>4. ASSUME NEW c \in Clients, SendRest(c), UNCHANGED status PROVE Types'
  <2>1. SocketType'
    BY <1>4 DEF SendRest, SocketType
  <2> QED
    BY <1>4, TypeFrames, <2>1
       DEF SendRest, serverVars, treeVars
<1>5. ASSUME NEW c \in Clients, Hangup(c), UNCHANGED status PROVE Types'
  <2>1. SocketType'
    BY <1>5 DEF Hangup, SocketType
  <2> QED
    BY <1>5, TypeFrames, <2>1
       DEF Hangup, serverVars, treeVars
<1>6. ASSUME NEW c \in Clients, ReadLine(c) PROVE Types'
  <2>1. MainType'
    BY <1>6, AtSlot, EventsAssumption DEF ReadLine, MainType, Says, NoLine, Commands
  <2>2. SelectType'
    BY <1>6, AtSlot DEF ReadLine, SelectType
  <2>3. SocketType'
    BY <1>6 DEF ReadLine, SocketType
  <2> QED
    BY <1>6, TypeFrames, <2>1, <2>2, <2>3
       DEF ReadLine, treeVars
<1>7. ASSUME NEW c \in Clients, ReadCutLine(c) PROVE Types'
  <2>1. MainType'
    BY <1>7, AtSlot, EventsAssumption DEF ReadCutLine, MainType, Says, NoLine, Commands
  <2>2. SelectType'
    BY <1>7, AtSlot DEF ReadCutLine, SelectType
  <2>3. SocketType'
    BY <1>7 DEF ReadCutLine, SocketType
  <2> QED
    BY <1>7, TypeFrames, <2>1, <2>2, <2>3
       DEF ReadCutLine, treeVars
<1>8. ASSUME NEW c \in Clients, ReadEof(c) PROVE Types'
  <2>1. MainType'
    BY <1>8, AtSlot DEF ReadEof, MainType
  <2>2. SelectType'
    BY <1>8, AtSlot DEF ReadEof, SelectType
  <2>3. SocketType'
    BY <1>8 DEF ReadEof, SocketType, CloseSlot
  <2>4. PoolType'
    BY <1>8 DEF ReadEof, PoolType, CloseSlot
  <2>5. ListenType'
    BY <1>8 DEF ReadEof, ListenType, CloseSlot
  <2>6. EndType'
    BY <1>8 DEF ReadEof, EndType, CloseSlot
  <2> QED
    BY <1>8, TypeFrames, <2>1, <2>2, <2>3, <2>4, <2>5, <2>6
       DEF ReadEof, treeVars, CloseSlot
<1>9. ASSUME NEW c \in Clients, Exit(c) PROVE Types'
  <2>1. MainType'
    BY <1>9, ServedSlot DEF Exit, MainType, NoLine, Commands
  <2>2. SocketType'
    BY <1>9 DEF Exit, SocketType, CloseSlot
  <2>3. PoolType'
    BY <1>9 DEF Exit, PoolType, CloseSlot
  <2>4. ListenType'
    BY <1>9 DEF Exit, ListenType, CloseSlot
  <2>5. EndType'
    BY <1>9 DEF Exit, EndType, CloseSlot
  <2> QED
    BY <1>9, TypeFrames, <2>1, <2>2, <2>3, <2>4, <2>5
       DEF Exit, treeVars, CloseSlot
<1>10. ASSUME Select PROVE Types'
  <2>1. SelectType'
    <3>1. ready_set' \subseteq Clients \cup {NoOne} /\ nready' = Cardinality(ready_set')
      BY <1>10 DEF Select, PoolType
    <3>2. IsFiniteSet(Clients \cup {NoOne})
      BY EventsAssumption, FS_AddElement
    <3> QED
      BY <3>1, <3>2, FS_Subset, FS_CardinalityType DEF SelectType
  <2>2. MainType'
    BY <1>10, EventsAssumption DEF Select, MainType
  <2> QED
    BY <1>10, TypeFrames, <2>1, <2>2
       DEF Select, treeVars
<1>11. ASSUME add_client PROVE Types'
  <2>1. SelectType'
    <3>1. nready = Cardinality(ready_set) /\ NoOne \in ready_set
      BY <1>11 DEF add_client, RoundInv
    <3>2. IsFiniteSet(ready_set)
      BY EventsAssumption, FS_AddElement, FS_Subset DEF SelectType
    <3>3. nready # 0
      BY <3>1, <3>2, FS_EmptySet
    <3> QED
      BY <1>11, <3>3 DEF add_client, SelectType, Counted
  <2>2. MainType'
    BY <1>11 DEF add_client, MainType
  <2>3. PoolType'
    <3>1. Head(backlog) \in Clients
      BY <1>11 DEF add_client, RoundInv, ListenType
    <3>2. (CHOOSE j \in Free : \A k \in Free : j <= k) \in SlotSet
      BY <1>11, FirstFree DEF add_client, Free
    <3>3. SlotSet \subseteq -1..(Slots - 1)
      BY EventsAssumption DEF SlotSet
    <3> QED
      BY <1>11, <3>1, <3>2, <3>3 DEF add_client, PoolType
  <2>4. ListenType'
    <3>1. Head(backlog) \in Clients /\ Tail(backlog) \in Seq(Clients)
      BY <1>11 DEF add_client, RoundInv, ListenType
    <3> QED
      BY <1>11, <3>1 DEF add_client, ListenType
  <2> QED
    BY <1>11, TypeFrames, <2>1, <2>2, <2>3, <2>4
       DEF add_client, treeVars
<1>12. ASSUME TooManyClients PROVE Types'
  <2>1. EndType'
    BY <1>12 DEF TooManyClients, EndType
  <2> QED
    BY <1>12, TypeFrames, <2>1
       DEF TooManyClients, serverVars, treeVars
<1>13. ASSUME RoundEnd PROVE Types'
  <2>1. SelectType'
    BY <1>13 DEF RoundEnd, SelectType
  <2>2. MainType'
    BY <1>13, EventsAssumption DEF RoundEnd, MainType
  <2> QED
    BY <1>13, TypeFrames, <2>1, <2>2
       DEF RoundEnd, treeVars
<1>14. ASSUME NextSlot PROVE Types'
  <2>1. MainType'
    BY <1>14, EventsAssumption DEF NextSlot, MainType, Turns, PoolType
  <2> QED
    BY <1>14, TypeFrames, <2>1
       DEF NextSlot, treeVars
<1>15. ASSUME Save PROVE Types'
  <2>1. TreeType'
    BY <1>15 DEF Save, TreeType
  <2>2. MainType'
    BY <1>15 DEF Save, MainType
  <2> QED
    BY <1>15, TypeFrames, <2>1, <2>2
       DEF Save, treeVars
<1>16. ASSUME Show PROVE Types'
  <2>1. MainType'
    BY <1>16 DEF Show, MainType
  <2> QED
    BY <1>16, TypeFrames, <2>1
       DEF Show, treeVars
<1>17. ASSUME Trade PROVE Types'
  <2>1. TreeType'
    <3> DEFINE n == IF req.cmd = "buy" THEN - req.count ELSE req.count
    <3>1. n \in Int
      BY DEF MainType
    <3>2. stock' = stock \/ (req.id \in Items /\ stock' = [stock EXCEPT ![req.id] = @ + n])
      BY <1>17 DEF Trade
    <3> HIDE DEF n
    <3> QED
      BY <1>17, <3>1, <3>2 DEF Trade, TreeType
  <2>2. MainType'
    BY <1>17 DEF Trade, MainType
  <2> QED
    BY <1>17, TypeFrames, <2>1, <2>2
       DEF Trade, treeVars
<1>18. ASSUME Ignore PROVE Types'
  <2>1. MainType'
    BY <1>18, ServedSlot DEF Ignore, MainType
  <2> QED
    BY <1>18, TypeFrames, <2>1
       DEF Ignore, treeVars
<1>19. ASSUME Answer PROVE Types'
  <2>1. MainType'
    BY <1>19, ServedSlot DEF Answer, MainType, NoLine, Commands
  <2> QED
    BY <1>19, TypeFrames, <2>1
       DEF Answer, treeVars
<1>20. ASSUME Fails PROVE Types'
  <2>1. EndType'
    BY <1>20 DEF Fails, EndType
  <2> QED
    BY <1>20, TypeFrames, <2>1
       DEF Fails, serverVars, treeVars
<1>21. CASE UNCHANGED vars
  BY <1>21, TypeFrames DEF vars, serverVars, treeVars
<1> QED
  BY <1>1, <1>2, <1>3, <1>4, <1>5, <1>6, <1>7, <1>8, <1>9, <1>10, <1>11, <1>12, <1>13, <1>14, <1>15, <1>16, <1>17, <1>18, <1>19, <1>20, <1>21
     DEF Next, Server, Client, Exited

-------------------------------------------------------------------------------
\* What a step of the pool leaves alone goes on to agree.
LEMMA PoolFrames ==
  /\ BooksAgree /\ UNCHANGED <<poolVars, link>> => BooksAgree'
  /\ QueueInv /\ UNCHANGED listenVars => QueueInv'
<1>1. BooksAgree /\ UNCHANGED <<poolVars, link>> => BooksAgree'
  BY DEF BooksAgree, poolVars
<1>2. QueueInv /\ UNCHANGED listenVars => QueueInv'
  BY DEF QueueInv, listenVars
<1> QED
  BY <1>1, <1>2

\* A client that is taken out of its slot: no slot, no descriptor, not open.
LEMMA CloseStep ==
  ASSUME PoolInv, NEW c \in Clients, NEW how, CloseSlot(c, how),
         i \in SlotSet, clientfd[i] = c, UNCHANGED <<maxi, backlog, ready_set>>
  PROVE  /\ BooksAgree' /\ QueueInv'
         /\ \A j \in SlotSet : clientfd'[j] = IF j = i THEN NoOne ELSE clientfd[j]
         /\ i' = i + 1 => Pending(i)' = Pending(i + 1)
<1> USE DEF PoolInv, Types
<1>1. /\ clientfd' = [clientfd EXCEPT ![i] = NoOne] /\ read_set' = read_set \ {c}
      /\ link' = [link EXCEPT ![c] = "out"]
  BY DEF CloseSlot
<1>2. \A j \in SlotSet : clientfd'[j] = IF j = i THEN NoOne ELSE clientfd[j]
  BY <1>1 DEF PoolType
<1>3. BooksAgree'
  <2>1. \A j \in SlotSet : j # i => clientfd[j] # c
    BY EventsAssumption DEF BooksAgree
  <2>2. read_set' = {clientfd'[j] : j \in SlotSet} \ {NoOne}
    BY <1>1, <1>2, <2>1 DEF BooksAgree
  <2>3. read_set' = {d \in Clients : link'[d] = "open"}
    BY <1>1 DEF BooksAgree, ListenType
  <2>4. \A j, k \in SlotSet :
          clientfd'[j] = clientfd'[k] /\ j # k => clientfd'[j] = NoOne
    BY <1>2 DEF BooksAgree
  <2>5. \A j \in SlotSet : j > maxi' => clientfd'[j] = NoOne
    BY <1>2 DEF BooksAgree
  <2> QED
    BY <2>2, <2>3, <2>4, <2>5 DEF BooksAgree
<1>4. QueueInv'
  <2>1. link[c] = "open"
    BY EventsAssumption DEF BooksAgree
  <2>2. \A k \in DOMAIN backlog : backlog[k] \in Clients /\ backlog[k] # c
    BY <2>1 DEF QueueInv, ListenType
  <2> QED
    BY <1>1, <2>2 DEF QueueInv, ListenType
<1>5. i' = i + 1 => Pending(i)' = Pending(i + 1)
  <2>1. \A j \in SlotSet : j >= i + 1 => j # i
    BY SlotsFinite
  <2> QED
    BY <1>2, <2>1 DEF Pending, IsReady
<1> QED
  BY <1>2, <1>3, <1>4, <1>5

(***************************************************************************)
(* A connection goes from the head of the backlog into a free slot.  It is *)
(* not among the ready ones: select has not watched it yet.                *)
(***************************************************************************)
LEMMA AddStep ==
  ASSUME PoolInv, add_client
  PROVE  BooksAgree' /\ QueueInv' /\ RoundInv'
<1> USE DEF PoolInv, Types
<1> DEFINE slot == CHOOSE j \in Free : \A k \in Free : j <= k
           c == Head(backlog)
<1>1. /\ slot \in SlotSet /\ clientfd[slot] = NoOne
      /\ \A j \in SlotSet : j > maxi' => j > maxi /\ j # slot
  <2>1. slot \in SlotSet /\ clientfd[slot] = NoOne
    BY FirstFree DEF add_client, Free
  <2>2. maxi' = IF slot > maxi THEN slot ELSE maxi
    BY DEF add_client
  <2> HIDE DEF slot
  <2> QED
    BY <2>1, <2>2, SlotsFinite DEF PoolType
<1>2. backlog # <<>> /\ 1 \in DOMAIN backlog /\ c = backlog[1] /\ c \in Clients
  BY DEF add_client, RoundInv, ListenType
<1>3. link[c] = "backlog" /\ c \notin read_set
  BY <1>2 DEF QueueInv, BooksAgree
<1>4. /\ clientfd' = [clientfd EXCEPT ![slot] = c] /\ read_set' = read_set \cup {c}
      /\ link' = [link EXCEPT ![c] = "open"] /\ backlog' = Tail(backlog)
      /\ pc = "accept" /\ pc' = "check" /\ nready' = nready - 1 /\ i' = i
      /\ ready_set' = ready_set
  BY DEF add_client, Counted
<1> HIDE DEF slot, c
<1>5. \A j \in SlotSet : clientfd'[j] = IF j = slot THEN c ELSE clientfd[j]
  BY <1>1, <1>4 DEF PoolType
<1>6. c # NoOne /\ \A j \in SlotSet : clientfd[j] # c
  BY <1>2, <1>3, EventsAssumption DEF BooksAgree
<1>7. BooksAgree'
  <2>1. read_set' = {clientfd'[j] : j \in SlotSet} \ {NoOne}
    <3>1. {clientfd'[j] : j \in SlotSet} \ {NoOne}
            = ({clientfd[j] : j \in SlotSet} \ {NoOne}) \cup {c}
      BY <1>1, <1>5, <1>6
    <3> QED
      BY <1>4, <3>1 DEF BooksAgree
  <2>2. read_set' = {d \in Clients : link'[d] = "open"}
    BY <1>2, <1>4 DEF BooksAgree, ListenType
  <2>3. \A j, k \in SlotSet :
          clientfd'[j] = clientfd'[k] /\ j # k => clientfd'[j] = NoOne
    BY <1>5, <1>6 DEF BooksAgree
  <2>4. \A j \in SlotSet : j > maxi' => clientfd'[j] = NoOne
    BY <1>1, <1>5 DEF BooksAgree
  <2> QED
    BY <2>1, <2>2, <2>3, <2>4 DEF BooksAgree
<1>8. QueueInv'
  <2>1. \A k \in DOMAIN backlog' : /\ k + 1 \in DOMAIN backlog /\ k + 1 # 1
                                   /\ backlog'[k] = backlog[k + 1]
                                   /\ backlog[k + 1] \in Clients
    BY <1>2, <1>4 DEF ListenType
  <2>2. \A k \in DOMAIN backlog' : backlog[k + 1] # c
    BY <1>2, <2>1 DEF QueueInv
  <2>3. \A k \in DOMAIN backlog' : link'[backlog'[k]] = "backlog"
    BY <1>4, <2>1, <2>2 DEF QueueInv, ListenType
  <2>4. \A j, k \in DOMAIN backlog' : backlog'[j] = backlog'[k] => j = k
    <3>1. \A k \in DOMAIN backlog' : k \in Int
      BY <1>4 DEF ListenType
    <3> QED
      BY <2>1, <3>1 DEF QueueInv
  <2> QED
    BY <2>3, <2>4 DEF QueueInv
<1>9. nready' = Cardinality(Pending(i)')
  <2> DEFINE R == ready_set \ {NoOne}
  <2>1. /\ NoOne \in ready_set /\ R \subseteq read_set /\ i = 0
        /\ nready = Cardinality(ready_set) /\ IsFiniteSet(ready_set)
    <3>1. /\ NoOne \in ready_set /\ R \subseteq read_set /\ i = 0
          /\ nready = Cardinality(ready_set) /\ R \subseteq Clients
      BY <1>4 DEF RoundInv, SelectType
    <3>2. IsFiniteSet(R) /\ ready_set = R \cup {NoOne}
      BY <3>1, EventsAssumption, FS_Subset
    <3> HIDE DEF R
    <3> QED
      BY <3>1, <3>2, FS_AddElement
  <2>2. Cardinality(R) = nready - 1
    BY <2>1, FS_RemoveElement
  <2>3. Pending(i)' = {j \in SlotSet : clientfd[j] \in R}
    <3>1. \A j \in SlotSet : j >= i' /\ (IsReady(clientfd[j])' <=> clientfd[j] \in R)
      BY <1>1, <1>3, <1>4, <1>5, <2>1, SlotsFinite DEF IsReady
    <3> QED
      BY <3>1 DEF Pending, IsReady
  <2>4. Cardinality({j \in SlotSet : clientfd[j] \in R}) = Cardinality(R)
    BY <2>1, AsManySlots
  <2> QED
    BY <1>4, <2>2, <2>3, <2>4
<1>10. RoundInv'
  <2>1. nready' = Cardinality(Pending(i))'
    BY <1>4, <1>9 DEF Pending
  <2> QED
    BY <1>4, <2>1 DEF RoundInv
<1> QED
  BY <1>7, <1>8, <1>10

(***************************************************************************)
(* Every step of a client, of a round and of the line that is served keeps *)
(* the pool, the backlog and the count of the round.                       *)
(***************************************************************************)
LEMMA RoundStep ==
  ASSUME PoolInv, [Next]_vars
  PROVE  BooksAgree' /\ QueueInv' /\ RoundInv'
<1> DEFINE Goal == BooksAgree /\ QueueInv /\ RoundInv
<1> USE DEF PoolInv, Types
<1>1. ASSUME NEW c \in Clients, Connect(c) PROVE Goal'
  <2>1. /\ link[c] = "out" /\ link' = [link EXCEPT ![c] = "backlog"]
        /\ backlog' = Append(backlog, c) /\ UNCHANGED <<poolVars, selectVars, pc, i>>
    BY <1>1 DEF Connect, serverVars, mainVars
  <2>2. BooksAgree'
    <3>1. {d \in Clients : link'[d] = "open"} = {d \in Clients : link[d] = "open"}
      BY <2>1 DEF ListenType
    <3> QED
      BY <2>1, <3>1 DEF BooksAgree, poolVars
  <2>3. QueueInv'
    <3>1. /\ DOMAIN backlog' = 1..(Len(backlog) + 1) /\ DOMAIN backlog = 1..Len(backlog)
          /\ backlog'[Len(backlog) + 1] = c
          /\ \A k \in DOMAIN backlog : /\ backlog'[k] = backlog[k]
                                       /\ backlog[k] \in Clients /\ backlog[k] # c
      BY <2>1 DEF ListenType, QueueInv
    <3>2. \A k \in DOMAIN backlog' : k \in DOMAIN backlog \/ k = Len(backlog) + 1
      BY <3>1 DEF ListenType
    <3> QED
      BY <2>1, <3>1, <3>2 DEF QueueInv, ListenType
  <2>4. RoundInv'
    <3>1. backlog' # <<>>
      BY <2>1 DEF ListenType
    <3>2. Pending(i)' = Pending(i) /\ Pending(i + 1)' = Pending(i + 1)
      BY <2>1 DEF Pending, IsReady, poolVars, selectVars
    <3> QED
      BY <2>1, <3>1, <3>2 DEF RoundInv, poolVars, selectVars
  <2> QED
    BY <2>2, <2>3, <2>4
<1>2. ASSUME UNCHANGED <<poolVars, selectVars, pc, i, listenVars>> PROVE Goal'
  <2>1. Pending(i)' = Pending(i) /\ Pending(i + 1)' = Pending(i + 1)
    BY <1>2 DEF Pending, IsReady, poolVars, selectVars
  <2>2. RoundInv'
    BY <1>2, <2>1 DEF RoundInv, poolVars, selectVars, listenVars
  <2> QED
    BY <1>2, <2>2, PoolFrames DEF listenVars
<1>3. ASSUME NEW c \in Clients, SendLine(c) \/ SendHalf(c) \/ SendRest(c) \/ Hangup(c)
      PROVE  Goal'
  BY <1>2, <1>3 DEF SendLine, SendHalf, SendRest, Hangup, serverVars, mainVars
<1>4. ASSUME Select PROVE Goal'
  <2>1. /\ ready_set' \subseteq read_set \cup {NoOne} /\ nready' = Cardinality(ready_set')
        /\ NoOne \in ready_set' => backlog # <<>>
        /\ pc' = IF NoOne \in ready_set' THEN "accept" ELSE "check"
        /\ i' = 0 /\ UNCHANGED <<poolVars, listenVars>>
    BY <1>4, EventsAssumption DEF Select, Accepts, PoolType
  <2>2. CASE NoOne \in ready_set'
    BY <2>1, <2>2, PoolFrames DEF RoundInv, poolVars, listenVars
  <2>3. CASE NoOne \notin ready_set'
    <3>1. ready_set' \in SUBSET read_set
      BY <2>1, <2>3
    <3>2. Cardinality({j \in SlotSet : clientfd[j] \in ready_set'}) = nready'
      BY <2>1, <3>1, AsManySlots
    <3>3. Pending(i)' = {j \in SlotSet : clientfd[j] \in ready_set'}
      <4>1. \A j \in SlotSet : j >= 0
        BY SlotsFinite
      <4> QED
        BY <2>1, <2>3, <4>1 DEF Pending, IsReady, poolVars
    <3> QED
      BY <2>1, <2>3, <3>2, <3>3, PoolFrames DEF RoundInv, poolVars, listenVars
  <2> QED
    BY <2>2, <2>3
<1>5. ASSUME add_client PROVE Goal'
  BY <1>5, AddStep
<1>6. ASSUME RoundEnd PROVE Goal'
  <2>1. pc' = "select" /\ UNCHANGED <<poolVars, listenVars>>
    BY <1>6 DEF RoundEnd
  <2> QED
    BY <2>1, PoolFrames DEF RoundInv, poolVars, listenVars
<1>7. ASSUME NextSlot PROVE Goal'
  <2>1. /\ i' = i + 1 /\ pc = "check" /\ ~IsReady(clientfd[i])
        /\ i <= maxi /\ UNCHANGED <<poolVars, selectVars, pc, listenVars>>
    BY <1>7 DEF NextSlot, Turns
  <2>2. i \in SlotSet
    BY <2>1, EventsAssumption DEF MainType, PoolType, SlotSet
  <2>3. Pending(i)' = Pending(i)
    <3>1. Pending(i)' = Pending(i + 1)
      BY <2>1 DEF Pending, IsReady, poolVars, selectVars
    <3> QED
      BY <2>1, <2>2, <3>1, PendingStep
  <2> QED
    BY <2>1, <2>3, PoolFrames DEF RoundInv, poolVars, selectVars, listenVars
<1>8. ASSUME NEW c \in Clients, ReadLine(c) \/ ReadCutLine(c) PROVE Goal'
  <2>1. /\ At(c) /\ pc' = "serve" /\ nready' = nready - 1
        /\ UNCHANGED <<poolVars, ready_set, i, listenVars>>
    BY <1>8 DEF ReadLine, ReadCutLine
  <2>2. Pending(i + 1)' = Pending(i + 1)
    BY <2>1 DEF Pending, IsReady, poolVars
  <2> QED
    BY <2>1, <2>2, AtSlot, PoolFrames, EventsAssumption
       DEF RoundInv, poolVars, listenVars
<1>9. ASSUME NEW c \in Clients, ReadEof(c) PROVE Goal'
  <2>1. /\ At(c) /\ CloseSlot(c, "eof") /\ nready' = nready - 1 /\ i' = i + 1
        /\ pc' = IF AllClosed(clientfd') THEN "save" ELSE "check"
        /\ UNCHANGED <<maxi, ready_set, backlog>>
    BY <1>9 DEF ReadEof
  <2>2. /\ BooksAgree' /\ QueueInv' /\ Pending(i)' = Pending(i + 1)
    BY <2>1, AtSlot, CloseStep
  <2>3. AllClosed(clientfd') => read_set' = {}
    <3>1. AllClosed(clientfd') => \A j \in SlotSet : clientfd'[j] = NoOne
      <4>1. \A j \in SlotSet : j <= maxi \/ j > maxi'
        BY <2>1, SlotsFinite DEF PoolType
      <4> QED
        BY <2>1, <2>2, <4>1 DEF AllClosed, BooksAgree
    <3> QED
      BY <2>2, <3>1 DEF BooksAgree
  <2> QED
    BY <2>1, <2>2, <2>3, AtSlot DEF RoundInv
<1>10. ASSUME NEW c \in Clients, Exit(c) PROVE Goal'
  <2>1. /\ pc = "serve" /\ c = clientfd[i] /\ CloseSlot(c, "exit")
        /\ pc' = "check" /\ i' = i + 1 /\ UNCHANGED <<maxi, selectVars, backlog>>
    BY <1>10 DEF Exit, Current
  <2>2. BooksAgree' /\ QueueInv' /\ Pending(i)' = Pending(i + 1)
    BY <2>1, ServedSlot, CloseStep DEF selectVars
  <2> QED
    BY <2>1, <2>2 DEF RoundInv, selectVars
<1>11. ASSUME Save PROVE Goal'
  <2>1. pc = "save" /\ pc' = "check" /\ UNCHANGED <<poolVars, selectVars, i, listenVars>>
    BY <1>11 DEF Save
  <2>2. Pending(i)' = Pending(i)
    BY <2>1 DEF Pending, IsReady, poolVars, selectVars
  <2> QED
    BY <2>1, <2>2, PoolFrames DEF RoundInv, poolVars, selectVars, listenVars
<1>12. ASSUME Show \/ Trade PROVE Goal'
  <2>1. pc = "serve" /\ pc' = "answer" /\ UNCHANGED <<poolVars, selectVars, i, listenVars>>
    BY <1>12 DEF Show, Trade
  <2>2. Pending(i + 1)' = Pending(i + 1)
    BY <2>1 DEF Pending, IsReady, poolVars, selectVars
  <2> QED
    BY <2>1, <2>2, PoolFrames DEF RoundInv, poolVars, selectVars, listenVars
<1>13. ASSUME Ignore \/ Answer PROVE Goal'
  <2>1. /\ pc \in {"serve", "answer"} /\ pc' = "check" /\ i' = i + 1
        /\ UNCHANGED <<poolVars, selectVars, listenVars>>
    BY <1>13 DEF Ignore, Answer
  <2>2. Pending(i)' = Pending(i + 1)
    BY <2>1 DEF Pending, IsReady, poolVars, selectVars
  <2> QED
    BY <2>1, <2>2, PoolFrames DEF RoundInv, poolVars, selectVars, listenVars
<1>14. ASSUME TooManyClients \/ Fails \/ UNCHANGED vars PROVE Goal'
  BY <1>2, <1>14 DEF TooManyClients, Fails, vars, serverVars, mainVars
<1> QED
  BY <1>1, <1>3, <1>4, <1>5, <1>6, <1>7, <1>8, <1>9, <1>10, <1>11, <1>12, <1>13, <1>14
     DEF Next, Server, Client, Exited

(***************************************************************************)
(* Every step keeps what is known of the save: a trade needs somebody in   *)
(* the pool, and the last one to hang up leads to the save.                *)
(***************************************************************************)
LEMMA FileInvStep ==
  ASSUME EventsInv, [Next]_vars
  PROVE  FileInv'
<1> USE DEF EventsInv, PoolInv, Types
<1>1. ASSUME UNCHANGED <<stock, file, read_set, lastLeft>>, pc # "save" PROVE FileInv'
  BY <1>1 DEF FileInv
<1>2. ASSUME NEW c \in Clients,
             Connect(c) \/ SendLine(c) \/ SendHalf(c) \/ SendRest(c) \/ Hangup(c)
      PROVE  FileInv'
  BY <1>2 DEF Connect, SendLine, SendHalf, SendRest, Hangup, FileInv, serverVars,
              treeVars, poolVars, mainVars
<1>3. ASSUME Select \/ RoundEnd \/ NextSlot \/ Show \/ Ignore \/ Answer PROVE FileInv'
  <2>1. CASE Show
    BY <1>1, <2>1 DEF Show, poolVars
  <2>2. CASE Select \/ RoundEnd \/ NextSlot \/ Ignore \/ Answer
    BY <1>1, <2>2 DEF Select, RoundEnd, NextSlot, Ignore, Answer, treeVars, poolVars
  <2> QED
    BY <1>3, <2>1, <2>2
<1>4. ASSUME NEW c \in Clients, ReadLine(c) \/ ReadCutLine(c) PROVE FileInv'
  BY <1>1, <1>4 DEF ReadLine, ReadCutLine, At, treeVars, poolVars
<1>5. ASSUME add_client PROVE FileInv'
  BY <1>5 DEF add_client, FileInv
<1>6. ASSUME NEW c \in Clients, ReadEof(c) PROVE FileInv'
  <2>1. /\ pc' = IF AllClosed(clientfd') THEN "save" ELSE "check"
        /\ UNCHANGED <<stock, file>>
    BY <1>6 DEF ReadEof, treeVars
  <2>2. BooksAgree'
    BY <1>6, RoundStep DEF Next, Server
  <2>3. read_set' = {} => AllClosed(clientfd')
    <3>1. PoolType'
      BY <1>6, TypeStep
    <3> QED
      BY <2>2, <3>1 DEF BooksAgree, AllClosed
  <2> QED
    BY <2>1, <2>3 DEF FileInv
<1>7. ASSUME NEW c \in Clients, Exit(c) PROVE FileInv'
  BY <1>7 DEF Exit, CloseSlot, FileInv
<1>8. ASSUME Save PROVE FileInv'
  BY <1>8 DEF Save, FileInv
<1>9. ASSUME Trade PROVE FileInv'
  <2>1. read_set # {}
    BY <1>9, ServedSlot DEF Trade
  <2> QED
    BY <1>9, <2>1 DEF Trade, FileInv, poolVars
<1>10. ASSUME TooManyClients \/ Fails \/ UNCHANGED vars PROVE FileInv'
  BY <1>10 DEF TooManyClients, Fails, vars, serverVars, treeVars, poolVars, mainVars,
               FileInv
<1> QED
  BY <1>2, <1>3, <1>4, <1>5, <1>6, <1>7, <1>8, <1>9, <1>10 DEF Next, Server, Client, Exited

\* In the first state the pool is empty, and the file is the one just loaded.
LEMMA EventsInvInit == Init => EventsInv
<1> SUFFICES ASSUME Init PROVE EventsInv
  OBVIOUS
<1>1. TreeType /\ SelectType /\ EndType
  BY EventsAssumption DEF Init, TreeType, SelectType, EndType
<1>2. PoolType /\ SocketType /\ ListenType
  BY EventsAssumption DEF Init, PoolType, SocketType, ListenType
<1>3. MainType
  BY EventsAssumption DEF Init, MainType, NoLine, Commands
<1>4. BooksAgree /\ QueueInv /\ RoundInv /\ FileInv
  BY DEF Init, BooksAgree, QueueInv, RoundInv, FileInv
<1> QED
  BY <1>1, <1>2, <1>3, <1>4 DEF EventsInv, PoolInv, Types

\* All of it holds in every state the event loop reaches.
LEMMA EventsInvariance == Spec => []EventsInv
<1>1. Init => EventsInv
  BY EventsInvInit
<1>2. EventsInv /\ [Next]_vars => EventsInv'
  BY TypeStep, RoundStep, FileInvStep DEF EventsInv, PoolInv
<1> QED
  BY <1>1, <1>2, PTL DEF Spec

(***************************************************************************)
(* The pool's books agree, and the early end of check_clients' loop passes *)
(* over no client that is ready, for every number of clients and slots.    *)
(***************************************************************************)
THEOREM PoolStaysInStep == Spec => []PoolAgrees
<1>1. EventsInv => PoolAgrees
  <2> SUFFICES ASSUME EventsInv PROVE PoolAgrees
    OBVIOUS
  <2>1. TypeOK /\ BooksAgree
    BY TypesAreTypes DEF EventsInv, PoolInv
  <2>2. NreadyCounts
    BY DEF EventsInv, PoolInv, RoundInv, NreadyCounts, Pending
  <2> QED
    BY <2>1, <2>2 DEF PoolAgrees, BooksAgree
<1> QED
  BY <1>1, EventsInvariance, PTL

(***************************************************************************)
(* When the last client has hung up, stock.txt holds the stocks of the     *)
(* tree, whatever was bought and sold before and however many connected.   *)
(***************************************************************************)
THEOREM HangupSaves == Spec => []SavedWhenHungUp
<1>1. EventsInv => SavedWhenHungUp
  BY DEF EventsInv, FileInv, SavedWhenHungUp
<1> QED
  BY <1>1, EventsInvariance, PTL

-------------------------------------------------------------------------------
(***************************************************************************)
(* Orders: the line that is served is one a client sent, it has no verdict *)
(* before it is decided, and an order has one when it is answered.         *)
(***************************************************************************)
OrderInv ==
  /\ pc \in {"serve", "answer"} => req \in Requests \cup {NoLine}
  /\ pc # "answer" => verdict = "none"
  /\ pc = "answer" /\ IsTrade(req) => verdict # "none"

\* Every step keeps what is known of the order.
LEMMA OrderInvStep ==
  ASSUME PoolInv, OrderInv, [Next]_vars
  PROVE  OrderInv'
<1>1. ASSUME UNCHANGED <<pc, req, verdict>> PROVE OrderInv'
  BY <1>1 DEF OrderInv
<1>2. ASSUME NEW c \in Clients,
             Connect(c) \/ SendLine(c) \/ SendHalf(c) \/ SendRest(c) \/ Hangup(c)
      PROVE  OrderInv'
  BY <1>1, <1>2 DEF Connect, SendLine, SendHalf, SendRest, Hangup, serverVars, mainVars
<1>3. ASSUME Select \/ add_client \/ RoundEnd \/ NextSlot \/ Save \/ Ignore
      PROVE  OrderInv'
  BY <1>3 DEF Select, add_client, RoundEnd, NextSlot, Save, Ignore, OrderInv
<1>4. ASSUME NEW c \in Clients, ReadLine(c) \/ ReadCutLine(c) PROVE OrderInv'
  BY <1>4 DEF ReadLine, ReadCutLine, At, Says, OrderInv
<1>5. ASSUME NEW c \in Clients, ReadEof(c) \/ Exit(c) PROVE OrderInv'
  BY <1>5 DEF ReadEof, Exit, At, OrderInv
<1>6. ASSUME Show \/ Trade PROVE OrderInv'
  BY <1>6 DEF Show, Trade, OrderInv, IsTrade
<1>7. ASSUME Answer PROVE OrderInv'
  BY <1>7 DEF Answer, OrderInv
<1>8. ASSUME TooManyClients \/ Fails \/ UNCHANGED vars PROVE OrderInv'
  BY <1>1, <1>8 DEF TooManyClients, Fails, vars, serverVars, mainVars
<1> QED
  BY <1>2, <1>3, <1>4, <1>5, <1>6, <1>7, <1>8 DEF Next, Server, Client, Exited

Sessions == [c \in Clients |-> Session(c)]

\* One session changes, to what the step of the exchange says.
LEMMA OneSession ==
  ASSUME NEW c \in Clients,
         \A d \in Clients \ {c} : Session(d)' = Session(d)
  PROVE  Sessions' = [Sessions EXCEPT ![c] = Session(c)']
<1>1. \A d \in Clients : Session(d)' = IF d = c THEN Session(c)' ELSE Session(d)
  OBVIOUS
<1> QED
  BY <1>1 DEF Sessions

(***************************************************************************)
(* Every step of the event loop is one of the exchange, or none.           *)
(***************************************************************************)
LEMMA ExchangeStep ==
  ASSUME EventsInv, OrderInv, [Next]_vars
  PROVE  Exchange!Next \/ UNCHANGED Exchange!vars
<1> USE DEF EventsInv, PoolInv, Types
<1>0. PoolInv /\ OrderInv' /\ PoolInv'
  BY TypeStep, RoundStep, OrderInvStep
<1>1. ASSUME UNCHANGED <<stock, file>>, \A c \in Clients : Session(c)' = Session(c)
      PROVE  UNCHANGED Exchange!vars
  BY <1>1 DEF Exchange!vars
<1>2. ASSUME UNCHANGED <<stock, file, read_set, clientfd, i, pc, req, verdict>>
      PROVE  UNCHANGED Exchange!vars
  BY <1>1, <1>2 DEF Session
<1>3. ASSUME NEW c \in Clients,
             Connect(c) \/ SendLine(c) \/ SendHalf(c) \/ SendRest(c) \/ Hangup(c)
      PROVE  UNCHANGED Exchange!vars
  BY <1>2, <1>3 DEF Connect, SendLine, SendHalf, SendRest, Hangup, serverVars,
                    treeVars, poolVars, mainVars
<1>4. ASSUME TooManyClients \/ Fails \/ UNCHANGED vars PROVE UNCHANGED Exchange!vars
  BY <1>2, <1>4 DEF TooManyClients, Fails, vars, serverVars, treeVars, poolVars, mainVars
<1>5. ASSUME UNCHANGED <<stock, file, read_set>>,
             pc \notin {"serve", "answer"} \/ ~IsTrade(req),
             pc' \notin {"serve", "answer"} \/ ~IsTrade(req')
      PROVE  UNCHANGED Exchange!vars
  BY <1>1, <1>5 DEF Session
<1>6. ASSUME Select \/ RoundEnd \/ NextSlot \/ Show \/ Ignore
      PROVE  UNCHANGED Exchange!vars
  <2>1. CASE Select \/ RoundEnd \/ NextSlot
    BY <1>5, <2>1 DEF Select, RoundEnd, NextSlot, treeVars, poolVars
  <2>2. CASE Show \/ Ignore
    BY <1>5, <2>2 DEF Show, Ignore, treeVars, poolVars, IsTrade
  <2> QED
    BY <1>6, <2>1, <2>2
<1>7. ASSUME add_client PROVE Exchange!Next
  <2>1. PICK c \in Clients : c = Head(backlog) /\ c = backlog[1] /\ 1 \in DOMAIN backlog
    BY <1>7 DEF add_client, RoundInv, ListenType
  <2>2. c \notin read_set
    BY <2>1 DEF QueueInv, BooksAgree
  <2>3. /\ read_set' = read_set \cup {c} /\ UNCHANGED <<stock, file>>
        /\ pc \notin {"serve", "answer"} /\ pc' \notin {"serve", "answer"}
    BY <1>7, <2>1 DEF add_client, treeVars
  <2>4. Sessions' = [Sessions EXCEPT ![c] = Exchange!Idle] /\ Session(c) = Exchange!Out
    <3>1. /\ Session(c) = Exchange!Out /\ Session(c)' = Exchange!Idle
          /\ \A d \in Clients \ {c} : Session(d)' = Session(d)
      BY <2>1, <2>2, <2>3 DEF Session, Exchange!Out, Exchange!Idle
    <3> QED
      BY <2>1, <3>1, OneSession
  <2> QED
    BY <2>1, <2>3, <2>4 DEF Exchange!Next, Exchange!Connect, Sessions
<1>8. ASSUME NEW c \in Clients, ReadLine(c) \/ ReadCutLine(c)
      PROVE  Exchange!Next \/ UNCHANGED Exchange!vars
  <2>1. /\ At(c) /\ pc' = "serve" /\ UNCHANGED <<stock, file, clientfd, read_set, i>>
        /\ verdict' = verdict
    BY <1>8 DEF ReadLine, ReadCutLine, treeVars, poolVars
  <2>2. c \in read_set /\ c = clientfd[i] /\ pc = "check" /\ verdict = "none"
    BY <2>1, AtSlot DEF OrderInv
  <2>3. CASE IsTrade(req')
    <3>1. req' \in {r \in Requests : IsTrade(r)}
      BY <1>0, <2>1, <2>3 DEF OrderInv, IsTrade, NoLine
    <3>2. /\ Session(c) = Exchange!Idle /\ Session(c)' = Exchange!Asked(req')
          /\ \A d \in Clients \ {c} : Session(d)' = Session(d)
      BY <2>1, <2>2, <2>3 DEF Session, Exchange!Idle, Exchange!Asked
    <3>3. Sessions' = [Sessions EXCEPT ![c] = Exchange!Asked(req')]
      BY <3>2, OneSession
    <3> QED
      BY <2>1, <3>1, <3>2, <3>3 DEF Exchange!Next, Exchange!Ask, Sessions
  <2>4. CASE ~IsTrade(req')
    BY <1>5, <2>1, <2>2, <2>4
  <2> QED
    BY <2>3, <2>4
<1>9. ASSUME NEW c \in Clients, ReadEof(c) \/ Exit(c) PROVE Exchange!Next
  <2>1. /\ c \in read_set /\ read_set' = read_set \ {c} /\ UNCHANGED <<stock, file>>
        /\ pc \notin {"serve", "answer"} \/ ~IsTrade(req)
        /\ pc' \notin {"serve", "answer"}
    <3>1. CASE ReadEof(c)
      BY <3>1, AtSlot DEF ReadEof, CloseSlot, treeVars
    <3>2. CASE Exit(c)
      BY <3>2, ServedSlot DEF Exit, Current, CloseSlot, treeVars, IsTrade
    <3> QED
      BY <1>9, <3>1, <3>2
  <2>2. /\ Session(c) = Exchange!Idle /\ Session(c)' = Exchange!Out
        /\ \A d \in Clients \ {c} : Session(d)' = Session(d)
    BY <2>1 DEF Session, Exchange!Idle, Exchange!Out
  <2>3. Sessions' = [Sessions EXCEPT ![c] = Exchange!Out]
    BY <2>2, OneSession
  <2> QED
    BY <2>1, <2>2, <2>3 DEF Exchange!Next, Exchange!Leave, Sessions
<1>10. ASSUME Save PROVE Exchange!Next
  <2>1. /\ pc = "save" /\ pc' = "check" /\ file' = stock
        /\ UNCHANGED <<stock, read_set>>
    BY <1>10 DEF Save, poolVars
  <2>2. \A c \in Clients : Session(c) = Exchange!Out /\ Session(c)' = Exchange!Out
    BY <2>1 DEF RoundInv, Session, Exchange!Out
  <2>3. Exchange!Write
    BY <2>1, <2>2 DEF Exchange!Write, Exchange!NobodyIn
  <2> QED
    BY <2>3 DEF Exchange!Next
<1>11. ASSUME Trade PROVE Exchange!Next
  <2> DEFINE n == IF req.cmd = "buy" THEN - req.count ELSE req.count
  <2>1. PICK c \in Clients : c = clientfd[i] /\ c \in read_set
    BY <1>11, ServedSlot DEF Trade
  <2>2. req \in {r \in Requests : IsTrade(r)}
    BY <1>11, ServedSlot DEF Trade, OrderInv, IsTrade, NoLine
  <2>3. /\ pc = "serve" /\ pc' = "answer" /\ verdict = "none"
        /\ UNCHANGED <<file, read_set, clientfd, i, req>>
    BY <1>11 DEF Trade, OrderInv, poolVars
  <2>4. /\ verdict' = Exchange!Verdict(req)
        /\ stock' = IF Exchange!Verdict(req) = "success"
                    THEN [stock EXCEPT ![req.id] = @ + n] ELSE stock
    BY <1>11 DEF Trade, Short, Exchange!Verdict
  <2>5. n = Exchange!Change(req)
    BY DEF Exchange!Change
  <2> HIDE DEF n
  <2>6. /\ Session(c) = Exchange!Asked(req)
        /\ Session(c)' = Exchange!Told(req, Exchange!Verdict(req))
        /\ \A d \in Clients \ {c} : Session(d)' = Session(d)
    <3>1. Exchange!Verdict(req) # "none"
      BY DEF Exchange!Verdict
    <3> QED
      BY <2>1, <2>2, <2>3, <2>4, <3>1 DEF Session, Exchange!Asked, Exchange!Told
  <2>7. Sessions' = [Sessions EXCEPT ![c] = Exchange!Told(req, Exchange!Verdict(req))]
    BY <2>1, <2>6, OneSession
  <2>8. Exchange!Decide(c, req)
    BY <2>1, <2>3, <2>4, <2>5, <2>6, <2>7 DEF Exchange!Decide, Sessions
  <2> QED
    BY <2>1, <2>8, <2>2 DEF Exchange!Next
<1>12. ASSUME Answer PROVE Exchange!Next \/ UNCHANGED Exchange!vars
  <2>1. PICK c \in Clients : c = clientfd[i] /\ c \in read_set
    BY <1>12, ServedSlot DEF Answer
  <2>2. /\ pc = "answer" /\ pc' = "check" /\ UNCHANGED <<stock, file, read_set>>
    BY <1>12 DEF Answer, treeVars, poolVars
  <2>3. CASE IsTrade(req)
    <3>1. verdict # "none"
      BY <2>2, <2>3 DEF OrderInv
    <3>2. /\ Session(c).at = "told" /\ Session(c)' = Exchange!Idle
          /\ \A d \in Clients \ {c} : Session(d)' = Session(d)
      BY <2>1, <2>2, <2>3, <3>1 DEF Session, Exchange!Idle
    <3>3. Sessions' = [Sessions EXCEPT ![c] = Exchange!Idle]
      BY <2>1, <3>2, OneSession
    <3> QED
      BY <2>1, <2>2, <3>2, <3>3 DEF Exchange!Next, Exchange!Answer, Sessions
  <2>4. CASE ~IsTrade(req)
    BY <1>5, <2>2, <2>4
  <2> QED
    BY <2>3, <2>4
<1> QED
  BY <1>3, <1>4, <1>6, <1>7, <1>8, <1>9, <1>10, <1>11, <1>12
     DEF Next, Server, Client, Exited

(***************************************************************************)
(* The event loop implements the exchange, for every number of clients and *)
(* of slots: an order is decided in one step against the stocks of that    *)
(* moment, its client is told that decision, and stock.txt is written only *)
(* when nobody is in the pool.                                             *)
(***************************************************************************)
THEOREM LoopIsExchange == Spec => ImplementsExchange
<1> DEFINE All == EventsInv /\ OrderInv
<1>1. Init => All
  BY EventsInvInit DEF Init, OrderInv
<1>2. All /\ [Next]_vars => All'
  BY TypeStep, RoundStep, FileInvStep, OrderInvStep DEF EventsInv, PoolInv
<1>3. Init => Exchange!Init
  BY DEF Init, Exchange!Init, Exchange!Out, Session
<1>4. All /\ [Next]_vars => [Exchange!Next]_Exchange!vars
  BY ExchangeStep
<1> HIDE DEF All
<1> QED
  BY <1>1, <1>2, <1>3, <1>4, PTL DEF Spec, ImplementsExchange, Exchange!Spec
===============================================================================
