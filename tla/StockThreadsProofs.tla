-------------------------- MODULE StockThreadsProofs --------------------------
(***************************************************************************)
(* The threaded server, proved for every number of clients, every tree,    *)
(* every set of lines and every bound: no update is lost, the save is made *)
(* alone and leaves a whole file, nothing is oversold, and the server      *)
(* implements StockExchange.  Then, under the specification of             *)
(* StockSigint, what SIGINT leaves of stock.txt, whenever it comes.        *)
(***************************************************************************)
EXTENDS StockSigint, FiniteSetTheorems, WellFoundedInduction, TLAPS

(***************************************************************************)
(* strlen finds a terminator whenever there is one: there is a first one.  *)
(***************************************************************************)
LEMMA StrlenType ==
  ASSUME NEW mem \in Seq(Lines \cup {NoOne}),
         \E k \in DOMAIN mem : mem[k] = NoOne
  PROVE  strlen(mem) \in Nat
<1> DEFINE ends == {k \in DOMAIN mem : mem[k] = NoOne}
<1>1. ends \subseteq Nat /\ ends # {} /\ DOMAIN mem = 1..Len(mem)
  OBVIOUS
<1>2. PICK e \in ends : \A k \in ends : ~(<<k, e>> \in OpToRel(<, Nat))
  <2>1. IsWellFoundedOn(OpToRel(<, Nat), Nat)
    BY NatLessThanWellFounded
  <2> QED
    BY <1>1, <2>1, WFMin
<1>3. \A k \in ends : ~(k < e)
  BY <1>1, <1>2 DEF OpToRel
<1>4. e \in DOMAIN mem /\ mem[e] = NoOne /\ \A j \in 1..(e - 1) : mem[j] # NoOne
  <2>1. ASSUME NEW j \in 1..(e - 1) PROVE mem[j] # NoOne
    <3>1. j \in DOMAIN mem /\ j < e
      BY <1>1
    <3> QED
      BY <3>1, <1>3
  <2> QED
    BY <1>1, <2>1
<1> DEFINE first == CHOOSE k \in DOMAIN mem :
                      mem[k] = NoOne /\ \A j \in 1..(k - 1) : mem[j] # NoOne
<1>5. first \in DOMAIN mem
  BY <1>4
<1>6. strlen(mem) = first - 1
  BY DEF strlen
<1> HIDE DEF first
<1> QED
  BY <1>1, <1>5, <1>6

(***************************************************************************)
(* strcat's copy leaves the memory typed, and terminated.                  *)
(***************************************************************************)
LEMMA CopiedType ==
  ASSUME NEW mem \in Seq(Lines \cup {NoOne}), NEW n \in Nat, NEW l \in Lines
  PROVE  /\ Copied(mem, n, l) \in Seq(Lines \cup {NoOne})
         /\ \E k \in DOMAIN Copied(mem, n, l) : Copied(mem, n, l)[k] = NoOne
<1> DEFINE len == IF Len(mem) > n + 2 THEN Len(mem) ELSE n + 2
           at(k) == CASE k = n + 1 -> l
                      [] k = n + 2 -> NoOne
                      [] OTHER -> IF k <= Len(mem) THEN mem[k] ELSE NoOne
<1>1. len \in Nat /\ n + 2 \in 1..len
  OBVIOUS
<1>2. ASSUME NEW k \in 1..len PROVE at(k) \in Lines \cup {NoOne}
  <2>1. CASE k = n + 1
    BY <2>1
  <2>2. CASE k = n + 2
    BY <2>2
  <2>3. CASE k # n + 1 /\ k # n + 2
    BY <2>3
  <2> QED
    BY <2>1, <2>2, <2>3
<1>3. Copied(mem, n, l) = [k \in 1..len |-> at(k)]
  BY DEF Copied
<1>4. at(n + 2) = NoOne
  OBVIOUS
<1> HIDE DEF len, at
<1> QED
  BY <1>1, <1>2, <1>3, <1>4

\* A stream writes typed lines over typed lines.
LEMMA OverlayType ==
  ASSUME NEW old \in Seq(Lines), NEW new \in Seq(Lines)
  PROVE  Overlay(old, new) \in Seq(Lines)
BY DEF Overlay

\* Every place of the walk has an item, and the walk of a typed tree is typed.
LEMMA ImageType ==
  ASSUME NEW s \in [Items -> Int]
  PROVE  Image(s) \in Seq(Lines)
<1>1. DOMAIN VLR = 1..Len(VLR) /\ Len(VLR) \in Nat
  BY ThreadsAssumption
<1>2. \A k \in DOMAIN VLR : [id |-> VLR[k], stock |-> s[VLR[k]]] \in Lines
  BY DEF Lines, Items
<1> QED
  BY <1>1, <1>2 DEF Image

-------------------------------------------------------------------------------
(***************************************************************************)
(* The inductive invariant.  What a thread's place says of its locals: ... *)
(***************************************************************************)
Holding == {"test", "store", "V"}

Terminated == \E k \in DOMAIN showString : showString[k] = NoOne

AtPlace(c) ==
  /\ pc[c] \in {"sprintf", "scan", "copy", "fprintf"} => pos[c] \in DOMAIN VLR
  /\ pc[c] = "copy" => reg[c] \in Nat
  /\ pc[c] \in {"scan", "copy"} => line[c] \in Lines
  /\ pc[c] \in {"P"} \cup Holding => IsTrade(req[c]) /\ req[c].id \in Items

PlaceInv == Terminated /\ \A c \in Clients : AtPlace(c)

(***************************************************************************)
(* ... a thread between P and V has its item's semaphore to itself, so     *)
(* that what it loads is still there when it stores.                       *)
(***************************************************************************)
LockInv ==
  /\ \A c \in Clients : pc[c] \in Holding => sem[req[c].id] = 0
  /\ \A c, d \in Clients :
       pc[c] \in Holding /\ pc[d] \in Holding /\ req[c].id = req[d].id => c = d
  /\ NoLostUpdate

(***************************************************************************)
(* What threads keep in memory is apart from stock.txt: the handler of     *)
(* SIGINT leaves the one alone, and not the other.                         *)
(***************************************************************************)
MemType == /\ TreeType /\ MainType /\ PlaceType /\ LineType
           /\ RegType /\ StringType

MemInv == MemType /\ PlaceInv /\ LockInv

Inv == MemInv /\ FileType

(***************************************************************************)
(* Frames: a part of the type invariant outlives a step that leaves its    *)
(* variables alone, and a thread goes from a place to a place.             *)
(***************************************************************************)
LEMMA Frames ==
  /\ TreeType /\ UNCHANGED treeVars => TreeType'
  /\ MainType /\ UNCHANGED mainVars => MainType'
  /\ LineType /\ UNCHANGED lineVars => LineType'
  /\ RegType /\ UNCHANGED regVars => RegType'
  /\ StringType /\ UNCHANGED showString => StringType'
  /\ FileType /\ UNCHANGED fileVars => FileType'
<1>1. TreeType /\ UNCHANGED treeVars => TreeType'
  BY DEF TreeType, treeVars
<1>2. MainType /\ UNCHANGED mainVars => MainType'
  BY DEF MainType, mainVars
<1>3. LineType /\ UNCHANGED lineVars => LineType'
  BY DEF LineType, lineVars
<1>4. RegType /\ UNCHANGED regVars => RegType'
  BY DEF RegType, regVars
<1>5. StringType /\ UNCHANGED showString => StringType'
  BY DEF StringType
<1>6. FileType /\ UNCHANGED fileVars => FileType'
  BY DEF FileType, fileVars
<1> QED
  BY <1>1, <1>2, <1>3, <1>4, <1>5, <1>6

\* A Goto moves one thread to its label and leaves the others where they are.
LEMMA PlaceStep ==
  ASSUME PlaceType, NEW c \in Clients, NEW label \in Labels, Goto(c, label)
  PROVE  PlaceType' /\ pc'[c] = label /\ \A d \in Clients \ {c} : pc'[d] = pc[d]
BY DEF PlaceType, Goto

\* The labels of a thread, one by one: no place of the code is left out.
LEMMA AllLabels == \A l : l \in Labels <=>
  l \in {"out", "backlog", "accepted", "counted", "readline", "write", "close",
         "leave", "dispatch", "P", "test", "store", "V", "reset", "sprintf", "scan",
         "copy", "fopen", "fprintf", "fclose", "unlock"}
BY DEF Labels, Before, Counted, Trading, Showing, Saving

\* In the first state, right after main has loaded the tree, all of it holds.
THEOREM InvInit == Init => Inv
<1> SUFFICES ASSUME Init PROVE Inv
  OBVIOUS
<1>1. Image(InitStock) \in Seq(Lines)
  BY ThreadsAssumption, ImageType
<1>2. TypeOK
  <2>1. TreeType
    BY ThreadsAssumption DEF Init, TreeType
  <2>2. MainType /\ LineType
    BY DEF Init, MainType, LineType, NoLine, Commands
  <2>3. PlaceType
    BY AllLabels DEF Init, PlaceType
  <2>4. RegType
    BY DEF Init, RegType
  <2>5. StringType
    BY DEF Init, StringType
  <2>6. FileType
    BY <1>1 DEF Init, FileType, Closed
  <2> QED
    BY <2>1, <2>2, <2>3, <2>4, <2>5, <2>6 DEF TypeOK
<1>3. PlaceInv
  BY DEF Init, PlaceInv, Terminated, AtPlace, Holding
<1>4. LockInv
  BY DEF Init, LockInv, NoLostUpdate, Holding
<1> QED
  BY <1>2, <1>3, <1>4 DEF Inv, MemInv, MemType, TypeOK

-------------------------------------------------------------------------------
(***************************************************************************)
(* Every step keeps the types.  A step of P or V needs that the semaphore  *)
(* is free, or taken; those of a show and of a save need their place.      *)
(***************************************************************************)
LEMMA MemTypeStep ==
  ASSUME MemInv, [Next]_vars
  PROVE  MemType'
<1> USE DEF MemInv, MemType
<1>1. ASSUME Accept PROVE MemType'
  <2>1. PlaceType'
    BY <1>1, PlaceStep, AllLabels DEF Accept, MainType
  <2>2. MainType'
    BY <1>1 DEF Accept, MainType
  <2> QED
    BY <1>1, <2>1, <2>2, Frames DEF Accept
<1>2. ASSUME CountUp PROVE MemType'
  <2>1. PlaceType'
    BY <1>2, PlaceStep, AllLabels DEF CountUp, MainType
  <2>2. MainType'
    BY <1>2 DEF CountUp, MainType
  <2> QED
    BY <1>2, <2>1, <2>2, Frames DEF CountUp
<1>3. ASSUME Pthread_create PROVE MemType'
  <2>1. PlaceType'
    BY <1>3, PlaceStep, AllLabels DEF Pthread_create, MainType
  <2>2. MainType'
    BY <1>3 DEF Pthread_create, MainType
  <2> QED
    BY <1>3, <2>1, <2>2, Frames DEF Pthread_create
<1>4. ASSUME NEW c \in Clients, Connect(c) PROVE MemType'
  <2>1. PlaceType'
    BY <1>4, PlaceStep, AllLabels DEF Connect
  <2>2. MainType'
    BY <1>4 DEF Connect, MainType
  <2> QED
    BY <1>4, <2>1, <2>2, Frames DEF Connect
<1>5. ASSUME NEW c \in Clients, ReadLine(c) PROVE MemType'
  <2>1. PlaceType'
    BY <1>5, PlaceStep, AllLabels DEF ReadLine
  <2>2. LineType'
    BY <1>5, ThreadsAssumption DEF ReadLine, LineType
  <2> QED
    BY <1>5, <2>1, <2>2, Frames DEF ReadLine
<1>6. ASSUME NEW c \in Clients, EndOfInput(c) PROVE MemType'
  <2>1. PlaceType'
    BY <1>6, PlaceStep, AllLabels DEF EndOfInput
  <2> QED
    BY <1>6, <2>1, Frames DEF EndOfInput
<1>7. ASSUME NEW c \in Clients, ConnFails(c) PROVE MemType'
  <2>1. PlaceType'
    BY <1>7 DEF ConnFails, PlaceType
  <2> QED
    BY <1>7, <2>1, Frames DEF ConnFails
<1>8. ASSUME NEW c \in Clients, Dispatch(c) PROVE MemType'
  <2>1. PlaceType'
    <3> DEFINE label ==
          CASE req[c].cmd = "show"  -> "reset"
            [] IsTrade(req[c])      -> IF req[c].id \in Items THEN "P" ELSE "write"
            [] req[c].cmd = "exit"  -> "close"
            [] req[c].cmd = "other" -> "readline"
    <3>1. req[c].cmd \in Commands
      BY DEF LineType
    <3>2. label \in {"reset", "P", "write", "close", "readline"}
      BY <3>1 DEF Commands, IsTrade
    <3>3. Goto(c, label)
      BY <1>8 DEF Dispatch
    <3> HIDE DEF label
    <3> QED
      BY <3>2, <3>3, PlaceStep, AllLabels
  <2>2. LineType'
    BY <1>8 DEF Dispatch, LineType, NoLine, Commands
  <2> QED
    BY <1>8, <2>1, <2>2, Frames DEF Dispatch
<1>9. ASSUME NEW c \in Clients, P(c) PROVE MemType'
  <2>1. PlaceType'
    BY <1>9, PlaceStep, AllLabels DEF P
  <2>2. TreeType'
    BY <1>9 DEF P, TreeType, PlaceInv, Terminated, AtPlace, Taken
  <2> QED
    BY <1>9, <2>1, <2>2, Frames DEF P
<1>10. ASSUME NEW c \in Clients, Test(c) PROVE MemType'
  <2>1. PlaceType'
    BY <1>10, PlaceStep, AllLabels DEF Test
  <2>2. LineType'
    BY <1>10 DEF Test, LineType
  <2>3. RegType'
    BY <1>10 DEF Test, RegType, PlaceInv, Terminated, AtPlace, Holding, TreeType
  <2> QED
    BY <1>10, <2>1, <2>2, <2>3, Frames DEF Test
<1>11. ASSUME NEW c \in Clients, Store(c) PROVE MemType'
  <2>1. PlaceType'
    BY <1>11, PlaceStep, AllLabels DEF Store
  <2>2. TreeType'
    BY <1>11 DEF Store, TreeType, PlaceInv, Terminated, AtPlace, Holding, LineType, RegType, Lines
  <2>3. LineType'
    BY <1>11 DEF Store, LineType
  <2>4. RegType'
    BY <1>11 DEF Store, RegType
  <2> QED
    BY <1>11, <2>1, <2>2, <2>3, <2>4, Frames DEF Store
<1>12. ASSUME NEW c \in Clients, V(c) PROVE MemType'
  <2>1. PlaceType'
    BY <1>12, PlaceStep, AllLabels DEF V
  <2>2. TreeType'
    BY <1>12 DEF V, TreeType, PlaceInv, Terminated, AtPlace, LockInv, Holding
  <2> QED
    BY <1>12, <2>1, <2>2, Frames DEF V
<1>13. ASSUME NEW c \in Clients, Reply(c) PROVE MemType'
  <2>1. PlaceType'
    BY <1>13, PlaceStep, AllLabels DEF Reply
  <2>2. TreeType'
    BY <1>13 DEF Reply, TreeType
  <2>3. LineType'
    BY <1>13 DEF Reply, LineType, NoLine, Commands
  <2> QED
    BY <1>13, <2>1, <2>2, <2>3, Frames DEF Reply
<1>14. ASSUME NEW c \in Clients, ResetString(c) PROVE MemType'
  <2>1. PlaceType'
    BY <1>14, PlaceStep, AllLabels DEF ResetString
  <2>2. TreeType'
    BY <1>14 DEF ResetString, TreeType, Lines
  <2>3. RegType'
    BY <1>14 DEF ResetString, RegType
  <2>4. StringType'
    BY <1>14 DEF ResetString, StringType, Emptied, PlaceInv, Terminated, AtPlace
  <2> QED
    BY <1>14, <2>1, <2>2, <2>3, <2>4, Frames DEF ResetString
<1>15. ASSUME NEW c \in Clients, Sprintf(c) PROVE MemType'
  <2>1. PlaceType'
    BY <1>15, PlaceStep, AllLabels DEF Sprintf
  <2>2. RegType'
    BY <1>15 DEF Sprintf, RegType, PlaceInv, Terminated, AtPlace, TreeType, Lines, Items
  <2> QED
    BY <1>15, <2>1, <2>2, Frames DEF Sprintf
<1>16. ASSUME NEW c \in Clients, StrcatScan(c) PROVE MemType'
  <2>1. PlaceType'
    BY <1>16, PlaceStep, AllLabels DEF StrcatScan
  <2>2. RegType'
    <3>1. strlen(showString) \in Nat
      BY StrlenType DEF PlaceInv, Terminated, AtPlace, StringType
    <3> QED
      BY <1>16, <3>1 DEF StrcatScan, RegType
  <2> QED
    BY <1>16, <2>1, <2>2, Frames DEF StrcatScan
<1>17. ASSUME NEW c \in Clients, StrcatCopy(c) PROVE MemType'
  <2>1. PlaceType'
    BY <1>17, PlaceStep, AllLabels DEF StrcatCopy
  <2>2. RegType'
    BY <1>17 DEF StrcatCopy, RegType, PlaceInv, Terminated, AtPlace
  <2>3. StringType'
    BY <1>17, CopiedType DEF StrcatCopy, StringType, PlaceInv, Terminated, AtPlace
  <2> QED
    BY <1>17, <2>1, <2>2, <2>3, Frames DEF StrcatCopy
<1>18. ASSUME NEW c \in Clients, Close(c) PROVE MemType'
  <2>1. PlaceType'
    BY <1>18, PlaceStep, AllLabels DEF Close
  <2> QED
    BY <1>18, <2>1, Frames DEF Close
<1>19. ASSUME NEW c \in Clients, CountDown(c) PROVE MemType'
  <2>1. PlaceType'
    BY <1>19, PlaceStep, AllLabels DEF CountDown
  <2>2. MainType'
    BY <1>19 DEF CountDown, MainType
  <2> QED
    BY <1>19, <2>1, <2>2, Frames DEF CountDown
<1>20. ASSUME NEW c \in Clients, Fopen(c) PROVE MemType'
  <2>1. PlaceType'
    BY <1>20, PlaceStep, AllLabels DEF Fopen
  <2>2. RegType'
    BY <1>20 DEF Fopen, RegType
  <2> QED
    BY <1>20, <2>1, <2>2, Frames DEF Fopen
<1>21. ASSUME NEW c \in Clients, Fprintf(c) PROVE MemType'
  <2>1. PlaceType'
    BY <1>21, PlaceStep, AllLabels DEF Fprintf
  <2>2. RegType'
    BY <1>21 DEF Fprintf, RegType, PlaceInv, Terminated, AtPlace
  <2> QED
    BY <1>21, <2>1, <2>2, Frames DEF Fprintf
<1>22. ASSUME NEW c \in Clients, Fclose(c) PROVE MemType'
  <2>1. PlaceType'
    BY <1>22, PlaceStep, AllLabels DEF Fclose
  <2> QED
    BY <1>22, <2>1, Frames DEF Fclose
<1>23. ASSUME NEW c \in Clients, Unlock(c) PROVE MemType'
  <2>1. PlaceType'
    BY <1>23, PlaceStep, AllLabels DEF Unlock
  <2>2. MainType'
    BY <1>23 DEF Unlock, MainType
  <2> QED
    BY <1>23, <2>1, <2>2, Frames DEF Unlock
<1>24. CASE UNCHANGED vars
  BY <1>24, Frames DEF vars, PlaceType
<1>25. ASSUME MainFails PROVE MemType'
  <2>1. PlaceType'
    BY <1>25 DEF MainFails, PlaceType
  <2> QED
    BY <1>25, <2>1, Frames DEF MainFails
<1> QED
  BY <1>1, <1>2, <1>3, <1>4, <1>5, <1>6, <1>7, <1>8, <1>9, <1>10, <1>11, <1>12, <1>13, <1>14, <1>15, <1>16, <1>17, <1>18, <1>19, <1>20, <1>21, <1>22, <1>23, <1>24, <1>25 DEF Next, Main, MainGoesOn, Client, Work, Exited

(***************************************************************************)
(* stock.txt and the stream of a save keep their types, too.               *)
(***************************************************************************)
LEMMA FileTypeStep ==
  ASSUME MemInv, FileType, [Next]_vars
  PROVE  FileType'
<1>1. ASSUME NEW c \in Clients, ConnFails(c) PROVE FileType'
  BY <1>1, OverlayType DEF ConnFails, FileType, Flushed
<1>2. ASSUME NEW c \in Clients, Fopen(c) PROVE FileType'
  <2>1. Opened \in [at : {"closed", "live"}, buf : Seq(Lines)]
    BY DEF Opened
  <2>2. /\ (file' = <<>> /\ fp' = Opened) \/ (file' = file /\ fp' = fp)
        /\ status' = status
    BY <1>2 DEF Fopen
  <2>3. <<>> \in Seq(Lines)
    OBVIOUS
  <2> QED
    BY <2>1, <2>2, <2>3 DEF FileType
<1>3. ASSUME NEW c \in Clients, Fprintf(c) PROVE FileType'
  <2>1. [id |-> VLR[pos[c]], stock |-> stock[VLR[pos[c]]]] \in Lines
    BY <1>3 DEF Fprintf, MemInv, MemType, PlaceInv, AtPlace, TreeType, Lines, Items
  <2>2. fp' \in [at : {"closed", "live"}, buf : Seq(Lines)]
    <3>1. fp.buf \in Seq(Lines) /\ fp.at \in {"closed", "live"}
      BY DEF FileType
    <3>2. Append(fp.buf, [id |-> VLR[pos[c]], stock |-> stock[VLR[pos[c]]]])
            \in Seq(Lines)
      BY <2>1, <3>1
    <3> QED
      BY <1>3, <3>1, <3>2 DEF Fprintf, FileType
  <2> QED
    BY <1>3, <2>2 DEF Fprintf, FileType
<1>4. ASSUME NEW c \in Clients, Fclose(c) PROVE FileType'
  <2>1. Flushed \in Seq(Lines)
    BY OverlayType DEF Flushed, FileType
  <2> QED
    BY <1>4, <2>1 DEF Fclose, FileType, Closed
<1>5. CASE UNCHANGED fileVars
  BY <1>5, Frames
<1>6. CASE MainFails
  BY <1>6, OverlayType DEF MainFails, FileType, Flushed
<1> QED
  BY <1>1, <1>2, <1>3, <1>4, <1>5, <1>6
     DEF Next, Main, MainGoesOn, Client, Work, Exited, vars, Accept, CountUp, Pthread_create,
         Connect, ReadLine, EndOfInput, Dispatch, P, Test, Store, V, Reply,
         ResetString, Sprintf, StrcatScan, StrcatCopy, Close, CountDown, Unlock

-------------------------------------------------------------------------------
\* A step of thread c that keeps the other threads' locals has to keep its own.
LEMMA PlaceFrame ==
  ASSUME MemInv, NEW c \in Clients, NEW label \in Labels, Goto(c, label),
         \A d \in Clients \ {c} : /\ reg'[d] = reg[d] /\ pos'[d] = pos[d]
                                 /\ line'[d] = line[d] /\ req'[d] = req[d],
         AtPlace(c)', Terminated'
  PROVE  PlaceInv'
<1>1. ASSUME NEW d \in Clients \ {c} PROVE AtPlace(d)'
  <2>1. AtPlace(d) /\ pc'[d] = pc[d]
    BY PlaceStep DEF MemInv, MemType, PlaceInv
  <2> QED
    BY <2>1 DEF AtPlace, Holding
<1> QED
  BY <1>1 DEF PlaceInv

(***************************************************************************)
(* The dispatch, which decides where a thread goes, and the steps of a     *)
(* walk, which compute the locals the next place relies on.                *)
(***************************************************************************)
LEMMA WalkSteps ==
  ASSUME MemInv, NEW c \in Clients,
         \/ Dispatch(c) \/ ResetString(c) \/ Sprintf(c) \/ StrcatScan(c)
         \/ StrcatCopy(c) \/ Fopen(c)
  PROVE  PlaceInv'
<1> USE DEF MemInv, MemType
<1>0. PlaceInv /\ AtPlace(c) /\ Terminated
  BY DEF PlaceInv
<1> DEFINE others == \A d \in Clients \ {c} :
      reg'[d] = reg[d] /\ pos'[d] = pos[d] /\ line'[d] = line[d] /\ req'[d] = req[d]
<1>1. CASE Dispatch(c)
  <2>1. PICK label \in Labels : 
          /\ Goto(c, label) /\ label \in {"reset", "P", "write", "close", "readline"}
          /\ label = "P" => IsTrade(req[c]) /\ req[c].id \in Items
    BY <1>1, AllLabels DEF Dispatch, LineType, Commands, IsTrade
  <2>2. pc'[c] = label
    BY <2>1, PlaceStep
  <2>3. AtPlace(c)'
    <3>1. IsTrade(req[c]) => req'[c] = req[c]
      BY <1>1 DEF Dispatch, LineType, IsTrade
    <3> QED
      BY <2>1, <2>2, <3>1 DEF AtPlace, Holding
  <2>4. Terminated'
    BY <1>1, <1>0 DEF Dispatch, Terminated
  <2>5. others
    BY <1>1 DEF Dispatch, RegType, LineType, regVars, lineVars
  <2> QED
    BY <2>1, <2>3, <2>4, <2>5, PlaceFrame
<1>2. CASE ResetString(c)
  <2>1. PICK label \in Labels : /\ Goto(c, label) /\ label \in {"write", "sprintf"}
                                /\ label = "sprintf" => VLR # <<>>
    BY <1>2, AllLabels DEF ResetString
  <2>2. pc'[c] = label
    BY <2>1, PlaceStep
  <2>3. AtPlace(c)'
    <3>1. pos'[c] = 1 /\ (VLR # <<>> => 1 \in DOMAIN VLR)
      BY <1>2, ThreadsAssumption DEF ResetString, RegType
    <3> QED
      BY <2>1, <2>2, <3>1 DEF AtPlace, Holding
  <2>4. Terminated'
    BY <1>2, <1>0 DEF ResetString, Terminated, Emptied, StringType
  <2>5. others
    BY <1>2 DEF ResetString, RegType, LineType, regVars, lineVars
  <2> QED
    BY <2>1, <2>3, <2>4, <2>5, PlaceFrame
<1>3. CASE Sprintf(c)
  <2>1. PICK label \in Labels : Goto(c, label) /\ label = "scan"
    BY <1>3, AllLabels DEF Sprintf
  <2>2. pc'[c] = label
    BY <2>1, PlaceStep
  <2>3. AtPlace(c)'
    <3>1. pos[c] \in DOMAIN VLR /\ pos'[c] = pos[c]
      BY <1>3, <1>0 DEF Sprintf, AtPlace
    <3>2. line'[c] \in Lines
      BY <1>3, <3>1 DEF Sprintf, RegType, TreeType, Lines, Items
    <3> QED
      BY <2>1, <2>2, <3>1, <3>2 DEF AtPlace, Holding
  <2>4. Terminated'
    BY <1>3, <1>0 DEF Sprintf, Terminated
  <2>5. others
    BY <1>3 DEF Sprintf, RegType, LineType, regVars, lineVars
  <2> QED
    BY <2>1, <2>3, <2>4, <2>5, PlaceFrame
<1>4. CASE StrcatScan(c)
  <2>1. PICK label \in Labels : Goto(c, label) /\ label = "copy"
    BY <1>4, AllLabels DEF StrcatScan
  <2>2. pc'[c] = label
    BY <2>1, PlaceStep
  <2>3. AtPlace(c)'
    <3>1. /\ pos[c] \in DOMAIN VLR /\ pos'[c] = pos[c]
          /\ line[c] \in Lines /\ line'[c] = line[c]
      BY <1>4, <1>0 DEF StrcatScan, AtPlace
    <3>2. strlen(showString) \in Nat
      BY <1>0, StrlenType DEF Terminated, StringType
    <3>3. reg'[c] = strlen(showString)
      BY <1>4 DEF StrcatScan, RegType
    <3> QED
      BY <2>1, <2>2, <3>1, <3>2, <3>3 DEF AtPlace, Holding
  <2>4. Terminated'
    BY <1>4, <1>0 DEF StrcatScan, Terminated
  <2>5. others
    BY <1>4 DEF StrcatScan, RegType, LineType, regVars, lineVars
  <2> QED
    BY <2>1, <2>3, <2>4, <2>5, PlaceFrame
<1>5. CASE StrcatCopy(c)
  <2>1. PICK label \in Labels : Goto(c, label) /\ label \in {"write", "sprintf"}
    BY <1>5, AllLabels DEF StrcatCopy
  <2>2. pc'[c] = label
    BY <2>1, PlaceStep
  <2>3. AtPlace(c)'
    BY <1>5, <1>0, <2>1, <2>2 DEF StrcatCopy, AtPlace, Holding, RegType, LineType
  <2>4. Terminated'
    <3>1. reg[c] \in Nat /\ line[c] \in Lines
      BY <1>5, <1>0 DEF StrcatCopy, AtPlace
    <3>2. showString' = Copied(showString, reg[c], line[c])
      BY <1>5 DEF StrcatCopy
    <3> QED
      BY <3>1, <3>2, CopiedType DEF Terminated, StringType
  <2>5. others
    BY <1>5 DEF StrcatCopy, RegType, LineType, regVars, lineVars
  <2> QED
    BY <2>1, <2>3, <2>4, <2>5, PlaceFrame
<1>6. CASE Fopen(c)
  <2>1. PICK label \in Labels : /\ Goto(c, label) /\ label \in {"fclose", "fprintf", "unlock"}
                                /\ label = "fprintf" => VLR # <<>>
    BY <1>6, AllLabels DEF Fopen
  <2>2. pc'[c] = label
    BY <2>1, PlaceStep
  <2>3. AtPlace(c)'
    <3>1. pos'[c] = 1 /\ (VLR # <<>> => 1 \in DOMAIN VLR)
      BY <1>6, ThreadsAssumption DEF Fopen, RegType
    <3> QED
      BY <2>1, <2>2, <3>1 DEF AtPlace, Holding
  <2>4. Terminated'
    BY <1>6, <1>0 DEF Fopen, Terminated
  <2>5. others
    BY <1>6 DEF Fopen, RegType, LineType, regVars, lineVars
  <2> QED
    BY <2>1, <2>3, <2>4, <2>5, PlaceFrame
<1> QED
  BY <1>1, <1>2, <1>3, <1>4, <1>5, <1>6

(***************************************************************************)
(* Every step keeps what a place says of the locals.                       *)
(***************************************************************************)
LEMMA PlaceInvStep ==
  ASSUME MemInv, [Next]_vars
  PROVE  PlaceInv'
<1> USE DEF MemInv, MemType, PlaceInv, AtPlace, Terminated, Holding, Goto, PlaceType, LineType, RegType, treeVars, mainVars,
        lineVars, regVars, fileVars
<1>1. ASSUME Accept PROVE PlaceInv'
  BY <1>1 DEF Accept
<1>2. ASSUME CountUp PROVE PlaceInv'
  BY <1>2 DEF CountUp
<1>3. ASSUME Pthread_create PROVE PlaceInv'
  BY <1>3 DEF Pthread_create
<1>4. ASSUME NEW c \in Clients, Connect(c) PROVE PlaceInv'
  BY <1>4 DEF Connect
<1>5. ASSUME NEW c \in Clients, ReadLine(c) PROVE PlaceInv'
  BY <1>5 DEF ReadLine
<1>6. ASSUME NEW c \in Clients, EndOfInput(c) PROVE PlaceInv'
  BY <1>6 DEF EndOfInput
<1>7. ASSUME NEW c \in Clients, ConnFails(c) PROVE PlaceInv'
  BY <1>7 DEF ConnFails
<1>8. ASSUME NEW c \in Clients, Dispatch(c) PROVE PlaceInv'
  BY <1>8, WalkSteps
<1>9. ASSUME NEW c \in Clients, P(c) PROVE PlaceInv'
  BY <1>9 DEF P
<1>10. ASSUME NEW c \in Clients, Test(c) PROVE PlaceInv'
  BY <1>10 DEF Test
<1>11. ASSUME NEW c \in Clients, Store(c) PROVE PlaceInv'
  BY <1>11 DEF Store
<1>12. ASSUME NEW c \in Clients, V(c) PROVE PlaceInv'
  BY <1>12 DEF V
<1>13. ASSUME NEW c \in Clients, Reply(c) PROVE PlaceInv'
  BY <1>13 DEF Reply
<1>14. ASSUME NEW c \in Clients, ResetString(c) PROVE PlaceInv'
  BY <1>14, WalkSteps
<1>15. ASSUME NEW c \in Clients, Sprintf(c) PROVE PlaceInv'
  BY <1>15, WalkSteps
<1>16. ASSUME NEW c \in Clients, StrcatScan(c) PROVE PlaceInv'
  BY <1>16, WalkSteps
<1>17. ASSUME NEW c \in Clients, StrcatCopy(c) PROVE PlaceInv'
  BY <1>17, WalkSteps
<1>18. ASSUME NEW c \in Clients, Close(c) PROVE PlaceInv'
  BY <1>18 DEF Close
<1>19. ASSUME NEW c \in Clients, CountDown(c) PROVE PlaceInv'
  BY <1>19 DEF CountDown
<1>20. ASSUME NEW c \in Clients, Fopen(c) PROVE PlaceInv'
  BY <1>20, WalkSteps
<1>21. ASSUME NEW c \in Clients, Fprintf(c) PROVE PlaceInv'
  BY <1>21 DEF Fprintf
<1>22. ASSUME NEW c \in Clients, Fclose(c) PROVE PlaceInv'
  BY <1>22 DEF Fclose
<1>23. ASSUME NEW c \in Clients, Unlock(c) PROVE PlaceInv'
  BY <1>23 DEF Unlock
<1>24. CASE UNCHANGED vars
  BY <1>24 DEF vars
<1>25. ASSUME MainFails PROVE PlaceInv'
  BY <1>25 DEF MainFails
<1> QED
  BY <1>1, <1>2, <1>3, <1>4, <1>5, <1>6, <1>7, <1>8, <1>9, <1>10, <1>11, <1>12, <1>13, <1>14, <1>15, <1>16, <1>17, <1>18, <1>19, <1>20, <1>21, <1>22, <1>23, <1>24, <1>25 DEF Next, Main, MainGoesOn, Client, Work, Exited

\* No dispatch, fopen or count down lets a thread into its critical section.
LEMMA OutsideSteps ==
  ASSUME MemInv, NEW c \in Clients, Dispatch(c) \/ Fopen(c) \/ CountDown(c)
  PROVE  LockInv'
<1> USE DEF MemInv, MemType
<1>1. PICK label \in Labels : Goto(c, label) /\ label \notin Holding
  BY AllLabels DEF Dispatch, Fopen, CountDown, LineType, Commands, IsTrade, Holding
<1>2. pc'[c] \notin Holding /\ \A d \in Clients \ {c} : pc'[d] = pc[d]
  BY <1>1, PlaceStep
<1>3. \A d \in Clients \ {c} : req'[d] = req[d] /\ reg'[d] = reg[d]
  BY DEF Dispatch, Fopen, CountDown, LineType, RegType, lineVars, regVars
<1>4. sem' = sem /\ stock' = stock
  BY DEF Dispatch, Fopen, CountDown, treeVars
<1> HIDE DEF TypeOK
<1>5. "store" \in Holding
  BY DEF Holding
<1> QED
  BY <1>2, <1>3, <1>4, <1>5 DEF LockInv, NoLostUpdate

(***************************************************************************)
(* Who gets past P finds the semaphore at one, so that no thread holds it. *)
(***************************************************************************)
LEMMA PStep ==
  ASSUME MemInv, NEW c \in Clients, P(c)
  PROVE  LockInv'
<1> USE DEF MemInv, MemType
<1>1. /\ pc'[c] = "test" /\ pc[c] = "P"
      /\ \A d \in Clients \ {c} : pc'[d] = pc[d]
  BY PlaceStep, AllLabels DEF P
<1>2. req' = req /\ reg' = reg /\ stock' = stock
  BY DEF P, lineVars, regVars
<1> DEFINE i == req[c].id
<1>3. i \in Items /\ sem[i] = 1
  BY <1>1 DEF PlaceInv, AtPlace, TreeType, P, Taken
<1>4. sem' = [sem EXCEPT ![i] = 0]
  BY <1>3 DEF P
<1>5. \A d \in Clients : pc[d] \in Holding => req[d].id # i /\ req[d].id \in Items
  BY <1>3 DEF LockInv, PlaceInv, AtPlace
<1>6. \A d \in Clients : pc'[d] \in Holding => sem'[req[d].id] = 0
  BY <1>1, <1>3, <1>4, <1>5 DEF LockInv, TreeType
<1>7. ASSUME NEW d \in Clients, NEW e \in Clients,
             pc'[d] \in Holding, pc'[e] \in Holding, req[d].id = req[e].id
      PROVE  d = e
  BY <1>1, <1>5, <1>7 DEF LockInv
<1>8. NoLostUpdate'
  BY <1>1, <1>2 DEF LockInv, NoLostUpdate
<1> QED
  BY <1>2, <1>6, <1>7, <1>8 DEF LockInv

(***************************************************************************)
(* Every step keeps the semaphores exclusive, and what was loaded fresh.   *)
(***************************************************************************)
LEMMA LockInvStep ==
  ASSUME MemInv, [Next]_vars
  PROVE  LockInv'
<1> USE DEF MemInv, MemType, LockInv, NoLostUpdate, Holding, PlaceInv, AtPlace, Goto, PlaceType, LineType, RegType,
        TreeType, treeVars, mainVars, lineVars, regVars, fileVars
<1>1. ASSUME Accept PROVE LockInv'
  BY <1>1 DEF Accept
<1>2. ASSUME CountUp PROVE LockInv'
  BY <1>2 DEF CountUp
<1>3. ASSUME Pthread_create PROVE LockInv'
  BY <1>3 DEF Pthread_create
<1>4. ASSUME NEW c \in Clients, Connect(c) PROVE LockInv'
  BY <1>4 DEF Connect
<1>5. ASSUME NEW c \in Clients, ReadLine(c) PROVE LockInv'
  BY <1>5 DEF ReadLine
<1>6. ASSUME NEW c \in Clients, EndOfInput(c) PROVE LockInv'
  BY <1>6 DEF EndOfInput
<1>7. ASSUME NEW c \in Clients, ConnFails(c) PROVE LockInv'
  BY <1>7 DEF ConnFails
<1>8. ASSUME NEW c \in Clients, Dispatch(c) PROVE LockInv'
  BY <1>8, OutsideSteps
<1>9. ASSUME NEW c \in Clients, P(c) PROVE LockInv'
  BY <1>9, PStep
<1>10. ASSUME NEW c \in Clients, Test(c) PROVE LockInv'
  BY <1>10 DEF Test
<1>11. ASSUME NEW c \in Clients, Store(c) PROVE LockInv'
  BY <1>11 DEF Store
<1>12. ASSUME NEW c \in Clients, V(c) PROVE LockInv'
  BY <1>12 DEF V
<1>13. ASSUME NEW c \in Clients, Reply(c) PROVE LockInv'
  BY <1>13 DEF Reply
<1>14. ASSUME NEW c \in Clients, ResetString(c) PROVE LockInv'
  BY <1>14 DEF ResetString
<1>15. ASSUME NEW c \in Clients, Sprintf(c) PROVE LockInv'
  BY <1>15 DEF Sprintf
<1>16. ASSUME NEW c \in Clients, StrcatScan(c) PROVE LockInv'
  BY <1>16 DEF StrcatScan
<1>17. ASSUME NEW c \in Clients, StrcatCopy(c) PROVE LockInv'
  BY <1>17 DEF StrcatCopy
<1>18. ASSUME NEW c \in Clients, Close(c) PROVE LockInv'
  BY <1>18 DEF Close
<1>19. ASSUME NEW c \in Clients, CountDown(c) PROVE LockInv'
  BY <1>19, OutsideSteps
<1>20. ASSUME NEW c \in Clients, Fopen(c) PROVE LockInv'
  BY <1>20, OutsideSteps
<1>21. ASSUME NEW c \in Clients, Fprintf(c) PROVE LockInv'
  BY <1>21 DEF Fprintf
<1>22. ASSUME NEW c \in Clients, Fclose(c) PROVE LockInv'
  BY <1>22 DEF Fclose
<1>23. ASSUME NEW c \in Clients, Unlock(c) PROVE LockInv'
  BY <1>23 DEF Unlock
<1>24. CASE UNCHANGED vars
  BY <1>24 DEF vars
<1>25. ASSUME MainFails PROVE LockInv'
  BY <1>25 DEF MainFails
<1> QED
  BY <1>1, <1>2, <1>3, <1>4, <1>5, <1>6, <1>7, <1>8, <1>9, <1>10, <1>11, <1>12, <1>13, <1>14, <1>15, <1>16, <1>17, <1>18, <1>19, <1>20, <1>21, <1>22, <1>23, <1>24, <1>25 DEF Next, Main, MainGoesOn, Client, Work, Exited

-------------------------------------------------------------------------------
\* No step of main, of a client or of a thread breaks what is in memory.
LEMMA MemInvStep ==
  ASSUME MemInv, [Next]_vars
  PROVE  MemInv'
BY MemTypeStep, PlaceInvStep, LockInvStep DEF MemInv

(***************************************************************************)
(* What the server's threads can rely on, in every state it reaches.       *)
(***************************************************************************)
THEOREM Invariance == Spec => []Inv
<1>1. Init => Inv
  BY InvInit
<1>2. Inv /\ [Next]_vars => Inv'
  BY MemInvStep, FileTypeStep DEF Inv
<1> QED
  BY <1>1, <1>2, PTL DEF Spec

\* Every variable keeps its type, and no semaphore counts beyond one.
THEOREM TypeCorrect == Spec => []TypeOK
<1>1. Inv => TypeOK
  BY DEF Inv, MemInv, MemType, TypeOK
<1> QED
  BY <1>1, Invariance, PTL

(***************************************************************************)
(* Between a thread's load of left_stock and its store nobody changes it:  *)
(* no buy and no sell is lost, whatever the threads, items and requests.   *)
(***************************************************************************)
THEOREM NoUpdateIsLost == Spec => []NoLostUpdate
<1>1. Inv => NoLostUpdate
  BY DEF Inv, MemInv, LockInv
<1> QED
  BY <1>1, Invariance, PTL

-------------------------------------------------------------------------------
(***************************************************************************)
(* Main and the threads.  A connection is in the backlog once, main has at *)
(* most the one it accepted, and the mutex is held by the thread that      *)
(* saves while nobody else is counted.                                     *)
(***************************************************************************)
MainInv ==
  /\ \A k \in DOMAIN backlog : pc[backlog[k]] = "backlog"
  /\ \A j, k \in DOMAIN backlog : backlog[j] = backlog[k] => j = k
  /\ conn # NoOne => pc[conn] \in {"accepted", "counted"}

MutexInv ==
  /\ CountsThreads
  /\ \A c \in Clients : pc[c] \in Saving => mutex = c /\ thread_count = 0

AloneInv == MainInv /\ MutexInv

-------------------------------------------------------------------------------
\* A place belongs to one part of a connection's life.
LEMMA Parts ==
  /\ \A l \in Counted : l \in Labels /\ l \notin Saving /\ l \notin Before
  /\ \A l \in Saving : l \in Labels /\ l \notin Before
  /\ \A l \in Before : l \in Labels
  /\ \A l \in Labels : l \in Before \/ l \in Counted \/ l \in Saving
BY DEF Labels, Before, Counted, Trading, Showing, Saving

(***************************************************************************)
(* A step of one thread changes the number of threads between their count  *)
(* up and their count down by that thread at most.                         *)
(***************************************************************************)
LEMMA CountedStep ==
  ASSUME PlaceType, NEW c \in Clients, NEW label \in Labels, Goto(c, label)
  PROVE  LET before == Cardinality({d \in Clients : pc[d] \in Counted})
             after  == Cardinality({d \in Clients : pc'[d] \in Counted})
         IN  /\ before \in Nat /\ after \in Nat
             /\ (pc[c] \in Counted <=> label \in Counted) => after = before
             /\ pc[c] \in Counted /\ label \notin Counted => after = before - 1
             /\ pc[c] \notin Counted /\ label \in Counted => after = before + 1
<1> DEFINE B == {d \in Clients : pc[d] \in Counted}
           A == {d \in Clients : pc'[d] \in Counted}
<1>1. pc'[c] = label /\ \A d \in Clients \ {c} : pc'[d] = pc[d]
  BY PlaceStep
<1>2. IsFiniteSet(B) /\ IsFiniteSet(A)
  BY ThreadsAssumption, FS_Subset
<1>3. Cardinality(B) \in Nat /\ Cardinality(A) \in Nat
  BY <1>2, FS_CardinalityType
<1>4. ASSUME pc[c] \in Counted <=> label \in Counted PROVE A = B
  BY <1>1, <1>4
<1>5. ASSUME pc[c] \in Counted, label \notin Counted PROVE A = B \ {c} /\ c \in B
  BY <1>1, <1>5
<1>6. ASSUME pc[c] \notin Counted, label \in Counted PROVE A = B \cup {c} /\ c \notin B
  BY <1>1, <1>6
<1> HIDE DEF A, B
<1>7. /\ Cardinality(B \ {c}) = IF c \in B THEN Cardinality(B) - 1 ELSE Cardinality(B)
      /\ Cardinality(B \cup {c}) = IF c \in B THEN Cardinality(B) ELSE Cardinality(B) + 1
  BY <1>2, FS_RemoveElement, FS_AddElement
<1> QED
  BY <1>3, <1>4, <1>5, <1>6, <1>7 DEF A, B

\* When thread_count is zero no thread is counted, and the other way round.
LEMMA NobodyCounted ==
  ASSUME CountsThreads
  PROVE  thread_count = 0 <=> \A c \in Clients : pc[c] \notin Counted
<1> DEFINE B == {d \in Clients : pc[d] \in Counted}
<1>1. IsFiniteSet(B)
  BY ThreadsAssumption, FS_Subset
<1>2. Cardinality(B) = 0 <=> B = {}
  BY <1>1, FS_EmptySet
<1> QED
  BY <1>2 DEF CountsThreads

\* The two invariants of the threads and their number give the property.
LEMMA AloneIsAlone ==
  ASSUME MemInv, MutexInv
  PROVE  SavesAlone
<1> SUFFICES ASSUME NEW c \in Clients, pc[c] \in Saving, NEW d \in Clients \ {c}
             PROVE  mutex = c /\ thread_count = 0 /\ pc[d] \in Before
  BY DEF SavesAlone, MutexInv
<1>1. mutex = c /\ thread_count = 0
  BY DEF MutexInv
<1>2. pc[d] \notin Saving
  BY <1>1 DEF MutexInv
<1>3. pc[d] \notin Counted
  BY <1>1, NobodyCounted DEF MutexInv
<1>4. pc[d] \in Labels
  BY DEF MemInv, MemType, PlaceType
<1> QED
  BY <1>1, <1>2, <1>3, <1>4, Parts

-------------------------------------------------------------------------------
\* A thread that is served goes on: its count and main's part stay.
LEMMA ServedStep ==
  ASSUME MemInv, AloneInv, NEW c \in Clients, NEW label \in Labels, Goto(c, label),
         pc[c] \in Counted \ {"counted"}, label \in Counted \ {"counted"},
         UNCHANGED mainVars
  PROVE  AloneInv'
<1>1. pc'[c] = label /\ \A d \in Clients \ {c} : pc'[d] = pc[d]
  BY PlaceStep DEF MemInv, MemType
<1>2. CountsThreads'
  BY CountedStep DEF MemInv, MemType, AloneInv, MutexInv, CountsThreads, mainVars
<1>3. pc[c] \notin {"backlog", "accepted"} /\ pc[c] # "counted"
  BY DEF Counted, Trading, Showing
<1>4. MainInv'
  BY <1>1, <1>3 DEF AloneInv, MainInv, mainVars, MemInv, MemType, MainType
<1>5. MutexInv'
  BY <1>1, <1>2, Parts DEF AloneInv, MutexInv, mainVars
<1> QED
  BY <1>4, <1>5 DEF AloneInv

\* The thread that saves goes on, and leaves in the end.
LEMMA SavingStep ==
  ASSUME MemInv, AloneInv, NEW c \in Clients, NEW label \in Saving \cup {"out"},
         Goto(c, label), pc[c] \in Saving,
         UNCHANGED <<backlog, conn, thread_count>>,
         label \in Saving => mutex' = mutex
  PROVE  AloneInv'
<1>0. label \in Labels /\ pc[c] \notin Counted /\ label \notin Counted
  BY Parts DEF Before
<1>1. pc'[c] = label /\ \A d \in Clients \ {c} : pc'[d] = pc[d]
  BY <1>0, PlaceStep DEF MemInv, MemType
<1>2. CountsThreads'
  BY <1>0, CountedStep DEF MemInv, MemType, AloneInv, MutexInv, CountsThreads
<1>3. pc[c] \notin {"backlog", "accepted", "counted"}
  BY DEF Saving
<1>4. MainInv'
  BY <1>1, <1>3 DEF AloneInv, MainInv, MemInv, MemType, MainType
<1>5. \A d \in Clients \ {c} : pc'[d] \notin Saving
  BY <1>1, AloneIsAlone, Parts DEF AloneInv, SavesAlone
<1>6. MutexInv'
  BY <1>1, <1>2, <1>5 DEF AloneInv, MutexInv, Saving
<1> QED
  BY <1>4, <1>6 DEF AloneInv

\* Where the steps of a thread that is served lead it.
LEMMA ServedPlaces ==
  ASSUME MemInv, NEW c \in Clients,
         \/ ReadLine(c) \/ EndOfInput(c) \/ Dispatch(c) \/ P(c) \/ Test(c)
         \/ Store(c) \/ V(c) \/ Reply(c) \/ ResetString(c) \/ Sprintf(c)
         \/ StrcatScan(c) \/ StrcatCopy(c) \/ Close(c)
  PROVE  /\ pc[c] \in Counted \ {"counted"} /\ UNCHANGED <<mainVars, fileVars>>
         /\ \E label \in Labels : Goto(c, label) /\ label \in Counted \ {"counted"}
<1> USE DEF Counted, Trading, Showing
<1>1. CASE Dispatch(c)
  BY <1>1, AllLabels DEF Dispatch, IsTrade, MemInv, MemType, LineType, Commands
<1>2. CASE ReadLine(c) \/ EndOfInput(c)
  BY <1>2, AllLabels DEF ReadLine, EndOfInput
<1>3. CASE P(c) \/ Test(c) \/ Store(c) \/ V(c) \/ Reply(c)
  BY <1>3, AllLabels DEF P, Test, Store, V, Reply
<1>4. CASE ResetString(c) \/ Sprintf(c) \/ StrcatScan(c) \/ StrcatCopy(c) \/ Close(c)
  BY <1>4, AllLabels DEF ResetString, Sprintf, StrcatScan, StrcatCopy, Close
<1> QED
  BY <1>1, <1>2, <1>3, <1>4

(***************************************************************************)
(* Every step of main, of a client and of a thread keeps the books of the  *)
(* threads; only those that start, count and leave need a case of their    *)
(* own.                                                                    *)
(***************************************************************************)
LEMMA AloneInvStep ==
  ASSUME MemInv, AloneInv, [Next]_vars
  PROVE  AloneInv'
<1> USE DEF MemInv, MemType
<1>1. ASSUME NEW c \in Clients, Connect(c) PROVE AloneInv'
  <2>1. /\ pc[c] = "out" /\ pc'[c] = "backlog" /\ Goto(c, "backlog")
        /\ \A d \in Clients \ {c} : pc'[d] = pc[d]
    BY <1>1, PlaceStep, AllLabels DEF Connect
  <2>2. CountsThreads'
    BY <1>1, <2>1, CountedStep, AllLabels, Parts
       DEF Connect, AloneInv, MutexInv, CountsThreads, Before
  <2>3. /\ backlog' = Append(backlog, c) /\ conn' = conn
        /\ mutex' = mutex /\ thread_count' = thread_count
    BY <1>1 DEF Connect
  <2>4. MainInv'
    <3>1. DOMAIN backlog' = 1..(Len(backlog) + 1) /\ DOMAIN backlog = 1..Len(backlog)
      BY <2>3 DEF MainType
    <3>2. /\ \A k \in DOMAIN backlog : backlog'[k] = backlog[k] /\ backlog[k] # c
          /\ backlog'[Len(backlog) + 1] = c
          /\ \A k \in DOMAIN backlog : backlog[k] \in Clients
      BY <2>1, <2>3 DEF MainType, AloneInv, MainInv
    <3>3. conn # NoOne => conn # c /\ pc'[conn] = pc[conn]
      BY <2>1 DEF MainType, AloneInv, MainInv
    <3> QED
      BY <2>1, <2>3, <3>1, <3>2, <3>3 DEF AloneInv, MainInv, MainType
  <2>5. MutexInv'
    BY <2>1, <2>2, <2>3, Parts DEF AloneInv, MutexInv, Before
  <2> QED
    BY <2>4, <2>5 DEF AloneInv
<1>2. ASSUME Accept PROVE AloneInv'
  <2> DEFINE c == Head(backlog)
  <2>1. /\ c \in Clients /\ pc[c] = "backlog" /\ c = backlog[1] /\ 1 \in DOMAIN backlog
        /\ backlog' = Tail(backlog) /\ conn' = c
        /\ mutex' = mutex /\ thread_count' = thread_count /\ Goto(c, "accepted")
    BY <1>2 DEF Accept, MainType, AloneInv, MainInv
  <2> HIDE DEF c
  <2>2. pc'[c] = "accepted" /\ \A d \in Clients \ {c} : pc'[d] = pc[d]
    BY <2>1, PlaceStep, AllLabels
  <2>3. CountsThreads'
    BY <2>1, CountedStep, AllLabels, Parts
       DEF AloneInv, MutexInv, CountsThreads, Before
  <2>4. MainInv'
    <3>1. /\ DOMAIN backlog' = 1..(Len(backlog) - 1) /\ DOMAIN backlog = 1..Len(backlog)
          /\ \A k \in DOMAIN backlog' : backlog'[k] = backlog[k + 1]
                                        /\ k + 1 \in DOMAIN backlog /\ k + 1 # 1
      BY <2>1 DEF MainType
    <3>2. \A k \in DOMAIN backlog' : backlog'[k] \in Clients \ {c}
      BY <2>1, <3>1 DEF MainType, AloneInv, MainInv
    <3>3. \A k \in DOMAIN backlog' : pc'[backlog'[k]] = "backlog"
      BY <2>2, <3>1, <3>2 DEF AloneInv, MainInv
    <3>4. \A j, k \in DOMAIN backlog' : backlog'[j] = backlog'[k] => j = k
      BY <3>1 DEF AloneInv, MainInv
    <3> QED
      BY <2>1, <2>2, <3>3, <3>4 DEF MainInv
  <2>5. MutexInv'
    BY <2>1, <2>2, <2>3, Parts DEF AloneInv, MutexInv, Before
  <2> QED
    BY <2>4, <2>5 DEF AloneInv
<1>3. ASSUME CountUp PROVE AloneInv'
  <2>1. /\ conn \in Clients /\ pc[conn] = "accepted" /\ Goto(conn, "counted")
        /\ mutex = NoOne /\ UNCHANGED <<mutex, conn, backlog>>
        /\ thread_count' = thread_count + 1
    BY <1>3 DEF CountUp, MainType
  <2>2. pc'[conn] = "counted" /\ \A d \in Clients \ {conn} : pc'[d] = pc[d]
    BY <2>1, PlaceStep, AllLabels
  <2>3. CountsThreads'
    <3>1. "accepted" \notin Counted /\ "counted" \in Counted
      BY Parts DEF Before, Counted
    <3> QED
      BY <2>1, <3>1, CountedStep, AllLabels DEF AloneInv, MutexInv, CountsThreads
  <2>4. MainInv'
    BY <2>1, <2>2 DEF AloneInv, MainInv, MainType
  <2>5. \A d \in Clients : pc'[d] \notin Saving
    BY <2>1, <2>2, ThreadsAssumption DEF AloneInv, MutexInv, Saving
  <2> QED
    BY <2>3, <2>4, <2>5 DEF AloneInv, MutexInv
<1>4. ASSUME Pthread_create PROVE AloneInv'
  <2>1. /\ conn \in Clients /\ pc[conn] = "counted" /\ Goto(conn, "readline")
        /\ conn' = NoOne /\ UNCHANGED <<mutex, thread_count, backlog>>
    BY <1>4 DEF Pthread_create, MainType
  <2>2. pc'[conn] = "readline" /\ \A d \in Clients \ {conn} : pc'[d] = pc[d]
    BY <2>1, PlaceStep, AllLabels
  <2>3. CountsThreads'
    <3>1. "readline" \in Counted /\ "counted" \in Counted
      BY DEF Counted
    <3> QED
      BY <2>1, <3>1, CountedStep, AllLabels DEF AloneInv, MutexInv, CountsThreads
  <2>4. MainInv'
    BY <2>1, <2>2 DEF AloneInv, MainInv, MainType
  <2>5. MutexInv'
    BY <2>1, <2>2, <2>3 DEF AloneInv, MutexInv, Saving
  <2> QED
    BY <2>4, <2>5 DEF AloneInv
<1>5. ASSUME NEW c \in Clients, ConnFails(c) PROVE AloneInv'
  BY <1>5 DEF ConnFails, mainVars, AloneInv, MainInv, MutexInv, CountsThreads
<1>6. ASSUME NEW c \in Clients,
             \/ ReadLine(c) \/ EndOfInput(c) \/ Dispatch(c) \/ P(c) \/ Test(c)
             \/ Store(c) \/ V(c) \/ Reply(c) \/ ResetString(c) \/ Sprintf(c)
             \/ StrcatScan(c) \/ StrcatCopy(c) \/ Close(c)
      PROVE  AloneInv'
  BY <1>6, ServedPlaces, ServedStep
<1>7. ASSUME NEW c \in Clients, CountDown(c) PROVE AloneInv'
  <2>1. PICK label \in {"fopen", "out"} :
          /\ Goto(c, label) /\ pc[c] = "leave" /\ mutex = NoOne
          /\ thread_count' = thread_count - 1 /\ UNCHANGED <<conn, backlog>>
          /\ label = "fopen" => mutex' = c /\ thread_count' = 0
          /\ label = "out" => mutex' = mutex
    BY <1>7 DEF CountDown, Last
  <2>2. label \in Labels /\ label \notin Counted /\ pc[c] \in Counted
    BY <2>1, AllLabels DEF Counted, Trading, Showing
  <2>3. pc'[c] = label /\ \A d \in Clients \ {c} : pc'[d] = pc[d]
    BY <2>1, <2>2, PlaceStep
  <2>4. CountsThreads'
    BY <2>1, <2>2, CountedStep DEF AloneInv, MutexInv, CountsThreads
  <2>5. MainInv'
    BY <2>1, <2>3 DEF AloneInv, MainInv, MainType
  <2>6. \A d \in Clients \ {c} : pc'[d] \notin Saving
    BY <2>1, <2>3, ThreadsAssumption DEF AloneInv, MutexInv
  <2>7. MutexInv'
    BY <2>1, <2>3, <2>4, <2>6 DEF MutexInv, Saving
  <2> QED
    BY <2>5, <2>7 DEF AloneInv
<1>8. ASSUME NEW c \in Clients, Fopen(c) \/ Fprintf(c) \/ Fclose(c) \/ Unlock(c)
      PROVE  AloneInv'
  <2>1. /\ pc[c] \in Saving /\ UNCHANGED <<backlog, conn, thread_count>>
        /\ \E label \in Saving \cup {"out"} :
             Goto(c, label) /\ (label \in Saving => mutex' = mutex)
    BY <1>8 DEF Fopen, Fprintf, Fclose, Unlock, Saving, mainVars
  <2> QED
    BY <2>1, SavingStep
<1>9. CASE UNCHANGED vars
  BY <1>9 DEF vars, mainVars, AloneInv, MainInv, MutexInv, CountsThreads
<1>10. CASE MainFails
  BY <1>10 DEF MainFails, mainVars, AloneInv, MainInv, MutexInv, CountsThreads
<1> QED
  BY <1>1, <1>2, <1>3, <1>4, <1>5, <1>6, <1>7, <1>8, <1>9, <1>10
     DEF Next, Main, MainGoesOn, Client, Work, Exited

-------------------------------------------------------------------------------
(***************************************************************************)
(* stock.txt and the stream.  Outside fprintf and fclose the stream is     *)
(* closed and the file whole; between them the stream has the lines of the *)
(* items the walk has passed, each with the stock it still has, for nobody *)
(* trades, and the file is empty, unless an exit flushed the stream.       *)
(***************************************************************************)
Walked(c) == [k \in 1..(pos[c] - 1) |-> Image(stock)[k]]

FileInv ==
  /\ (\A c \in Clients : pc[c] \notin {"fprintf", "fclose"})
       => fp = Closed /\ DOMAIN file = DOMAIN VLR
  /\ \A c \in Clients :
       /\ pc[c] = "fprintf" => fp = [at |-> "live", buf |-> Walked(c)]
       /\ pc[c] = "fclose" => fp = [at |-> "live", buf |-> Image(stock)]
       /\ pc[c] \in {"fprintf", "fclose"} /\ status = "up" => file = <<>>
  /\ ~FopenMayFail /\ (\A c \in Clients : pc[c] \in Before \cup {"unlock"})
       => file = Image(stock)

\* The process ends by a connection that is served, so that no thread saves, or
\* in main, which during a save has no connection in hand.
EndInv ==
  status = "exited" /\ (\E c \in Clients : pc[c] \in Saving) => conn = NoOne

SaveInv == Inv /\ AloneInv /\ FileInv /\ EndInv

\* The walk at its place: a line for every item before it, and then one more.
LEMMA WalkedOneMore ==
  ASSUME MemInv, NEW c \in Clients, pos[c] \in DOMAIN VLR
  PROVE  LET l == [id |-> VLR[pos[c]], stock |-> stock[VLR[pos[c]]]]
             more == [k \in 1..pos[c] |-> Image(stock)[k]]
         IN  /\ Append(Walked(c), l) = more
             /\ pos[c] = Len(VLR) => more = Image(stock)
<1> DEFINE l == [id |-> VLR[pos[c]], stock |-> stock[VLR[pos[c]]]]
           more == [k \in 1..pos[c] |-> Image(stock)[k]]
<1>1. Image(stock) \in Seq(Lines) /\ DOMAIN Image(stock) = 1..Len(VLR)
  <2>1. stock \in [Items -> Int]
    BY DEF MemInv, MemType, TreeType
  <2>2. DOMAIN Image(stock) = 1..Len(VLR)
    BY ThreadsAssumption DEF Image
  <2> QED
    BY <2>1, <2>2, ImageType
<1>2. pos[c] \in 1..Len(VLR) /\ Len(VLR) \in Nat
  BY ThreadsAssumption
<1>3. Image(stock)[pos[c]] = l
  BY DEF Image
<1>4. Walked(c) \in Seq(Lines) /\ Len(Walked(c)) = pos[c] - 1
  <2>1. \A k \in 1..(pos[c] - 1) : Image(stock)[k] \in Lines
    BY <1>1, <1>2
  <2> QED
    BY <1>2, <2>1 DEF Walked
<1>5. Append(Walked(c), l) = more
  BY <1>2, <1>3, <1>4 DEF Walked
<1>6. pos[c] = Len(VLR) => more = Image(stock)
  BY <1>1
<1> QED
  BY <1>5, <1>6

\* What the walk has passed is a part of the file, and not the whole.
LEMMA WalkedPart ==
  ASSUME MemInv, NEW c \in Clients, pos[c] \in DOMAIN VLR
  PROVE  Walked(c) \in Seq(Lines) /\ DOMAIN Walked(c) # DOMAIN VLR
<1>1. Image(stock) \in Seq(Lines)
  BY ImageType DEF MemInv, MemType, TreeType
<1>2. DOMAIN Image(stock) = 1..Len(VLR)
  BY ThreadsAssumption DEF Image
<1>3. pos[c] \in 1..Len(VLR) /\ Len(VLR) \in Nat /\ DOMAIN VLR = 1..Len(VLR)
  BY ThreadsAssumption
<1>4. \A k \in 1..(pos[c] - 1) : Image(stock)[k] \in Lines
  BY <1>1, <1>2, <1>3
<1>5. Walked(c) \in Seq(Lines) /\ DOMAIN Walked(c) = 1..(pos[c] - 1)
  BY <1>3, <1>4 DEF Walked
<1>6. pos[c] \notin 1..(pos[c] - 1)
  BY <1>3
<1> QED
  BY <1>3, <1>5, <1>6

\* Writing whole files over an empty one leaves the whole file.
LEMMA OverlayEmpty ==
  ASSUME NEW new \in Seq(Lines)
  PROVE  Overlay(<<>>, new) = new
BY DEF Overlay

\* As long as somebody is served the file and the stream are left alone.
LEMMA ServedFile ==
  ASSUME SaveInv, NEW c \in Clients, NEW label \in Counted, Goto(c, label),
         pc[c] \in Before \cup Counted, UNCHANGED <<file, fp>>,
         \A d \in Clients : pc[d] \notin Saving
  PROVE  FileInv'
<1>1. pc'[c] = label /\ \A d \in Clients \ {c} : pc'[d] = pc[d]
  BY PlaceStep, Parts DEF SaveInv, Inv, MemInv, MemType
<1>2. \A d \in Clients : pc[d] \notin {"fprintf", "fclose"}
                         /\ pc'[d] \notin {"fprintf", "fclose"}
  BY <1>1, Parts DEF Saving
<1>3. ~(\A d \in Clients : pc'[d] \in Before \cup {"unlock"})
  BY <1>1, Parts DEF Saving
<1> QED
  BY <1>2, <1>3 DEF SaveInv, FileInv

\* As long as nobody is served, and nobody moves the file, the file is kept.
LEMMA OutsideFile ==
  ASSUME SaveInv, NEW c \in Clients, NEW label \in Labels, Goto(c, label),
         pc[c] \in Before, label \in Before,
         UNCHANGED <<file, fp, stock, pos, status>>
  PROVE  FileInv'
<1>1. pc'[c] = label /\ \A d \in Clients \ {c} : pc'[d] = pc[d]
  BY PlaceStep DEF SaveInv, Inv, MemInv, MemType
<1>2. Image(stock)' = Image(stock) /\ \A d \in Clients : Walked(d)' = Walked(d)
  BY DEF Image, Walked
<1> HIDE DEF Image, Walked
<1>3. pc[c] \notin {"fprintf", "fclose"} /\ label \notin {"fprintf", "fclose"}
  BY DEF Before
<1> QED
  BY <1>1, <1>2, <1>3 DEF SaveInv, FileInv

(***************************************************************************)
(* Every step keeps what is known of the file.                             *)
(***************************************************************************)
LEMMA FileInvStep ==
  ASSUME SaveInv, [Next]_vars
  PROVE  FileInv'
<1> USE DEF SaveInv, Inv, MemInv, MemType
<1>0. SavesAlone
  BY AloneIsAlone DEF AloneInv
<1>1. ASSUME NEW c \in Clients, Connect(c) PROVE FileInv'
  <2>1. /\ Goto(c, "backlog") /\ pc[c] \in Before /\ "backlog" \in Before
        /\ UNCHANGED <<file, fp, stock, pos, status>>
    BY <1>1 DEF Connect, Before, treeVars, regVars, fileVars
  <2> QED
    BY <2>1, OutsideFile, Parts
<1>2. ASSUME Accept PROVE FileInv'
  <2>1. /\ Head(backlog) \in Clients /\ pc[Head(backlog)] = "backlog"
        /\ Goto(Head(backlog), "accepted")
        /\ UNCHANGED <<file, fp, stock, pos, status>>
    BY <1>2 DEF Accept, MainType, AloneInv, MainInv, treeVars, regVars, fileVars
  <2>2. "backlog" \in Before /\ "accepted" \in Before
    BY DEF Before
  <2> QED
    BY <2>1, <2>2, OutsideFile, Parts
<1>3. ASSUME CountUp \/ Pthread_create PROVE FileInv'
  <2>1. /\ conn \in Clients /\ pc[conn] \in Before \cup Counted
        /\ UNCHANGED <<file, fp>>
        /\ Goto(conn, "counted") \/ Goto(conn, "readline")
    BY <1>3 DEF CountUp, Pthread_create, MainType, fileVars, Before, Counted
  <2>2. \A d \in Clients : pc[d] \notin Saving
    <3>1. CASE CountUp
      BY <3>1, <1>0, ThreadsAssumption DEF CountUp, SavesAlone
    <3>2. CASE Pthread_create
      BY <3>2, <1>0, NobodyCounted, <2>1
         DEF Pthread_create, SavesAlone, Counted
    <3> QED
      BY <1>3, <3>1, <3>2
  <2>3. "counted" \in Counted /\ "readline" \in Counted
    BY DEF Counted
  <2> QED
    BY <2>1, <2>2, <2>3, ServedFile
<1>4. ASSUME NEW c \in Clients, ConnFails(c) PROVE FileInv'
  <2>1. \A d \in Clients : pc[d] \notin Saving
    BY <1>4, <1>0, NobodyCounted DEF ConnFails, SavesAlone, Counted
  <2>2. fp = Closed
    BY <2>1 DEF FileInv, Saving
  <2>3. UNCHANGED <<file, fp, pc, stock, pos>>
    BY <1>4, <2>2 DEF ConnFails, Flushed, Closed, treeVars, regVars
  <2>4. \A d \in Clients : pc[d] \notin {"fprintf", "fclose"}
    BY <2>1 DEF Saving
  <2> QED
    BY <2>3, <2>4 DEF FileInv, Image
<1>5. ASSUME NEW c \in Clients,
             \/ ReadLine(c) \/ EndOfInput(c) \/ Dispatch(c) \/ P(c) \/ Test(c)
             \/ Store(c) \/ V(c) \/ Reply(c) \/ ResetString(c) \/ Sprintf(c)
             \/ StrcatScan(c) \/ StrcatCopy(c) \/ Close(c)
      PROVE  FileInv'
  <2>1. /\ pc[c] \in Counted /\ UNCHANGED <<file, fp>>
        /\ \E label \in Counted : Goto(c, label)
    BY <1>5, ServedPlaces DEF fileVars
  <2>2. \A d \in Clients : pc[d] \notin Saving
    BY <2>1, <1>0, NobodyCounted DEF SavesAlone
  <2> QED
    BY <2>1, <2>2, ServedFile
<1>6. ASSUME NEW c \in Clients, CountDown(c) PROVE FileInv'
  <2>1. PICK label \in {"fopen", "out"} :
          /\ Goto(c, label) /\ pc[c] = "leave" /\ mutex = NoOne
          /\ thread_count' = thread_count - 1
          /\ label = "out" => thread_count' # 0
          /\ UNCHANGED <<file, fp>>
    BY <1>6 DEF CountDown, Last, fileVars
  <2>2. label \in Labels
    BY AllLabels
  <2>3. pc'[c] = label /\ \A d \in Clients \ {c} : pc'[d] = pc[d]
    BY <2>1, <2>2, PlaceStep
  <2>4. \A d \in Clients : pc[d] \notin Saving
    BY <2>1, <1>0, ThreadsAssumption DEF SavesAlone
  <2>5. AloneInv'
    BY AloneInvStep
  <2>6. ~(\A d \in Clients : pc'[d] \in Before \cup {"unlock"})
    <3>1. CASE label = "fopen"
      BY <2>3, <3>1 DEF Before
    <3>2. CASE label = "out"
      <4>1. thread_count' # 0 /\ CountsThreads'
        BY <2>1, <2>5, <3>2 DEF AloneInv, MutexInv
      <4>2. \E d \in Clients : pc'[d] \in Counted
        <5> DEFINE A == {d \in Clients : pc'[d] \in Counted}
        <5>1. IsFiniteSet({}) /\ Cardinality({}) = 0
          BY FS_EmptySet
        <5>2. A # {}
          BY <4>1, <5>1 DEF CountsThreads
        <5> QED
          BY <5>2
      <4> QED
        BY <4>2, Parts DEF Saving
    <3> QED
      BY <3>1, <3>2
  <2>7. \A d \in Clients : /\ pc[d] \notin {"fprintf", "fclose"}
                           /\ pc'[d] \notin {"fprintf", "fclose"}
    BY <2>3, <2>4 DEF Saving
  <2> QED
    BY <2>1, <2>6, <2>7 DEF FileInv
<1>7. ASSUME NEW c \in Clients, Fopen(c) PROVE FileInv'
  <2>1. PICK label \in {"fclose", "fprintf", "unlock"} :
          /\ Goto(c, label) /\ pc[c] = "fopen" /\ pos'[c] = 1 /\ stock' = stock
          /\ label \in {"fclose", "fprintf"} => file' = <<>> /\ fp' = Opened
          /\ label = "fclose" => VLR = <<>>
          /\ label = "unlock" => FopenMayFail /\ file' = file /\ fp' = fp
    BY <1>7 DEF Fopen, RegType, treeVars
  <2>2. label \in Labels
    BY AllLabels
  <2>3. pc'[c] = label /\ \A d \in Clients \ {c} : pc'[d] = pc[d]
    BY <2>1, <2>2, PlaceStep
  <2>4. \A d \in Clients \ {c} : pc[d] \in Before
    BY <2>1, <1>0 DEF SavesAlone, Saving
  <2>5. \A d \in Clients \ {c} : pc'[d] \notin {"fprintf", "fclose"}
    BY <2>3, <2>4 DEF Before
  <2>6. CASE label = "unlock"
    <3>1. \A d \in Clients : pc[d] \notin {"fprintf", "fclose"}
      BY <2>1, <2>3, <2>5
    <3> QED
      BY <2>1, <2>3, <2>5, <2>6, <3>1 DEF FileInv
  <2>7. CASE label \in {"fclose", "fprintf"}
    <3>1. file' = <<>> /\ fp' = [at |-> "live", buf |-> <<>>]
      BY <2>1, <2>7 DEF Opened
    <3>2. Walked(c)' = <<>>
      BY <2>1 DEF Walked
    <3>3. label = "fclose" => Image(stock)' = <<>>
      BY <2>1 DEF Image
    <3>4. label \notin Before \cup {"unlock"}
      BY <2>7 DEF Before
    <3> QED
      BY <2>3, <2>5, <2>7, <3>1, <3>2, <3>3, <3>4 DEF FileInv
  <2> QED
    BY <2>6, <2>7
<1>8. ASSUME status = "up", NEW c \in Clients, Fprintf(c) PROVE FileInv'
  <2> DEFINE l == [id |-> VLR[pos[c]], stock |-> stock[VLR[pos[c]]]]
             more == [k \in 1..pos[c] |-> Image(stock)[k]]
             label == IF pos[c] < Len(VLR) THEN "fprintf" ELSE "fclose"
  <2>1. /\ pc[c] = "fprintf" /\ pos[c] \in DOMAIN VLR /\ Goto(c, label)
        /\ file' = file /\ stock' = stock /\ fp' = [fp EXCEPT !.buf = Append(@, l)]
        /\ pos'[c] = IF pos[c] < Len(VLR) THEN pos[c] + 1 ELSE 1
    BY <1>8 DEF Fprintf, RegType, PlaceInv, AtPlace, treeVars
  <2>2. label \in Labels /\ label \notin Before \cup {"unlock"}
    BY AllLabels DEF Before
  <2>3. pc'[c] = label /\ \A d \in Clients \ {c} : pc'[d] = pc[d]
    BY <2>1, <2>2, PlaceStep
  <2>4. \A d \in Clients \ {c} : pc'[d] \notin {"fprintf", "fclose"}
    BY <2>1, <2>3, <1>0 DEF SavesAlone, Saving, Before
  <2>5. /\ file = <<>> /\ fp = [at |-> "live", buf |-> Walked(c)]
        /\ Append(Walked(c), l) = more /\ (pos[c] = Len(VLR) => more = Image(stock))
    BY <1>8, <2>1, WalkedOneMore DEF FileInv
  <2> HIDE DEF l, more
  <2>6. fp' = [at |-> "live", buf |-> more] /\ file' = <<>>
    BY <2>1, <2>5
  <2>7. pos[c] < Len(VLR) => Walked(c)' = more
    BY <2>1, ThreadsAssumption DEF Walked, more, Image
  <2>8. ~(pos[c] < Len(VLR)) => pos[c] = Len(VLR) /\ Image(stock)' = more
    BY <2>1, <2>5, ThreadsAssumption DEF Image
  <2> QED
    BY <2>2, <2>3, <2>4, <2>6, <2>7, <2>8 DEF FileInv
<1>9. ASSUME status = "up", NEW c \in Clients, Fclose(c) PROVE FileInv'
  <2>1. /\ pc[c] = "fclose" /\ Goto(c, "unlock") /\ stock' = stock
        /\ file' = Flushed /\ fp' = Closed
    BY <1>9 DEF Fclose, treeVars
  <2>2. pc'[c] = "unlock" /\ \A d \in Clients \ {c} : pc'[d] = pc[d]
    BY <2>1, PlaceStep, AllLabels
  <2>3. \A d \in Clients \ {c} : pc'[d] \notin {"fprintf", "fclose"}
    BY <2>1, <2>2, <1>0 DEF SavesAlone, Saving, Before
  <2>4. Image(stock) \in Seq(Lines) /\ Image(stock)' = Image(stock)
    BY <2>1, ImageType DEF TreeType, Image
  <2>5. file' = Image(stock)
    BY <1>9, <2>1, <2>4, OverlayEmpty DEF FileInv, Flushed
  <2>6. DOMAIN file' = DOMAIN VLR
    BY <2>5 DEF Image
  <2> QED
    BY <2>1, <2>2, <2>3, <2>4, <2>5, <2>6 DEF FileInv
<1>10. ASSUME NEW c \in Clients, Unlock(c) PROVE FileInv'
  <2>1. /\ pc[c] = "unlock" /\ Goto(c, "out") /\ UNCHANGED <<file, fp, stock, pos>>
    BY <1>10 DEF Unlock, treeVars, regVars, fileVars
  <2>2. pc'[c] = "out" /\ \A d \in Clients \ {c} : pc'[d] = pc[d]
    BY <2>1, PlaceStep, AllLabels
  <2>3. \A d \in Clients : pc[d] \in Before \cup {"unlock"}
    BY <2>1, <1>0 DEF SavesAlone, Saving
  <2>4. Image(stock)' = Image(stock)
    BY <2>1 DEF Image
  <2>5. \A d \in Clients : pc'[d] \in Before
    BY <2>2, <2>1, <1>0 DEF SavesAlone, Saving, Before
  <2>6. \A d \in Clients : /\ pc[d] \notin {"fprintf", "fclose"}
                           /\ pc'[d] \notin {"fprintf", "fclose"}
    BY <2>3, <2>5 DEF Before
  <2> QED
    BY <2>1, <2>3, <2>4, <2>6 DEF FileInv
<1>11. CASE MainFails
  <2>1. /\ UNCHANGED <<fp, pc, stock, pos>> /\ file' = Flushed /\ status' = "exited"
    BY <1>11 DEF MainFails, treeVars, regVars
  <2>2. fp = Closed => file' = file
    BY <2>1 DEF Flushed, Closed
  <2>3. Image(stock)' = Image(stock) /\ \A c \in Clients : Walked(c)' = Walked(c)
    BY <2>1 DEF Image, Walked
  <2> HIDE DEF Image, Walked
  <2>4. (\A c \in Clients : pc[c] \in Before \cup {"unlock"})
           => \A c \in Clients : pc[c] \notin {"fprintf", "fclose"}
    BY DEF Before
  <2> QED
    BY <2>1, <2>2, <2>3, <2>4 DEF FileInv
<1>12. CASE UNCHANGED vars
  BY <1>12 DEF vars, treeVars, regVars, fileVars, FileInv, Image, Walked
<1> QED
  BY <1>1, <1>2, <1>3, <1>4, <1>5, <1>6, <1>7, <1>8, <1>9, <1>10, <1>11, <1>12
     DEF Next, Main, MainGoesOn, Client, Work, Exited

\* A failing connection's thread is counted, so that nobody saves; main fails
\* in its accept, or with a connection in hand that is counted.
LEMMA EndInvStep ==
  ASSUME SaveInv, [Next]_vars
  PROVE  EndInv'
<1>1. CASE \E c \in Clients : ConnFails(c)
  <2>1. PICK c \in Clients : ConnFails(c)
    BY <1>1
  <2>2. SavesAlone
    BY AloneIsAlone DEF SaveInv, Inv, AloneInv
  <2>3. pc[c] \in Counted /\ pc[c] \notin Saving /\ pc' = pc
    BY <2>1, Parts DEF ConnFails, Counted
  <2>4. \A d \in Clients : pc[d] \notin Saving
    BY <2>2, <2>3, Parts DEF SavesAlone
  <2> QED
    BY <2>3, <2>4 DEF EndInv
<1>2. CASE status' # "exited"
  BY <1>2 DEF EndInv
<1>3. CASE UNCHANGED vars
  BY <1>3 DEF vars, fileVars, mainVars, EndInv, SaveInv
<1>4. status = "up" /\ Next /\ ~MainFails /\ ~(\E c \in Clients : ConnFails(c))
        => status' # "exited"
  <2>1. ASSUME status = "up", Accept \/ CountUp \/ Pthread_create PROVE status' = "up"
    BY <2>1 DEF Accept, CountUp, Pthread_create, fileVars
  <2>2. ASSUME status = "up", NEW c \in Clients, Connect(c) PROVE status' = "up"
    BY <2>2 DEF Connect, fileVars
  <2>3. ASSUME status = "up", NEW c \in Clients,
             \/ ReadLine(c) \/ EndOfInput(c) \/ Dispatch(c) \/ P(c) \/ Test(c)
             \/ Store(c) \/ V(c) \/ Reply(c) \/ ResetString(c) \/ Sprintf(c)
             \/ StrcatScan(c) \/ StrcatCopy(c) \/ Close(c)
        PROVE  status' = "up"
    BY <2>3, ServedPlaces DEF SaveInv, Inv, fileVars
  <2>4. ASSUME status = "up", NEW c \in Clients,
               CountDown(c) \/ Fopen(c) \/ Fprintf(c) \/ Fclose(c) \/ Unlock(c)
        PROVE  status' = "up"
    BY <2>4 DEF CountDown, Fopen, Fprintf, Fclose, Unlock, fileVars
  <2> QED
    BY <2>1, <2>2, <2>3, <2>4 DEF Next, Main, MainGoesOn, Client, Work, Exited
<1>5. CASE MainFails
  <2>1. UNCHANGED <<pc, conn>> /\ (conn # NoOne => pc[conn] = "counted")
    BY <1>5 DEF MainFails, mainVars
  <2>2. SavesAlone
    BY AloneIsAlone DEF SaveInv, Inv, AloneInv
  <2>3. conn # NoOne => conn \in Clients /\ pc[conn] \in Counted
    BY <2>1 DEF SaveInv, Inv, MemInv, MemType, MainType, Counted
  <2> QED
    BY <2>1, <2>2, <2>3, Parts DEF EndInv, SavesAlone
<1> QED
  BY <1>1, <1>2, <1>3, <1>4, <1>5 DEF Next, Main, MainGoesOn, Client, Work, Exited

\* In the first state nobody is there, and the file is the one that was loaded.
LEMMA SaveInvInit == Init => SaveInv
<1> SUFFICES ASSUME Init PROVE SaveInv
  OBVIOUS
<1>1. Inv
  BY InvInit
<1>2. \A c \in Clients : pc[c] = "out"
  BY DEF Init
<1>3. AloneInv
  <2>1. \A c \in Clients : pc[c] \notin Counted /\ pc[c] \notin Saving
    BY <1>2, Parts DEF Before
  <2>2. {c \in Clients : pc[c] \in Counted} = {}
    BY <2>1
  <2>3. Cardinality({}) = 0
    BY FS_EmptySet
  <2>4. MainInv
    BY DEF Init, MainInv
  <2>5. CountsThreads
    BY <2>2, <2>3 DEF Init, CountsThreads
  <2> QED
    BY <2>1, <2>4, <2>5 DEF AloneInv, MutexInv
<1>4. FileInv
  BY <1>2 DEF Init, FileInv, Image
<1>5. EndInv
  BY DEF Init, EndInv
<1> QED
  BY <1>1, <1>3, <1>4, <1>5 DEF SaveInv

\* All of it is kept by every step, and so holds in every state reached.
LEMMA SaveInvStep ==
  ASSUME SaveInv, [Next]_vars
  PROVE  SaveInv'
BY MemInvStep, FileTypeStep, AloneInvStep, FileInvStep, EndInvStep DEF Inv, SaveInv

LEMMA SaveInvariance == Spec => []SaveInv
<1>1. Init => SaveInv
  BY SaveInvInit
<1>2. SaveInv /\ [Next]_vars => SaveInv'
  BY SaveInvStep
<1> QED
  BY <1>1, <1>2, PTL DEF Spec

(***************************************************************************)
(* While a thread saves nobody else is served, however many clients there  *)
(* are: the last thread counts down and keeps the mutex, and thread_count  *)
(* is the number of those that were counted and have not yet left.         *)
(***************************************************************************)
THEOREM SaveIsAlone == Spec => []SavesAlone
<1>1. SaveInv => SavesAlone
  BY AloneIsAlone DEF SaveInv, Inv, AloneInv
<1> QED
  BY <1>1, SaveInvariance, PTL

(***************************************************************************)
(* stock.txt is incomplete only while the last thread saves.  If the       *)
(* server ends with it incomplete, then by a call of main that fails when  *)
(* it has no connection in hand, its malloc or its accept, and never by a  *)
(* connection that fails; and, if fopen does not fail, stock.txt says what *)
(* is in stock whenever nobody is served.                                  *)
(***************************************************************************)
THEOREM FileIsKept == Spec => []FileKept
<1>1. SaveInv => FileWhole
  <2> SUFFICES ASSUME SaveInv, DOMAIN file # DOMAIN VLR
               PROVE  \E c \in Clients :
                        pc[c] \in Saving /\ (status = "exited" => conn = NoOne)
    BY DEF FileWhole
  <2>1. PICK c \in Clients : pc[c] \in {"fprintf", "fclose"}
    BY DEF SaveInv, FileInv
  <2>2. pc[c] \in Saving
    BY <2>1 DEF Saving
  <2> QED
    BY <2>2 DEF SaveInv, EndInv
<1>2. SaveInv => QuietFile
  BY DEF SaveInv, FileInv, QuietFile
<1> QED
  BY <1>1, <1>2, SaveInvariance, PTL DEF FileKept

-------------------------------------------------------------------------------
(***************************************************************************)
(* Orders and verdicts.  A thread has an order only from its dispatch to   *)
(* its answer; the order has a verdict from the moment it is decided, and  *)
(* not before; and what a buyer is about to take was there when it looked. *)
(***************************************************************************)
Asking == {"dispatch", "P", "test", "store", "V", "write"}

OrderAt(c) ==
  /\ req[c] \in Requests \cup {NoLine}
  /\ pc[c] \notin Asking => ~IsTrade(req[c])
  /\ pc[c] \notin {"V", "write"} => verdict[c] = "none"
  /\ pc[c] \in {"V", "write"} /\ IsTrade(req[c]) => verdict[c] # "none"
  /\ pc[c] = "store" /\ req[c].cmd = "buy" => req[c].count <= reg[c]

OrderInv == \A c \in Clients : OrderAt(c)

\* A step of one thread leaves the orders of the others as they are.
LEMMA OrderFrame ==
  ASSUME MemInv, OrderInv, NEW c \in Clients, NEW label \in Labels, Goto(c, label),
         \A d \in Clients \ {c} : /\ req'[d] = req[d] /\ verdict'[d] = verdict[d]
                                 /\ reg'[d] = reg[d],
         OrderAt(c)'
  PROVE  OrderInv'
<1>1. ASSUME NEW d \in Clients \ {c} PROVE OrderAt(d)'
  <2>1. OrderAt(d) /\ pc'[d] = pc[d]
    BY PlaceStep DEF MemInv, MemType, OrderInv
  <2> QED
    BY <2>1 DEF OrderAt
<1> QED
  BY <1>1 DEF OrderInv

(***************************************************************************)
(* Every step keeps what is known of the orders.                           *)
(***************************************************************************)
LEMMA OrderInvStep ==
  ASSUME MemInv, AloneInv, OrderInv, [Next]_vars
  PROVE  OrderInv'
<1> USE DEF MemInv, MemType
<1> DEFINE others(c) == \A d \in Clients \ {c} :
      req'[d] = req[d] /\ verdict'[d] = verdict[d] /\ reg'[d] = reg[d]
<1>1. ASSUME NEW c \in Clients, NEW label \in Labels, Goto(c, label),
             pc[c] \notin Asking, label \notin Asking, UNCHANGED lineVars,
             \A d \in Clients \ {c} : reg'[d] = reg[d]
      PROVE  OrderInv'
  <2>1. pc'[c] = label
    BY <1>1, PlaceStep
  <2>2. OrderAt(c)'
    BY <1>1, <2>1 DEF OrderInv, OrderAt, Asking, lineVars
  <2> QED
    BY <1>1, <2>2, OrderFrame DEF lineVars
<1>2. ASSUME NEW c \in Clients,
             \/ Connect(c) \/ EndOfInput(c) \/ Sprintf(c) \/ StrcatScan(c) \/ Close(c)
             \/ CountDown(c) \/ Fopen(c) \/ Fprintf(c) \/ Fclose(c) \/ Unlock(c)
      PROVE  OrderInv'
  <2>1. /\ pc[c] \notin Asking /\ UNCHANGED lineVars
        /\ \A d \in Clients \ {c} : reg'[d] = reg[d]
    BY <1>2 DEF Connect, EndOfInput, Sprintf, StrcatScan, Close, CountDown, Fopen,
                Fprintf, Fclose, Unlock, regVars, RegType, Asking
  <2>2. PICK label \in Labels : Goto(c, label) /\ label \notin Asking
    BY <1>2, AllLabels DEF Connect, EndOfInput, Sprintf, StrcatScan, Close,
          CountDown, Fopen, Fprintf, Fclose, Unlock, Asking
  <2> QED
    BY <2>1, <2>2, <1>1
<1>3. ASSUME Accept \/ CountUp \/ Pthread_create PROVE OrderInv'
  <2>1. PICK c \in Clients, label \in Labels :
          /\ Goto(c, label) /\ UNCHANGED <<lineVars, regVars>>
          /\ pc[c] \notin Asking /\ label \notin Asking
    <3>1. CASE Accept
      BY <3>1, AllLabels DEF Accept, MainType, AloneInv, MainInv, Asking
    <3>2. CASE CountUp
      BY <3>2, AllLabels DEF CountUp, MainType, Asking
    <3>3. CASE Pthread_create
      BY <3>3, AllLabels DEF Pthread_create, MainType, Asking
    <3> QED
      BY <1>3, <3>1, <3>2, <3>3
  <2> QED
    BY <2>1, <1>1 DEF regVars
<1>4. ASSUME NEW c \in Clients, ReadLine(c) PROVE OrderInv'
  <2>1. /\ pc[c] = "readline" /\ Goto(c, "dispatch") /\ UNCHANGED <<verdict, regVars>>
        /\ req'[c] \in Requests /\ \A d \in Clients \ {c} : req'[d] = req[d]
    BY <1>4 DEF ReadLine, LineType
  <2>2. pc'[c] = "dispatch"
    BY <2>1, PlaceStep, AllLabels
  <2>3. OrderAt(c)'
    BY <2>1, <2>2 DEF OrderInv, OrderAt, Asking
  <2> QED
    BY <2>1, <2>3, OrderFrame, AllLabels DEF regVars
<1>5. ASSUME MainFails \/ \E c \in Clients : ConnFails(c) PROVE OrderInv'
  BY <1>5 DEF MainFails, ConnFails, OrderInv, OrderAt, lineVars, regVars
<1>6. ASSUME NEW c \in Clients, Dispatch(c) PROVE OrderInv'
  <2>1. PICK label \in {"reset", "P", "write", "close", "readline"} :
          /\ Goto(c, label) /\ pc[c] = "dispatch"
          /\ label = "P" => IsTrade(req[c]) /\ req[c].id \in Items
          /\ label = "write" => IsTrade(req[c]) /\ req[c].id \notin Items
          /\ label \in {"reset", "close", "readline"} => ~IsTrade(req[c])
    BY <1>6 DEF Dispatch, LineType, Commands, IsTrade
  <2>2. label \in Labels
    BY AllLabels
  <2>3. pc'[c] = label
    BY <2>1, <2>2, PlaceStep
  <2>4. /\ req'[c] = IF req[c].cmd \in {"exit", "other"} THEN NoLine ELSE req[c]
        /\ verdict'[c] = IF IsTrade(req[c]) /\ req[c].id \notin Items
                         THEN "invalid" ELSE "none"
        /\ others(c)
    BY <1>6 DEF Dispatch, LineType, regVars
  <2>5. ~IsTrade(NoLine)
    BY DEF IsTrade, NoLine
  <2>6. OrderAt(c)'
    <3>1. req'[c] \in Requests \cup {NoLine}
      BY <2>4 DEF OrderInv, OrderAt
    <3>2. req[c].cmd \in {"exit", "other"} => ~IsTrade(req[c])
      BY DEF IsTrade
    <3>3. CASE label = "P"
      BY <2>1, <2>3, <2>4, <3>1, <3>2, <3>3 DEF OrderAt, Asking
    <3>4. CASE label = "write"
      BY <2>1, <2>3, <2>4, <3>1, <3>2, <3>4 DEF OrderAt, Asking
    <3>5. CASE label \in {"reset", "close", "readline"}
      BY <2>1, <2>3, <2>4, <2>5, <3>1, <3>5 DEF OrderAt, Asking
    <3> QED
      BY <2>1, <3>3, <3>4, <3>5
  <2> QED
    BY <2>1, <2>2, <2>4, <2>6, OrderFrame
<1>7. ASSUME NEW c \in Clients, P(c) \/ V(c) PROVE OrderInv'
  <2>1. PICK label \in Labels :
          /\ Goto(c, label) /\ UNCHANGED <<lineVars, regVars>>
          /\ \/ pc[c] = "P" /\ label = "test"
             \/ pc[c] = "V" /\ label = "write"
    BY <1>7, AllLabels DEF P, V
  <2>2. pc'[c] = label
    BY <2>1, PlaceStep
  <2>3. OrderAt(c)'
    BY <2>1, <2>2 DEF OrderInv, OrderAt, Asking, lineVars, regVars
  <2> QED
    BY <2>1, <2>3, OrderFrame DEF lineVars, regVars
<1>8. ASSUME NEW c \in Clients, Test(c) PROVE OrderInv'
  <2> DEFINE label == IF Short(req[c]) THEN "V" ELSE "store"
  <2>1. /\ pc[c] = "test" /\ Goto(c, label) /\ label \in Labels
        /\ req' = req /\ others(c)
        /\ verdict'[c] = IF Short(req[c]) THEN "short" ELSE verdict[c]
        /\ reg'[c] = IF Short(req[c]) THEN 0 ELSE stock[req[c].id]
    BY <1>8, AllLabels DEF Test, LineType, RegType
  <2>2. pc'[c] = label
    BY <2>1, PlaceStep
  <2>3. OrderAt(c)'
    <3>1. stock[req[c].id] \in Int /\ req[c].count \in Int
      BY <2>1 DEF PlaceInv, AtPlace, Holding, TreeType, LineType
    <3> QED
      BY <2>1, <2>2, <3>1 DEF OrderInv, OrderAt, Asking, Short
  <2> QED
    BY <2>1, <2>3, OrderFrame
<1>9. ASSUME NEW c \in Clients, Store(c) PROVE OrderInv'
  <2>1. /\ pc[c] = "store" /\ Goto(c, "V") /\ req' = req /\ others(c)
        /\ verdict'[c] = "success"
    BY <1>9 DEF Store, LineType, RegType
  <2>2. pc'[c] = "V"
    BY <2>1, PlaceStep, AllLabels
  <2>3. OrderAt(c)'
    BY <2>1, <2>2 DEF OrderInv, OrderAt, Asking
  <2> QED
    BY <2>1, <2>3, OrderFrame, AllLabels
<1>10. ASSUME NEW c \in Clients, Reply(c) PROVE OrderInv'
  <2>1. /\ Goto(c, "readline") /\ others(c)
        /\ req'[c] = NoLine /\ verdict'[c] = "none"
    BY <1>10 DEF Reply, LineType, regVars
  <2>2. pc'[c] = "readline"
    BY <2>1, PlaceStep, AllLabels
  <2>3. OrderAt(c)'
    BY <2>1, <2>2 DEF OrderAt, Asking, IsTrade, NoLine
  <2> QED
    BY <2>1, <2>3, OrderFrame, AllLabels
<1>11. ASSUME NEW c \in Clients, ResetString(c) \/ StrcatCopy(c) PROVE OrderInv'
  <2>1. /\ pc[c] \in {"reset", "copy"} /\ UNCHANGED lineVars /\ others(c)
        /\ \E label \in Labels : Goto(c, label) /\ label \in {"write", "sprintf"}
    BY <1>11, AllLabels DEF ResetString, StrcatCopy, RegType, lineVars
  <2>2. PICK label \in Labels : Goto(c, label) /\ label \in {"write", "sprintf"}
    BY <2>1
  <2>3. pc'[c] = label
    BY <2>2, PlaceStep
  <2>4. OrderAt(c)'
    BY <2>1, <2>2, <2>3 DEF OrderInv, OrderAt, Asking, lineVars
  <2> QED
    BY <2>1, <2>2, <2>4, OrderFrame
<1>12. CASE UNCHANGED vars
  BY <1>12 DEF vars, lineVars, regVars, OrderInv, OrderAt
<1> QED
  BY <1>2, <1>3, <1>4, <1>5, <1>6, <1>7, <1>8, <1>9, <1>10, <1>11, <1>12
     DEF Next, Main, MainGoesOn, Client, Work, Exited

\* Only a store changes a stock: a buy takes no more than it has found there.
LEMMA StockStep ==
  ASSUME MemInv, OrderInv, NoOversell, [Next]_vars
  PROVE  NoOversell'
<1> SUFFICES ASSUME \A r \in Requests : r.count >= 0,
                    \A i \in Items : InitStock[i] >= 0
             PROVE  \A i \in Items : stock'[i] >= 0
  BY DEF NoOversell
<1>1. \A i \in Items : stock[i] >= 0 /\ stock[i] \in Int
  BY DEF NoOversell, MemInv, MemType, TreeType
<1>2. CASE stock' = stock
  BY <1>1, <1>2
<1>3. ASSUME NEW c \in Clients, Store(c) PROVE \A i \in Items : stock'[i] >= 0
  <2> DEFINE j == req[c].id
             n == IF req[c].cmd = "buy" THEN reg[c] - req[c].count
                  ELSE reg[c] + req[c].count
  <2>1. j \in Items /\ req[c].count \in Int /\ reg[c] \in Int /\ reg[c] = stock[j]
    BY <1>3 DEF Store, MemInv, PlaceInv, AtPlace, Holding, MemType, LineType, RegType,
                LockInv, NoLostUpdate
  <2>2. req[c].count >= 0
    <3>1. req[c] \in Requests \cup {NoLine} /\ NoLine.count = 0
      BY DEF OrderInv, OrderAt, NoLine
    <3> QED
      BY <3>1
  <2>3. n >= 0
    BY <1>1, <1>3, <2>1, <2>2 DEF Store, OrderInv, OrderAt
  <2>4. stock' = [stock EXCEPT ![j] = n]
    BY <1>3 DEF Store
  <2> HIDE DEF n
  <2> QED
    BY <1>1, <2>1, <2>3, <2>4 DEF MemInv, MemType, TreeType
<1>4. stock' = stock \/ \E c \in Clients : Store(c)
  <2>1. ASSUME Main PROVE stock' = stock
    BY <2>1 DEF Main, MainGoesOn, MainFails, Accept, CountUp, Pthread_create, treeVars
  <2>2. ASSUME NEW c \in Clients, Client(c) PROVE stock' = stock
    BY <2>2 DEF Client, Connect, ReadLine, EndOfInput, Reply, ConnFails, treeVars
  <2>3. ASSUME NEW c \in Clients, Work(c), ~Store(c) PROVE stock' = stock
    BY <2>3 DEF Work, Dispatch, P, Test, V, ResetString, Sprintf, StrcatScan,
         StrcatCopy, Close, CountDown, Fopen, Fprintf, Fclose, Unlock, treeVars
  <2>4. ASSUME Exited \/ UNCHANGED vars PROVE stock' = stock
    BY <2>4 DEF Exited, vars, treeVars
  <2> QED
    BY <2>1, <2>2, <2>3, <2>4 DEF Next
<1> QED
  BY <1>2, <1>3, <1>4

(***************************************************************************)
(* As long as nobody asks for a negative count, no interleaving of any     *)
(* number of buyers drives an item below zero: a buy that stores has found *)
(* enough, and what it found is still there.                               *)
(***************************************************************************)
THEOREM NothingOversold == Spec => []NoOversell
<1> DEFINE All == SaveInv /\ OrderInv /\ NoOversell
<1>1. Init => All
  <2> SUFFICES ASSUME Init PROVE All
    OBVIOUS
  <2>1. OrderInv
    BY DEF Init, OrderInv, OrderAt, IsTrade, NoLine
  <2>2. NoOversell
    BY DEF Init, NoOversell
  <2> QED
    BY <2>1, <2>2, SaveInvInit
<1>2. All /\ [Next]_vars => All'
  BY SaveInvStep, OrderInvStep, StockStep DEF SaveInv, Inv
<1>3. All => NoOversell
  OBVIOUS
<1> QED
  BY <1>1, <1>2, <1>3, PTL DEF Spec

-------------------------------------------------------------------------------
(***************************************************************************)
(* Shows.  showString belongs to everybody who shows, so this is about one *)
(* client that does.  Its string has the lines of the walk so far and then *)
(* a terminator, and what it has seen has what is in stock.                *)
(***************************************************************************)
OneShows == \A c, d \in Showers : c = d

HasLines(c, n) ==
  /\ n + 1 \in DOMAIN showString /\ showString[n + 1] = NoOne
  /\ \A k \in 1..n : showString[k] \in seen[c] /\ showString[k].id = VLR[k]

HasSeen(c) == \A i \in Items : [id |-> i, stock |-> stock[i]] \in seen[c]

ShowAt(c) ==
  /\ pc[c] \in Showing => req[c].cmd = "show"
  /\ req[c].cmd = "show" => c \in Showers
  /\ pc[c] \in {"sprintf", "scan", "copy"} => HasLines(c, pos[c] - 1) /\ HasSeen(c)
  /\ pc[c] \in {"scan", "copy"} => line[c] \in seen[c] /\ line[c].id = VLR[pos[c]]
  /\ pc[c] = "copy" => reg[c] = pos[c] - 1
  /\ pc[c] = "write" /\ req[c].cmd = "show" => HasLines(c, Len(VLR))

ShowInv == \A c \in Clients : ShowAt(c)

\* strlen is the place of the terminator that comes after lines only.
LEMMA StrlenIs ==
  ASSUME NEW mem \in Seq(Lines \cup {NoOne}), NEW n \in Nat,
         n + 1 \in DOMAIN mem, mem[n + 1] = NoOne, \A k \in 1..n : mem[k] # NoOne
  PROVE  strlen(mem) = n
<1> DEFINE End(k) == mem[k] = NoOne /\ \A j \in 1..(k - 1) : mem[j] # NoOne
<1>1. End(n + 1)
  OBVIOUS
<1>2. ASSUME NEW k \in DOMAIN mem, End(k) PROVE k = n + 1
  <2>1. k \in Nat /\ k >= 1
    OBVIOUS
  <2>2. ~(k < n + 1)
    BY <1>2, <2>1
  <2>3. ~(n + 1 < k)
    BY <1>2, <2>1
  <2> QED
    BY <2>1, <2>2, <2>3
<1>3. (CHOOSE k \in DOMAIN mem : End(k)) = n + 1
  <2>1. (CHOOSE k \in DOMAIN mem : End(k)) \in DOMAIN mem
        /\ End(CHOOSE k \in DOMAIN mem : End(k))
    BY <1>1
  <2> HIDE DEF End
  <2> QED
    BY <2>1, <1>2
<1> QED
  BY <1>3 DEF strlen

\* What one thread does to itself and to its own history leaves other shows alone.
LEMMA ShowFrame ==
  ASSUME MemInv, ShowInv, NEW c \in Clients, NEW label \in Labels, Goto(c, label),
         \A d \in Clients \ {c} :
           /\ reg'[d] = reg[d] /\ pos'[d] = pos[d] /\ line'[d] = line[d]
           /\ req'[d] = req[d] /\ seen'[d] = seen[d],
         UNCHANGED <<stock, showString>>,
         ShowAt(c)'
  PROVE  ShowInv'
<1>1. ASSUME NEW d \in Clients \ {c} PROVE ShowAt(d)'
  <2>1. ShowAt(d) /\ pc'[d] = pc[d]
    BY PlaceStep DEF MemInv, MemType, ShowInv
  <2>2. HasLines(d, pos[d] - 1)' = HasLines(d, pos[d] - 1)
        /\ HasLines(d, Len(VLR))' = HasLines(d, Len(VLR)) /\ HasSeen(d)' = HasSeen(d)
    BY DEF HasLines, HasSeen
  <2> QED
    BY <2>1, <2>2 DEF ShowAt
<1> QED
  BY <1>1 DEF ShowInv

\* And what the only one who shows does to the string matters to nobody else.
LEMMA ShowerFrame ==
  ASSUME MemInv, OneShows, ShowInv, NEW c \in Showers, NEW label \in Labels,
         Goto(c, label), UNCHANGED req, ShowAt(c)'
  PROVE  ShowInv'
<1>0. c \in Clients
  BY ThreadsAssumption
<1>1. ASSUME NEW d \in Clients \ {c} PROVE ShowAt(d)'
  <2>1. ShowAt(d) /\ pc'[d] = pc[d]
    BY <1>0, PlaceStep DEF MemInv, MemType, ShowInv
  <2>2. req[d].cmd # "show" /\ req'[d].cmd # "show"
    BY <2>1 DEF ShowAt, OneShows
  <2> QED
    BY <2>1, <2>2 DEF ShowAt, Showing
<1> QED
  BY <1>1 DEF ShowInv

(***************************************************************************)
(* The steps of the show: the string is emptied, a line is put together,   *)
(* its end is found, the line is copied there.                             *)
(***************************************************************************)
LEMMA ShowSteps ==
  ASSUME MemInv, OneShows, ShowInv, NEW c \in Clients,
         ResetString(c) \/ Sprintf(c) \/ StrcatScan(c) \/ StrcatCopy(c)
  PROVE  ShowInv'
<1> USE DEF MemInv, MemType
<1>0. /\ ShowAt(c) /\ AtPlace(c) /\ pc[c] \in Showing /\ req' = req
      /\ req[c].cmd = "show" /\ c \in Showers /\ stock' = stock
      /\ Len(VLR) \in Nat /\ DOMAIN VLR = 1..Len(VLR)
  <2>1. pc[c] \in Showing /\ req' = req /\ stock' = stock
    BY DEF ResetString, Sprintf, StrcatScan, StrcatCopy, Showing, lineVars, treeVars
  <2> QED
    BY <2>1, ThreadsAssumption DEF ShowInv, ShowAt, PlaceInv
<1>1. CASE ResetString(c)
  <2>1. PICK label \in {"write", "sprintf"} :
          /\ Goto(c, label)
          /\ label = "write" <=> VLR = <<>>
          /\ pos'[c] = 1 /\ showString' = Emptied(showString)
          /\ seen'[c] = {[id |-> i, stock |-> stock[i]] : i \in Items}
    BY <1>1 DEF ResetString, RegType, TreeType
  <2>2. label \in Labels
    BY AllLabels
  <2>3. pc'[c] = label
    BY <2>1, <2>2, PlaceStep
  <2>4. HasLines(c, 0)'
    BY <2>1 DEF HasLines, Emptied, PlaceInv, Terminated, StringType
  <2>5. HasSeen(c)'
    BY <2>1, <1>0 DEF HasSeen
  <2>6. ShowAt(c)'
    BY <1>0, <2>1, <2>3, <2>4, <2>5 DEF ShowAt
  <2> QED
    BY <1>0, <2>1, <2>2, <2>6, ShowerFrame
<1>2. CASE Sprintf(c)
  <2>1. /\ pc[c] = "sprintf" /\ Goto(c, "scan") /\ pos[c] \in DOMAIN VLR
        /\ line'[c] = [id |-> VLR[pos[c]], stock |-> stock[VLR[pos[c]]]]
        /\ UNCHANGED <<showString, seen, pos>>
    BY <1>2, <1>0 DEF Sprintf, RegType, AtPlace, treeVars
  <2>2. pc'[c] = "scan"
    BY <2>1, PlaceStep, AllLabels
  <2>3. line'[c] \in seen'[c] /\ line'[c].id = VLR[pos[c]]
    BY <1>0, <2>1 DEF ShowAt, HasSeen, Items
  <2>4. HasLines(c, pos[c] - 1)' /\ HasSeen(c)'
    BY <1>0, <2>1 DEF ShowAt, HasLines, HasSeen
  <2>5. ShowAt(c)'
    BY <1>0, <2>1, <2>2, <2>3, <2>4 DEF ShowAt
  <2> QED
    BY <1>0, <2>1, <2>5, ShowerFrame, AllLabels
<1>3. CASE StrcatScan(c)
  <2>1. /\ pc[c] = "scan" /\ Goto(c, "copy") /\ pos[c] \in DOMAIN VLR
        /\ reg'[c] = strlen(showString)
        /\ UNCHANGED <<showString, seen, pos, line>>
    BY <1>3, <1>0 DEF StrcatScan, RegType, AtPlace, treeVars
  <2>2. pc'[c] = "copy"
    BY <2>1, PlaceStep, AllLabels
  <2>3. strlen(showString) = pos[c] - 1
    <3>1. HasLines(c, pos[c] - 1) /\ pos[c] - 1 \in Nat
      BY <1>0, <2>1 DEF ShowAt
    <3>2. \A k \in 1..(pos[c] - 1) : showString[k] # NoOne
      BY <3>1, ThreadsAssumption DEF HasLines, TreeType
    <3> QED
      BY <3>1, <3>2, StrlenIs DEF HasLines, StringType
  <2>4. HasLines(c, pos[c] - 1)' /\ HasSeen(c)'
    BY <1>0, <2>1 DEF ShowAt, HasLines, HasSeen
  <2>5. ShowAt(c)'
    BY <1>0, <2>1, <2>2, <2>3, <2>4 DEF ShowAt
  <2> QED
    BY <1>0, <2>1, <2>5, ShowerFrame, AllLabels
<1>4. CASE StrcatCopy(c)
  <2> DEFINE label == IF pos[c] < Len(VLR) THEN "sprintf" ELSE "write"
  <2>0. PICK n \in Nat : n = pos[c] - 1
    BY <1>4, <1>0 DEF StrcatCopy, AtPlace
  <2>1. /\ pc[c] = "copy" /\ Goto(c, label) /\ pos[c] \in DOMAIN VLR
        /\ showString' = Copied(showString, n, line[c])
        /\ pos'[c] = IF pos[c] < Len(VLR) THEN pos[c] + 1 ELSE 1
        /\ UNCHANGED seen
    BY <1>4, <1>0, <2>0 DEF StrcatCopy, RegType, AtPlace, ShowAt, treeVars
  <2>2. label \in Labels /\ pc'[c] = label
    BY <2>1, PlaceStep, AllLabels
  <2>3. /\ line[c] \in seen[c] /\ line[c].id = VLR[n + 1] /\ n \in Nat
        /\ HasLines(c, n) /\ HasSeen(c)
    BY <1>0, <2>0, <2>1 DEF ShowAt
  <2>4. HasLines(c, n + 1)'
    <3> DEFINE len == IF Len(showString) > n + 2 THEN Len(showString) ELSE n + 2
               at(k) == CASE k = n + 1 -> line[c]
                          [] k = n + 2 -> NoOne
                          [] OTHER -> IF k <= Len(showString) THEN showString[k]
                                      ELSE NoOne
    <3>1. showString' = [k \in 1..len |-> at(k)]
      BY <2>1 DEF Copied
    <3>2. Len(showString) \in Nat /\ DOMAIN showString = 1..Len(showString)
      BY DEF StringType
    <3>3. len \in Nat /\ n + 2 \in 1..len /\ n + 1 <= Len(showString)
      BY <2>3, <3>2 DEF HasLines
    <3>4. at(n + 2) = NoOne /\ at(n + 1) = line[c]
      BY <2>3
    <3>5. \A k \in 1..n : at(k) = showString[k] /\ k \in 1..len
      BY <2>3, <3>3
    <3> HIDE DEF len, at
    <3>6. /\ n + 2 \in DOMAIN showString' /\ showString'[n + 2] = NoOne
          /\ showString'[n + 1] = line[c]
          /\ \A k \in 1..n : showString'[k] = showString[k]
      BY <3>1, <3>3, <3>4, <3>5, <2>3
    <3>7. ASSUME NEW k \in 1..(n + 1)
          PROVE  showString'[k] \in seen'[c] /\ showString'[k].id = VLR[k]
      <4>1. CASE k = n + 1
        BY <2>1, <2>3, <3>6, <4>1
      <4>2. CASE k \in 1..n
        BY <2>1, <2>3, <3>6, <4>2 DEF HasLines
      <4> QED
        BY <2>3, <4>1, <4>2
    <3>8. (n + 1) + 1 = n + 2
      BY <2>3
    <3> QED
      BY <3>6, <3>7, <3>8 DEF HasLines
  <2>5. HasSeen(c)'
    BY <2>1, <2>3, <1>0 DEF HasSeen
  <2>6. CASE pos[c] < Len(VLR)
    <3>1. pc'[c] = "sprintf" /\ pos'[c] - 1 = n + 1
      BY <1>0, <2>0, <2>1, <2>2, <2>6
    <3>2. ShowAt(c)'
      BY <1>0, <2>4, <2>5, <3>1 DEF ShowAt
    <3> QED
      BY <1>0, <2>1, <2>2, <3>2, ShowerFrame
  <2>7. CASE ~(pos[c] < Len(VLR))
    <3>1. pc'[c] = "write" /\ n + 1 = Len(VLR)
      BY <1>0, <2>0, <2>1, <2>2, <2>7
    <3>2. ShowAt(c)'
      BY <1>0, <2>4, <3>1 DEF ShowAt, Showing
    <3> QED
      BY <1>0, <2>1, <2>2, <3>2, ShowerFrame
  <2> QED
    BY <2>6, <2>7
<1> QED
  BY <1>1, <1>2, <1>3, <1>4

(***************************************************************************)
(* A store while somebody shows: what is in stock now has been seen, and   *)
(* what had been seen still has.                                           *)
(***************************************************************************)
LEMMA ShowStore ==
  ASSUME MemInv, ShowInv, NEW c \in Clients, Store(c)
  PROVE  ShowInv'
<1> USE DEF MemInv, MemType
<1> DEFINE j == req[c].id
           n == IF req[c].cmd = "buy" THEN reg[c] - req[c].count
                ELSE reg[c] + req[c].count
<1>1. /\ pc[c] = "store" /\ IsTrade(req[c]) /\ j \in Items /\ Goto(c, "V")
      /\ stock' = [stock EXCEPT ![j] = n] /\ UNCHANGED <<req, pos, line, showString>>
      /\ \A d \in Clients \ {c} : reg'[d] = reg[d]
      /\ \A d \in Clients : seen'[d] = IF seen[d] = {} THEN {}
                                      ELSE seen[d] \cup {[id |-> j, stock |-> n]}
  BY DEF Store, PlaceInv, AtPlace, Holding, RegType
<1> HIDE DEF n
<1>2. pc'[c] = "V" /\ \A d \in Clients \ {c} : pc'[d] = pc[d]
  BY <1>1, PlaceStep, AllLabels
<1>3. ShowAt(c)'
  BY <1>1, <1>2 DEF ShowInv, ShowAt, Showing, IsTrade
<1>4. ASSUME NEW d \in Clients \ {c} PROVE ShowAt(d)'
  <2>1. ShowAt(d) /\ seen[d] \subseteq seen'[d]
    BY <1>1 DEF ShowInv
  <2>2. HasSeen(d) => HasSeen(d)'
    BY <1>1 DEF HasSeen, TreeType
  <2>3. /\ HasLines(d, pos[d] - 1) => HasLines(d, pos[d] - 1)'
        /\ HasLines(d, Len(VLR)) => HasLines(d, Len(VLR))'
    BY <1>1, <2>1 DEF HasLines
  <2> QED
    BY <1>1, <1>2, <2>1, <2>2, <2>3 DEF ShowAt
<1> QED
  BY <1>3, <1>4 DEF ShowInv

(***************************************************************************)
(* Every other step leaves the string, what is in stock and what was seen  *)
(* to those who show.                                                      *)
(***************************************************************************)
LEMMA ShowInvStep ==
  ASSUME MemInv, AloneInv, OneShows, ShowInv, [Next]_vars
  PROVE  ShowInv'
<1> USE DEF MemInv, MemType
<1>1. ASSUME NEW c \in Clients, NEW label \in Labels, Goto(c, label),
             pc[c] \notin Showing, label \notin {"write"} \cup Showing,
             UNCHANGED <<stock, showString, seen>>,
             \A d \in Clients \ {c} : /\ reg'[d] = reg[d] /\ pos'[d] = pos[d]
                                     /\ line'[d] = line[d] /\ req'[d] = req[d],
             req'[c].cmd = "show" => c \in Showers
      PROVE  ShowInv'
  <2>1. pc'[c] = label
    BY <1>1, PlaceStep
  <2>2. ShowAt(c)'
    BY <1>1, <2>1 DEF ShowAt, Showing
  <2> QED
    BY <1>1, <2>2, ShowFrame
<1>2. \A c \in Clients : req[c].cmd = "show" => c \in Showers
  BY DEF ShowInv, ShowAt
<1>3. ASSUME NEW c \in Clients, Connect(c) \/ EndOfInput(c) \/ Close(c)
             \/ P(c) \/ Test(c) \/ CountDown(c) \/ Fopen(c) \/ Fprintf(c)
             \/ Fclose(c) \/ Unlock(c)
      PROVE  ShowInv'
  <2>1. PICK label \in Labels :
          /\ Goto(c, label) /\ pc[c] \notin Showing
          /\ label \notin {"write"} \cup Showing
    BY <1>3, AllLabels DEF Connect, EndOfInput, Close, P, Test, CountDown, Fopen,
       Fprintf, Fclose, Unlock, Showing
  <2>2. /\ UNCHANGED <<stock, showString, seen, req>>
        /\ \A d \in Clients \ {c} : /\ reg'[d] = reg[d] /\ pos'[d] = pos[d]
                                    /\ line'[d] = line[d]
    BY <1>3 DEF Connect, EndOfInput, Close, P, Test, CountDown, Fopen, Fprintf,
       Fclose, Unlock, treeVars, lineVars, regVars, RegType
  <2> QED
    BY <2>1, <2>2, <1>1, <1>2
<1>4. ASSUME Accept \/ CountUp \/ Pthread_create PROVE ShowInv'
  <2>1. UNCHANGED <<stock, showString, seen, req, reg, pos, line>>
    BY <1>4 DEF Accept, CountUp, Pthread_create, treeVars, lineVars, regVars
  <2>2. PICK c \in Clients, label \in Labels :
          /\ Goto(c, label) /\ pc[c] \notin Showing
          /\ label \notin {"write"} \cup Showing
    <3>1. CASE Accept
      BY <3>1, AllLabels DEF Accept, MainType, AloneInv, MainInv, Showing
    <3>2. CASE CountUp
      BY <3>2, AllLabels DEF CountUp, MainType, Showing
    <3>3. CASE Pthread_create
      BY <3>3, AllLabels DEF Pthread_create, MainType, Showing
    <3> QED
      BY <1>4, <3>1, <3>2, <3>3
  <2> QED
    BY <2>1, <2>2, <1>1, <1>2
<1>5. ASSUME NEW c \in Clients, ReadLine(c) PROVE ShowInv'
  <2>1. /\ Goto(c, "dispatch") /\ pc[c] = "readline"
        /\ UNCHANGED <<stock, showString, seen, reg, pos, line>>
        /\ req'[c].cmd = "show" => c \in Showers
        /\ \A d \in Clients \ {c} : req'[d] = req[d]
    BY <1>5 DEF ReadLine, LineType, treeVars, regVars
  <2> QED
    BY <2>1, <1>1, AllLabels DEF Showing
<1>6. ASSUME MainFails \/ \E c \in Clients : ConnFails(c) PROVE ShowInv'
  BY <1>6 DEF MainFails, ConnFails, ShowInv, ShowAt, HasLines, HasSeen, treeVars, lineVars, regVars
<1>7. ASSUME NEW c \in Clients, Dispatch(c) PROVE ShowInv'
  <2>1. PICK label \in {"reset", "P", "write", "close", "readline"} :
          /\ Goto(c, label) /\ pc[c] = "dispatch"
          /\ label = "reset" => req[c].cmd = "show"
          /\ label = "write" => IsTrade(req[c])
    BY <1>7 DEF Dispatch, LineType, Commands, IsTrade
  <2>2. /\ UNCHANGED <<stock, showString, seen, reg, pos, line>>
        /\ req'[c] = IF req[c].cmd \in {"exit", "other"} THEN NoLine ELSE req[c]
        /\ \A d \in Clients \ {c} : req'[d] = req[d]
    BY <1>7 DEF Dispatch, LineType, treeVars, regVars
  <2>3. label \in Labels
    BY AllLabels
  <2>4. pc'[c] = label
    BY <2>1, <2>3, PlaceStep
  <2>5. ShowAt(c)'
    <3>1. req'[c].cmd = "show" => c \in Showers
      BY <1>2, <2>2 DEF NoLine
    <3>2. CASE label = "reset"
      BY <2>1, <2>2, <2>4, <3>1, <3>2 DEF ShowAt
    <3>3. CASE label # "reset"
      BY <2>1, <2>2, <2>4, <3>1, <3>3 DEF ShowAt, Showing, IsTrade, NoLine
    <3> QED
      BY <3>2, <3>3
  <2> QED
    BY <2>1, <2>2, <2>3, <2>5, ShowFrame
<1>8. ASSUME NEW c \in Clients, V(c) PROVE ShowInv'
  <2>1. /\ Goto(c, "write") /\ pc[c] = "V" /\ IsTrade(req[c])
        /\ UNCHANGED <<stock, showString, seen, req, reg, pos, line>>
    BY <1>8 DEF V, PlaceInv, AtPlace, Holding, lineVars, regVars
  <2>2. pc'[c] = "write"
    BY <2>1, PlaceStep, AllLabels
  <2>3. ShowAt(c)'
    BY <2>1, <2>2, <1>2 DEF ShowAt, Showing, IsTrade
  <2> QED
    BY <2>1, <2>3, ShowFrame, AllLabels
<1>9. ASSUME NEW c \in Clients, Reply(c) PROVE ShowInv'
  <2>1. /\ Goto(c, "readline") /\ req'[c] = NoLine
        /\ UNCHANGED <<stock, showString, reg, pos, line>>
        /\ \A d \in Clients \ {c} : req'[d] = req[d] /\ seen'[d] = seen[d]
    BY <1>9 DEF Reply, LineType, TreeType, regVars
  <2>2. pc'[c] = "readline"
    BY <2>1, PlaceStep, AllLabels
  <2>3. ShowAt(c)'
    BY <2>1, <2>2 DEF ShowAt, Showing, NoLine
  <2> QED
    BY <2>1, <2>3, ShowFrame, AllLabels
<1>10. CASE UNCHANGED vars
  BY <1>10 DEF vars, treeVars, lineVars, regVars, ShowInv, ShowAt, HasLines, HasSeen
<1> QED
  BY <1>3, <1>4, <1>5, <1>6, <1>7, <1>8, <1>9, <1>10, ShowSteps, ShowStore
     DEF Next, Main, MainGoesOn, Client, Work, Exited

\* What is so of a show that is done is what its client is sent.
LEMMA ShowIsWhole ==
  ASSUME MemInv, ShowInv
  PROVE  ShowWhole
<1> SUFFICES ASSUME NEW c \in Clients, pc[c] = "write", req[c].cmd = "show"
             PROVE  /\ strlen(showString) = Len(VLR)
                    /\ \A k \in DOMAIN VLR : /\ showString[k].id = VLR[k]
                                             /\ showString[k] \in seen[c]
  BY DEF ShowWhole
<1>1. HasLines(c, Len(VLR)) /\ Len(VLR) \in Nat /\ DOMAIN VLR = 1..Len(VLR)
  BY ThreadsAssumption DEF ShowInv, ShowAt
<1>2. \A k \in 1..Len(VLR) : showString[k] # NoOne
  BY <1>1, ThreadsAssumption DEF HasLines, MemInv, MemType, TreeType
<1>3. strlen(showString) = Len(VLR)
  BY <1>1, <1>2, StrlenIs DEF HasLines, MemInv, MemType, StringType
<1> QED
  BY <1>1, <1>3 DEF HasLines

(***************************************************************************)
(* If one client at a time shows, then whatever all the others buy, sell   *)
(* and do meanwhile, it is sent a line for every item, in the order of the *)
(* walk, each with a stock that the item had during the show.              *)
(***************************************************************************)
THEOREM OneShowIsWhole == ASSUME OneShows PROVE Spec => []ShowWhole
<1> DEFINE All == SaveInv /\ ShowInv
<1>1. Init => All
  BY SaveInvInit DEF Init, ShowInv, ShowAt, Showing, NoLine
<1>2. All /\ [Next]_vars => All'
  BY SaveInvStep, ShowInvStep DEF SaveInv, Inv
<1>3. All => ShowWhole
  BY ShowIsWhole DEF SaveInv, Inv
<1> QED
  BY <1>1, <1>2, <1>3, PTL DEF Spec

-------------------------------------------------------------------------------
(***************************************************************************)
(* The server implements the exchange.  What a client sees of its thread   *)
(* is its session: it is out, or idle, or has asked, or has been told.     *)
(***************************************************************************)
Sessions == [c \in Clients |-> Session(c)]

\* A step of one thread changes that session at most.
LEMMA SessionStep ==
  ASSUME MemInv, NEW c \in Clients, NEW label \in Labels, Goto(c, label),
         \A d \in Clients \ {c} : req'[d] = req[d] /\ verdict'[d] = verdict[d]
  PROVE  /\ Sessions' = [Sessions EXCEPT ![c] = Session(c)']
         /\ Session(c)' = Session(c) => Sessions' = Sessions
<1>1. ASSUME NEW d \in Clients \ {c} PROVE Session(d)' = Session(d)
  <2>1. pc'[d] = pc[d]
    BY PlaceStep DEF MemInv, MemType
  <2> QED
    BY <2>1 DEF Session
<1> QED
  BY <1>1 DEF Sessions

\* A thread that keeps its line and its verdict, and is counted before and after
\* or neither before nor after, keeps its session.
LEMMA SessionStays ==
  ASSUME MemInv, NEW c \in Clients, NEW label \in Labels, Goto(c, label),
         UNCHANGED lineVars, pc[c] \in Counted <=> label \in Counted
  PROVE  Sessions' = Sessions
<1>1. pc'[c] = label
  BY PlaceStep DEF MemInv, MemType
<1>2. Session(c)' = Session(c)
  BY <1>1 DEF Session, lineVars
<1> QED
  BY <1>2, SessionStep DEF lineVars

\* A step that moves neither a session, nor the stocks, nor the file is a stutter.
LEMMA Stutter ==
  ASSUME Sessions' = Sessions, UNCHANGED <<stock, file>>
  PROVE  UNCHANGED Exchange!vars
<1>1. Book' = Book
  BY DEF Book
<1> QED
  BY <1>1 DEF Exchange!vars, Sessions

\* A step of one session, of the stocks and not of the file.
LEMMA OneSession ==
  ASSUME NEW c \in Clients, UNCHANGED file,
         Sessions' = [Sessions EXCEPT ![c] = Session(c)'],
         \/ /\ Session(c) = Exchange!Out /\ Session(c)' = Exchange!Idle
            /\ stock' = stock
         \/ /\ Session(c).at = "told" /\ Session(c)' = Exchange!Idle
            /\ stock' = stock
         \/ /\ Session(c) = Exchange!Idle /\ Session(c)' = Exchange!Out
            /\ stock' = stock
         \/ \E order \in Orders :
              /\ Session(c) = Exchange!Idle /\ Session(c)' = Exchange!Asked(order)
              /\ stock' = stock
         \/ \E order \in Orders :
              /\ Session(c) = Exchange!Asked(order)
              /\ Session(c)' = Exchange!Told(order, Exchange!Verdict(order))
              /\ stock' = IF Exchange!Verdict(order) = "success"
                          THEN [stock EXCEPT ![order.id] = @ + Exchange!Change(order)]
                          ELSE stock
  PROVE  Exchange!Next
<1>1. Book' = Book
  BY DEF Book
<1>2. Sessions[c] = Session(c)
  BY DEF Sessions
<1> QED
  BY <1>1, <1>2 DEF Sessions, Exchange!Next, Exchange!Connect, Exchange!Answer,
     Exchange!Leave, Exchange!Ask, Exchange!Decide

\* A complete file that says what is in stock is read as the ledger.
LEMMA BookIsLedger ==
  ASSUME NEW s \in [Items -> Int]
  PROVE  [i \in Items |-> Image(s)[CHOOSE k \in DOMAIN VLR : VLR[k] = i].stock] = s
<1>1. ASSUME NEW i \in Items
      PROVE  Image(s)[CHOOSE k \in DOMAIN VLR : VLR[k] = i].stock = s[i]
  <2>1. \E k \in DOMAIN VLR : VLR[k] = i
    BY DEF Items
  <2> DEFINE here == CHOOSE k \in DOMAIN VLR : VLR[k] = i
  <2>2. here \in DOMAIN VLR /\ VLR[here] = i
    BY <2>1
  <2> HIDE DEF here
  <2> QED
    BY <2>2 DEF Image
<1> QED
  BY <1>1

\* While a thread saves nobody is in, and what it does to the file is a write.
LEMMA SavingIsWrite ==
  ASSUME SaveInv, NEW c \in Clients, NEW label \in Saving, Goto(c, label),
         pc[c] \in Saving, UNCHANGED <<lineVars, stock>>,
         \/ Book' = NoOne
         \/ Book' = stock
         \/ Book' = Book
  PROVE  Exchange!Next \/ UNCHANGED Exchange!vars
<1>1. label \in Labels /\ (pc[c] \in Counted <=> label \in Counted)
  BY Parts
<1>2. Sessions' = Sessions
  BY <1>1, SessionStays DEF SaveInv, Inv
<1>3. \A d \in Clients : Session(d) = Exchange!Out
  <2>1. \A d \in Clients : pc[d] \notin Counted
    BY AloneIsAlone, Parts DEF SaveInv, Inv, AloneInv, SavesAlone
  <2> QED
    BY <2>1 DEF Session, Exchange!Out
<1>4. CASE Book' = Book
  BY <1>2, <1>4 DEF Exchange!vars, Sessions
<1>5. CASE Book' \in {NoOne, stock}
  BY <1>2, <1>3, <1>5 DEF Exchange!Next, Exchange!Write, Exchange!NobodyIn, Sessions
<1> QED
  BY <1>4, <1>5

(***************************************************************************)
(* A thread reads an order, decides it and answers: three steps of its     *)
(* client's session.  The decision is the lookup that finds nothing, the   *)
(* test that finds too little, or the store.                               *)
(***************************************************************************)
LEMMA OrderSteps ==
  ASSUME SaveInv, OrderInv, NEW c \in Clients,
         ReadLine(c) \/ Dispatch(c) \/ P(c) \/ Test(c) \/ Store(c) \/ V(c) \/ Reply(c)
  PROVE  Exchange!Next \/ UNCHANGED Exchange!vars
<1> USE DEF SaveInv, Inv, MemInv, MemType
<1>0. OrderAt(c) /\ AtPlace(c) /\ file' = file
  BY ServedPlaces DEF OrderInv, PlaceInv, fileVars
<1>1. PICK label \in Labels : /\ Goto(c, label) /\ label \in Counted
                              /\ pc[c] \in Counted /\ pc'[c] = label
                              /\ \A d \in Clients \ {c} : pc'[d] = pc[d]
  BY ServedPlaces, PlaceStep
<1>2. CASE ReadLine(c)
  <2>1. /\ pc[c] = "readline" /\ UNCHANGED <<stock, verdict>>
        /\ req'[c] \in Requests /\ \A d \in Clients \ {c} : req'[d] = req[d]
    BY <1>2 DEF ReadLine, LineType, treeVars
  <2>2. Session(c) = Exchange!Idle /\ verdict[c] = "none"
    BY <1>0, <1>1, <2>1 DEF Session, OrderAt, Asking, Exchange!Idle
  <2>3. Sessions' = [Sessions EXCEPT ![c] = Session(c)']
        /\ (Session(c)' = Session(c) => Sessions' = Sessions)
    BY <1>1, <2>1, SessionStep
  <2>4. CASE IsTrade(req'[c])
    <3>1. req'[c] \in Orders /\ Session(c)' = Exchange!Asked(req'[c])
      BY <1>1, <2>1, <2>2, <2>4 DEF Session, Orders, IsTrade, Exchange!Asked
    <3> QED
      BY <1>0, <2>1, <2>2, <2>3, <3>1, OneSession
  <2>5. CASE ~IsTrade(req'[c])
    <3>1. Session(c)' = Session(c)
      BY <1>1, <2>1, <2>2, <2>5 DEF Session, IsTrade, Exchange!Idle
    <3> QED
      BY <1>0, <2>1, <2>3, <3>1, Stutter
  <2> QED
    BY <2>4, <2>5
<1>3. CASE Dispatch(c)
  <2>1. /\ pc[c] = "dispatch" /\ UNCHANGED stock
        /\ req'[c] = IF req[c].cmd \in {"exit", "other"} THEN NoLine ELSE req[c]
        /\ verdict'[c] = IF IsTrade(req[c]) /\ req[c].id \notin Items
                         THEN "invalid" ELSE "none"
        /\ \A d \in Clients \ {c} : req'[d] = req[d] /\ verdict'[d] = verdict[d]
    BY <1>3 DEF Dispatch, LineType, treeVars
  <2>2. verdict[c] = "none" /\ req[c] \in Requests \cup {NoLine}
    BY <1>0, <2>1 DEF OrderAt
  <2>3. Sessions' = [Sessions EXCEPT ![c] = Session(c)']
        /\ (Session(c)' = Session(c) => Sessions' = Sessions)
    BY <1>1, <2>1, SessionStep
  <2>4. CASE IsTrade(req[c]) /\ req[c].id \notin Items
    <3>1. req[c] \in Orders /\ req'[c] = req[c]
      BY <2>1, <2>2, <2>4 DEF Orders, IsTrade, NoLine
    <3>2. Session(c) = Exchange!Asked(req[c])
      BY <1>1, <2>2, <2>4 DEF Session, Exchange!Asked
    <3>3. Exchange!Verdict(req[c]) = "invalid"
      BY <2>4 DEF Exchange!Verdict
    <3>4. Session(c)' = Exchange!Told(req[c], "invalid")
      BY <1>1, <2>1, <2>4, <3>1 DEF Session, Exchange!Told, IsTrade
    <3> QED
      BY <1>0, <2>1, <2>3, <3>1, <3>2, <3>3, <3>4, OneSession
  <2>5. CASE ~(IsTrade(req[c]) /\ req[c].id \notin Items)
    <3>1. Session(c)' = Session(c)
      <4>1. CASE IsTrade(req[c])
        <5>1. req'[c] = req[c] /\ verdict'[c] = "none"
          BY <2>1, <2>5, <4>1 DEF IsTrade
        <5> QED
          BY <1>1, <2>2, <5>1 DEF Session
      <4>2. CASE ~IsTrade(req[c])
        <5>1. ~IsTrade(req'[c])
          BY <2>1, <4>2 DEF IsTrade, NoLine
        <5> QED
          BY <1>1, <4>2, <5>1 DEF Session, IsTrade
      <4> QED
        BY <4>1, <4>2
    <3> QED
      BY <1>0, <2>1, <2>3, <3>1, Stutter
  <2> QED
    BY <2>4, <2>5
<1>4. CASE P(c) \/ V(c)
  <2>1. UNCHANGED <<stock, lineVars>>
    BY <1>4 DEF P, V, lineVars
  <2> QED
    BY <1>0, <1>1, <2>1, SessionStays, Stutter
<1>5. CASE Test(c)
  <2>1. /\ pc[c] = "test" /\ IsTrade(req[c]) /\ req[c].id \in Items
        /\ verdict[c] = "none" /\ req[c] \in Orders
    BY <1>0, <1>5 DEF Test, AtPlace, Holding, OrderAt, Orders, IsTrade, NoLine
  <2>2. /\ req' = req /\ UNCHANGED stock
        /\ verdict'[c] = IF Short(req[c]) THEN "short" ELSE verdict[c]
        /\ \A d \in Clients \ {c} : verdict'[d] = verdict[d]
    BY <1>5 DEF Test, LineType, treeVars
  <2>3. Sessions' = [Sessions EXCEPT ![c] = Session(c)']
        /\ (Session(c)' = Session(c) => Sessions' = Sessions)
    BY <1>1, <2>2, SessionStep
  <2>4. CASE Short(req[c])
    <3>1. Session(c) = Exchange!Asked(req[c])
      BY <1>1, <2>1 DEF Session, Exchange!Asked
    <3>2. Exchange!Verdict(req[c]) = "short"
      BY <2>1, <2>4 DEF Exchange!Verdict, Short
    <3>3. Session(c)' = Exchange!Told(req[c], "short")
      BY <1>1, <2>1, <2>2, <2>4 DEF Session, Exchange!Told, IsTrade
    <3> QED
      BY <1>0, <2>1, <2>2, <2>3, <3>1, <3>2, <3>3, OneSession
  <2>5. CASE ~Short(req[c])
    <3>1. Session(c)' = Session(c)
      BY <1>1, <2>1, <2>2, <2>5 DEF Session
    <3> QED
      BY <1>0, <2>2, <2>3, <3>1, Stutter
  <2> QED
    BY <2>4, <2>5
<1>6. CASE Store(c)
  <2> DEFINE n == IF req[c].cmd = "buy" THEN reg[c] - req[c].count
                  ELSE reg[c] + req[c].count
  <2>1. /\ pc[c] = "store" /\ IsTrade(req[c]) /\ req[c].id \in Items
        /\ verdict[c] = "none" /\ req[c] \in Orders
        /\ reg[c] = stock[req[c].id] /\ reg[c] \in Int /\ req[c].count \in Int
        /\ req[c].cmd = "buy" => req[c].count <= reg[c]
    BY <1>0, <1>6 DEF Store, AtPlace, Holding, OrderAt, Orders, IsTrade, NoLine,
       LockInv, NoLostUpdate, RegType, LineType
  <2>2. /\ req' = req /\ stock' = [stock EXCEPT ![req[c].id] = n]
        /\ verdict'[c] = "success"
        /\ \A d \in Clients \ {c} : verdict'[d] = verdict[d]
    BY <1>6 DEF Store, LineType
  <2>3. Sessions' = [Sessions EXCEPT ![c] = Session(c)']
    BY <1>1, <2>2, SessionStep
  <2>4. Session(c) = Exchange!Asked(req[c])
    BY <1>1, <2>1 DEF Session, Exchange!Asked
  <2>5. Exchange!Verdict(req[c]) = "success"
    BY <2>1 DEF Exchange!Verdict
  <2>6. Session(c)' = Exchange!Told(req[c], "success")
    BY <1>1, <2>1, <2>2 DEF Session, Exchange!Told, IsTrade
  <2>7. stock' = [stock EXCEPT ![req[c].id] = @ + Exchange!Change(req[c])]
    <3>1. n = stock[req[c].id] + Exchange!Change(req[c])
      BY <2>1 DEF Exchange!Change
    <3> HIDE DEF n
    <3> QED
      BY <2>2, <3>1
  <2> HIDE DEF n
  <2> QED
    BY <1>0, <2>1, <2>3, <2>4, <2>5, <2>6, <2>7, OneSession
<1>7. CASE Reply(c)
  <2>1. /\ pc[c] = "write" /\ UNCHANGED stock /\ req'[c] = NoLine
        /\ \A d \in Clients \ {c} : req'[d] = req[d] /\ verdict'[d] = verdict[d]
    BY <1>7 DEF Reply, LineType
  <2>2. Sessions' = [Sessions EXCEPT ![c] = Session(c)']
        /\ (Session(c)' = Session(c) => Sessions' = Sessions)
    BY <1>1, <2>1, SessionStep
  <2>3. Session(c)' = Exchange!Idle
    BY <1>1, <2>1 DEF Session, IsTrade, NoLine, Exchange!Idle
  <2>4. CASE IsTrade(req[c])
    <3>1. Session(c).at = "told"
      BY <1>0, <1>1, <2>1, <2>4 DEF Session, OrderAt
    <3> QED
      BY <1>0, <2>1, <2>2, <2>3, <3>1, OneSession
  <2>5. CASE ~IsTrade(req[c])
    <3>1. Session(c) = Exchange!Idle
      BY <1>1, <2>5 DEF Session, Exchange!Idle
    <3> QED
      BY <1>0, <2>1, <2>2, <2>3, <3>1, Stutter
  <2> QED
    BY <2>4, <2>5
<1> QED
  BY <1>2, <1>3, <1>4, <1>5, <1>6, <1>7

(***************************************************************************)
(* Every step of the server is one of the exchange, or none: a client      *)
(* comes in when it is counted and leaves when it is counted down, the     *)
(* file is touched by the saving thread only, and shows, the semaphores    *)
(* and a failing connection are not seen.                                  *)
(***************************************************************************)
LEMMA ExchangeStep ==
  ASSUME SaveInv, OrderInv, [Next]_vars
  PROVE  Exchange!Next \/ UNCHANGED Exchange!vars
<1> USE DEF SaveInv, Inv, MemInv, MemType
<1>1. ASSUME NEW c \in Clients, NEW label \in Labels, Goto(c, label),
             pc[c] \in Counted <=> label \in Counted,
             UNCHANGED <<lineVars, stock, file>>
      PROVE  UNCHANGED Exchange!vars
  BY <1>1, SessionStays, Stutter
<1>2. ASSUME NEW c \in Clients, Connect(c) PROVE UNCHANGED Exchange!vars
  <2>1. "backlog" \in Before /\ "out" \in Before
    BY DEF Before
  <2>2. UNCHANGED <<lineVars, stock, file>> /\ Goto(c, "backlog") /\ pc[c] = "out"
    BY <1>2 DEF Connect, treeVars, fileVars
  <2> QED
    BY <1>1, <2>1, <2>2, Parts
<1>3. ASSUME Accept PROVE UNCHANGED Exchange!vars
  <2>1. "backlog" \in Before /\ "accepted" \in Before
    BY DEF Before
  <2>2. /\ UNCHANGED <<lineVars, stock, file>> /\ Goto(Head(backlog), "accepted")
        /\ Head(backlog) \in Clients /\ pc[Head(backlog)] = "backlog"
    BY <1>3 DEF Accept, MainType, AloneInv, MainInv, treeVars, fileVars
  <2> QED
    BY <1>1, <2>1, <2>2, Parts
<1>4. ASSUME CountUp PROVE Exchange!Next
  <2>1. /\ conn \in Clients /\ pc[conn] = "accepted" /\ Goto(conn, "counted")
        /\ UNCHANGED <<lineVars, stock, file>>
    BY <1>4 DEF CountUp, MainType, treeVars, fileVars
  <2>2. /\ pc[conn] \notin Counted /\ "counted" \in Counted
        /\ pc'[conn] = "counted"
    BY <2>1, Parts, AllLabels, PlaceStep DEF Before, Counted
  <2>3. ~IsTrade(req[conn])
    BY <2>1 DEF OrderInv, OrderAt, Asking
  <2>4. Sessions' = [Sessions EXCEPT ![conn] = [at |-> "idle"]]
        /\ Session(conn) = [at |-> "out"]
    <3>1. \A d \in Clients \ {conn} : Session(d)' = Session(d)
      <4>1. \A d \in Clients \ {conn} : pc'[d] = pc[d]
        BY <2>1, AllLabels, PlaceStep
      <4> QED
        BY <2>1, <4>1 DEF Session, lineVars
    <3>2. Session(conn) = [at |-> "out"]
      BY <2>2 DEF Session
    <3>3. \A d \in Clients : Session(d)' = IF d = conn THEN [at |-> "idle"]
                                          ELSE Session(d)
      BY <2>1, <2>2, <2>3, <3>1 DEF Session, lineVars, IsTrade
    <3> QED
      BY <3>2, <3>3 DEF Sessions
  <2>5. Book' = Book
    BY <2>1 DEF Book
  <2> QED
    BY <2>1, <2>4, <2>5 DEF Exchange!Next, Exchange!Connect, Exchange!Idle,
       Exchange!Out, Sessions
<1>5. ASSUME Pthread_create PROVE UNCHANGED Exchange!vars
  <2>1. "counted" \in Counted /\ "readline" \in Counted
    BY DEF Counted
  <2>2. /\ UNCHANGED <<lineVars, stock, file>> /\ Goto(conn, "readline")
        /\ conn \in Clients /\ pc[conn] = "counted"
    BY <1>5 DEF Pthread_create, MainType, treeVars, fileVars
  <2> QED
    BY <1>1, <2>1, <2>2, Parts
<1>6. ASSUME NEW c \in Clients, ConnFails(c) PROVE UNCHANGED Exchange!vars
  <2>1. \A d \in Clients : pc[d] \notin Saving
    BY <1>6, AloneIsAlone, NobodyCounted DEF ConnFails, SavesAlone, Counted, AloneInv,
       MutexInv
  <2>2. file' = file
    BY <1>6, <2>1 DEF ConnFails, Flushed, FileInv, Saving, Closed
  <2>3. UNCHANGED <<pc, lineVars, stock>>
    BY <1>6 DEF ConnFails, treeVars
  <2>4. Sessions' = Sessions
    BY <2>3 DEF Sessions, Session, lineVars
  <2> QED
    BY <2>2, <2>3, <2>4, Stutter
<1>7. ASSUME NEW c \in Clients,
             \/ EndOfInput(c) \/ ResetString(c) \/ Sprintf(c) \/ StrcatScan(c)
             \/ StrcatCopy(c) \/ Close(c)
      PROVE  UNCHANGED Exchange!vars
  <2>1. UNCHANGED <<lineVars, stock>>
    BY <1>7 DEF EndOfInput, ResetString, Sprintf, StrcatScan, StrcatCopy, Close,
       treeVars
  <2> QED
    BY <1>7, <2>1, <1>1, ServedPlaces, Parts DEF fileVars
<1>8. ASSUME NEW c \in Clients,
             ReadLine(c) \/ Dispatch(c) \/ P(c) \/ Test(c) \/ Store(c) \/ V(c) \/ Reply(c)
      PROVE  Exchange!Next \/ UNCHANGED Exchange!vars
  BY <1>8, OrderSteps
<1>9. ASSUME NEW c \in Clients, CountDown(c) PROVE Exchange!Next
  <2>1. PICK label \in {"fopen", "out"} :
          /\ Goto(c, label) /\ pc[c] = "leave" /\ UNCHANGED <<lineVars, stock, file>>
    BY <1>9 DEF CountDown, treeVars, fileVars
  <2>2. label \in Labels /\ label \notin Counted /\ pc[c] \in Counted
    BY <2>1, Parts DEF Before, Saving, Counted
  <2>3. pc'[c] = label
    BY <2>1, <2>2, PlaceStep
  <2>4. ~IsTrade(req[c])
    BY <2>1 DEF OrderInv, OrderAt, Asking
  <2>5. Session(c) = Exchange!Idle /\ Session(c)' = Exchange!Out
    BY <2>2, <2>3, <2>4 DEF Session, Exchange!Idle, Exchange!Out
  <2>6. Sessions' = [Sessions EXCEPT ![c] = Session(c)']
    BY <2>1, <2>2, SessionStep DEF lineVars
  <2> QED
    BY <2>1, <2>5, <2>6, OneSession
<1>10. ASSUME NEW c \in Clients, Fopen(c) PROVE Exchange!Next \/ UNCHANGED Exchange!vars
  <2>1. PICK label \in Saving :
          /\ Goto(c, label) /\ pc[c] = "fopen" /\ UNCHANGED <<lineVars, stock>>
          /\ file' \in {<<>>, file}
    BY <1>10 DEF Fopen, Saving, treeVars
  <2>2. pc[c] \in Saving
    BY <2>1 DEF Saving
  <2>3. Book' = NoOne \/ Book' = Book
    <3>1. CASE file' = file
      BY <3>1 DEF Book
    <3>2. CASE file' = <<>> /\ VLR # <<>>
      <4>1. DOMAIN file' # DOMAIN VLR
        BY <3>2, ThreadsAssumption
      <4> QED
        BY <4>1 DEF Book
    <3>3. CASE file' = <<>> /\ VLR = <<>>
      <4>1. \A d \in Clients : pc[d] \notin {"fprintf", "fclose"}
        BY <2>1, AloneIsAlone DEF AloneInv, SavesAlone, Saving, Before
      <4>2. DOMAIN file = DOMAIN VLR
        BY <4>1 DEF FileInv
      <4>3. Items = {} /\ DOMAIN file' = DOMAIN VLR
        BY <3>3 DEF Items
      <4> QED
        BY <4>2, <4>3 DEF Book
    <3> QED
      BY <2>1, <3>1, <3>2, <3>3
  <2> QED
    BY <2>1, <2>2, <2>3, SavingIsWrite
<1>11. ASSUME NEW c \in Clients, Fprintf(c) PROVE UNCHANGED Exchange!vars
  <2>1. PICK label \in Saving :
          Goto(c, label) /\ pc[c] = "fprintf" /\ UNCHANGED <<lineVars, stock, file>>
    BY <1>11 DEF Fprintf, Saving, treeVars
  <2>2. pc[c] \in Saving
    BY <2>1 DEF Saving
  <2> QED
    BY <1>1, <2>1, <2>2, Parts
<1>12. ASSUME status = "up", NEW c \in Clients, Fclose(c)
       PROVE  Exchange!Next \/ UNCHANGED Exchange!vars
  <2>1. /\ Goto(c, "unlock") /\ pc[c] = "fclose" /\ UNCHANGED <<lineVars, stock>>
        /\ file' = Flushed
    BY <1>12 DEF Fclose, treeVars
  <2>2. "unlock" \in Saving /\ "fclose" \in Saving
    BY DEF Saving
  <2>3. stock \in [Items -> Int] /\ Image(stock) \in Seq(Lines)
    BY ImageType DEF TreeType
  <2>4. file' = Image(stock) /\ DOMAIN file' = DOMAIN VLR
    <3>1. file = <<>> /\ fp = [at |-> "live", buf |-> Image(stock)]
      BY <1>12, <2>1 DEF FileInv
    <3>2. Flushed = Overlay(<<>>, Image(stock))
      BY <3>1 DEF Flushed
    <3>3. file' = Image(stock)
      BY <2>1, <2>3, <3>2, OverlayEmpty
    <3> QED
      BY <3>3 DEF Image
  <2>5. Book' = stock
    BY <2>3, <2>4, BookIsLedger DEF Book
  <2> QED
    BY <2>1, <2>2, <2>5, SavingIsWrite
<1>13. ASSUME NEW c \in Clients, Unlock(c) PROVE UNCHANGED Exchange!vars
  <2>1. /\ Goto(c, "out") /\ pc[c] = "unlock" /\ UNCHANGED <<lineVars, stock, file>>
        /\ "out" \in Before /\ "unlock" \in Saving
    BY <1>13 DEF Unlock, Before, Saving, treeVars, fileVars
  <2> QED
    BY <1>1, <2>1, Parts
<1>14. CASE UNCHANGED vars
  <2>1. Sessions' = Sessions /\ UNCHANGED <<stock, file>>
    BY <1>14 DEF vars, lineVars, treeVars, fileVars, Sessions, Session
  <2> QED
    BY <2>1, Stutter
<1>15. ASSUME status = "up", MainFails PROVE Exchange!Next \/ UNCHANGED Exchange!vars
  <2>1. UNCHANGED <<pc, lineVars, stock>> /\ file' = Flushed
    BY <1>15 DEF MainFails, treeVars
  <2>2. Sessions' = Sessions
    BY <2>1 DEF Sessions, Session, lineVars
  <2>3. CASE \A c \in Clients : pc[c] \notin {"fprintf", "fclose"}
    <3>1. file' = file
      BY <2>1, <2>3 DEF FileInv, Flushed, Closed
    <3> QED
      BY <2>1, <2>2, <3>1, Stutter
  <2>4. ASSUME NEW c \in Clients, pc[c] \in {"fprintf", "fclose"}
        PROVE  Exchange!Next \/ UNCHANGED Exchange!vars
    <3>1. pc[c] \in Saving /\ Goto(c, pc[c])
      BY <2>1, <2>4 DEF Saving, Goto, PlaceType
    <3>2. file = <<>> /\ fp.at = "live"
      BY <1>15, <2>4 DEF FileInv
    <3>3. ASSUME pc[c] = "fprintf" PROVE Book' = NoOne
      <4>1. pos[c] \in DOMAIN VLR /\ fp.buf = Walked(c)
        BY <3>3 DEF FileInv, PlaceInv, AtPlace
      <4>2. Walked(c) \in Seq(Lines) /\ DOMAIN Walked(c) # DOMAIN VLR
        BY <4>1, WalkedPart
      <4>3. file' = Walked(c)
        BY <2>1, <3>2, <4>1, <4>2, OverlayEmpty DEF Flushed
      <4> QED
        BY <4>2, <4>3 DEF Book
    <3>4. ASSUME pc[c] = "fclose" PROVE Book' = stock
      <4>1. stock \in [Items -> Int] /\ Image(stock) \in Seq(Lines)
        BY ImageType DEF TreeType
      <4>2. fp.buf = Image(stock)
        BY <3>4 DEF FileInv
      <4>3. file' = Image(stock)
        BY <2>1, <3>2, <4>1, <4>2, OverlayEmpty DEF Flushed
      <4>4. DOMAIN file' = DOMAIN VLR
        BY <4>3 DEF Image
      <4> QED
        BY <2>1, <4>1, <4>3, <4>4, BookIsLedger DEF Book
    <3> QED
      BY <2>1, <2>4, <3>1, <3>3, <3>4, SavingIsWrite
  <2> QED
    BY <2>3, <2>4
<1> QED
  BY <1>2, <1>3, <1>4, <1>5, <1>6, <1>7, <1>8, <1>9, <1>10, <1>11, <1>12, <1>13, <1>14, <1>15
     DEF Next, Main, MainGoesOn, Client, Work, Exited

(***************************************************************************)
(* The server implements the exchange: each order is decided in one step   *)
(* against the stocks of that moment, each client is told the decision on  *)
(* its own order, and stock.txt is touched only while nobody is served,    *)
(* and is then the ledger, or incomplete.                                  *)
(***************************************************************************)
THEOREM ServerIsExchange == Spec => ImplementsExchange
<1> DEFINE All == SaveInv /\ OrderInv
<1>1. Init => All
  BY SaveInvInit DEF Init, OrderInv, OrderAt, IsTrade, NoLine
<1>2. All /\ [Next]_vars => All'
  BY SaveInvStep, OrderInvStep DEF SaveInv, Inv
<1>3. Init => Exchange!Init
  <2> SUFFICES ASSUME Init PROVE Exchange!Init
    OBVIOUS
  <2>1. Sessions = [c \in Clients |-> Exchange!Out]
    <3>1. \A c \in Clients : pc[c] \notin Counted
      BY Parts DEF Init, Before
    <3> QED
      BY <3>1 DEF Sessions, Session, Exchange!Out
  <2>2. Book = InitStock
    <3>1. file = Image(InitStock) /\ DOMAIN file = DOMAIN VLR
      BY DEF Init, Image
    <3> QED
      BY <3>1, BookIsLedger, ThreadsAssumption DEF Book
  <2> QED
    BY <2>1, <2>2 DEF Init, Exchange!Init, Sessions
<1>4. All /\ [Next]_vars => [Exchange!Next]_Exchange!vars
  BY ExchangeStep
<1> HIDE DEF All
<1> QED
  BY <1>1, <1>2, <1>3, <1>4, PTL DEF Spec, ImplementsExchange, Exchange!Spec

-------------------------------------------------------------------------------
(***************************************************************************)
(* What SIGINT leaves of stock.txt, proved for every number of clients,    *)
(* every tree and every moment at which the signal comes.                  *)
(***************************************************************************)

(***************************************************************************)
(* The files.  stock.txt may be gone, and a thread's stream may be one to  *)
(* a file without a name.                                                  *)
(***************************************************************************)
Streams == [at : {"closed", "live", "orphan"}, buf : Seq(Lines)]

FilesType ==
  /\ file \in Seq(Lines) \cup {NoOne} /\ fp \in Streams
  /\ fp.at = "live" => file # NoOne

\* A stream is open only while a thread writes to it.
Writes(c) == pc[c] \in {"fprintf", "fclose"}

StreamOpen == fp.at # "closed" => \E c \in Clients : Writes(c)

(***************************************************************************)
(* The handler: it begins its walk at the first item, does not leave the   *)
(* tree, and once it has made stock.txt anew nobody removes it.            *)
(***************************************************************************)
HandlerType ==
  /\ hpc \in {"none", "remove", "fopen", "fprintf", "fclose", "exit"}
  /\ hpos \in 1..(Len(VLR) + 1) /\ hfp \in Streams

WalkInv ==
  /\ hpc \in {"remove", "fopen"} => hpos = 1
  /\ hpc = "fprintf" => hpos \in DOMAIN VLR
  /\ hpc \in {"fprintf", "fclose", "exit"} => file # NoOne

(***************************************************************************)
(* What the handler has written of the first n items: a line for each, in  *)
(* order, with a stock of the time since the signal; and, if nobody was    *)
(* served when it came, the stock there is.                                *)
(***************************************************************************)
Written(s, n) ==
  /\ DOMAIN s = 1..n
  /\ \A k \in 1..n : /\ s[k].id = VLR[k] /\ s[k] \in hseen
                     /\ calm => s[k] = Image(stock)[k]

(***************************************************************************)
(* If nobody saves, what the handler writes stays as it writes it.         *)
(***************************************************************************)
KeptInv == Handling /\ alone =>
  /\ NobodySaves /\ InStock \subseteq hseen
  /\ hpc \in {"fprintf", "fclose"} => file = <<>>
  /\ hpc = "fprintf" => Written(hfp.buf, hpos - 1)
  /\ hpc = "fclose" => Written(hfp.buf, Len(VLR))
  /\ hpc = "exit" => Written(file, Len(VLR))

(***************************************************************************)
(* If nobody was served when the signal came nobody is while it is handled *)
(* either: main, which counts and starts the threads, is in the handler.   *)
(***************************************************************************)
RestInv == Handling /\ calm => alone /\ thread_count = 0 /\ mutex = NoOne

\* The server ends by the handler only: here no other call ends it.
ExitInv == status = "exited" => hpc = "exit"

SigInv == /\ MemInv /\ AloneInv
          /\ FilesType /\ StreamOpen /\ HandlerType /\ WalkInv
          /\ KeptInv /\ RestInv /\ ExitInv

-------------------------------------------------------------------------------
\* What the handler does leaves the server's memory as it is.
LEMMA MemFrame ==
  ASSUME MemInv, OnlyFiles
  PROVE  MemInv'
BY DEF OnlyFiles, treeVars, mainVars, lineVars, regVars, MemInv, MemType, TreeType,
       MainType, PlaceType, LineType, RegType, StringType, PlaceInv, Terminated,
       AtPlace, Holding, LockInv, NoLostUpdate

LEMMA AloneFrame ==
  ASSUME AloneInv, OnlyFiles
  PROVE  AloneInv'
BY DEF OnlyFiles, mainVars, AloneInv, MainInv, MutexInv, CountsThreads

\* A step that is no fopen, fprintf, fclose or failure leaves the files alone, and
\* the threads that write where they are.
LEMMA OthersKeepFiles ==
  ASSUME MemInv, AloneInv, [Next]_vars,
         ~MainFails,
         ~ \E c \in Clients : Fopen(c) \/ Fprintf(c) \/ Fclose(c) \/ ConnFails(c)
  PROVE  /\ UNCHANGED fileVars
         /\ \A d \in Clients : Writes(d) => pc'[d] = pc[d]
<1> USE DEF MemInv, MemType, PlaceType, Goto, Writes
<1>1. CASE Accept
  <2>1. /\ backlog # <<>> /\ backlog \in Seq(Clients)
        /\ \A k \in DOMAIN backlog : pc[backlog[k]] = "backlog"
    BY <1>1 DEF Accept, MainType, AloneInv, MainInv
  <2>2. Head(backlog) \in Clients /\ pc[Head(backlog)] = "backlog"
    BY <2>1
  <2> QED
    BY <1>1, <2>2 DEF Accept
<1>2. CASE CountUp \/ Pthread_create
  BY <1>2 DEF CountUp, Pthread_create
<1>3. ASSUME NEW c \in Clients, Connect(c) \/ ReadLine(c) \/ EndOfInput(c)
      PROVE  UNCHANGED fileVars /\ \A d \in Clients : Writes(d) => pc'[d] = pc[d]
  BY <1>3 DEF Connect, ReadLine, EndOfInput
<1>4. ASSUME NEW c \in Clients,
             \/ Dispatch(c) \/ P(c) \/ Test(c) \/ Store(c) \/ V(c) \/ Reply(c)
             \/ ResetString(c) \/ Sprintf(c) \/ StrcatScan(c) \/ StrcatCopy(c)
             \/ Close(c)
      PROVE  UNCHANGED fileVars /\ \A d \in Clients : Writes(d) => pc'[d] = pc[d]
  BY <1>4 DEF Dispatch, P, Test, Store, V, Reply, ResetString, Sprintf, StrcatScan,
              StrcatCopy, Close
<1>5. ASSUME NEW c \in Clients, CountDown(c) \/ Unlock(c)
      PROVE  UNCHANGED fileVars /\ \A d \in Clients : Writes(d) => pc'[d] = pc[d]
  BY <1>5 DEF CountDown, Unlock
<1>6. CASE UNCHANGED vars
  BY <1>6 DEF vars
<1> QED
  BY <1>1, <1>2, <1>3, <1>4, <1>5, <1>6 DEF Next, Main, MainGoesOn, Client, Work, Exited

(***************************************************************************)
(* A thread writes to a stream that is open, or opens one, or closes it;   *)
(* stock.txt may be created by that, and is never removed.                 *)
(***************************************************************************)
LEMMA FilesStep ==
  ASSUME MemInv, AloneInv, FilesType, StreamOpen, [Next]_vars
  PROVE  FilesType' /\ StreamOpen' /\ (file # NoOne => file' # NoOne)
<1> USE DEF FilesType, StreamOpen
<1>0. NoOne \notin Seq(Lines) /\ <<>> \in Seq(Lines)
  BY ThreadsAssumption
<1>1. /\ Flushed \in Seq(Lines) \cup {NoOne} /\ (file # NoOne => Flushed # NoOne)
      /\ fp.at = "live" => Flushed \in Seq(Lines)
  BY <1>0, OverlayType DEF Flushed, Streams
<1>2. ASSUME NEW c \in Clients, Fopen(c)
      PROVE  FilesType' /\ StreamOpen' /\ (file # NoOne => file' # NoOne)
  <2>1. \A d \in Clients : Writes(d) => Writes(d)'
    BY <1>2 DEF Fopen, Goto, Writes, MemInv, MemType, PlaceType
  <2>2. CASE file' = <<>> /\ fp' = Opened /\ Writes(c)'
    BY <1>0, <2>2 DEF Opened, Streams
  <2>3. CASE file' = file /\ fp' = fp
    BY <2>1, <2>3
  <2> QED
    BY <1>2, <2>2, <2>3 DEF Fopen, Goto, Writes, MemInv, MemType, PlaceType
<1>3. ASSUME NEW c \in Clients, Fprintf(c)
      PROVE  FilesType' /\ StreamOpen' /\ (file # NoOne => file' # NoOne)
  <2> DEFINE l == [id |-> VLR[pos[c]], stock |-> stock[VLR[pos[c]]]]
  <2>1. l \in Lines
    BY <1>3 DEF Fprintf, MemInv, MemType, PlaceInv, AtPlace, TreeType, Lines, Items
  <2>2. file' = file /\ fp' = [fp EXCEPT !.buf = Append(@, l)]
    BY <1>3 DEF Fprintf
  <2>3. Writes(c)'
    BY <1>3 DEF Fprintf, Goto, Writes, MemInv, MemType, PlaceType
  <2> HIDE DEF l
  <2>4. Append(fp.buf, l) \in Seq(Lines)
    BY <2>1 DEF Streams
  <2>5. fp' \in Streams /\ fp'.at = fp.at
    BY <2>2, <2>4 DEF Streams
  <2> QED
    BY <2>2, <2>3, <2>5
<1>4. ASSUME NEW c \in Clients, Fclose(c)
      PROVE  FilesType' /\ StreamOpen' /\ (file # NoOne => file' # NoOne)
  <2>1. file' = Flushed /\ fp' = Closed
    BY <1>4 DEF Fclose
  <2> QED
    BY <1>0, <1>1, <2>1 DEF Closed, Streams
<1>5. ASSUME NEW c \in Clients, ConnFails(c)
      PROVE  FilesType' /\ StreamOpen' /\ (file # NoOne => file' # NoOne)
  <2>1. file' \in {file, Flushed} /\ fp' = fp /\ pc' = pc
    BY <1>5 DEF ConnFails
  <2> QED
    BY <1>0, <1>1, <2>1 DEF Writes
<1>6. CASE MainFails
  <2>1. file' = Flushed /\ fp' = fp /\ pc' = pc
    BY <1>6 DEF MainFails
  <2> QED
    BY <1>0, <1>1, <2>1 DEF Writes
<1>7. CASE /\ ~MainFails
           /\ ~ \E c \in Clients : Fopen(c) \/ Fprintf(c) \/ Fclose(c) \/ ConnFails(c)
  BY <1>7, OthersKeepFiles DEF fileVars, Writes
<1> QED
  BY <1>2, <1>3, <1>4, <1>5, <1>6, <1>7

-------------------------------------------------------------------------------
(***************************************************************************)
(* A thread, a client or main moves.  In the handler's time main does not, *)
(* and the histories watch the others.                                     *)
(***************************************************************************)
OtherStep == \/ (\E c \in Clients : Client(c) \/ Work(c)) /\ Watch
             \/ ~MainStops /\ Main /\ Watch

\* A thread that does not save touches no file, if nothing fails.
LEMMA NobodySavesStep ==
  ASSUME SigInv, ~CallsMayFail, NobodySaves, [Next]_vars
  PROVE  UNCHANGED fileVars
<1>1. /\ ~MainFails
      /\ ~ \E c \in Clients : Fopen(c) \/ Fprintf(c) \/ Fclose(c) \/ ConnFails(c)
  BY DEF NobodySaves, Saving, Fopen, Fprintf, Fclose, ConnFails, MainFails
<1> QED
  BY <1>1, OthersKeepFiles DEF SigInv

\* When nobody is served and nobody saves, the clients can only connect.
LEMMA RestStep ==
  ASSUME SigInv, Handling, calm, OtherStep
  PROVE  UNCHANGED <<stock, thread_count, mutex>> /\ NobodySaves /\ NobodySaves'
<1>1. /\ alone /\ thread_count = 0 /\ mutex = NoOne /\ NobodySaves
  BY DEF SigInv, RestInv, KeptInv
<1>2. \A c \in Clients : pc[c] \notin Counted /\ pc[c] \notin Saving
  BY <1>1, NobodyCounted DEF SigInv, AloneInv, MutexInv, NobodySaves
<1>3. PICK c \in Clients : Client(c) \/ Work(c)
  BY DEF OtherStep, MainStops
<1>4. Connect(c)
  BY <1>2, <1>3 DEF Client, Work, ReadLine, EndOfInput, ConnFails, Dispatch, P, Test,
     Store, V, Reply, ResetString, Sprintf, StrcatScan, StrcatCopy, Close, CountDown,
     Fopen, Fprintf, Fclose, Unlock, Counted, Trading, Showing, Saving
<1>5. UNCHANGED <<stock, thread_count, mutex>>
  BY <1>4 DEF Connect, treeVars
<1>6. \A d \in Clients : pc'[d] \notin Saving
  BY <1>2, <1>4 DEF Connect, Goto, SigInv, MemInv, MemType, PlaceType, Saving
<1> QED
  BY <1>1, <1>5, <1>6 DEF NobodySaves

(***************************************************************************)
(* So what the handler has written stays true while the others move.       *)
(***************************************************************************)
LEMMA OthersKeep ==
  ASSUME SigInv, ~CallsMayFail, OtherStep
  PROVE  SigInv'
<1>1. /\ Watch /\ UNCHANGED <<hpc, hpos, hfp, calm>> /\ [Next]_vars /\ status = "up"
      /\ alone' = (alone /\ (~Handling \/ NobodySaves'))
      /\ hseen' = IF Handling THEN hseen \cup InStock' ELSE {}
  BY DEF OtherStep, Watch, handlerVars, Next, Main, MainGoesOn, Client, Work
<1>2. MemInv' /\ AloneInv'
  BY <1>1, MemInvStep, AloneInvStep DEF SigInv
<1>3. FilesType' /\ StreamOpen' /\ (file # NoOne => file' # NoOne)
  BY <1>1, FilesStep DEF SigInv
<1>4. HandlerType' /\ WalkInv'
  BY <1>1, <1>3 DEF SigInv, HandlerType, WalkInv
<1>5. ASSUME Handling', alone'
      PROVE  /\ Handling /\ alone /\ NobodySaves /\ NobodySaves' /\ file' = file
             /\ hseen' = hseen \cup InStock' /\ (calm => stock' = stock)
  <2>1. Handling /\ alone /\ NobodySaves'
    BY <1>1, <1>5 DEF Handling
  <2>2. NobodySaves
    BY <2>1 DEF SigInv, KeptInv
  <2>3. file' = file
    BY <1>1, <2>2, NobodySavesStep DEF fileVars
  <2> QED
    BY <1>1, <2>1, <2>2, <2>3, RestStep
<1>6. ASSUME NEW s, NEW n, Handling', alone', Written(s, n)
      PROVE  /\ DOMAIN s = 1..n
             /\ \A k \in 1..n : /\ s[k].id = VLR[k] /\ s[k] \in hseen'
                                /\ calm' => s[k] = Image(stock')[k]
  BY <1>1, <1>5, <1>6 DEF Written
<1>7. KeptInv'
  BY <1>1, <1>5, <1>6 DEF SigInv, KeptInv, Written, Handling
<1>8. RestInv'
  BY <1>1, RestStep DEF SigInv, RestInv, Handling
<1>9. ExitInv'
  <2>1. status' = status
    <3>1. ~MainFails /\ \A c \in Clients : ~ConnFails(c)
      BY DEF MainFails, ConnFails
    <3>2. CASE \E c \in Clients : Fopen(c) \/ Fprintf(c) \/ Fclose(c)
      BY <3>2 DEF Fopen, Fprintf, Fclose
    <3>3. CASE ~ \E c \in Clients : Fopen(c) \/ Fprintf(c) \/ Fclose(c)
      BY <1>1, <3>1, <3>3, OthersKeepFiles DEF SigInv, fileVars
    <3> QED
      BY <3>2, <3>3
  <2> QED
    BY <1>1, <2>1 DEF ExitInv
<1> QED
  BY <1>2, <1>3, <1>4, <1>7, <1>8, <1>9 DEF SigInv

-------------------------------------------------------------------------------
(***************************************************************************)
(* The handler moves.  Each of its steps leaves the memory of the server   *)
(* alone, so that only the files and the handler's own state are at stake. *)
(***************************************************************************)
\* Where the walk is, and who holds what, is not changed by the handler.
LEMMA HandlerFrame ==
  ASSUME SigInv, OnlyFiles
  PROVE  /\ MemInv' /\ AloneInv' /\ InStock' = InStock /\ Image(stock)' = Image(stock)
         /\ NobodySaves' <=> NobodySaves
         /\ \A c \in Clients : Writes(c)' <=> Writes(c)
         /\ UNCHANGED <<stock, pc, thread_count, mutex>>
<1>1. UNCHANGED <<stock, pc, thread_count, mutex>>
  BY DEF OnlyFiles, treeVars, mainVars
<1> QED
  BY <1>1, MemFrame, AloneFrame DEF SigInv, InStock, Image, NobodySaves, Writes

LEMMA SigintStep ==
  ASSUME SigInv, status = "up", Sigint
  PROVE  SigInv'
<1>1. /\ OnlyFiles /\ UNCHANGED <<file, fp, status, hfp>>
      /\ hpc' = "remove" /\ hpos' = 1 /\ hseen' = InStock
      /\ calm' = (thread_count = 0 /\ mutex = NoOne) /\ alone' = NobodySaves
  BY DEF Sigint
<1>2. /\ MemInv' /\ AloneInv' /\ InStock' = InStock
      /\ NobodySaves' <=> NobodySaves
      /\ \A c \in Clients : Writes(c)' <=> Writes(c)
      /\ UNCHANGED <<stock, pc, thread_count, mutex>>
  BY <1>1, HandlerFrame
<1>3. FilesType' /\ StreamOpen'
  BY <1>1, <1>2 DEF SigInv, FilesType, StreamOpen
<1>4. HandlerType' /\ WalkInv'
  <2>1. Len(VLR) \in Nat
    BY ThreadsAssumption
  <2> QED
    BY <1>1, <2>1 DEF SigInv, HandlerType, WalkInv
<1>5. KeptInv'
  BY <1>1, <1>2 DEF KeptInv
<1>6. RestInv'
  <2>1. calm' => NobodySaves
    BY <1>1, ThreadsAssumption DEF SigInv, AloneInv, MutexInv, NobodySaves
  <2> QED
    BY <1>1, <1>2, <2>1 DEF RestInv
<1>7. ExitInv'
  BY <1>1 DEF ExitInv
<1> QED
  BY <1>2, <1>3, <1>4, <1>5, <1>6, <1>7 DEF SigInv

\* remove fails, or fopen does: the handler returns, and main goes on.
LEMMA ReturnStep ==
  ASSUME SigInv, status = "up", OnlyFiles, Return, UNCHANGED <<file, fp, status, hpos>>
  PROVE  SigInv'
<1>1. /\ MemInv' /\ AloneInv' /\ \A c \in Clients : Writes(c)' <=> Writes(c)
      /\ hpc' = "none" /\ hfp' = hfp
  BY HandlerFrame DEF Return
<1>2. FilesType' /\ StreamOpen'
  BY <1>1 DEF SigInv, FilesType, StreamOpen
<1>3. HandlerType' /\ WalkInv'
  BY <1>1 DEF SigInv, HandlerType, WalkInv
<1>4. KeptInv' /\ RestInv' /\ ExitInv'
  BY <1>1 DEF KeptInv, RestInv, Handling, ExitInv
<1> QED
  BY <1>1, <1>2, <1>3, <1>4 DEF SigInv

LEMMA RemoveStep ==
  ASSUME SigInv, status = "up", Remove
  PROVE  SigInv'
<1>1. CASE file = NoOne /\ Return /\ UNCHANGED <<file, fp>>
  BY <1>1, ReturnStep DEF Remove
<1>2. CASE /\ file # NoOne /\ file' = NoOne /\ hpc' = "fopen"
           /\ fp' = Detached(fp) /\ UNCHANGED <<hfp, calm, alone, hseen>>
  <2>1. OnlyFiles /\ UNCHANGED <<status, hpos>> /\ hpc = "remove"
    BY DEF Remove
  <2>2. /\ MemInv' /\ AloneInv' /\ InStock' = InStock
        /\ NobodySaves' <=> NobodySaves
        /\ \A c \in Clients : Writes(c)' <=> Writes(c)
        /\ UNCHANGED <<stock, pc, thread_count, mutex>>
    BY <2>1, HandlerFrame
  <2>3. FilesType' /\ StreamOpen'
    <3>1. /\ fp' \in Streams /\ fp'.at # "live"
          /\ fp'.at # "closed" => fp.at # "closed"
      BY <1>2 DEF SigInv, FilesType, Detached, Streams
    <3> QED
      BY <1>2, <2>2, <3>1 DEF SigInv, FilesType, StreamOpen
  <2>4. HandlerType' /\ WalkInv'
    BY <1>2, <2>1 DEF SigInv, HandlerType, WalkInv
  <2>5. KeptInv'
    BY <1>2, <2>1, <2>2 DEF SigInv, KeptInv, Handling
  <2>6. RestInv' /\ ExitInv'
    BY <1>2, <2>1, <2>2 DEF SigInv, RestInv, Handling, ExitInv
  <2> QED
    BY <2>2, <2>3, <2>4, <2>5, <2>6 DEF SigInv
<1> QED
  BY <1>1, <1>2 DEF Remove

LEMMA HandlerFopenStep ==
  ASSUME SigInv, status = "up", HandlerFopen
  PROVE  SigInv'
<1>1. CASE FopenMayFail /\ Return /\ UNCHANGED file
  BY <1>1, ReturnStep DEF HandlerFopen
<1>2. CASE /\ file' = <<>> /\ hfp' = Opened
           /\ hpc' = IF VLR = <<>> THEN "fclose" ELSE "fprintf"
           /\ UNCHANGED <<calm, alone, hseen>>
  <2>1. OnlyFiles /\ UNCHANGED <<fp, status, hpos>> /\ hpc = "fopen" /\ hpos = 1
    BY DEF HandlerFopen, SigInv, WalkInv
  <2>2. /\ MemInv' /\ AloneInv' /\ InStock' = InStock
        /\ NobodySaves' <=> NobodySaves
        /\ \A c \in Clients : Writes(c)' <=> Writes(c)
        /\ UNCHANGED <<stock, pc, thread_count, mutex>>
    BY <2>1, HandlerFrame
  <2>3. <<>> # NoOne /\ <<>> \in Seq(Lines)
    <3>1. <<>> \in Seq(Lines)
      OBVIOUS
    <3> QED
      BY <3>1, ThreadsAssumption
  <2>4. FilesType' /\ StreamOpen'
    BY <1>2, <2>1, <2>2, <2>3 DEF SigInv, FilesType, StreamOpen
  <2>5. HandlerType' /\ WalkInv'
    <3>1. VLR # <<>> => 1 \in DOMAIN VLR
      BY ThreadsAssumption
    <3>2. Opened \in Streams
      BY <2>3 DEF Opened, Streams
    <3> QED
      BY <1>2, <2>1, <2>3, <3>1, <3>2 DEF SigInv, HandlerType, WalkInv
  <2>6. KeptInv'
    <3>1. hfp'.buf = <<>> /\ 1..0 = {} /\ DOMAIN <<>> = 1..0
      BY <1>2 DEF Opened
    <3>2. Written(hfp.buf, 0)' /\ (VLR = <<>> => Len(VLR) = 0)
      BY <3>1 DEF Written
    <3>3. hpc' \in {"fprintf", "fclose"} /\ (hpc' = "fclose" => VLR = <<>>)
      BY <1>2
    <3>4. Handling /\ (alone' <=> alone) /\ hseen' = hseen /\ hpos' - 1 = 0 /\ file' = <<>>
      BY <1>2, <2>1 DEF Handling
    <3> QED
      BY <2>2, <3>2, <3>3, <3>4 DEF SigInv, KeptInv
  <2>7. RestInv' /\ ExitInv'
    BY <1>2, <2>1, <2>2 DEF SigInv, RestInv, Handling, ExitInv
  <2> QED
    BY <2>2, <2>4, <2>5, <2>6, <2>7 DEF SigInv
<1> QED
  BY <1>1, <1>2 DEF HandlerFopen

\* One more line: that of the item the walk is at, with its stock of now.
LEMMA WrittenOneMore ==
  ASSUME SigInv, NEW s \in Seq(Lines), NEW n \in DOMAIN VLR, Written(s, n - 1),
         InStock \subseteq hseen
  PROVE  Written(Append(s, [id |-> VLR[n], stock |-> stock[VLR[n]]]), n)
<1> DEFINE l == [id |-> VLR[n], stock |-> stock[VLR[n]]]
<1>1. n \in Nat /\ n >= 1
  BY ThreadsAssumption
<1>2. l \in InStock /\ l.id = VLR[n] /\ l = Image(stock)[n]
  BY DEF InStock, Items, Image
<1>3. Len(s) = n - 1
  BY <1>1 DEF Written
<1> HIDE DEF l
<1>4. /\ DOMAIN Append(s, l) = 1..n /\ Append(s, l)[n] = l
      /\ \A k \in 1..(n - 1) : Append(s, l)[k] = s[k]
  BY <1>1, <1>3
<1>5. ASSUME NEW k \in 1..n
      PROVE  /\ Append(s, l)[k].id = VLR[k] /\ Append(s, l)[k] \in hseen
             /\ calm => Append(s, l)[k] = Image(stock)[k]
  <2>1. CASE k = n
    BY <1>2, <1>4, <2>1
  <2>2. CASE k # n
    <3>1. k \in 1..(n - 1)
      BY <1>1, <2>2
    <3> QED
      BY <1>4, <3>1 DEF Written
  <2> QED
    BY <2>1, <2>2
<1>6. Written(Append(s, l), n)
  BY <1>4, <1>5 DEF Written
<1> QED
  BY <1>6 DEF l

LEMMA HandlerFprintfStep ==
  ASSUME SigInv, status = "up", HandlerFprintf
  PROVE  SigInv'
<1> DEFINE l == [id |-> VLR[hpos], stock |-> stock[VLR[hpos]]]
<1>1. /\ OnlyFiles /\ hpc = "fprintf" /\ hpos' = hpos + 1
      /\ hfp' = [hfp EXCEPT !.buf = Append(@, l)]
      /\ hpc' = IF hpos < Len(VLR) THEN "fprintf" ELSE "fclose"
      /\ UNCHANGED <<file, fp, status, calm, alone, hseen>>
  BY DEF HandlerFprintf, fileVars
<1>2. /\ MemInv' /\ AloneInv' /\ InStock' = InStock
      /\ NobodySaves' <=> NobodySaves
      /\ \A c \in Clients : Writes(c)' <=> Writes(c)
      /\ UNCHANGED <<stock, pc, thread_count, mutex>>
  BY <1>1, HandlerFrame
<1>3. /\ hpos \in DOMAIN VLR /\ hpos \in 1..Len(VLR) /\ Len(VLR) \in Nat
      /\ DOMAIN VLR = 1..Len(VLR)
  BY <1>1, ThreadsAssumption DEF SigInv, WalkInv
<1>4. l \in Lines
  BY <1>3 DEF SigInv, MemInv, MemType, TreeType, Lines, Items
<1>5. /\ hfp.buf \in Seq(Lines) /\ Append(hfp.buf, l) \in Seq(Lines)
      /\ hfp'.buf = Append(hfp.buf, l) /\ hfp' \in Streams
  <2> HIDE DEF l
  <2>1. hfp.buf \in Seq(Lines)
    BY DEF SigInv, HandlerType, Streams
  <2>2. Append(hfp.buf, l) \in Seq(Lines)
    BY <1>4, <2>1
  <2> QED
    BY <1>1, <2>1, <2>2 DEF SigInv, HandlerType, Streams
<1>6. FilesType' /\ StreamOpen'
  BY <1>1, <1>2 DEF SigInv, FilesType, StreamOpen
<1>7. HandlerType' /\ WalkInv'
  BY <1>1, <1>3, <1>5 DEF SigInv, HandlerType, WalkInv
<1>8. KeptInv'
  <2> SUFFICES ASSUME alone
               PROVE  /\ NobodySaves' /\ InStock' \subseteq hseen' /\ file' = <<>>
                      /\ hpc' = "fprintf" => Written(hfp.buf, hpos - 1)'
                      /\ hpc' = "fclose" => Written(hfp.buf, Len(VLR))'
    BY <1>1 DEF KeptInv
  <2>1. /\ NobodySaves /\ InStock \subseteq hseen /\ file = <<>>
        /\ Written(hfp.buf, hpos - 1)
    BY <1>1 DEF SigInv, KeptInv, Handling
  <2>2. Written(hfp'.buf, hpos)
    BY <1>3, <1>5, <2>1, WrittenOneMore
  <2>3. /\ DOMAIN hfp'.buf = 1..hpos
        /\ \A k \in 1..hpos : /\ hfp'.buf[k].id = VLR[k] /\ hfp'.buf[k] \in hseen'
                              /\ calm' => hfp'.buf[k] = Image(stock')[k]
    BY <1>1, <1>2, <2>2 DEF Written
  <2>4. hpos' - 1 = hpos /\ (hpc' = "fclose" => Len(VLR) = hpos)
    BY <1>1, <1>3
  <2>5. hpc' = "fprintf" => Written(hfp.buf, hpos - 1)'
    BY <2>3, <2>4 DEF Written
  <2>6. hpc' = "fclose" => Written(hfp.buf, Len(VLR))'
    BY <2>3, <2>4 DEF Written
  <2> QED
    BY <1>1, <1>2, <2>1, <2>5, <2>6
<1>9. RestInv' /\ ExitInv'
  BY <1>1, <1>2 DEF SigInv, RestInv, Handling, ExitInv
<1> QED
  BY <1>2, <1>6, <1>7, <1>8, <1>9 DEF SigInv

LEMMA HandlerFcloseStep ==
  ASSUME SigInv, status = "up", HandlerFclose
  PROVE  SigInv'
<1>1. /\ OnlyFiles /\ hpc = "fclose" /\ hpc' = "exit" /\ hfp' = Closed
      /\ file' = Overlay(file, hfp.buf)
      /\ UNCHANGED <<fp, status, hpos, calm, alone, hseen>>
  BY DEF HandlerFclose
<1>2. /\ MemInv' /\ AloneInv' /\ InStock' = InStock
      /\ NobodySaves' <=> NobodySaves
      /\ \A c \in Clients : Writes(c)' <=> Writes(c)
      /\ UNCHANGED <<stock, pc, thread_count, mutex>>
  BY <1>1, HandlerFrame
<1>3. hfp.buf \in Seq(Lines)
  BY DEF SigInv, HandlerType, Streams
<1>4. file' \in Seq(Lines) /\ file' # NoOne
  <2>1. file \in Seq(Lines)
    BY <1>1 DEF SigInv, WalkInv, FilesType
  <2> QED
    BY <1>1, <1>3, <2>1, OverlayType, ThreadsAssumption
<1>5. FilesType' /\ StreamOpen'
  BY <1>1, <1>2, <1>4 DEF SigInv, FilesType, StreamOpen
<1>6. HandlerType' /\ WalkInv'
  <2>1. Closed \in Streams
    BY DEF Closed, Streams
  <2> QED
    BY <1>1, <1>4, <2>1 DEF SigInv, HandlerType, WalkInv
<1>7. KeptInv'
  <2> SUFFICES ASSUME alone
               PROVE  NobodySaves' /\ InStock' \subseteq hseen' /\ Written(file, Len(VLR))'
    BY <1>1 DEF KeptInv
  <2>1. /\ NobodySaves /\ InStock \subseteq hseen /\ file = <<>>
        /\ Written(hfp.buf, Len(VLR))
    BY <1>1 DEF SigInv, KeptInv, Handling
  <2>2. file' = hfp.buf
    BY <1>1, <1>3, <2>1, OverlayEmpty
  <2>3. Written(file, Len(VLR))'
    BY <1>1, <1>2, <2>1, <2>2 DEF Written
  <2> QED
    BY <1>1, <1>2, <2>1, <2>3
<1>8. RestInv' /\ ExitInv'
  BY <1>1, <1>2 DEF SigInv, RestInv, Handling, ExitInv
<1> QED
  BY <1>2, <1>5, <1>6, <1>7, <1>8 DEF SigInv

\* exit flushes the stream of a thread that saves: if nobody does there is none.
LEMMA HandlerExitStep ==
  ASSUME SigInv, status = "up", HandlerExit
  PROVE  SigInv'
<1>1. /\ OnlyFiles /\ hpc = "exit" /\ file' = Flushed
      /\ UNCHANGED <<fp, hpc, hpos, hfp, calm, alone, hseen>>
  BY DEF HandlerExit, sigVars
<1>2. /\ MemInv' /\ AloneInv' /\ InStock' = InStock
      /\ NobodySaves' <=> NobodySaves
      /\ \A c \in Clients : Writes(c)' <=> Writes(c)
      /\ UNCHANGED <<stock, pc, thread_count, mutex>>
  BY <1>1, HandlerFrame
<1>3. file \in Seq(Lines) /\ file' \in Seq(Lines) /\ file' # NoOne
  <2>1. file \in Seq(Lines) /\ fp.buf \in Seq(Lines)
    BY <1>1 DEF SigInv, WalkInv, FilesType, Streams
  <2>2. file' \in Seq(Lines)
    BY <1>1, <2>1, OverlayType DEF Flushed
  <2> QED
    BY <2>1, <2>2, ThreadsAssumption
<1>4. FilesType' /\ StreamOpen'
  BY <1>1, <1>2, <1>3 DEF SigInv, FilesType, StreamOpen
<1>5. HandlerType' /\ WalkInv'
  BY <1>1, <1>3 DEF SigInv, HandlerType, WalkInv
<1>6. KeptInv'
  <2> SUFFICES ASSUME alone
               PROVE  NobodySaves' /\ InStock' \subseteq hseen' /\ Written(file, Len(VLR))'
    BY <1>1 DEF KeptInv
  <2>1. NobodySaves /\ InStock \subseteq hseen /\ Written(file, Len(VLR))
    BY <1>1 DEF SigInv, KeptInv, Handling
  <2>2. fp.at = "closed"
    BY <2>1 DEF SigInv, StreamOpen, Writes, NobodySaves, Saving
  <2>3. file' = file
    BY <1>1, <2>2 DEF Flushed
  <2>4. Written(file, Len(VLR))'
    BY <1>1, <1>2, <2>1, <2>3 DEF Written
  <2> QED
    BY <1>1, <1>2, <2>1, <2>4
<1>7. RestInv' /\ ExitInv'
  BY <1>1, <1>2 DEF SigInv, RestInv, Handling, ExitInv
<1> QED
  BY <1>2, <1>4, <1>5, <1>6, <1>7 DEF SigInv

-------------------------------------------------------------------------------
\* In the first state there is no handler, and the file is the one loaded.
LEMMA SigInvInit == SigInit => SigInv
<1> SUFFICES ASSUME SigInit PROVE SigInv
  OBVIOUS
<1>1. Init /\ hpc = "none" /\ hpos = 1 /\ hfp = Closed
  BY DEF SigInit
<1>2. MemInv /\ AloneInv /\ FileType
  BY <1>1, SaveInvInit DEF SaveInv, Inv
<1>3. FilesType /\ StreamOpen
  BY <1>1, <1>2 DEF Init, FileType, FilesType, Streams, StreamOpen, Closed
<1>4. HandlerType /\ WalkInv
  <2>1. Len(VLR) \in Nat
    BY ThreadsAssumption
  <2>2. Closed \in Streams
    BY DEF Closed, Streams
  <2> QED
    BY <1>1, <2>1, <2>2 DEF HandlerType, WalkInv
<1>5. KeptInv /\ RestInv /\ ExitInv
  BY <1>1 DEF KeptInv, RestInv, Handling, ExitInv, Init
<1> QED
  BY <1>2, <1>3, <1>4, <1>5 DEF SigInv

LEMMA SigInvStep ==
  ASSUME SigInv, ~CallsMayFail, [SigNext]_<<vars, sigVars>>
  PROVE  SigInv'
<1>1. CASE handle_sigint
  BY <1>1, SigintStep, RemoveStep, HandlerFopenStep, HandlerFprintfStep,
     HandlerFcloseStep, HandlerExitStep DEF handle_sigint
<1>2. CASE OtherStep
  BY <1>2, OthersKeep
<1>3. CASE UNCHANGED <<vars, sigVars>>
  <2>1. OnlyFiles
    BY <1>3 DEF OnlyFiles, vars
  <2>2. /\ MemInv' /\ AloneInv' /\ InStock' = InStock
        /\ NobodySaves' <=> NobodySaves
        /\ \A c \in Clients : Writes(c)' <=> Writes(c)
        /\ UNCHANGED <<stock, pc, thread_count, mutex>>
    BY <2>1, HandlerFrame
  <2>3. UNCHANGED <<file, fp, status, hpc, hpos, hfp, calm, alone, hseen>>
    BY <1>3 DEF vars, fileVars, sigVars
  <2>4. FilesType' /\ StreamOpen' /\ HandlerType' /\ WalkInv' /\ RestInv' /\ ExitInv'
    BY <2>2, <2>3 DEF SigInv, FilesType, StreamOpen, HandlerType, WalkInv, RestInv,
                      Handling, ExitInv
  <2>5. KeptInv'
    BY <2>2, <2>3 DEF SigInv, KeptInv, Handling, Written
  <2> QED
    BY <2>2, <2>4, <2>5 DEF SigInv
<1> QED
  BY <1>1, <1>2, <1>3 DEF SigNext, OtherStep, Exited

(***************************************************************************)
(* When nobody is served SIGINT leaves the stocks of the tree in stock.txt,*)
(* and when nobody saves a whole file whose stocks are ones the items had  *)
(* while the handler ran: for every number of clients and items, whatever  *)
(* connects, trades or shows meanwhile.  As in the module, no call of main *)
(* or of a connection fails: that would end the server before the handler. *)
(***************************************************************************)
THEOREM SigintKeeps == ASSUME ~CallsMayFail PROVE SigSpec => []SigintKeepsStocks
<1>1. SigInit => SigInv
  BY SigInvInit
<1>2. SigInv /\ [SigNext]_<<vars, sigVars>> => SigInv'
  BY SigInvStep
<1>3. SigInv => SigintKeepsStocks
  <2> SUFFICES ASSUME SigInv PROVE SigintKeepsStocks
    OBVIOUS
  <2>1. SigTypeOK
    BY DEF SigInv, HandlerType, FilesType, Streams, SigTypeOK
  <2>2. ASSUME status = "exited", alone
        PROVE  DOMAIN file = 1..Len(VLR) /\ Written(file, Len(VLR))
    BY <2>2 DEF SigInv, ExitInv, KeptInv, Handling, Written
  <2>3. DOMAIN VLR = 1..Len(VLR)
    BY ThreadsAssumption
  <2>4. status = "exited" => SigintNoneSaving
    BY <2>2, <2>3 DEF SigintNoneSaving, Written
  <2>5. ASSUME status = "exited", calm PROVE file = Image(stock)
    <3>1. alone /\ hpc = "exit"
      BY <2>5 DEF SigInv, ExitInv, RestInv, Handling
    <3>2. \A k \in DOMAIN VLR : file[k] = Image(stock)[k]
      BY <2>2, <2>3, <2>5, <3>1 DEF Written
    <3>3. file \in Seq(Lines) /\ DOMAIN file = DOMAIN VLR
      BY <2>2, <2>3, <2>5, <3>1 DEF SigInv, WalkInv, FilesType
    <3>4. DOMAIN Image(stock) = DOMAIN VLR
      BY DEF Image
    <3>5. Image(stock) = [k \in DOMAIN VLR |-> file[k]] /\ file = [k \in DOMAIN VLR |-> file[k]]
      <4>1. file = [k \in DOMAIN file |-> file[k]]
        BY <3>3
      <4> QED
        BY <3>2, <3>3, <4>1 DEF Image
    <3> QED
      BY <3>5
  <2> QED
    BY <2>1, <2>4, <2>5 DEF SigintKeepsStocks, SigintAtRest
<1> QED
  BY <1>1, <1>2, <1>3, PTL DEF SigSpec

(***************************************************************************)
(* A show is whole whenever SIGINT comes: the handler leaves the string,   *)
(* the stocks and the threads alone.                                       *)
(***************************************************************************)
THEOREM SigintLeavesShows == ASSUME OneShows PROVE SigSpec => []ShowWhole
<1> DEFINE All == MemInv /\ AloneInv /\ ShowInv
<1>1. SigInit => All
  BY SaveInvInit DEF SigInit, SaveInv, Inv, Init, ShowInv, ShowAt, Showing, NoLine
<1>2. All /\ [SigNext]_<<vars, sigVars>> => All'
  <2> SUFFICES ASSUME All, [SigNext]_<<vars, sigVars>> PROVE All'
    OBVIOUS
  <2>1. CASE [Next]_vars
    BY <2>1, MemInvStep, AloneInvStep, ShowInvStep
  <2>2. CASE OnlyFiles
    <3>1. ShowInv'
      BY <2>2 DEF OnlyFiles, treeVars, lineVars, regVars, ShowInv, ShowAt, HasLines,
                  HasSeen
    <3> QED
      BY <2>2, <3>1, MemFrame, AloneFrame
  <2>3. [Next]_vars \/ OnlyFiles
    <3>1. handle_sigint => OnlyFiles
      BY DEF handle_sigint, Sigint, Remove, HandlerFopen, HandlerFprintf,
             HandlerFclose, HandlerExit
    <3> QED
      BY <3>1 DEF SigNext, Next, Exited
  <2> QED
    BY <2>1, <2>2, <2>3
<1>3. All => ShowWhole
  BY ShowIsWhole
<1> QED
  BY <1>1, <1>2, <1>3, PTL DEF SigSpec
===============================================================================
