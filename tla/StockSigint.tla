----------------------------- MODULE StockSigint -----------------------------
(***************************************************************************)
(* SIGINT in the threaded server.  Any thread may be given a signal of the *)
(* process; the kernel prefers main's, and so does the model.  It runs     *)
(* handle_sigint on top of whatever main was doing; the other threads go   *)
(* on meanwhile, and none of the semaphores and the mutex are taken.       *)
(* Removing stock.txt leaves a thread that is saving with a stream to a    *)
(* file that has no name; one that opens it after the handler truncates    *)
(* the handler's.  Here no call fails that ends the server: CallsMayFail   *)
(* is FALSE.                                                               *)
(***************************************************************************)
EXTENDS StockThreads

VARIABLES
  hpc, hpos,     \* the handler: place, place in the tree
  hfp,           \* its stream
  calm,          \* history: nobody was served or saved when SIGINT came
  alone,         \* history: nobody saved since SIGINT came
  hseen          \* history: what was in stock since SIGINT came

handlerVars == <<hpc, hpos, hfp>>
sigVars == <<hpc, hpos, hfp, calm, alone, hseen>>

InStock == {[id |-> i, stock |-> stock[i]] : i \in Items}
NobodySaves == \A c \in Clients : pc[c] \notin Saving

SigInit ==
  /\ Init /\ hpc = "none" /\ hpos = 1 /\ hfp = Closed
  /\ calm = TRUE /\ alone = TRUE /\ hseen = {}

Handling == hpc # "none"

\* What the histories make of a step that main or a thread takes.
Watch ==
  /\ alone' = (alone /\ (~Handling \/ NobodySaves'))
  /\ hseen' = IF Handling THEN hseen \cup InStock' ELSE {}
  /\ UNCHANGED <<handlerVars, calm>>

\* The handler keeps what is not stock.txt as it is.
OnlyFiles == UNCHANGED <<treeVars, mainVars, pc, lineVars, regVars, showString>>

Sigint ==
  /\ hpc = "none" /\ hpc' = "remove" /\ hpos' = 1
  /\ calm' = (thread_count = 0 /\ mutex = NoOne)
  /\ alone' = NobodySaves /\ hseen' = InStock
  /\ OnlyFiles /\ UNCHANGED <<file, fp, status, hfp>>

Return == hpc' = "none" /\ hseen' = {} /\ UNCHANGED <<hfp, calm, alone>>

\* A stream keeps the file it was opened on, with or without a name.
Detached(stream) ==
  IF stream.at = "live" THEN [stream EXCEPT !.at = "orphan"] ELSE stream

Remove ==
  /\ hpc = "remove" /\ OnlyFiles /\ UNCHANGED <<status, hpos>>
  /\ \/ file = NoOne /\ Return /\ UNCHANGED <<file, fp>>
     \/ /\ file # NoOne /\ file' = NoOne /\ hpc' = "fopen"
        /\ fp' = Detached(fp)
        /\ UNCHANGED <<hfp, calm, alone, hseen>>

HandlerFopen ==
  /\ hpc = "fopen" /\ OnlyFiles /\ UNCHANGED <<fp, status, hpos>>
  /\ \/ /\ file' = <<>> /\ hfp' = Opened
        /\ hpc' = IF VLR = <<>> THEN "fclose" ELSE "fprintf"
        /\ UNCHANGED <<calm, alone, hseen>>
     \/ FopenMayFail /\ Return /\ UNCHANGED file

HandlerFprintf ==
  /\ hpc = "fprintf" /\ OnlyFiles
  /\ hfp' = [hfp EXCEPT !.buf = Append(@, [id |-> VLR[hpos],
                                           stock |-> stock[VLR[hpos]]])]
  /\ hpos' = hpos + 1
  /\ hpc' = IF hpos < Len(VLR) THEN "fprintf" ELSE "fclose"
  /\ UNCHANGED <<fileVars, calm, alone, hseen>>

HandlerFclose ==
  /\ hpc = "fclose" /\ OnlyFiles
  /\ file' = Overlay(file, hfp.buf) /\ hfp' = Closed
  /\ hpc' = "exit"
  /\ UNCHANGED <<fp, status, hpos, calm, alone, hseen>>

\* exit(0) flushes the stream of a thread that is saving, and ends it.
HandlerExit ==
  /\ hpc = "exit" /\ OnlyFiles
  /\ status' = "exited" /\ file' = Flushed
  /\ UNCHANGED <<fp, sigVars>>

handle_sigint ==
  /\ status = "up"
  /\ \/ Sigint \/ Remove \/ HandlerFopen \/ HandlerFprintf
     \/ HandlerFclose \/ HandlerExit

\* Mutant: the handler runs in a thread of its own and main goes on.
MainStops_Not == FALSE

MainStops == Handling

SigNext ==
  \/ handle_sigint
  \/ (\E c \in Clients : Client(c) \/ Work(c)) /\ Watch
  \/ ~MainStops /\ Main /\ Watch
  \/ Exited /\ UNCHANGED sigVars

SigSpec == SigInit /\ [][SigNext]_<<vars, sigVars>>

-------------------------------------------------------------------------------
\* Every variable of the handler has its type.
SigTypeOK ==
  /\ hpc \in {"none", "remove", "fopen", "fprintf", "fclose", "exit"}
  /\ hpos \in 1..(Len(VLR) + 1) /\ hfp.buf \in Seq(Lines)
  /\ file \in Seq(Lines) \cup {NoOne} /\ fp.at \in {"closed", "live", "orphan"}
  /\ fp.at = "live" => file # NoOne

(***************************************************************************)
(* When nobody is served and nobody saves, SIGINT leaves the stocks of the *)
(* tree in stock.txt: connections that arrive during the handler get no    *)
(* thread, for the handler runs in main's.  When clients are served but    *)
(* nobody saves, stock.txt is whole, and each of its stocks is one the     *)
(* item had while the handler ran.  No stream stays on the file the        *)
(* handler removes (SigTypeOK).                                            *)
(***************************************************************************)
SigintAtRest == calm => file = Image(stock)
SigintNoneSaving ==
  alone => /\ DOMAIN file = DOMAIN VLR
           /\ \A k \in DOMAIN VLR : file[k].id = VLR[k] /\ file[k] \in hseen
SigintKeepsStocks ==
  SigTypeOK /\ (status = "exited" => SigintAtRest /\ SigintNoneSaving)
==============================================================================
