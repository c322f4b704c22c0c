--------------------------- MODULE JobControlProofs ---------------------------
(***************************************************************************)
(* What the job table of phase 3 knows of the processes, proved for every  *)
(* size of the table, every number of processes and of commands in a       *)
(* pipeline and everything a user may type.                                *)
(***************************************************************************)
EXTENDS JobControl, WellFoundedInduction, TLAPS

-------------------------------------------------------------------------------
(***************************************************************************)
(* The inductive invariant.  The types, by the groups of the variables.    *)
(***************************************************************************)
TableType ==
  /\ jobs \in [Slots -> [jid : 0..MaxPids, pgid : 0..MaxPids, state : JobStates]]
  /\ nextjid \in 1..(MaxPids + 1)

ShellType ==
  /\ fg_pgid \in 0..MaxPids /\ pc \in Places /\ cmd \in Typed \cup {Quiet}
  /\ me \in 0..MaxPids /\ slot \in 0..MaxJobs
  /\ result \in {"none", "exited", "stopped"} /\ left \in 0..Piped

ProcessType ==
  /\ st \in [Pids -> {"unborn", "running", "stopped", "zombie", "gone"}]
  /\ report \in [Pids -> {"none", "stopped", "continued"}]
  /\ \A p \in Pids : /\ report[p] = "stopped" => st[p] = "stopped"
                     /\ report[p] = "continued" => st[p] = "running"
  /\ nextpid \in 1..(MaxPids + 1)

OtherType ==
  /\ sigchld \in BOOLEAN /\ handling \in BOOLEAN
  /\ untracked \subseteq Pids /\ missed \subseteq Pids \X {"zombie", "stopped"}
  /\ status \in {"up", "exited", "killed"}

Types == TableType /\ ShellType /\ ProcessType /\ OtherType

(***************************************************************************)
(* Where the shell is and what its locals hold there: between a fork and   *)
(* the end of eval, the newest process; in bg, fg and kill, a slot of the  *)
(* table; and a foreground group only around a waitpid.                    *)
(***************************************************************************)
Forked  == {"foreground", "wait", "waited", "background"}
Picked  == {"bg", "bg end", "fg", "fg set", "fg wait", "fg end", "kill", "kill end"}
Waiting == {"wait", "waited", "fg wait", "fg end"}

PlaceInv ==
  /\ pc \notin Waiting => fg_pgid = 0
  /\ pc \in Forked => me \in Pids /\ me = nextpid - 1
  /\ pc \in Picked => slot \in Slots
  /\ pc = "pipe wait" \/ (pc = "eval" /\ cmd.name = "pipeline") => left # 0

\* Pids are given out in order.
BornInv == \A p \in Pids : st[p] = "unborn" <=> p >= nextpid

(***************************************************************************)
(* The table: at most as many ids are given out as processes are forked,   *)
(* and the process just forked has no job.                                 *)
(***************************************************************************)
TableInv ==
  /\ \A k \in Slots : /\ jobs[k].jid = 0 <=> jobs[k].pgid = 0
                      /\ jobs[k].jid < nextjid /\ jobs[k].pgid < nextpid
                      /\ pc \in Forked => jobs[k].pgid # me
  /\ \A k, l \in Slots : k # l /\ jobs[k].jid # 0 =>
       jobs[k].jid # jobs[l].jid /\ jobs[k].pgid # jobs[l].pgid
  /\ nextjid <= nextpid /\ (pc \in Forked => nextjid < nextpid)

Inv == Types /\ PlaceInv /\ BornInv /\ TableInv

(***************************************************************************)
(* The processes of the table.  What the shell's waitpid told is still     *)
(* true when it acts on it, but that a stopped process may have been       *)
(* killed, for nobody else continues one; a process that is alive has its  *)
(* job, or is the one just forked; ...                                     *)
(***************************************************************************)
Group == jobs[slot].pgid

AfterWait == IF result = "stopped" THEN {"stopped", "zombie", "gone"} ELSE {"gone"}

ToldInv ==
  /\ pc = "waited" => st[me] \in AfterWait
  /\ pc = "fg end" => Group = 0 \/ st[Group] \in AfterWait
  /\ pc = "kill end" => Group = 0 \/ st[Group] \in {"zombie", "gone"}

HeldInv ==
  \A p \in Pids \ untracked : st[p] \in {"running", "stopped"} =>
    (\E k \in Slots : jobs[k].pgid = p) \/ (pc \in Forked /\ me = p)

(***************************************************************************)
(* ... a job whose process is gone is about to be deleted, or was reaped   *)
(* where the table was not told; ...                                       *)
(***************************************************************************)
GoneInv ==
  /\ \A k \in Slots : jobs[k].pgid # 0 /\ st[jobs[k].pgid] = "gone" =>
       \/ <<jobs[k].pgid, "zombie">> \in missed
       \/ pc = "fg end" /\ slot = k /\ result = "exited"
  /\ \/ pc = "background"
     \/ pc = "waited" /\ result = "stopped"
     => (st[me] = "gone" => <<me, "zombie">> \in missed)

(***************************************************************************)
(* ... a job marked stopped does not run, but for the one bg or fg has     *)
(* just continued; and a stop nobody marked is still reported, was missed, *)
(* or is what fg waits for or acts on.                                     *)
(***************************************************************************)
StopTold(p) == report[p] = "stopped" \/ <<p, "stopped">> \in missed

StopInv ==
  /\ \A k \in Slots :
       /\ jobs[k].pgid # 0 /\ jobs[k].state = "ST" /\ st[jobs[k].pgid] = "running" =>
            pc \in {"bg end", "fg set"} /\ slot = k
       /\ jobs[k].pgid # 0 /\ jobs[k].state # "ST" /\ st[jobs[k].pgid] = "stopped" =>
            \/ StopTold(jobs[k].pgid)
            \/ pc = "fg end" /\ slot = k /\ result = "stopped"
            \/ pc = "fg wait" /\ slot = k
  /\ pc = "bg end" /\ Group # 0 /\ st[Group] = "stopped" => StopTold(Group)
  /\ pc = "background" /\ st[me] = "stopped" => StopTold(me)

ProcInv == ToldInv /\ HeldInv /\ GoneInv /\ StopInv /\ NoForgottenZombie

-------------------------------------------------------------------------------
(***************************************************************************)
(* The table's operations.  First is the least slot of a set that has one. *)
(***************************************************************************)
LEMMA FirstIsIn ==
  ASSUME NEW S \in SUBSET Slots, S # {}
  PROVE  First(S) \in S
<1>1. S \subseteq Nat
  BY JobsAssumption DEF Slots
<1>2. PICK e \in S : \A k \in S : ~(<<k, e>> \in OpToRel(<, Nat))
  <2>1. IsWellFoundedOn(OpToRel(<, Nat), Nat)
    BY NatLessThanWellFounded
  <2> QED
    BY <1>1, <2>1, WFMin
<1>3. \A k \in S : ~(k < e)
  BY <1>1, <1>2 DEF OpToRel
<1>4. \A k \in S : e <= k
  BY <1>1, <1>3
<1> QED
  BY <1>4 DEF First

\* No process and no slot is numbered 0, and what counting does.
LEMMA Numbers ==
  /\ 0 \notin Pids /\ 0 \notin Slots /\ Piped # 0
  /\ \A p \in Pids : p \in Nat /\ (p + 1) - 1 = p /\ p >= p /\ ~(p < p)
  /\ \A n \in 0..Piped : n # 0 /\ n # 1 => n - 1 # 0
BY JobsAssumption DEF Pids, Slots

\* What a lookup finds is a slot with that group or that id, if there is one.
LEMMA Found ==
  /\ \A p : IF \E k \in Slots : jobs[k].pgid = p
            THEN get_job_by_pgid(p) \in Slots /\ jobs[get_job_by_pgid(p)].pgid = p
            ELSE get_job_by_pgid(p) = 0
  /\ \A j : IF \E k \in Slots : jobs[k].jid = j
            THEN get_job_by_jid(j) \in Slots /\ jobs[get_job_by_jid(j)].jid = j
            ELSE get_job_by_jid(j) = 0
<1>1. ASSUME NEW p
      PROVE  IF \E k \in Slots : jobs[k].pgid = p
             THEN get_job_by_pgid(p) \in Slots /\ jobs[get_job_by_pgid(p)].pgid = p
             ELSE get_job_by_pgid(p) = 0
  <2> DEFINE found == {k \in Slots : jobs[k].pgid = p}
  <2>1. found # {} => First(found) \in found
    BY FirstIsIn
  <2>2. get_job_by_pgid(p) = IF found = {} THEN 0 ELSE First(found)
    BY DEF get_job_by_pgid
  <2> QED
    BY <2>1, <2>2
<1>2. ASSUME NEW j
      PROVE  IF \E k \in Slots : jobs[k].jid = j
             THEN get_job_by_jid(j) \in Slots /\ jobs[get_job_by_jid(j)].jid = j
             ELSE get_job_by_jid(j) = 0
  <2> DEFINE found == {k \in Slots : jobs[k].jid = j}
  <2>1. found # {} => First(found) \in found
    BY FirstIsIn
  <2>2. get_job_by_jid(j) = IF found = {} THEN 0 ELSE First(found)
    BY DEF get_job_by_jid
  <2> QED
    BY <2>1, <2>2
<1> QED
  BY <1>1, <1>2

Job(j, p, s) == [jid |-> j, pgid |-> p, state |-> s]

\* add_job fills a free slot, or leaves the process without a job.
LEMMA AddJob ==
  ASSUME TableType, NEW p, NEW s, add_job(p, s)
  PROVE  \/ UNCHANGED tableVars /\ untracked' = untracked \cup {p}
         \/ /\ nextjid' = nextjid + 1 /\ untracked' = untracked
            /\ \E k \in Slots :
                 jobs[k].jid = 0 /\ jobs' = [jobs EXCEPT ![k] = Job(nextjid, p, s)]
<1>1. FreeSlot # 0 => FreeSlot \in Slots /\ jobs[FreeSlot].jid = 0
  <2>1. FreeSlot = get_job_by_jid(0)
    BY DEF FreeSlot
  <2> QED
    BY <2>1, Found
<1> QED
  BY <1>1 DEF add_job, Job

\* delete_job clears a slot of the group it is given, and no other slot.
LEMMA DeleteJob ==
  ASSUME TableType, NEW p, delete_job(p)
  PROVE  \/ jobs' = jobs /\ \A k \in Slots : jobs[k].pgid # p
         \/ \E k \in Slots : jobs[k].pgid = p /\ jobs' = [jobs EXCEPT ![k] = Free]
<1>1. 0 \notin Slots
  BY Numbers
<1>2. CASE \E k \in Slots : jobs[k].pgid = p
  BY <1>1, <1>2, Found DEF delete_job, Cleared
<1>3. CASE ~\E k \in Slots : jobs[k].pgid = p
  BY <1>3, Found DEF delete_job
<1> QED
  BY <1>2, <1>3

\* A turn of the handler's loop: the job of the process is deleted or marked.
LEMMA ReapStep ==
  ASSUME Types, NEW p \in Pids, Reap(p)
  PROVE  \/ jobs' = jobs /\ \A k \in Slots : jobs[k].pgid # p
         \/ \E k \in Slots :
              /\ jobs[k].pgid = p
              /\ \/ st[p] = "zombie" /\ jobs' = [jobs EXCEPT ![k] = Free]
                 \/ report[p] = "stopped" /\ jobs' = [jobs EXCEPT ![k].state = "ST"]
                 \/ report[p] = "continued" /\ jobs' = [jobs EXCEPT ![k].state = "BG"]
<1> DEFINE k == get_job_by_pgid(p)
<1>1. 0 \notin Slots
  BY Numbers
<1>2. \/ st[p] = "zombie" \/ report[p] = "stopped" \/ report[p] = "continued"
  BY DEF Reap, Waitable, Types, ProcessType
<1>3. CASE k = 0
  <2>1. \A l \in Slots : jobs[l].pgid # p
    BY <1>1, <1>3, Found
  <2>2. /\ delete_job(p) => jobs' = jobs
        /\ \A s : Marked(0, s) => jobs' = jobs
    BY <1>1, <1>3 DEF delete_job, Marked, Types, TableType
  <2>3. \/ jobs' = jobs \/ delete_job(p) \/ \E s : Marked(0, s)
    BY <1>2, <1>3 DEF Reap
  <2> QED
    BY <2>1, <2>2, <2>3
<1>4. CASE k # 0
  <2>1. k \in Slots /\ jobs[k].pgid = p
    BY <1>4, Found
  <2>2. \/ st[p] = "zombie" /\ jobs' = [jobs EXCEPT ![k] = Free]
        \/ report[p] = "stopped" /\ jobs' = [jobs EXCEPT ![k].state = "ST"]
        \/ report[p] = "continued" /\ jobs' = [jobs EXCEPT ![k].state = "BG"]
    BY <1>2, <1>4 DEF Reap, delete_job, Cleared, Marked, Resumed
  <2> QED
    BY <2>1, <2>2
<1> QED
  BY <1>3, <1>4

-------------------------------------------------------------------------------
(***************************************************************************)
(* Every step keeps the types.  What the operations on the table and on    *)
(* the processes do to them, and what leaves a group of variables alone.   *)
(***************************************************************************)
LEMMA TypeFrames ==
  /\ TableType /\ UNCHANGED tableVars => TableType'
  /\ ShellType /\ UNCHANGED shellVars => ShellType'
  /\ ProcessType /\ UNCHANGED <<processVars, nextpid>> => ProcessType'
  /\ OtherType /\ UNCHANGED <<signalVars, histories, status>> => OtherType'
BY DEF TableType, ShellType, ProcessType, OtherType, tableVars, shellVars,
       localVars, processVars, signalVars, histories

\* A slot of the table is marked or cleared.
LEMMA TableSteps ==
  ASSUME TableType, UNCHANGED nextjid, NEW k \in Slots
  PROVE  /\ \A s \in JobStates : Marked(k, s) => TableType'
         /\ jobs' = [jobs EXCEPT ![k] = Free] => TableType'
<1>1. Free \in [jid : 0..MaxPids, pgid : 0..MaxPids, state : JobStates]
  BY JobsAssumption DEF Free, JobStates
<1> QED
  BY <1>1 DEF TableType, Marked

\* A process ends, stops, is continued or is reaped.
LEMMA ProcessSteps ==
  ASSUME ProcessType, UNCHANGED nextpid, NEW p \in Pids
  PROVE  /\ Ends(p) => ProcessType'
         /\ Stops(p) => ProcessType'
         /\ Continue(p) => ProcessType'
         /\ Reaped(p) => ProcessType'
BY DEF ProcessType, Ends, Stops, Continue, Reaped, processVars

\* A process is forked.
LEMMA ForkStep ==
  ASSUME ProcessType, BornInv, Fork
  PROVE  ProcessType'
<1>1. nextpid \in Pids /\ nextpid \in Nat /\ nextpid + 1 \in 1..(MaxPids + 1)
  BY JobsAssumption DEF Fork, ProcessType, Pids
<1>2. st[nextpid] = "unborn"
  <2>1. st[nextpid] = "unborn" <=> nextpid >= nextpid
    BY <1>1 DEF BornInv
  <2> QED
    BY <1>1, <2>1
<1> QED
  BY <1>1, <1>2 DEF Fork, ProcessType

\* The group of a picked slot is a process, or 0 once its job is deleted.
LEMMA GroupIsPid ==
  ASSUME Inv, pc \in Picked
  PROVE  slot \in Slots /\ (Group = 0 \/ Group \in Pids)
<1>1. slot \in Slots
  BY DEF Inv, PlaceInv
<1>2. Group \in 0..MaxPids
  BY <1>1 DEF Inv, Types, TableType, Group
<1> QED
  BY <1>1, <1>2, JobsAssumption DEF Pids

\* Every step keeps the type of the table, ...
LEMMA TableTypeStep ==
  ASSUME Inv, Shell \/ sigchld_handler \/ Outside
  PROVE  TableType'
<1>1. CASE UNCHANGED tableVars
  BY <1>1, TypeFrames DEF Inv, Types
<1>2. ASSUME NEW s \in JobStates, add_job(me, s), pc \in Forked
      PROVE  TableType'
  <2>1. /\ me \in Pids /\ nextjid < nextpid
        /\ nextjid \in 1..(MaxPids + 1) /\ nextpid \in 1..(MaxPids + 1)
    BY <1>2 DEF Inv, Types, TableType, ProcessType, PlaceInv, TableInv
  <2>2. /\ me \in 0..MaxPids /\ nextjid \in 0..MaxPids
        /\ nextjid + 1 \in 1..(MaxPids + 1)
    BY <2>1, JobsAssumption DEF Pids
  <2>3. Job(nextjid, me, s) \in [jid : 0..MaxPids, pgid : 0..MaxPids,
                                 state : JobStates]
    BY <2>2 DEF Job
  <2> QED
    BY <1>2, <2>2, <2>3, AddJob DEF Inv, Types, TableType, tableVars
<1>3. CASE Background \/ EvalEnd
  BY <1>1, <1>2, <1>3 DEF Background, EvalEnd, At, Forked, JobStates, tableVars
<1>4. ASSUME pc \in Picked, UNCHANGED nextjid,
             \/ \E s \in JobStates : Marked(slot, s)
             \/ delete_job(Group)
      PROVE  TableType'
  <2>1. slot \in Slots /\ TableType
    BY <1>4, GroupIsPid DEF Inv, Types
  <2>2. CASE delete_job(Group)
    BY <1>1, <1>4, <2>1, <2>2, DeleteJob, TableSteps DEF tableVars
  <2> QED
    BY <1>4, <2>1, <2>2, TableSteps
<1>5. CASE BgEnd \/ FgSet \/ FgEnd \/ KillEnd
  BY <1>4, <1>5 DEF BgEnd, FgSet, FgEnd, KillEnd, At, Picked, JobStates, Group
<1>6. ASSUME NEW p \in Pids, Reap(p)
      PROVE  TableType'
  <2>1. UNCHANGED nextjid /\ TableType /\ Types
    BY <1>6 DEF Reap, Inv, Types
  <2> QED
    BY <1>1, <1>6, <2>1, ReapStep, TableSteps
       DEF tableVars, Marked, JobStates
<1>7. CASE \/ Quit \/ Launch \/ Foreground \/ Wait \/ Lookup \/ BgContinue
           \/ FgContinue \/ FgWait \/ Kill \/ PipeFork \/ PipeWait
  BY <1>1, <1>7 DEF Quit, Launch, Foreground, Wait, Lookup, BgContinue,
     FgContinue, FgWait, Kill, PipeFork, PipeWait
<1>8. CASE Handle \/ HandlerReturns \/ Outside
  BY <1>1, <1>8 DEF Handle, HandlerReturns, Outside, ReadCommand, sigint_handler,
     sigtstp_handler, Exit, StopsItself
<1> QED
  BY <1>3, <1>5, <1>6, <1>7, <1>8 DEF Shell, sigchld_handler

\* ... that of the processes, ...
LEMMA ProcessTypeStep ==
  ASSUME Inv, Shell \/ sigchld_handler \/ Outside
  PROVE  ProcessType'
<1> USE DEF Inv, Types
<1>1. CASE UNCHANGED <<processVars, nextpid>>
  BY <1>1, TypeFrames
<1>2. CASE Fork
  BY <1>2, ForkStep
<1>3. CASE Launch \/ PipeFork
  BY <1>1, <1>2, <1>3 DEF Launch, PipeFork, ForkFails
<1>4. ASSUME NEW p, p # 0 => p \in Pids, Waited(p), UNCHANGED nextpid
      PROVE  ProcessType'
  BY <1>1, <1>4, ProcessSteps DEF Waited
<1>5. CASE Wait \/ FgWait
  <2>1. CASE Wait
    <3>1. me # 0 => me \in Pids
      BY <2>1 DEF Wait, At, PlaceInv, Forked
    <3> QED
      BY <1>4, <2>1, <3>1 DEF Wait
  <2>2. CASE FgWait
    BY <1>4, <2>2, GroupIsPid DEF FgWait, At, Picked, Group
  <2> QED
    BY <1>5, <2>1, <2>2
<1>6. CASE BgContinue \/ FgContinue \/ Kill
  <2>1. (Group = 0 \/ Group \in Pids) /\ UNCHANGED nextpid
    BY <1>6, GroupIsPid DEF BgContinue, FgContinue, Kill, At, Picked
  <2>2. \/ UNCHANGED processVars \/ Continue(Group) \/ (Group # 0 /\ Ends(Group))
    BY <1>6 DEF BgContinue, FgContinue, Kill, Group
  <2>3. Continue(Group) /\ Group = 0 => UNCHANGED processVars
    BY DEF Continue
  <2> QED
    BY <1>1, <2>1, <2>2, <2>3, ProcessSteps
<1>7. CASE PipeWait
  BY <1>1, <1>7, ProcessSteps DEF PipeWait
<1>8. ASSUME NEW p \in Pids, Reap(p) \/ Exit(p) \/ StopsItself(p)
      PROVE  ProcessType'
  BY <1>8, ProcessSteps DEF Reap, Exit, StopsItself
<1>9. CASE sigint_handler \/ sigtstp_handler
  <2>1. fg_pgid \in Pids /\ UNCHANGED nextpid
    BY <1>9, JobsAssumption DEF sigint_handler, sigtstp_handler, ShellType, Pids
  <2> QED
    BY <1>9, <2>1, ProcessSteps DEF sigint_handler, sigtstp_handler
<1>10. CASE \/ Quit \/ Foreground \/ EvalEnd \/ Background \/ Lookup \/ BgEnd
            \/ FgSet \/ FgEnd \/ KillEnd
  BY <1>1, <1>10 DEF Quit, Foreground, EvalEnd, Background, Lookup, BgEnd, FgSet,
     FgEnd, KillEnd
<1>11. CASE Handle \/ HandlerReturns \/ ReadCommand
  BY <1>1, <1>11 DEF Handle, HandlerReturns, ReadCommand
<1> QED
  BY <1>3, <1>5, <1>6, <1>7, <1>8, <1>9, <1>10, <1>11
     DEF Shell, sigchld_handler, Outside

\* ... that of the shell's own variables, ...
LEMMA ShellTypeStep ==
  ASSUME Inv, Shell \/ sigchld_handler \/ Outside
  PROVE  ShellType'
<1> USE DEF Inv, Types
<1> USE DEF ShellType
<1>0. /\ 0 \in 0..MaxPids /\ 0 \in 0..MaxJobs /\ 0 \in 0..Piped
      /\ Piped \in 0..Piped /\ \A n \in 0..Piped : n # 0 => n - 1 \in 0..Piped
      /\ Pids \subseteq 0..MaxPids /\ Slots \subseteq 0..MaxJobs
  BY JobsAssumption DEF Pids, Slots
<1>1. CASE UNCHANGED shellVars
  BY <1>1, TypeFrames
<1>2. CASE UNCHANGED <<fg_pgid, localVars>> /\ pc' \in Places
  BY <1>2 DEF localVars
<1>3. CASE fg_pgid' \in 0..MaxPids /\ Return
  BY <1>0, <1>3 DEF Return, Goto, Places
<1>4. CASE Launch \/ PipeFork
  <2>1. CASE Launch
    <3>1. CASE Fork /\ UNCHANGED <<fg_pgid, cmd, slot, result, left>>
               /\ me' = nextpid /\ pc' \in Places
      BY <1>0, <3>1 DEF Fork
    <3> QED
      BY <1>3, <2>1, <3>1 DEF Launch, Goto, Places
  <2>2. CASE PipeFork
    <3>1. left # 0
      BY <2>2 DEF PipeFork, At, PlaceInv
    <3>2. left' \in 0..Piped
      BY <1>0, <2>2, <3>1 DEF PipeFork
    <3> QED
      BY <2>2, <3>2 DEF PipeFork, Goto, Places
  <2> QED
    BY <1>4, <2>1, <2>2
<1>5. CASE PipeWait
  <2>1. left # 0
    BY <1>5 DEF PipeWait, At, PlaceInv
  <2> QED
    BY <1>0, <1>3, <1>5, <2>1 DEF PipeWait, localVars
<1>6. CASE Foreground \/ Wait \/ FgWait
  BY <1>6 DEF Foreground, Wait, FgWait, Waited, Goto, Places, localVars
<1>7. CASE EvalEnd \/ Background \/ BgEnd \/ FgEnd \/ KillEnd
  <2>1. Return /\ fg_pgid' \in {0, fg_pgid}
    BY <1>7 DEF EvalEnd, Background, BgEnd, FgEnd, KillEnd
  <2> QED
    BY <1>0, <1>3, <2>1
<1>8. CASE BgContinue \/ FgContinue \/ Kill
  BY <1>2, <1>8 DEF BgContinue, FgContinue, Kill, Goto, Places, localVars
<1>9. CASE FgSet
  <2>1. Group \in 0..MaxPids
    BY <1>0, <1>9, GroupIsPid DEF FgSet, At, Picked
  <2> QED
    BY <1>9, <2>1 DEF FgSet, Goto, Places, localVars, Group
<1>10. CASE Lookup
  <2>1. \/ UNCHANGED fg_pgid /\ Return
        \/ \E k \in Slots : /\ pc' = cmd.name /\ slot' = k
                            /\ UNCHANGED <<fg_pgid, cmd, me, result, left>>
    BY <1>10, Found DEF Lookup, Goto
  <2>2. cmd.name \in {"bg", "fg", "kill"}
    BY <1>10 DEF Lookup
  <2> QED
    BY <1>0, <1>3, <2>1, <2>2 DEF Places
<1>11. CASE ReadCommand
  <2>1. cmd' \in Typed /\ left' \in {0, Piped} /\ pc' = "eval"
        /\ UNCHANGED <<fg_pgid, me, slot, result>>
    BY <1>11 DEF ReadCommand, Goto
  <2> QED
    BY <1>0, <2>1 DEF Places
<1>12. CASE Quit \/ sigchld_handler \/ sigint_handler \/ sigtstp_handler
            \/ \E p \in Pids : Exit(p) \/ StopsItself(p)
  BY <1>1, <1>12 DEF Quit, sigchld_handler, Handle, HandlerReturns, Reap,
     sigint_handler, sigtstp_handler, Exit, StopsItself
<1> QED
  BY <1>4, <1>5, <1>6, <1>7, <1>8, <1>9, <1>10, <1>11, <1>12 DEF Shell, Outside

\* ... and that of the rest.
LEMMA OtherTypeStep ==
  ASSUME Inv, Shell \/ sigchld_handler \/ Outside
  PROVE  OtherType'
<1> USE DEF Inv, Types
<1>1. CASE UNCHANGED <<signalVars, histories, status>>
  BY <1>1, TypeFrames
<1>2. ASSUME UNCHANGED <<histories, handling, status>>, sigchld' = TRUE
      PROVE  OtherType'
  BY <1>2 DEF OtherType, histories
<1>3. CASE Background \/ EvalEnd
  <2>1. /\ UNCHANGED <<missed, signalVars, status>> /\ me \in Pids
        /\ untracked' = untracked \/ untracked' = untracked \cup {me}
    BY <1>3 DEF Background, EvalEnd, At, PlaceInv, Forked, add_job
  <2> QED
    BY <2>1 DEF OtherType, signalVars
<1>4. CASE PipeFork
  BY <1>4 DEF PipeFork, Fork, OtherType, signalVars
<1>5. CASE PipeWait
  <2>1. /\ UNCHANGED <<signalVars, untracked, status>>
        /\ \/ missed' = missed
           \/ \E p \in Pids : missed' = missed \cup {<<p, "zombie">>}
    BY <1>5 DEF PipeWait
  <2> QED
    BY <2>1 DEF OtherType, signalVars
<1>6. ASSUME NEW p \in Pids, Reap(p)
      PROVE  OtherType'
  <2>1. /\ UNCHANGED <<nextjid, untracked, status>> /\ UNCHANGED signalVars
        /\ \/ missed' = missed
           \/ missed' = missed \cup {<<p, "zombie">>}
           \/ missed' = missed \cup {<<p, "stopped">>}
    BY <1>6 DEF Reap
  <2> QED
    BY <2>1 DEF OtherType, signalVars
<1>7. CASE Quit \/ Kill
  BY <1>7 DEF Quit, Kill, Ends, OtherType, signalVars, histories
<1>8. CASE \/ Launch \/ Foreground \/ Wait \/ Lookup \/ BgContinue \/ BgEnd
           \/ FgContinue \/ FgSet \/ FgWait \/ FgEnd \/ KillEnd
  BY <1>1, <1>8 DEF Launch, Foreground, Wait, Lookup, BgContinue, BgEnd,
     FgContinue, FgSet, FgWait, FgEnd, KillEnd
<1>9. CASE Handle \/ HandlerReturns
  BY <1>9 DEF Handle, HandlerReturns, OtherType, histories
<1>10. CASE ReadCommand \/ sigint_handler \/ sigtstp_handler
            \/ \E p \in Pids : Exit(p) \/ StopsItself(p)
  BY <1>1, <1>2, <1>10 DEF ReadCommand, sigint_handler, sigtstp_handler, Exit,
     StopsItself, Ends
<1> QED
  BY <1>3, <1>4, <1>5, <1>6, <1>7, <1>8, <1>9, <1>10
     DEF Shell, sigchld_handler, Outside

-------------------------------------------------------------------------------
(***************************************************************************)
(* Every step keeps what the shell's locals hold, and the table.           *)
(***************************************************************************)
LEMMA PlaceStep ==
  ASSUME Inv, Shell \/ sigchld_handler \/ Outside
  PROVE  PlaceInv'
<1> USE DEF Inv, Types, PlaceInv, Forked, Picked, Waiting, Goto
<1>1. CASE UNCHANGED <<shellVars, nextpid>>
  BY <1>1 DEF shellVars, localVars
<1>2. CASE Return /\ fg_pgid' = 0
  BY <1>2 DEF Return
<1>3. CASE Launch
  <2>1. CASE Fork /\ me' = nextpid /\ pc' \in {"foreground", "background"}
             /\ fg_pgid' = 0
    <3>1. nextpid \in Pids /\ nextpid' = nextpid + 1
      BY <2>1 DEF Fork
    <3>2. nextpid' - 1 = nextpid
      BY <3>1, Numbers
    <3> QED
      BY <2>1, <3>1, <3>2
  <2> QED
    BY <1>2, <1>3, <2>1 DEF Launch, At
<1>4. CASE Foreground \/ Wait \/ FgSet \/ FgWait
  BY <1>4 DEF Foreground, Wait, FgSet, FgWait, At, localVars
<1>5. CASE BgContinue \/ FgContinue \/ Kill
  BY <1>5 DEF BgContinue, FgContinue, Kill, At, localVars
<1>6. CASE EvalEnd \/ Background \/ BgEnd \/ FgEnd \/ KillEnd
  BY <1>2, <1>6 DEF EvalEnd, Background, BgEnd, FgEnd, KillEnd, At
<1>7. CASE Lookup
  <2>1. \/ UNCHANGED fg_pgid /\ Return
        \/ \E k \in Slots : /\ pc' = cmd.name /\ slot' = k
                            /\ UNCHANGED <<fg_pgid, cmd, me, result, left>>
    BY <1>7, Found DEF Lookup
  <2>2. cmd.name \in {"bg", "fg", "kill"} /\ pc = "eval"
    BY <1>7 DEF Lookup, At
  <2> QED
    BY <1>2, <2>1, <2>2
<1>8. CASE PipeFork
  <2>1. \/ pc' = "pipe wait" /\ left' = Piped
        \/ pc' = "eval" /\ left # 1 /\ left' = left - 1
    BY <1>8 DEF PipeFork, At
  <2>2. UNCHANGED <<fg_pgid, cmd, me, slot>> /\ pc = "eval" /\ left # 0
    BY <1>8 DEF PipeFork, At
  <2> QED
    <3>1. Piped # 0 /\ (left # 1 => left - 1 # 0)
      BY <2>2, Numbers DEF ShellType
    <3> QED
      BY <2>1, <2>2, <3>1
<1>9. CASE PipeWait
  <2>1. CASE left = 1
    BY <1>2, <1>9, <2>1 DEF PipeWait, At
  <2>2. CASE left # 1
    <3>1. left' = left - 1 /\ pc' = pc /\ left \in 0..Piped /\ left # 0
      BY <1>9, <2>2 DEF PipeWait, At, ShellType
    <3>2. left - 1 # 0
      BY <2>2, <3>1, Numbers
    <3> QED
      BY <1>9, <3>1, <3>2 DEF PipeWait, At
  <2> QED
    BY <2>1, <2>2
<1>10. CASE ReadCommand
  <2>1. /\ pc' = "eval" /\ fg_pgid' = 0
        /\ cmd'.name = "pipeline" => left' = Piped
    BY <1>10 DEF ReadCommand, At
  <2> QED
    BY <2>1, Numbers
<1>11. CASE Quit \/ sigchld_handler \/ sigint_handler \/ sigtstp_handler
            \/ \E p \in Pids : Exit(p) \/ StopsItself(p)
  BY <1>1, <1>11 DEF Quit, sigchld_handler, Handle, HandlerReturns, Reap,
     sigint_handler, sigtstp_handler, Exit, StopsItself
<1> QED
  BY <1>3, <1>4, <1>5, <1>6, <1>7, <1>8, <1>9, <1>10, <1>11 DEF Shell, Outside

\* Only a fork makes a process of a pid, and it takes the next one.
LEMMA BornStep ==
  ASSUME Inv, Shell \/ sigchld_handler \/ Outside
  PROVE  BornInv'
<1> USE DEF Inv, Types, BornInv
<1> DEFINE Kept == /\ UNCHANGED nextpid
                   /\ \A p \in Pids : st'[p] = "unborn" <=> st[p] = "unborn"
<1>1. CASE Kept
  BY <1>1
<1>2. CASE Fork
  <2>1. /\ nextpid \in Pids /\ nextpid' = nextpid + 1
        /\ \A p \in Pids : st'[p] = IF p = nextpid THEN "running" ELSE st[p]
    BY <1>2 DEF Fork, ProcessType
  <2>2. \A p \in Pids : p >= nextpid <=> p = nextpid \/ p >= nextpid + 1
    BY <2>1, JobsAssumption DEF Pids
  <2>3. ~(nextpid >= nextpid + 1)
    BY <2>1, JobsAssumption DEF Pids
  <2> QED
    BY <2>1, <2>2, <2>3
<1>3. ASSUME NEW p \in Pids, st[p] # "unborn", UNCHANGED nextpid,
             Ends(p) \/ Stops(p) \/ Continue(p) \/ Reaped(p)
      PROVE  Kept
  BY <1>3 DEF Ends, Stops, Continue, Reaped, ProcessType, processVars
<1>4. CASE UNCHANGED <<processVars, nextpid>>
  BY <1>1, <1>4 DEF processVars
<1>5. CASE Launch \/ PipeFork
  BY <1>2, <1>4, <1>5 DEF Launch, PipeFork, ForkFails
<1>6. ASSUME NEW p, p # 0 => p \in Pids, Waited(p), UNCHANGED nextpid
      PROVE  BornInv'
  BY <1>1, <1>3, <1>4, <1>6 DEF Waited, ProcessType
<1>7. CASE Wait
  <2>1. me # 0 => me \in Pids
    BY <1>7 DEF Wait, At, PlaceInv, Forked
  <2> QED
    BY <1>6, <1>7, <2>1 DEF Wait
<1>8. CASE FgWait
  BY <1>6, <1>8, GroupIsPid DEF FgWait, At, Picked, Group
<1>9. CASE BgContinue \/ FgContinue \/ Kill
  <2>1. (Group = 0 \/ Group \in Pids) /\ UNCHANGED nextpid
    BY <1>9, GroupIsPid DEF BgContinue, FgContinue, Kill, At, Picked
  <2>2. \/ UNCHANGED processVars
        \/ Group # 0 /\ st[Group] = "stopped" /\ Continue(Group)
        \/ Group # 0 /\ st[Group] \in {"running", "stopped"} /\ Ends(Group)
    BY <1>9 DEF BgContinue, FgContinue, Kill, Group, Continue
  <2> QED
    BY <1>1, <1>3, <1>4, <2>1, <2>2
<1>10. CASE PipeWait
  BY <1>1, <1>3, <1>4, <1>10 DEF PipeWait
<1>11. ASSUME NEW p \in Pids, Reap(p) \/ Exit(p) \/ StopsItself(p)
       PROVE  BornInv'
  BY <1>1, <1>3, <1>11 DEF Reap, Exit, StopsItself, Waitable, ProcessType
<1>12. CASE sigint_handler \/ sigtstp_handler
  <2>1. fg_pgid \in Pids /\ UNCHANGED nextpid
    BY <1>12, JobsAssumption DEF sigint_handler, sigtstp_handler, ShellType, Pids
  <2> QED
    BY <1>1, <1>3, <1>12, <2>1 DEF sigint_handler, sigtstp_handler
<1>13. CASE \/ Quit \/ Foreground \/ EvalEnd \/ Background \/ Lookup \/ BgEnd
            \/ FgSet \/ FgEnd \/ KillEnd
  BY <1>4, <1>13 DEF Quit, Foreground, EvalEnd, Background, Lookup, BgEnd, FgSet,
     FgEnd, KillEnd
<1>14. CASE Handle \/ HandlerReturns \/ ReadCommand
  BY <1>4, <1>14 DEF Handle, HandlerReturns, ReadCommand
<1> QED
  BY <1>5, <1>7, <1>8, <1>9, <1>10, <1>11, <1>12, <1>13, <1>14
     DEF Shell, sigchld_handler, Outside

\* A step that gives out no id, and at most clears slots, keeps the table.
LEMMA TableKept ==
  ASSUME Inv, TableType', nextjid' = nextjid,
         \A k \in Slots : \/ jobs'[k] = Free
                          \/ jobs'[k].jid = jobs[k].jid /\ jobs'[k].pgid = jobs[k].pgid,
         \/ nextpid' = nextpid /\ (pc' \in Forked => pc \in Forked /\ me' = me)
         \/ Fork /\ (pc' \in Forked => me' = nextpid)
  PROVE  TableInv'
<1> USE DEF Inv, Types, TableInv
<1>1. nextpid \in Nat /\ nextjid \in Nat \ {0}
      /\ \A k \in Slots : jobs[k].pgid \in Nat /\ jobs[k].jid \in Nat
  BY JobsAssumption DEF ProcessType, TableType
<1>2. /\ \A k \in Slots : /\ jobs'[k].jid = 0 <=> jobs'[k].pgid = 0
                          /\ jobs'[k].jid < nextjid'
      /\ \A k, l \in Slots : k # l /\ jobs'[k].jid # 0 =>
           jobs'[k].jid # jobs'[l].jid /\ jobs'[k].pgid # jobs'[l].pgid
  BY <1>1 DEF Free
<1>3. CASE nextpid' = nextpid /\ (pc' \in Forked => pc \in Forked /\ me' = me)
  <2>1. \A k \in Slots : /\ jobs'[k].pgid < nextpid'
                         /\ pc' \in Forked => jobs'[k].pgid # me'
    <3>1. 0 \notin Pids /\ (pc \in Forked => me \in Pids)
      BY Numbers DEF PlaceInv
    <3>2. 0 < nextpid
      BY JobsAssumption DEF ProcessType
    <3> QED
      BY <1>3, <3>1, <3>2 DEF Free
  <2>2. nextjid' <= nextpid' /\ (pc' \in Forked => nextjid' < nextpid')
    BY <1>3
  <2> QED
    BY <1>2, <2>1, <2>2
<1>4. CASE Fork /\ (pc' \in Forked => me' = nextpid)
  <2>1. nextpid' = nextpid + 1 /\ nextpid \in Nat \ {0}
    BY <1>4, JobsAssumption DEF Fork, Pids
  <2>2. \A k \in Slots : jobs'[k].pgid < nextpid
    BY <2>1 DEF Free
  <2>3. \A k \in Slots : /\ jobs'[k].pgid < nextpid'
                         /\ pc' \in Forked => jobs'[k].pgid # me'
    <3>1. \A k \in Slots : jobs'[k].pgid \in Nat
      BY <1>1 DEF Free
    <3> QED
      BY <1>4, <2>1, <2>2, <3>1
  <2>4. nextjid' <= nextpid' /\ nextjid' < nextpid'
    BY <1>1, <2>1
  <2> QED
    BY <1>2, <2>3, <2>4
<1> QED
  BY <1>3, <1>4

\* Every step keeps the table: add_job alone gives out an id.
LEMMA TableStep ==
  ASSUME Inv, Shell \/ sigchld_handler \/ Outside
  PROVE  TableInv'
<1> USE DEF Inv, Types, At
<1>1. TableType'
  BY TableTypeStep
<1> DEFINE Stays == nextpid' = nextpid /\ (pc' \in Forked => pc \in Forked /\ me' = me)
<1> DEFINE Mine(k) == \/ jobs'[k] = Free
                      \/ jobs'[k].jid = jobs[k].jid /\ jobs'[k].pgid = jobs[k].pgid
<1>2. CASE Stays /\ UNCHANGED tableVars
  BY <1>1, <1>2, TableKept DEF tableVars
<1>3. CASE Launch \/ PipeFork
  BY <1>1, <1>2, <1>3, TableKept
     DEF Launch, PipeFork, ForkFails, Return, Goto, Forked, tableVars
<1>4. ASSUME NEW s, add_job(me, s), pc \in Forked, pc' \notin Forked,
             nextpid' = nextpid
      PROVE  TableInv'
  <2>1. CASE UNCHANGED tableVars
    BY <1>2, <1>4, <2>1
  <2>2. CASE /\ nextjid' = nextjid + 1
             /\ \E k \in Slots :
                  jobs[k].jid = 0 /\ jobs' = [jobs EXCEPT ![k] = Job(nextjid, me, s)]
    <3>1. PICK k \in Slots :
            jobs[k].jid = 0 /\ jobs' = [jobs EXCEPT ![k] = Job(nextjid, me, s)]
      BY <2>2
    <3>2. /\ jobs'[k].jid = nextjid /\ jobs'[k].pgid = me
          /\ \A l \in Slots : l # k => jobs'[l] = jobs[l]
      BY <3>1 DEF Job, TableType
    <3>0. /\ me \in Pids /\ me = nextpid - 1 /\ nextjid < nextpid
          /\ nextjid \in 1..(MaxPids + 1) /\ nextpid \in 1..(MaxPids + 1)
          /\ \A l \in Slots : jobs[l].jid < nextjid /\ jobs[l].pgid # me
      BY <1>4 DEF PlaceInv, TableInv, TableType, ProcessType
    <3>3. /\ me < nextpid /\ me # 0 /\ nextjid < nextpid
          /\ nextjid \in Nat \ {0} /\ nextpid \in Nat
          /\ \A l \in Slots : jobs[l].jid < nextjid /\ jobs[l].pgid # me
      BY <3>0, JobsAssumption DEF Pids
    <3>4. \A l \in Slots : jobs[l].jid \in Nat /\ jobs[l].pgid \in Nat
      BY JobsAssumption DEF TableType
    <3>5. \A l \in Slots : /\ jobs'[l].jid = 0 <=> jobs'[l].pgid = 0
                           /\ jobs'[l].jid < nextjid' /\ jobs'[l].pgid < nextpid'
      BY <1>4, <2>2, <3>2, <3>3, <3>4 DEF TableInv
    <3>6. \A l, m \in Slots : l # m /\ jobs'[l].jid # 0 =>
            jobs'[l].jid # jobs'[m].jid /\ jobs'[l].pgid # jobs'[m].pgid
      BY <3>2, <3>3, <3>4 DEF TableInv
    <3>7. nextjid' <= nextpid'
      BY <1>4, <2>2, <3>3
    <3> QED
      BY <1>4, <3>5, <3>6, <3>7 DEF TableInv
  <2> QED
    BY <1>4, <2>1, <2>2, AddJob
<1>5. CASE Background \/ EvalEnd
  BY <1>2, <1>4, <1>5
     DEF Background, EvalEnd, Return, Goto, Forked
<1>6. ASSUME Stays, UNCHANGED nextjid, NEW p, delete_job(p)
      PROVE  TableInv'
  <2>1. \A k \in Slots : Mine(k)
    BY <1>6, DeleteJob DEF TableType
  <2> QED
    BY <1>1, <1>6, <2>1, TableKept
<1>7. ASSUME Stays, UNCHANGED nextjid, NEW k \in Slots, NEW s, Marked(k, s)
      PROVE  TableInv'
  <2>1. \A l \in Slots : Mine(l)
    BY <1>7 DEF TableType, Marked
  <2> QED
    BY <1>1, <1>7, <2>1, TableKept
<1>8. CASE BgEnd \/ FgSet \/ FgEnd \/ KillEnd
  <2>1. slot \in Slots
    BY <1>8, GroupIsPid DEF BgEnd, FgSet, FgEnd, KillEnd, Picked
  <2>2. /\ UNCHANGED <<nextjid, nextpid>> /\ pc' \notin Forked
        /\ \/ \E s : Marked(slot, s)
           \/ delete_job(Group)
    BY <1>8 DEF BgEnd, FgSet, FgEnd, KillEnd, Return, Goto, Forked, Group
  <2> QED
    BY <1>6, <1>7, <2>1, <2>2
<1>9. ASSUME NEW p \in Pids, Reap(p)
      PROVE  TableInv'
  <2>1. Stays /\ UNCHANGED nextjid /\ TableType /\ Types
    BY <1>9 DEF Reap, shellVars, localVars
  <2>2. \A k \in Slots : Mine(k)
    BY <1>9, <2>1, ReapStep DEF TableType
  <2> QED
    BY <1>1, <2>1, <2>2, TableKept
<1>10. CASE \/ Quit \/ Foreground \/ Wait \/ Lookup \/ BgContinue \/ FgContinue
            \/ FgWait \/ Kill \/ PipeWait
  <2>1. UNCHANGED tableVars /\ UNCHANGED nextpid
    BY <1>10 DEF Quit, Foreground, Wait, Lookup, BgContinue, FgContinue, FgWait, Kill,
       PipeWait
  <2>2. pc' \in Forked => pc \in Forked /\ me' = me
    BY <1>10 DEF Quit, Foreground, Wait, Lookup, BgContinue, FgContinue, FgWait, Kill,
       PipeWait, Return, Goto, Forked, shellVars, localVars
  <2> QED
    BY <1>2, <2>1, <2>2
<1>11. CASE Handle \/ HandlerReturns \/ Outside
  <2>1. UNCHANGED tableVars /\ UNCHANGED nextpid
    BY <1>11 DEF Handle, HandlerReturns, Outside, ReadCommand, sigint_handler,
       sigtstp_handler, Exit, StopsItself
  <2>2. pc' \in Forked => pc \in Forked /\ me' = me
    BY <1>11 DEF Handle, HandlerReturns, Outside, ReadCommand, sigint_handler,
       sigtstp_handler, Exit, StopsItself, Goto, Forked, shellVars, localVars
  <2> QED
    BY <1>2, <2>1, <2>2
<1> QED
  BY <1>3, <1>5, <1>8, <1>9, <1>10, <1>11 DEF Shell, sigchld_handler

-------------------------------------------------------------------------------
(***************************************************************************)
(* The first part of the invariant, and that the table is one.             *)
(***************************************************************************)
LEMMA InvStep ==
  ASSUME Inv, [Next]_vars
  PROVE  Inv'
<1>1. CASE Shell \/ sigchld_handler \/ Outside
  BY <1>1, TableTypeStep, ProcessTypeStep, ShellTypeStep, OtherTypeStep, PlaceStep,
     BornStep, TableStep DEF Inv, Types
<1>2. CASE UNCHANGED vars
  <2>1. /\ UNCHANGED tableVars /\ UNCHANGED shellVars /\ UNCHANGED histories
        /\ UNCHANGED processVars /\ UNCHANGED signalVars
        /\ UNCHANGED <<nextpid, status>>
    BY <1>2 DEF vars
  <2>2. Types'
    BY <2>1, TypeFrames DEF Inv, Types
  <2>3. PlaceInv' /\ BornInv' /\ TableInv'
    BY <2>1 DEF Inv, PlaceInv, BornInv, TableInv, tableVars, shellVars, localVars,
       processVars
  <2> QED
    BY <2>2, <2>3 DEF Inv
<1> QED
  BY <1>1, <1>2 DEF Next

\* The first state has an empty table and no process.
LEMMA InvInit ==
  Init => Inv
<1> SUFFICES ASSUME Init
             PROVE  Inv
  OBVIOUS
<1>1. /\ 0 \in 0..MaxPids /\ 0 \in 0..MaxJobs /\ 0 \in 0..Piped
      /\ 1 \in 1..(MaxPids + 1) /\ \A p \in Pids : p >= 1
  BY JobsAssumption DEF Pids
<1>2. TableType /\ ShellType /\ ProcessType /\ OtherType
  BY <1>1 DEF Init, TableType, ShellType, ProcessType, OtherType, Free, JobStates,
     Places
<1>3. PlaceInv /\ BornInv
  BY <1>1 DEF Init, PlaceInv, BornInv, Forked, Picked, Waiting
<1>4. TableInv
  BY DEF Init, TableInv, Free, Forked
<1> QED
  BY <1>2, <1>3, <1>4 DEF Inv, Types

(***************************************************************************)
(* The table is one, and the prompt is safe: whatever the handler does     *)
(* between the steps of eval, of bg, of fg and of kill, no process has two *)
(* jobs, no id is given out twice, and no signal typed at the prompt       *)
(* reaches a process.                                                      *)
(***************************************************************************)
THEOREM TableStaysWhole == Spec => []TableAgrees
<1>1. Inv => TableAgrees
  <2>1. Inv => TypeOK
    BY DEF Inv, Types, TableType, ShellType, ProcessType, OtherType, TypeOK
  <2>2. Inv => PromptIsSafe
    BY DEF Inv, PlaceInv, PromptIsSafe, Waiting
  <2>3. Inv => /\ \A k \in Slots : (jobs[k].jid = 0 <=> jobs[k].pgid = 0)
                                   /\ jobs[k].jid < nextjid
               /\ \A k, l \in Slots : k # l /\ jobs[k].jid # 0 =>
                    jobs[k].jid # jobs[l].jid /\ jobs[k].pgid # jobs[l].pgid
    BY DEF Inv, TableInv
  <2> QED
    BY <2>1, <2>2, <2>3 DEF TableAgrees
<1> QED
  BY <1>1, InvInit, InvStep, PTL DEF Spec

-------------------------------------------------------------------------------
(***************************************************************************)
(* The second part: the processes of the table.                            *)
(***************************************************************************)
\* A group of the table is a process, of one slot, and not the one just forked.
LEMMA TableFacts ==
  ASSUME Inv
  PROVE  /\ \A k \in Slots : jobs[k].pgid # 0 => jobs[k].pgid \in Pids
         /\ \A k, l \in Slots : jobs[k].pgid # 0 /\ jobs[k].pgid = jobs[l].pgid
                                  => k = l
         /\ pc \in Forked => me \in Pids /\ \A k \in Slots : jobs[k].pgid # me
         /\ pc \in Picked => slot \in Slots
         /\ \A p \in Pids : report[p] = "stopped" => st[p] = "stopped"
         /\ \A p \in Pids : report[p] = "continued" => st[p] = "running"
         /\ \A p \in Pids : report[p] \in {"none", "stopped", "continued"}
         /\ \A p \in Pids : st[p] \in {"unborn", "running", "stopped", "zombie", "gone"}
<1>1. \A k \in Slots : jobs[k].pgid \in 0..MaxPids
  BY DEF Inv, Types, TableType
<1>2. \A k \in Slots : jobs[k].pgid # 0 => jobs[k].pgid \in Pids
  BY <1>1, JobsAssumption DEF Pids
<1>3. \A k, l \in Slots : jobs[k].pgid # 0 /\ jobs[k].pgid = jobs[l].pgid => k = l
  BY DEF Inv, TableInv
<1>4. /\ pc \in Forked => me \in Pids /\ \A k \in Slots : jobs[k].pgid # me
      /\ pc \in Picked => slot \in Slots
  BY DEF Inv, PlaceInv, TableInv
<1> QED
  BY <1>2, <1>3, <1>4 DEF Inv, Types, ProcessType

\* What an operation does to the process it is about, and to no other.
LEMMA ProcessFacts ==
  ASSUME ProcessType, NEW p \in Pids
  PROVE  /\ Ends(p) => \A q \in Pids :
              /\ st'[q] = IF q = p THEN "zombie" ELSE st[q]
              /\ report'[q] = IF q = p THEN "none" ELSE report[q]
         /\ Stops(p) => \A q \in Pids :
              /\ st'[q] = IF q = p THEN "stopped" ELSE st[q]
              /\ report'[q] = IF q = p THEN "stopped" ELSE report[q]
         /\ Reaped(p) => \A q \in Pids :
              /\ st'[q] = IF q = p /\ st[q] = "zombie" THEN "gone" ELSE st[q]
              /\ report'[q] = IF q = p THEN "none" ELSE report[q]
BY DEF ProcessType, Ends, Stops, Reaped

\* A process ends, stops or is left alone, and the shell does not move.
LEMMA OutsideSteps ==
  ASSUME Inv, ProcInv, status = "up",
         UNCHANGED tableVars, UNCHANGED <<pc, me, slot, result>>, UNCHANGED histories,
         UNCHANGED status,
         \/ UNCHANGED processVars /\ NoForgottenZombie'
         \/ \E p \in Pids :
              /\ st[p] \in {"running", "stopped"} /\ UNCHANGED handling
              /\ Ends(p) \/ (st[p] = "running" /\ Stops(p) /\ UNCHANGED sigchld)
  PROVE  ProcInv'
<1>1. CASE UNCHANGED processVars /\ NoForgottenZombie'
  BY <1>1 DEF ProcInv, ToldInv, AfterWait, HeldInv, GoneInv, StopInv, StopTold, Group, tableVars,
     processVars, histories
<1>2. ASSUME NEW p \in Pids, st[p] \in {"running", "stopped"}, UNCHANGED handling,
             Ends(p) \/ (st[p] = "running" /\ Stops(p) /\ UNCHANGED sigchld)
      PROVE  ProcInv'
  <2>1. /\ \A q \in Pids : q # p => st'[q] = st[q] /\ report'[q] = report[q]
        /\ st[p] \in {"running", "stopped"}
        /\ \/ st'[p] = "zombie" /\ sigchld' = TRUE
           \/ st[p] = "running" /\ st'[p] = "stopped" /\ report'[p] = "stopped" /\ sigchld' = sigchld
    <3>0. ProcessType /\ st[p] \in {"running", "stopped"}
      BY <1>2 DEF Inv, Types
    <3>1. CASE Ends(p)
      <4>1. sigchld' = TRUE
        BY <3>1 DEF Ends
      <4> QED
        BY <3>0, <3>1, <4>1, ProcessFacts
    <3>2. CASE st[p] = "running" /\ Stops(p) /\ UNCHANGED sigchld
      BY <3>0, <3>2, ProcessFacts
    <3> QED
      BY <1>2, <3>1, <3>2
  <2>2. UNCHANGED <<jobs, pc, me, slot, result, untracked, missed, handling, status>>
    BY <1>2 DEF tableVars, histories
  <2>3. ToldInv'
    <3>1. Group' = Group
      BY <2>2 DEF Group
    <3>2. pc = "waited" => me \in Pids
      BY TableFacts DEF Forked
    <3>3. pc \in {"fg end", "kill end"} => Group = 0 \/ Group \in Pids
      BY TableFacts DEF Picked, Group
    <3> QED
      BY <2>1, <2>2, <3>1, <3>2, <3>3 DEF ProcInv, ToldInv, AfterWait
  <2>4. HeldInv'
    BY <2>1, <2>2 DEF ProcInv, HeldInv
  <2>5. GoneInv'
    BY <2>1, <2>2, TableFacts DEF ProcInv, GoneInv, Forked
  <2>6. StopInv'
    <3>1. Group' = Group
      BY <2>2 DEF Group
    <3>2. pc = "background" => me \in Pids
      BY TableFacts DEF Forked
    <3>3. pc = "bg end" => Group = 0 \/ Group \in Pids
      BY TableFacts DEF Picked, Group
    <3> QED
      <4> DEFINE Told(q) == report'[q] = "stopped" \/ <<q, "stopped">> \in missed'
      <4>1. \A q \in Pids : /\ st'[q] = "running" => st[q] = "running"
                            /\ st'[q] = "stopped" => st[q] = "stopped" \/ Told(q)
                            /\ StopTold(q) /\ st'[q] = "stopped" => Told(q)
        BY <2>1, <2>2 DEF StopTold
      <4>2. \A k \in Slots :
              /\ jobs'[k].pgid # 0 /\ jobs'[k].state = "ST"
                   /\ st'[jobs'[k].pgid] = "running" =>
                   pc' \in {"bg end", "fg set"} /\ slot' = k
              /\ jobs'[k].pgid # 0 /\ jobs'[k].state # "ST"
                   /\ st'[jobs'[k].pgid] = "stopped" =>
                   \/ Told(jobs'[k].pgid)
                   \/ pc' = "fg end" /\ slot' = k /\ result' = "stopped"
                   \/ pc' = "fg wait" /\ slot' = k
        BY <2>2, <4>1, TableFacts DEF ProcInv, StopInv
      <4>3. /\ pc' = "bg end" /\ Group' # 0 /\ st'[Group'] = "stopped" => Told(Group')
            /\ pc' = "background" /\ st'[me'] = "stopped" => Told(me')
        BY <2>2, <3>1, <3>2, <3>3, <4>1 DEF ProcInv, StopInv
      <4> QED
        BY <4>2, <4>3 DEF StopInv, StopTold
  <2>7. NoForgottenZombie'
    BY <2>1, <2>2 DEF ProcInv, NoForgottenZombie
  <2> QED
    BY <2>3, <2>4, <2>5, <2>6, <2>7 DEF ProcInv
<1> QED
  BY <1>1, <1>2

\* The handler reads of a process: its job is deleted or marked with it.
LEMMA ReapSteps ==
  ASSUME Inv, ProcInv, NEW p \in Pids, Reap(p)
  PROVE  ProcInv'
<1>1. /\ \A q \in Pids : /\ st'[q] = IF q = p /\ st[q] = "zombie" THEN "gone" ELSE st[q]
                         /\ report'[q] = IF q = p THEN "none" ELSE report[q]
      /\ UNCHANGED <<pc, me, slot, result, untracked, status>>
      /\ handling /\ handling'
  BY ProcessFacts DEF Reap, Inv, Types, shellVars, localVars, signalVars
<1>2. \/ jobs' = jobs /\ \A k \in Slots : jobs[k].pgid # p
      \/ \E k \in Slots :
           /\ jobs[k].pgid = p
           /\ \A l \in Slots : l # k => jobs'[l] = jobs[l]
           /\ \/ st[p] = "zombie" /\ jobs'[k] = Free
              \/ report[p] = "stopped" /\ jobs'[k].pgid = p /\ jobs'[k].state = "ST"
              \/ report[p] = "continued" /\ jobs'[k].pgid = p /\ jobs'[k].state = "BG"
  <2>1. CASE jobs' = jobs /\ \A k \in Slots : jobs[k].pgid # p
    BY <2>1
  <2>2. ASSUME NEW k \in Slots, jobs[k].pgid = p,
               \/ st[p] = "zombie" /\ jobs' = [jobs EXCEPT ![k] = Free]
               \/ report[p] = "stopped" /\ jobs' = [jobs EXCEPT ![k].state = "ST"]
               \/ report[p] = "continued" /\ jobs' = [jobs EXCEPT ![k].state = "BG"]
        PROVE  /\ \A l \in Slots : l # k => jobs'[l] = jobs[l]
               /\ \/ st[p] = "zombie" /\ jobs'[k] = Free
                  \/ report[p] = "stopped" /\ jobs'[k].pgid = p /\ jobs'[k].state = "ST"
                  \/ report[p] = "continued" /\ jobs'[k].pgid = p /\ jobs'[k].state = "BG"
    BY <2>2 DEF Inv, Types, TableType
  <2> QED
    BY <2>1, <2>2, ReapStep DEF Inv
<1>3. /\ missed \subseteq missed'
      /\ st[p] \in {"zombie", "stopped"} /\ pc \in {"waited", "background"} /\ me = p =>
           <<p, st[p]>> \in missed'
      /\ st[p] \in {"zombie", "stopped"} /\ pc = "bg end" /\ Group = p =>
           <<p, st[p]>> \in missed'
  <2>1. ASSUME pc = "bg end", Group = p
        PROVE  slot = get_job_by_pgid(p)
    <3>1. slot \in Slots /\ jobs[slot].pgid = p /\ p # 0
      BY <2>1, TableFacts, Numbers DEF Group, Picked
    <3>2. get_job_by_pgid(p) \in Slots /\ jobs[get_job_by_pgid(p)].pgid = p
      BY <3>1, Found
    <3> QED
      BY <3>1, <3>2, TableFacts
  <2> QED
    BY <2>1 DEF Reap
<1>4. Free.pgid = 0 /\ p # 0
  BY Numbers DEF Free
<1>5. /\ pc \in Picked => Group' = 0 \/ (Group' = Group /\ Group' \in Pids)
      /\ pc \in Forked => me \in Pids
  <2>1. pc \in Picked => Group' = Group \/ Group' = 0
    BY <1>1, <1>2, <1>4, TableFacts DEF Group
  <2>2. pc \in Picked => Group = 0 \/ Group \in Pids
    BY TableFacts DEF Group
  <2> QED
    BY <2>1, <2>2, TableFacts
<1>10. ToldInv'
  BY <1>1, <1>5 DEF ProcInv, ToldInv, AfterWait, Forked, Picked
<1>6. HeldInv'
  BY <1>1, <1>2, <1>4, TableFacts DEF ProcInv, HeldInv
<1>11. \A k \in Slots :
         \/ jobs'[k].pgid = 0
         \/ jobs'[k] = jobs[k] /\ jobs[k].pgid # p
         \/ /\ jobs'[k].pgid = p /\ jobs[k].pgid = p
            /\ \/ report[p] = "stopped" /\ jobs'[k].state = "ST"
               \/ report[p] = "continued" /\ jobs'[k].state = "BG"
  BY <1>2, <1>4, TableFacts
<1>7. GoneInv'
  <2>1. st'[p] = "gone" => st[p] \in {"zombie", "gone"}
    BY <1>1
  <2>2. report[p] # "none" => st[p] \notin {"zombie", "gone"}
    BY TableFacts
  <2>3. \A k \in Slots : jobs'[k].pgid # 0 /\ st'[jobs'[k].pgid] = "gone" =>
          jobs'[k] = jobs[k] /\ st[jobs[k].pgid] = "gone"
    BY <1>1, <1>11, <2>1, <2>2, TableFacts
  <2> QED
    BY <1>1, <1>3, <1>5, <2>3 DEF ProcInv, GoneInv, Forked
<1>8. StopInv'
  <2> DEFINE Told(q) == report'[q] = "stopped" \/ <<q, "stopped">> \in missed'
  <2>1. \A q \in Pids : st'[q] \in {"running", "stopped"} => st'[q] = st[q]
    BY <1>1
  <2>2. \A q \in Pids : q # p /\ StopTold(q) => StopTold(q)'
    BY <1>1, <1>3 DEF StopTold
  <2> QED
    <3>1. ASSUME NEW k \in Slots, jobs'[k].pgid # 0
          PROVE  /\ jobs'[k].state = "ST" /\ st'[jobs'[k].pgid] = "running" =>
                      pc \in {"bg end", "fg set"} /\ slot = k
                 /\ jobs'[k].state # "ST" /\ st'[jobs'[k].pgid] = "stopped" =>
                      \/ Told(jobs'[k].pgid)
                      \/ pc = "fg end" /\ slot = k /\ result = "stopped"
                      \/ pc = "fg wait" /\ slot = k
      <4>1. CASE jobs'[k] = jobs[k] /\ jobs[k].pgid # p
        <5>1. jobs[k].pgid \in Pids
          BY <3>1, <4>1, TableFacts
        <5> QED
          BY <3>1, <4>1, <5>1, <2>1, <2>2 DEF ProcInv, StopInv, StopTold
      <4>2. CASE jobs'[k].pgid = p /\ report[p] = "stopped" /\ jobs'[k].state = "ST"
        BY <2>1, <4>2, TableFacts
      <4>3. CASE jobs'[k].pgid = p /\ report[p] = "continued" /\ jobs'[k].state = "BG"
        BY <2>1, <4>3, TableFacts
      <4> QED
        BY <1>11, <3>1, <4>1, <4>2, <4>3
    <3>3. pc = "bg end" =>
            \/ Group' = 0 \/ st'[Group'] # "stopped"
            \/ report'[Group'] = "stopped" \/ <<Group', "stopped">> \in missed'
      <4>1. CASE pc = "bg end" /\ Group' = Group /\ Group \in Pids /\ Group # p
        BY <1>1, <1>3, <2>1, <4>1, Numbers DEF ProcInv, StopInv, StopTold
      <4>2. CASE pc = "bg end" /\ Group' = p /\ Group = p
        BY <1>3, <2>1, <4>2
      <4> QED
        BY <1>5, <4>1, <4>2 DEF Picked
    <3>4. pc = "background" /\ st'[me] = "stopped" =>
            report'[me] = "stopped" \/ <<me, "stopped">> \in missed'
      BY <1>1, <1>3, <1>5, <2>1 DEF ProcInv, StopInv, StopTold, Forked
    <3>5. \A k \in Slots :
       /\ jobs'[k].pgid # 0 /\ jobs'[k].state = "ST" /\ st'[jobs'[k].pgid] = "running" =>
            pc' \in {"bg end", "fg set"} /\ slot' = k
       /\ jobs'[k].pgid # 0 /\ jobs'[k].state # "ST" /\ st'[jobs'[k].pgid] = "stopped" =>
            \/ Told(jobs'[k].pgid)
            \/ pc' = "fg end" /\ slot' = k /\ result' = "stopped"
            \/ pc' = "fg wait" /\ slot' = k
      BY <1>1, <3>1
    <3> QED
      BY <1>1, <3>3, <3>4, <3>5 DEF StopInv, StopTold
<1>9. NoForgottenZombie'
  BY <1>1 DEF NoForgottenZombie
<1> QED
  BY <1>10, <1>6, <1>7, <1>8, <1>9 DEF ProcInv

\* The shell goes where nothing is known of a process but that it was forked.
LEMMA PlaceMoves ==
  ASSUME Inv, ProcInv, UNCHANGED tableVars, UNCHANGED histories, UNCHANGED processVars,
         pc' \in {"prompt", "eval", "foreground", "wait", "bg", "fg", "kill"},
         pc \in {"prompt", "eval", "foreground"},
         pc \in Forked => pc' \in Forked /\ me' = me, NoForgottenZombie'
  PROVE  ProcInv'
BY DEF ProcInv, ToldInv, AfterWait, HeldInv, GoneInv, StopInv, StopTold, Group, Forked, tableVars,
   processVars, histories

\* A process is forked: the one of Launch is held by eval, a pipeline's is not.
LEMMA ForkSteps ==
  ASSUME Inv, ProcInv, Fork, UNCHANGED <<jobs, missed, sigchld, handling, status>>,
         pc = "eval",
         \/ /\ pc' \in {"foreground", "background"} /\ me' = nextpid
            /\ untracked' = untracked
         \/ pc' \in {"eval", "pipe wait"} /\ untracked' = untracked \cup {nextpid}
  PROVE  ProcInv'
<1>1. /\ nextpid \in Pids /\ st[nextpid] = "unborn"
      /\ \A q \in Pids : /\ st'[q] = IF q = nextpid THEN "running" ELSE st[q]
                         /\ report'[q] = report[q]
  <2>1. nextpid \in Pids /\ ProcessType
    BY DEF Fork, Inv, Types
  <2>2. nextpid >= nextpid
    BY <2>1, Numbers
  <2> QED
    BY <2>1, <2>2 DEF Fork, ProcessType, Inv, BornInv
<1>2. \A k \in Slots :
        jobs[k].pgid # 0 => jobs[k].pgid \in Pids /\ jobs[k].pgid # nextpid
  <2>1. \A k \in Slots : jobs[k].pgid < nextpid
    BY DEF Inv, TableInv
  <2>2. ~(nextpid < nextpid)
    BY <1>1, Numbers
  <2> QED
    BY <2>1, <2>2, TableFacts
<1>3. ToldInv'
  BY DEF ToldInv, AfterWait
<1>4. HeldInv'
  BY <1>1 DEF ProcInv, HeldInv, Forked
<1>5. GoneInv'
  BY <1>1, <1>2 DEF ProcInv, GoneInv
<1>6. StopInv'
  BY <1>1, <1>2 DEF ProcInv, StopInv, StopTold
<1>7. NoForgottenZombie'
  BY <1>1 DEF ProcInv, NoForgottenZombie
<1> QED
  BY <1>3, <1>4, <1>5, <1>6, <1>7 DEF ProcInv

\* waitpid tells of p, or that it is gone.
LEMMA WaitedFacts ==
  ASSUME Inv, NEW p \in Pids, Waited(p)
  PROVE  /\ \A q \in Pids \ {p} : st'[q] = st[q] /\ report'[q] = report[q]
         /\ \/ st[p] \in {"zombie", "gone"} /\ st'[p] = "gone" /\ result' # "stopped"
            \/ st[p] = "stopped" /\ st'[p] = "stopped" /\ result' = "stopped"
<1>1. ProcessType /\ p # 0
  BY Numbers DEF Inv, Types
<1>2. CASE st[p] = "zombie" /\ Reaped(p) /\ result' = "exited"
  BY <1>1, <1>2, ProcessFacts
<1>3. CASE report[p] = "stopped" /\ Reaped(p) /\ result' = "stopped"
  <2>1. st[p] = "stopped"
    BY <1>3, TableFacts
  <2> QED
    BY <1>1, <1>3, <2>1, ProcessFacts
<1>4. CASE st[p] = "gone" /\ result' = "none" /\ UNCHANGED processVars
  BY <1>4 DEF processVars
<1> QED
  BY <1>1, <1>2, <1>3, <1>4 DEF Waited

\* waitpid tells eval of the process it forked, which has no job yet.
LEMMA WaitStep ==
  ASSUME Inv, ProcInv, Wait
  PROVE  ProcInv'
<1>1. /\ pc = "wait" /\ pc' = "waited"
      /\ UNCHANGED <<jobs, me, untracked, missed, sigchld, handling, status>>
  BY DEF Wait, At, Goto, tableVars, signalVars, histories
<1>2. me \in Pids /\ \A k \in Slots : jobs[k].pgid # me
  BY <1>1, TableFacts DEF Forked
<1>3. /\ \A q \in Pids \ {me} : st'[q] = st[q] /\ report'[q] = report[q]
      /\ \/ st[me] \in {"zombie", "gone"} /\ st'[me] = "gone" /\ result' # "stopped"
         \/ st[me] = "stopped" /\ st'[me] = "stopped" /\ result' = "stopped"
  BY <1>2, WaitedFacts DEF Wait
<1>4. ToldInv'
  BY <1>1, <1>3 DEF ToldInv, AfterWait
<1>5. HeldInv'
  BY <1>1, <1>2, <1>3 DEF ProcInv, HeldInv, Forked
<1>6. GoneInv'
  BY <1>1, <1>2, <1>3, TableFacts DEF ProcInv, GoneInv
<1>7. StopInv'
  BY <1>1, <1>2, <1>3, TableFacts DEF ProcInv, StopInv, StopTold
<1>8. NoForgottenZombie'
  BY <1>1, <1>2, <1>3 DEF ProcInv, NoForgottenZombie
<1> QED
  BY <1>4, <1>5, <1>6, <1>7, <1>8 DEF ProcInv

\* The process eval forked is given its job, if there is a slot for it.
LEMMA AddSteps ==
  ASSUME Inv, ProcInv, EvalEnd \/ Background
  PROVE  ProcInv'
<1>1. /\ pc \in {"waited", "background"} /\ pc' = "prompt" /\ UNCHANGED processVars
      /\ UNCHANGED <<missed, sigchld, handling, status>>
  BY DEF EvalEnd, Background, At, Return, Goto, signalVars
<1>2. me \in Pids /\ \A k \in Slots : jobs[k].pgid # me
  BY <1>1, TableFacts DEF Forked
<1>3. \/ jobs' = jobs /\ untracked' = untracked /\ st[me] = "gone"
      \/ jobs' = jobs /\ untracked' = untracked \cup {me}
      \/ /\ untracked' = untracked /\ (pc = "waited" => result = "stopped")
         /\ \E k \in Slots : /\ jobs[k].pgid = 0 /\ jobs'[k].pgid = me
                             /\ jobs'[k].state = IF pc = "waited" THEN "ST" ELSE "BG"
                             /\ \A l \in Slots : l # k => jobs'[l] = jobs[l]
  <2>1. ASSUME NEW s, add_job(me, s)
        PROVE  \/ jobs' = jobs /\ untracked' = untracked \cup {me}
               \/ /\ untracked' = untracked
                  /\ \E k \in Slots : /\ jobs[k].pgid = 0 /\ jobs'[k].pgid = me
                                      /\ jobs'[k].state = s
                                      /\ \A l \in Slots : l # k => jobs'[l] = jobs[l]
    <3>1. TableType /\ \A k \in Slots : jobs[k].jid = 0 => jobs[k].pgid = 0
      BY DEF Inv, Types, TableInv
    <3> QED
      BY <2>1, <3>1, AddJob DEF TableType, Job, tableVars
  <2>2. CASE EvalEnd
    <3>1. pc = "waited" /\ (result # "stopped" => st[me] = "gone")
      BY <2>2 DEF EvalEnd, At, ProcInv, ToldInv, AfterWait
    <3> QED
      BY <2>1, <2>2, <3>1 DEF EvalEnd, tableVars
  <2>3. CASE Background
    BY <2>1, <2>3 DEF Background, At
  <2> QED
    BY <2>2, <2>3
<1>4. ToldInv'
  BY <1>1 DEF ToldInv, AfterWait
<1>5. HeldInv'
  BY <1>1, <1>2, <1>3, Numbers DEF ProcInv, HeldInv, processVars
<1>6. \A k \in Slots : \/ jobs'[k] = jobs[k]
                       \/ /\ jobs'[k].pgid = me
                          /\ pc = "waited" => /\ result = "stopped" /\ jobs'[k].state = "ST"
                                              /\ st[me] # "running"
                          /\ pc = "background" => jobs'[k].state = "BG"
  BY <1>1, <1>3 DEF ProcInv, ToldInv, AfterWait
<1>9. GoneInv'
  <2>1. ASSUME NEW k \in Slots, jobs'[k].pgid # 0, st[jobs'[k].pgid] = "gone"
        PROVE  <<jobs'[k].pgid, "zombie">> \in missed
    <3>1. CASE jobs'[k] = jobs[k]
      BY <1>1, <2>1, <3>1 DEF ProcInv, GoneInv
    <3>2. CASE jobs'[k].pgid = me /\ (pc = "waited" => result = "stopped")
      BY <1>1, <2>1, <3>2 DEF ProcInv, GoneInv
    <3> QED
      BY <1>6, <3>1, <3>2
  <2> QED
    BY <1>1, <2>1 DEF GoneInv, processVars
<1>7. StopInv'
  <2>1. ASSUME NEW k \in Slots, jobs'[k].pgid # 0
        PROVE  /\ jobs'[k].state = "ST" => st[jobs'[k].pgid] # "running"
               /\ jobs'[k].state # "ST" /\ st[jobs'[k].pgid] = "stopped" =>
                    StopTold(jobs'[k].pgid)
    <3>1. CASE jobs'[k] = jobs[k]
      BY <1>1, <2>1, <3>1 DEF ProcInv, StopInv
    <3>2. CASE jobs'[k].pgid = me /\ pc = "waited"
      BY <1>1, <1>6, <2>1, <3>1, <3>2
    <3>3. CASE jobs'[k].pgid = me /\ pc = "background" /\ jobs'[k].state = "BG"
      BY <1>1, <3>3 DEF ProcInv, StopInv
    <3> QED
      BY <1>1, <1>6, <3>1, <3>2, <3>3
  <2> QED
    BY <1>1, <2>1 DEF StopInv, StopTold, processVars
<1>8. NoForgottenZombie'
  BY <1>1 DEF ProcInv, NoForgottenZombie, processVars
<1> QED
  BY <1>4, <1>5, <1>7, <1>8, <1>9 DEF ProcInv

\* bg and fg continue the process of their slot, if it is stopped.
LEMMA ContinueSteps ==
  ASSUME Inv, ProcInv, BgContinue \/ FgContinue
  PROVE  ProcInv'
<1>1. /\ pc \in {"bg", "fg"} /\ pc' \in {"bg end", "fg set"}
      /\ UNCHANGED <<jobs, me, slot, untracked, missed, sigchld, handling, status>>
  BY DEF BgContinue, FgContinue, At, Goto, tableVars, localVars, signalVars, histories
<1>2. slot \in Slots /\ (Group # 0 => Group \in Pids) /\ Group' = Group
  BY <1>1, TableFacts DEF Group, Picked
<1>3. \/ UNCHANGED processVars /\ (Group # 0 => st[Group] # "stopped")
      \/ /\ Group \in Pids /\ st[Group] = "stopped" /\ st'[Group] = "running"
         /\ \A q \in Pids \ {Group} : st'[q] = st[q] /\ report'[q] = report[q]
  BY <1>2 DEF BgContinue, FgContinue, Continue, Group, Inv, Types, ProcessType
<1>4. ToldInv'
  BY <1>1 DEF ToldInv, AfterWait
<1>5. HeldInv'
  BY <1>1, <1>3 DEF ProcInv, HeldInv, Forked, processVars
<1>6. GoneInv'
  BY <1>1, <1>3, TableFacts DEF ProcInv, GoneInv, processVars
<1>7. StopInv'
  <2>1. ASSUME NEW k \in Slots, jobs[k].pgid # 0
        PROVE  /\ jobs[k].state = "ST" /\ st'[jobs[k].pgid] = "running" => slot = k
               /\ jobs[k].state # "ST" /\ st'[jobs[k].pgid] = "stopped" =>
                    StopTold(jobs[k].pgid)'
    <3>1. CASE k # slot
      <4>1. jobs[k].pgid \in Pids /\ jobs[k].pgid # Group
        BY <1>2, <2>1, <3>1, TableFacts DEF Group
      <4>2. /\ st'[jobs[k].pgid] = st[jobs[k].pgid]
            /\ report'[jobs[k].pgid] = report[jobs[k].pgid]
        BY <1>3, <4>1 DEF processVars
      <4> QED
        BY <1>1, <2>1, <3>1, <4>2 DEF ProcInv, StopInv, StopTold
    <3>2. CASE k = slot
      BY <1>1, <1>3, <2>1, <3>2 DEF Group, processVars
    <3> QED
      BY <3>1, <3>2
  <2>2. Group # 0 => st'[Group] # "stopped"
    BY <1>3 DEF processVars
  <2> QED
    BY <1>1, <1>2, <2>1, <2>2 DEF StopInv, StopTold
<1>8. NoForgottenZombie'
  BY <1>1, <1>2, <1>3 DEF ProcInv, NoForgottenZombie, processVars
<1> QED
  BY <1>4, <1>5, <1>6, <1>7, <1>8 DEF ProcInv

\* bg and fg mark their slot after that.
LEMMA MarkSteps ==
  ASSUME Inv, ProcInv, BgEnd \/ FgSet
  PROVE  ProcInv'
<1>1. /\ \/ pc = "bg end" /\ pc' = "prompt"
         \/ pc = "fg set" /\ pc' = "fg wait" /\ slot' = slot
      /\ UNCHANGED processVars
      /\ UNCHANGED <<untracked, missed, sigchld, handling, status>>
  BY DEF BgEnd, FgSet, At, Return, Goto, localVars, signalVars, histories
<1>2. slot \in Slots
  BY <1>1, TableFacts DEF Picked
<1>3. \A k \in Slots : /\ jobs'[k].pgid = jobs[k].pgid
                       /\ jobs'[k].state = IF k # slot THEN jobs[k].state
                                           ELSE IF pc = "bg end" THEN "BG" ELSE "FG"
  <2>1. jobs \in [Slots -> [jid : Nat, pgid : Nat, state : JobStates]]
    BY DEF Inv, Types, TableType, Job
  <2>2. jobs' = [jobs EXCEPT ![slot].state = IF pc = "bg end" THEN "BG" ELSE "FG"]
    BY DEF BgEnd, FgSet, At, Marked
  <2> QED
    BY <1>2, <2>1, <2>2
<1>4. ToldInv'
  BY <1>1 DEF ToldInv, AfterWait
<1>5. HeldInv'
  <2>1. \A p : (\E k \in Slots : jobs[k].pgid = p) => \E k \in Slots : jobs'[k].pgid = p
    BY <1>3
  <2> QED
    BY <1>1, <2>1 DEF ProcInv, HeldInv, Forked, processVars
<1>6. GoneInv'
  BY <1>1, <1>3 DEF ProcInv, GoneInv, processVars
<1>7. StopInv'
  <2>1. ASSUME NEW k \in Slots, jobs'[k].pgid # 0
        PROVE  /\ jobs'[k].state = "ST" => st[jobs[k].pgid] # "running"
               /\ jobs'[k].state # "ST" /\ st[jobs[k].pgid] = "stopped" =>
                    StopTold(jobs[k].pgid) \/ (pc' = "fg wait" /\ slot' = k)
    <3>1. CASE k # slot
      BY <1>1, <1>3, <2>1, <3>1 DEF ProcInv, StopInv
    <3>2. CASE k = slot
      BY <1>1, <1>3, <2>1, <3>2 DEF ProcInv, StopInv, Group
    <3> QED
      BY <3>1, <3>2
  <2> QED
    BY <1>1, <1>3, <2>1 DEF StopInv, StopTold, processVars
<1>8. NoForgottenZombie'
  BY <1>1 DEF ProcInv, NoForgottenZombie, processVars
<1> QED
  BY <1>4, <1>5, <1>6, <1>7, <1>8 DEF ProcInv

\* waitpid tells fg of the process of its slot.
LEMMA FgWaitStep ==
  ASSUME Inv, ProcInv, FgWait
  PROVE  ProcInv'
<1>1. /\ pc = "fg wait" /\ pc' = "fg end"
      /\ UNCHANGED <<jobs, me, slot, untracked, missed, sigchld, handling, status>>
  BY DEF FgWait, At, Goto, tableVars, signalVars, histories
<1>2. slot \in Slots /\ (Group # 0 => Group \in Pids) /\ Group' = Group
  BY <1>1, TableFacts DEF Group, Picked
<1>3. \/ Group = 0 /\ UNCHANGED processVars
      \/ /\ Group \in Pids
         /\ \A q \in Pids \ {Group} : st'[q] = st[q] /\ report'[q] = report[q]
         /\ \/ st[Group] \in {"zombie", "gone"} /\ st'[Group] = "gone"
               /\ result' # "stopped"
            \/ st[Group] = "stopped" /\ st'[Group] = "stopped" /\ result' = "stopped"
  <2>1. Waited(Group)
    BY DEF FgWait, Group
  <2>2. CASE Group = 0
    BY <2>1, <2>2 DEF Waited
  <2>3. CASE Group \in Pids
    BY <2>1, <2>3, WaitedFacts
  <2> QED
    BY <1>2, <2>2, <2>3
<1>0. Group \in Pids /\ st[Group] = "zombie" => result' = "exited"
  BY <1>2, Numbers, TableFacts DEF FgWait, Waited, Group
<1>4. ToldInv'
  BY <1>1, <1>2, <1>3 DEF ToldInv, AfterWait
<1>5. HeldInv'
  BY <1>1, <1>3 DEF ProcInv, HeldInv, Forked, processVars
<1>6. ASSUME NEW k \in Slots, k # slot, jobs[k].pgid # 0
      PROVE  /\ jobs[k].pgid \in Pids
             /\ st'[jobs[k].pgid] = st[jobs[k].pgid]
             /\ report'[jobs[k].pgid] = report[jobs[k].pgid]
  <2>1. jobs[k].pgid \in Pids /\ jobs[k].pgid # Group
    BY <1>2, <1>6, TableFacts DEF Group
  <2> QED
    BY <1>3, <2>1 DEF processVars
<1>7. GoneInv'
  <2>1. ASSUME NEW k \in Slots, jobs[k].pgid # 0, st'[jobs[k].pgid] = "gone"
        PROVE  <<jobs[k].pgid, "zombie">> \in missed \/ (slot = k /\ result' = "exited")
    <3>1. CASE k # slot
      BY <1>1, <1>6, <2>1, <3>1 DEF ProcInv, GoneInv
    <3>2. CASE k = slot
      BY <1>0, <1>1, <1>3, <2>1, <3>2 DEF ProcInv, GoneInv, Group
    <3> QED
      BY <3>1, <3>2
  <2> QED
    BY <1>1, <2>1 DEF GoneInv
<1>8. StopInv'
  <2>1. ASSUME NEW k \in Slots, jobs[k].pgid # 0
        PROVE  /\ jobs[k].state = "ST" => st'[jobs[k].pgid] # "running"
               /\ jobs[k].state # "ST" /\ st'[jobs[k].pgid] = "stopped" =>
                    \/ StopTold(jobs[k].pgid)'
                    \/ slot = k /\ result' = "stopped"
    <3>1. CASE k # slot
      BY <1>1, <1>6, <2>1, <3>1 DEF ProcInv, StopInv, StopTold
    <3>2. CASE k = slot
      BY <1>3, <2>1, <3>2 DEF Group
    <3> QED
      BY <3>1, <3>2
  <2> QED
    BY <1>1, <2>1 DEF StopInv, StopTold
<1>9. NoForgottenZombie'
  BY <1>1, <1>2, <1>3 DEF ProcInv, NoForgottenZombie, processVars
<1> QED
  BY <1>4, <1>5, <1>7, <1>8, <1>9 DEF ProcInv

\* fg deletes the job of its slot, or marks it with what waitpid told.
LEMMA FgEndStep ==
  ASSUME Inv, ProcInv, FgEnd
  PROVE  ProcInv'
<1>1. /\ pc = "fg end" /\ pc' = "prompt" /\ UNCHANGED processVars
      /\ UNCHANGED <<untracked, missed, sigchld, handling, status>>
  BY DEF FgEnd, At, Return, Goto, signalVars, histories
<1>2. /\ slot \in Slots /\ (Group # 0 => Group \in Pids)
      /\ Group # 0 => st[Group] \in AfterWait
  BY <1>1, TableFacts DEF Group, Picked, ProcInv, ToldInv
<1>3. \A k \in Slots :
        \/ k # slot /\ jobs'[k] = jobs[k]
        \/ jobs'[k].pgid = 0 /\ jobs[k].pgid = Group /\ result # "stopped"
        \/ /\ k = slot /\ jobs'[k].pgid = Group /\ jobs'[k].state = "ST"
           /\ result # "exited"
  <2>1. CASE Marked(slot, "ST") /\ result # "exited"
    BY <1>2, <2>1 DEF Marked, Group, Inv, Types, TableType
  <2>2. CASE delete_job(Group) /\ result # "stopped"
    <3>1. TableType /\ Free.pgid = 0 /\ jobs[slot].pgid = Group
      BY DEF Inv, Types, Free, Group
    <3>2. PICK k \in Slots : jobs[k].pgid = Group /\ jobs' = [jobs EXCEPT ![k] = Free]
      BY <1>2, <2>2, <3>1, DeleteJob
    <3>3. k = slot \/ jobs[slot].pgid = 0
      BY <1>2, <3>1, <3>2, TableFacts
    <3> QED
      BY <1>2, <2>2, <3>1, <3>2, <3>3 DEF TableType
  <2> QED
    BY <2>1, <2>2 DEF FgEnd, Group
<1>4. ToldInv'
  BY <1>1 DEF ToldInv, AfterWait
<1>5. HeldInv'
  <2>1. ASSUME NEW p \in Pids \ untracked, st[p] \in {"running", "stopped"}
        PROVE  \E k \in Slots : jobs'[k].pgid = p
    <3>1. PICK k \in Slots : jobs[k].pgid = p
      BY <1>1, <2>1 DEF ProcInv, HeldInv, Forked
    <3>2. p = Group => result = "stopped"
      BY <1>2, <2>1, Numbers DEF AfterWait
    <3> QED
      BY <1>2, <1>3, <2>1, <3>1, <3>2, Numbers DEF Group
  <2> QED
    BY <1>1, <2>1 DEF HeldInv, processVars
<1>6. GoneInv'
  <2>1. ASSUME NEW k \in Slots, jobs'[k].pgid # 0, st[jobs'[k].pgid] = "gone"
        PROVE  <<jobs'[k].pgid, "zombie">> \in missed
    BY <1>1, <1>2, <1>3, <2>1 DEF ProcInv, GoneInv, Group
  <2> QED
    BY <1>1, <2>1 DEF GoneInv, processVars
<1>7. StopInv'
  <2>1. ASSUME NEW k \in Slots, jobs'[k].pgid # 0
        PROVE  /\ jobs'[k].state = "ST" => st[jobs'[k].pgid] # "running"
               /\ jobs'[k].state # "ST" /\ st[jobs'[k].pgid] = "stopped" =>
                    StopTold(jobs'[k].pgid)
    BY <1>1, <1>2, <1>3, <2>1 DEF ProcInv, StopInv, AfterWait
  <2> QED
    BY <1>1, <2>1 DEF StopInv, StopTold, processVars
<1>8. NoForgottenZombie'
  BY <1>1 DEF ProcInv, NoForgottenZombie, processVars
<1> QED
  BY <1>4, <1>5, <1>6, <1>7, <1>8 DEF ProcInv

\* kill ends the process of its slot, and does not wait for it.
LEMMA KillStep ==
  ASSUME Inv, ProcInv, Kill, status' = "up" => status = "up"
  PROVE  ProcInv'
<1>1. /\ pc = "kill" /\ pc' = "kill end"
      /\ UNCHANGED <<jobs, me, slot, untracked, missed, handling>>
  BY DEF Kill, At, Goto, tableVars, localVars, histories
<1>2. slot \in Slots /\ (Group # 0 => Group \in Pids) /\ Group' = Group
  BY <1>1, TableFacts DEF Group, Picked
<1>3. \/ UNCHANGED processVars /\ UNCHANGED sigchld
         /\ (Group # 0 => st[Group] \in {"zombie", "gone"})
      \/ /\ Group \in Pids /\ st[Group] \in {"running", "stopped"}
         /\ st'[Group] = "zombie" /\ sigchld' = TRUE
         /\ \A q \in Pids \ {Group} : st'[q] = st[q] /\ report'[q] = report[q]
  <2>1. \/ UNCHANGED processVars /\ UNCHANGED sigchld
           /\ (Group # 0 => st[Group] \notin {"running", "stopped"})
        \/ Group # 0 /\ st[Group] \in {"running", "stopped"} /\ Ends(Group)
    BY DEF Kill, Group
  <2>2. Group # 0 => st[Group] # "unborn"
    <3>1. Group < nextpid
      BY <1>2 DEF Group, Inv, TableInv
    <3>2. Group # 0 => Group \in Nat /\ nextpid \in Nat
      BY <1>2, Numbers, JobsAssumption DEF Inv, Types, ProcessType
    <3>3. Group # 0 => ~(Group >= nextpid)
      BY <3>1, <3>2
    <3> QED
      BY <1>2, <3>3 DEF Inv, BornInv
  <2>3. ProcessType
    BY DEF Inv, Types
  <2>4. CASE Group # 0 /\ st[Group] \in {"running", "stopped"} /\ Ends(Group)
    <3>1. sigchld' = TRUE
      BY <2>4 DEF Ends
    <3> QED
      BY <1>2, <2>3, <2>4, <3>1, ProcessFacts
  <2>5. Group # 0 /\ st[Group] \notin {"running", "stopped"} =>
          st[Group] \in {"zombie", "gone"}
    BY <1>2, <2>2, TableFacts
  <2> QED
    BY <2>1, <2>4, <2>5
<1>4. ToldInv'
  BY <1>1, <1>2, <1>3 DEF ToldInv, AfterWait, processVars
<1>5. HeldInv'
  BY <1>1, <1>3 DEF ProcInv, HeldInv, Forked, processVars
<1>6. ASSUME NEW k \in Slots, jobs[k].pgid # 0
      PROVE  \/ st'[jobs[k].pgid] = "zombie"
             \/ /\ st'[jobs[k].pgid] = st[jobs[k].pgid]
                /\ report'[jobs[k].pgid] = report[jobs[k].pgid]
  BY <1>3, <1>6, TableFacts DEF processVars
<1>7. GoneInv'
  BY <1>1, <1>6 DEF ProcInv, GoneInv
<1>8. StopInv'
  BY <1>1, <1>6 DEF ProcInv, StopInv, StopTold
<1>9. NoForgottenZombie'
  BY <1>1, <1>3 DEF ProcInv, NoForgottenZombie, processVars
<1> QED
  BY <1>4, <1>5, <1>7, <1>8, <1>9 DEF ProcInv

\* kill deletes the job of its slot; the process no longer runs.
LEMMA KillEndStep ==
  ASSUME Inv, ProcInv, KillEnd
  PROVE  ProcInv'
<1>1. /\ pc = "kill end" /\ pc' = "prompt" /\ UNCHANGED processVars
      /\ UNCHANGED <<untracked, missed, sigchld, handling, status>>
  BY DEF KillEnd, At, Return, Goto, signalVars, histories
<1>2. \A k \in Slots : \/ jobs'[k] = jobs[k]
                       \/ jobs'[k].pgid = 0 /\ jobs[k].pgid = Group
  <2>1. TableType /\ Free.pgid = 0 /\ delete_job(Group)
    BY DEF KillEnd, Group, Inv, Types, Free
  <2>2. CASE \E k \in Slots : jobs[k].pgid = Group /\ jobs' = [jobs EXCEPT ![k] = Free]
    BY <2>1, <2>2 DEF TableType
  <2> QED
    BY <2>1, <2>2, DeleteJob
<1>3. Group = 0 \/ st[Group] \in {"zombie", "gone"}
  BY <1>1 DEF ProcInv, ToldInv, AfterWait
<1>4. ToldInv'
  BY <1>1 DEF ToldInv, AfterWait
<1>5. HeldInv'
  <2>1. ASSUME NEW p \in Pids \ untracked, st[p] \in {"running", "stopped"}
        PROVE  \E k \in Slots : jobs'[k].pgid = p
    <3>1. PICK k \in Slots : jobs[k].pgid = p
      BY <1>1, <2>1 DEF ProcInv, HeldInv, Forked
    <3> QED
      BY <1>2, <1>3, <2>1, <3>1, Numbers
  <2> QED
    BY <1>1, <2>1 DEF HeldInv, processVars
<1>6. GoneInv'
  BY <1>1, <1>2 DEF ProcInv, GoneInv, processVars
<1>7. StopInv'
  BY <1>1, <1>2 DEF ProcInv, StopInv, StopTold, processVars
<1>8. NoForgottenZombie'
  BY <1>1 DEF ProcInv, NoForgottenZombie, processVars
<1> QED
  BY <1>4, <1>5, <1>6, <1>7, <1>8 DEF ProcInv

\* A pipeline's wait(0) may reap a process that has a job: the table misses it.
LEMMA PipeWaitStep ==
  ASSUME Inv, ProcInv, PipeWait
  PROVE  ProcInv'
<1>1. /\ pc = "pipe wait" /\ pc' \in {"pipe wait", "prompt"}
      /\ UNCHANGED <<jobs, untracked, sigchld, handling, status>>
  BY DEF PipeWait, At, Return, Goto, tableVars, signalVars
<1>2. \/ UNCHANGED processVars /\ UNCHANGED missed
      \/ \E p \in Pids :
           /\ st[p] = "zombie" /\ st'[p] = "gone" /\ missed \subseteq missed'
           /\ \A q \in Pids \ {p} : st'[q] = st[q] /\ report'[q] = report[q]
           /\ (\E k \in Slots : jobs[k].pgid = p) => <<p, "zombie">> \in missed'
  <2>1. CASE UNCHANGED processVars /\ UNCHANGED missed
    BY <2>1
  <2>2. ASSUME NEW p \in Pids, st[p] = "zombie", Reaped(p),
               missed' = missed \cup
                 IF get_job_by_pgid(p) # 0 THEN {<<p, "zombie">>} ELSE {}
        PROVE  /\ st[p] = "zombie" /\ st'[p] = "gone" /\ missed \subseteq missed'
               /\ \A q \in Pids \ {p} : st'[q] = st[q] /\ report'[q] = report[q]
               /\ (\E k \in Slots : jobs[k].pgid = p) => <<p, "zombie">> \in missed'
    <3>1. (\E k \in Slots : jobs[k].pgid = p) => get_job_by_pgid(p) # 0
      BY Found, Numbers
    <3>2. ProcessType
      BY DEF Inv, Types
    <3> QED
      BY <2>2, <3>1, <3>2, ProcessFacts
  <2> QED
    BY <2>1, <2>2 DEF PipeWait
<1>3. ToldInv'
  BY <1>1 DEF ToldInv, AfterWait
<1>4. HeldInv'
  BY <1>1, <1>2 DEF ProcInv, HeldInv, Forked, processVars
<1>5. ASSUME NEW k \in Slots, jobs[k].pgid # 0
      PROVE  \/ st'[jobs[k].pgid] = "gone" /\ <<jobs[k].pgid, "zombie">> \in missed'
             \/ /\ st'[jobs[k].pgid] = st[jobs[k].pgid]
                /\ report'[jobs[k].pgid] = report[jobs[k].pgid]
  BY <1>2, <1>5, TableFacts DEF processVars
<1>6. missed \subseteq missed'
  BY <1>2
<1>7. GoneInv'
  BY <1>1, <1>5, <1>6 DEF ProcInv, GoneInv
<1>8. StopInv'
  BY <1>1, <1>5, <1>6 DEF ProcInv, StopInv, StopTold
<1>9. NoForgottenZombie'
  BY <1>1, <1>2 DEF ProcInv, NoForgottenZombie, processVars
<1> QED
  BY <1>3, <1>4, <1>7, <1>8, <1>9 DEF ProcInv

\* Every step keeps the second part.
LEMMA ProcInvStep ==
  ASSUME Inv, ProcInv, [Next]_vars
  PROVE  ProcInv'
<1>1. CASE status = "up" /\ Shell
  <2>1. CASE Launch
    <3>1. /\ UNCHANGED <<jobs, nextjid, missed, untracked, sigchld, handling, status>>
          /\ pc = "eval"
      BY <2>1 DEF Launch, At, tableVars, signalVars, histories
    <3>2. CASE Fork /\ pc' \in {"foreground", "background"} /\ me' = nextpid
      BY <3>1, <3>2, ForkSteps
    <3>3. CASE UNCHANGED processVars /\ pc' = "prompt"
      <4>1. NoForgottenZombie'
        BY <3>1, <3>3 DEF ProcInv, NoForgottenZombie, processVars
      <4> QED
        BY <3>1, <3>3, <4>1, PlaceMoves DEF Forked, tableVars, histories
    <3> QED
      BY <2>1, <3>2, <3>3 DEF Launch, ForkFails, Return, Goto
  <2>2. CASE PipeFork
    <3>1. /\ UNCHANGED <<jobs, nextjid, missed, sigchld, handling, status>>
          /\ pc = "eval" /\ pc' \in {"eval", "pipe wait"}
      BY <2>2 DEF PipeFork, At, Goto, tableVars, signalVars
    <3>2. CASE Fork /\ untracked' = untracked \cup {nextpid}
      BY <3>1, <3>2, ForkSteps
    <3>3. CASE UNCHANGED processVars /\ UNCHANGED untracked
      BY <3>1, <3>3 DEF ProcInv, ToldInv, AfterWait, HeldInv, GoneInv, StopInv, NoForgottenZombie,
         StopTold, Forked, processVars
    <3> QED
      BY <2>2, <3>2, <3>3 DEF PipeFork, ForkFails
  <2>3. CASE Quit \/ Foreground \/ Lookup
    <3>1. /\ UNCHANGED tableVars /\ UNCHANGED histories /\ UNCHANGED processVars
          /\ UNCHANGED <<sigchld, handling>> /\ status = "up"
      BY <1>1, <2>3 DEF Quit, Foreground, Lookup, signalVars
    <3>2. NoForgottenZombie'
      BY <3>1 DEF ProcInv, NoForgottenZombie, processVars
    <3>3. /\ pc \in {"eval", "foreground"}
          /\ pc' \in {"prompt", "eval", "wait", "bg", "fg", "kill"}
          /\ pc \in Forked => pc' \in Forked /\ me' = me
      BY <2>3 DEF Quit, Foreground, Lookup, At, Return, Goto, Forked,
             shellVars, localVars
    <3> QED
      BY <3>1, <3>2, <3>3, PlaceMoves
  <2>4. CASE \/ Wait \/ EvalEnd \/ Background \/ BgContinue \/ BgEnd \/ FgContinue
             \/ FgSet \/ FgWait \/ FgEnd \/ Kill \/ KillEnd \/ PipeWait
    BY <1>1, <2>4, WaitStep, AddSteps, ContinueSteps, MarkSteps, FgWaitStep, FgEndStep,
       KillStep, KillEndStep, PipeWaitStep
  <2> QED
    BY <1>1, <2>1, <2>2, <2>3, <2>4 DEF Shell
<1>2. CASE status = "up" /\ sigchld_handler
  <2>1. CASE Handle \/ HandlerReturns
    <3>1. /\ UNCHANGED tableVars /\ UNCHANGED histories /\ UNCHANGED processVars
          /\ UNCHANGED <<pc, me, slot, result, status>>
      BY <2>1 DEF Handle, HandlerReturns, shellVars, localVars
    <3>2. NoForgottenZombie'
      BY <2>1, <3>1 DEF ProcInv, NoForgottenZombie, Handle, HandlerReturns, Drained,
         Waitable, processVars
    <3> QED
      BY <1>2, <3>1, <3>2, OutsideSteps
  <2> QED
    BY <1>2, <2>1, ReapSteps DEF sigchld_handler
<1>3. CASE status = "up" /\ Outside
  <2>1. CASE ReadCommand
    <3>1. /\ UNCHANGED tableVars /\ UNCHANGED histories /\ UNCHANGED processVars
          /\ UNCHANGED <<sigchld, handling, status>> /\ pc = "prompt" /\ pc' = "eval"
      BY <2>1 DEF ReadCommand, At, Goto, signalVars
    <3>2. NoForgottenZombie'
      BY <3>1 DEF ProcInv, NoForgottenZombie, processVars
    <3> QED
      BY <3>1, <3>2, PlaceMoves DEF Forked
  <2>2. ASSUME NEW p \in Pids, st[p] \in {"running", "stopped"}, UNCHANGED tableVars,
               UNCHANGED shellVars, UNCHANGED histories, UNCHANGED <<handling, status>>,
               Ends(p) \/ (st[p] = "running" /\ Stops(p) /\ UNCHANGED sigchld)
        PROVE  ProcInv'
    <3>1. UNCHANGED <<pc, me, slot, result>>
      BY <2>2 DEF shellVars, localVars
    <3> QED
      BY <1>3, <2>2, <3>1, OutsideSteps
  <2>3. CASE sigint_handler \/ sigtstp_handler
    <3>1. fg_pgid \in Pids
      BY <2>3, JobsAssumption
         DEF sigint_handler, sigtstp_handler, Inv, Types, ShellType, Pids
    <3> QED
      BY <2>2, <2>3, <3>1 DEF sigint_handler, sigtstp_handler, signalVars
  <2>4. ASSUME NEW p \in Pids, Exit(p) \/ StopsItself(p)
        PROVE  ProcInv'
    BY <2>2, <2>4 DEF Exit, StopsItself, signalVars
  <2> QED
    BY <1>3, <2>1, <2>3, <2>4 DEF Outside
<1>4. CASE UNCHANGED vars
  BY <1>4 DEF ProcInv, ToldInv, AfterWait, HeldInv, GoneInv, StopInv, NoForgottenZombie, StopTold,
     Group, vars, tableVars, shellVars, localVars, signalVars, processVars, histories
<1> QED
  BY <1>1, <1>2, <1>3, <1>4 DEF Next

\* There is no process at first.
LEMMA ProcInvInit ==
  Init => ProcInv
BY DEF Init, ProcInv, ToldInv, AfterWait, HeldInv, GoneInv, StopInv, NoForgottenZombie, Free

\* Both parts hold in every behaviour.
LEMMA JobInvHolds == Spec => [](Inv /\ ProcInv)
<1>1. Inv /\ ProcInv /\ [Next]_vars => (Inv /\ ProcInv)'
  BY InvStep, ProcInvStep
<1> QED
  BY <1>1, InvInit, ProcInvInit, PTL DEF Spec

(***************************************************************************)
(* No process slips out of the shell's hands and no job outlives its       *)
(* process unseen, however the SIGCHLD handler comes between eval's fork   *)
(* and its add_job, or under fg's waitpid.                                 *)
(***************************************************************************)
THEOREM NoProcessIsLost == Spec => []Tracked
<1>1. ASSUME Inv, ProcInv
      PROVE  Tracked
  <2>1. pc = "prompt" => pc \notin Forked
    BY DEF Forked
  <2> QED
    BY <1>1, <2>1 DEF ProcInv, HeldInv, GoneInv, Tracked
<1> QED
  BY <1>1, JobInvHolds, PTL

(***************************************************************************)
(* What jobs calls stopped does not run, and a stop it does not show is    *)
(* still to be told, or was told where there was no job to mark.           *)
(***************************************************************************)
THEOREM StoppedIsStopped == Spec => []MarkedStopped
<1>1. ASSUME Inv, ProcInv
      PROVE  MarkedStopped
  BY <1>1 DEF ProcInv, StopInv, StopTold, MarkedStopped
<1> QED
  BY <1>1, JobInvHolds, PTL
===============================================================================
