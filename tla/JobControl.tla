------------------------------ MODULE JobControl ------------------------------
(***************************************************************************)
(* The shell of phase 3: it forks a process for every command, waits for   *)
(* those in the foreground, keeps a table of the jobs that are stopped or  *)
(* in the background, and updates it from its SIGCHLD handler, which       *)
(* interrupts it between any two steps and in any wait.                    *)
(*                                                                         *)
(* Every command is one process, alone in its group from its fork on, so   *)
(* that a pgid is a pid; pids are given out in order and not used again. A *)
(* process that stops or is continued has a report for waitpid until it is *)
(* read or the next one takes its place; SA_NOCLDSTOP keeps SIGCHLD for    *)
(* those that end. Nobody but the shell continues a process. add_job and   *)
(* delete_job are one step each. The text of commands and of answers is    *)
(* left out.                                                               *)
(***************************************************************************)
EXTENDS Integers, FiniteSets

CONSTANTS
  MaxPids,    \* how many processes the shell forks (a bound)
  MaxJobs,    \* MAXJOBS
  Piped,      \* the number of commands of a pipeline
  Typed,      \* the lines the user types: records [name, percent, n]
  ForkMayFail

Names == {"run", "run &", "pipeline", "bg", "fg", "kill", "quit"}

ASSUME JobsAssumption ==
  /\ MaxPids \in Nat \ {0} /\ MaxJobs \in Nat \ {0} /\ Piped \in Nat \ {0}
  /\ Typed \subseteq [name : Names, percent : BOOLEAN, n : Nat]
  /\ ForkMayFail \in BOOLEAN

VARIABLES
  jobs, nextjid, fg_pgid,   \* the table, the next job id, the foreground group
  pc,                       \* where the shell is
  cmd, me, slot,            \* ... eval's locals: the line, pid forked, job found,
  result, left,             \*     what waitpid told, commands of the pipeline
                            \*     that are still to fork or to wait for
  sigchld, handling,        \* SIGCHLD: pending; its handler: running
  st, report, nextpid,      \* every process: state, report; the next pid
  untracked,                \* history: processes that were given no job
  missed,                   \* history: what became of processes, where their
                            \*     job was not told
  status                    \* "up", "exited", or "killed"

tableVars   == <<jobs, nextjid>>
localVars   == <<cmd, me, slot, result, left>>
shellVars   == <<fg_pgid, pc, localVars>>
signalVars  == <<sigchld, handling>>
processVars == <<st, report>>
histories   == <<untracked, missed>>
vars == <<tableVars, shellVars, signalVars, processVars, nextpid, histories,
          status>>

-------------------------------------------------------------------------------
Pids  == 1..MaxPids
Slots == 1..MaxJobs
Free  == [jid |-> 0, pgid |-> 0, state |-> "FG"]
Quiet == [name |-> "run", percent |-> FALSE, n |-> 0]

First(S) == CHOOSE k \in S : \A j \in S : k <= j

\* The first job the predicate of the loop holds of; 0 is the null pointer.
get_job_by_jid(j) ==
  LET found == {k \in Slots : jobs[k].jid = j}
  IN  IF found = {} THEN 0 ELSE First(found)

get_job_by_pgid(p) ==
  LET found == {k \in Slots : jobs[k].pgid = p}
  IN  IF found = {} THEN 0 ELSE First(found)

\* Mutant: a job is written where there may be one.
FreeSlot_First == 1
FreeSlot == get_job_by_jid(0)

add_job(p, state) ==
  LET k == FreeSlot
  IN  IF k = 0
      THEN untracked' = untracked \cup {p} /\ UNCHANGED tableVars
      ELSE /\ jobs' = [jobs EXCEPT ![k] = [jid |-> nextjid, pgid |-> p,
                                           state |-> state]]
           /\ nextjid' = nextjid + 1 /\ UNCHANGED untracked

\* Mutant: a deleted job's group is not cleared.
Cleared_JidOnly(k) == [jobs[k] EXCEPT !.jid = 0]

Cleared(k) == Free

delete_job(p) ==
  LET k == get_job_by_pgid(p)
  IN  jobs' = IF k = 0 THEN jobs ELSE [jobs EXCEPT ![k] = Cleared(k)]

Init ==
  /\ jobs = [k \in Slots |-> Free] /\ nextjid = 1 /\ fg_pgid = 0
  /\ pc = "prompt" /\ cmd = Quiet /\ me = 0 /\ slot = 0 /\ result = "none"
  /\ left = 0 /\ sigchld = FALSE /\ handling = FALSE
  /\ st = [p \in Pids |-> "unborn"] /\ report = [p \in Pids |-> "none"]
  /\ nextpid = 1 /\ untracked = {} /\ missed = {} /\ status = "up"

-------------------------------------------------------------------------------
(* Processes.                                                              *)

Ends(p) ==
  /\ st' = [st EXCEPT ![p] = "zombie"] /\ report' = [report EXCEPT ![p] = "none"]
  /\ sigchld' = TRUE

Stops(p) ==
  /\ st' = [st EXCEPT ![p] = "stopped"]
  /\ report' = [report EXCEPT ![p] = "stopped"]

\* kill(-p, SIGCONT); group 0 is the shell's own.
Continue(p) ==
  IF p # 0 /\ st[p] = "stopped"
  THEN /\ st' = [st EXCEPT ![p] = "running"]
       /\ report' = [report EXCEPT ![p] = "continued"]
  ELSE UNCHANGED processVars

\* What waitpid does to the process it tells of.
Reaped(p) ==
  /\ st' = [st EXCEPT ![p] = IF @ = "zombie" THEN "gone" ELSE @]
  /\ report' = [report EXCEPT ![p] = "none"]

\* Of its own accord, or killed from outside, stopped or not.
Exit(p) ==
  /\ st[p] \in {"running", "stopped"} /\ Ends(p)
  /\ UNCHANGED <<tableVars, shellVars, handling, nextpid, histories, status>>

\* SIGTTIN: only the shell's group may read from the terminal.
StopsItself(p) ==
  /\ st[p] = "running" /\ Stops(p)
  /\ UNCHANGED <<tableVars, shellVars, signalVars, nextpid, histories, status>>

\* The handlers of SIGINT and SIGTSTP; a process may also ignore either.
sigint_handler ==
  /\ fg_pgid # 0 /\ st[fg_pgid] = "running" /\ Ends(fg_pgid)
  /\ UNCHANGED <<tableVars, shellVars, handling, nextpid, histories, status>>

sigtstp_handler ==
  /\ fg_pgid # 0 /\ st[fg_pgid] = "running" /\ Stops(fg_pgid)
  /\ UNCHANGED <<tableVars, shellVars, signalVars, nextpid, histories, status>>

-------------------------------------------------------------------------------
(* The SIGCHLD handler, on top of whatever the shell was doing.            *)

Waitable == {p \in Pids : st[p] = "zombie" \/ report[p] # "none"}

Handle ==
  /\ sigchld /\ ~handling /\ sigchld' = FALSE /\ handling' = TRUE
  /\ UNCHANGED <<tableVars, shellVars, processVars, nextpid, histories, status>>

Marked(k, state) == jobs' = [jobs EXCEPT ![k].state = state]

\* Mutants: the handler returns too soon; a continued job stays stopped.
Drained_Any == TRUE
Resumed_ST == "ST"

Drained == Waitable = {}
Resumed == "BG"

\* One turn of the loop around waitpid(-1, WNOHANG | WUNTRACED | WCONTINUED).
Reap(p) ==
  LET k == get_job_by_pgid(p)
  IN  /\ handling /\ p \in Waitable /\ Reaped(p)
      /\ CASE k = 0                    -> jobs' = jobs
           [] st[p] = "zombie"         -> delete_job(p)
           [] report[p] = "stopped"    -> Marked(k, "ST")
           [] report[p] = "continued"  -> Marked(k, Resumed)
      /\ missed' = missed \cup
           IF /\ st[p] \in {"zombie", "stopped"}
              /\ \/ pc \in {"waited", "background"} /\ me = p
                 \/ pc = "bg end" /\ slot = k
           THEN {<<p, st[p]>>} ELSE {}
      /\ UNCHANGED <<nextjid, shellVars, signalVars, nextpid, untracked, status>>

HandlerReturns ==
  /\ handling /\ Drained /\ handling' = FALSE
  /\ UNCHANGED <<tableVars, shellVars, sigchld, processVars, nextpid, histories,
                 status>>

-------------------------------------------------------------------------------
(* eval of a single command.                                               *)

At(place) == pc = place /\ ~handling

Goto(place) == pc' = place

\* eval returns, and its locals with it.
Return ==
  /\ Goto("prompt") /\ cmd' = Quiet /\ me' = 0 /\ slot' = 0 /\ result' = "none"
  /\ left' = 0

\* fgets; the end of the input is a quit.
ReadCommand ==
  /\ At("prompt") /\ cmd' \in Typed /\ Goto("eval")
  /\ left' = IF cmd'.name = "pipeline" THEN Piped ELSE 0
  /\ UNCHANGED <<tableVars, fg_pgid, me, slot, result, signalVars, processVars,
                 nextpid, histories, status>>

Quit ==
  /\ At("eval") /\ cmd.name = "quit" /\ status' = "exited"
  /\ UNCHANGED <<tableVars, shellVars, signalVars, processVars, nextpid,
                 histories>>

\* fork and the parent's setpgid.
Fork ==
  /\ nextpid \in Pids /\ nextpid' = nextpid + 1
  /\ st' = [st EXCEPT ![nextpid] = "running"] /\ UNCHANGED report

ForkFails == ForkMayFail /\ UNCHANGED <<processVars, nextpid>>

Launch ==
  /\ At("eval") /\ cmd.name \in {"run", "run &"}
  /\ \/ /\ Fork /\ me' = nextpid /\ UNCHANGED <<cmd, slot, result, left>>
        /\ Goto(IF cmd.name = "run" THEN "foreground" ELSE "background")
     \/ ForkFails /\ Return
  /\ UNCHANGED <<tableVars, fg_pgid, signalVars, histories, status>>

Foreground ==
  /\ At("foreground") /\ fg_pgid' = me /\ Goto("wait")
  /\ UNCHANGED <<tableVars, localVars, signalVars, processVars, nextpid, histories,
                 status>>

\* Mutant: the shell calls waitpid until it tells of p.
Waited_Until(p) ==
  /\ p # 0 /\ Reaped(p)
  /\ \/ st[p] = "zombie" /\ result' = "exited"
     \/ report[p] = "stopped" /\ result' = "stopped"

\* waitpid(p, &status, WUNTRACED) returns: -1 when there is no such child.
Waited(p) ==
  \/ /\ p # 0 /\ st[p] = "zombie" /\ Reaped(p) /\ result' = "exited"
  \/ /\ p # 0 /\ report[p] = "stopped" /\ Reaped(p) /\ result' = "stopped"
  \/ /\ (p # 0 => st[p] = "gone") /\ result' = "none" /\ UNCHANGED processVars

Wait ==
  /\ At("wait") /\ Waited(me) /\ Goto("waited")
  /\ UNCHANGED <<tableVars, fg_pgid, cmd, me, slot, left, signalVars, nextpid,
                 histories, status>>

\* add_job, when it stopped, and fg_pgid = 0.
EvalEnd ==
  /\ At("waited") /\ fg_pgid' = 0 /\ Return
  /\ IF result = "stopped" THEN add_job(me, "ST")
                           ELSE UNCHANGED <<tableVars, untracked>>
  /\ UNCHANGED <<missed, signalVars, processVars, nextpid, status>>

Background ==
  /\ At("background") /\ add_job(me, "BG") /\ Return
  /\ UNCHANGED <<missed, fg_pgid, signalVars, processVars, nextpid, status>>

-------------------------------------------------------------------------------
(* bg, fg and kill.  fg and kill want their `%' and take it away; bg gives *)
(* its argument to atoi as it is, which makes 0 of a `%'.                  *)

Lookup ==
  LET k == get_job_by_jid(IF cmd.name = "bg" /\ cmd.percent THEN 0 ELSE cmd.n)
      legal == cmd.name # "bg" => cmd.percent
      takes == cmd.name = "bg" => jobs[k].state = "ST"
  IN  /\ At("eval") /\ cmd.name \in {"bg", "fg", "kill"}
      /\ IF legal /\ k # 0 /\ takes
         THEN Goto(cmd.name) /\ slot' = k /\ UNCHANGED <<cmd, me, result, left>>
         ELSE Return
      /\ UNCHANGED <<tableVars, fg_pgid, signalVars, processVars, nextpid,
                     histories, status>>

BgContinue ==
  /\ At("bg") /\ Continue(jobs[slot].pgid) /\ Goto("bg end")
  /\ UNCHANGED <<tableVars, fg_pgid, localVars, signalVars, nextpid, histories,
                 status>>

BgEnd ==
  /\ At("bg end") /\ Marked(slot, "BG") /\ Return
  /\ UNCHANGED <<nextjid, fg_pgid, signalVars, processVars, nextpid, histories,
                 status>>

FgContinue ==
  /\ At("fg") /\ Continue(jobs[slot].pgid) /\ Goto("fg set")
  /\ UNCHANGED <<tableVars, fg_pgid, localVars, signalVars, nextpid, histories,
                 status>>

FgSet ==
  /\ At("fg set") /\ Marked(slot, "FG") /\ fg_pgid' = jobs[slot].pgid
  /\ Goto("fg wait")
  /\ UNCHANGED <<nextjid, localVars, signalVars, processVars, nextpid, histories,
                 status>>

\* waitpid(0) has no child to wait for: none is in the shell's group.
FgWait ==
  /\ At("fg wait") /\ Waited(jobs[slot].pgid) /\ Goto("fg end")
  /\ UNCHANGED <<tableVars, fg_pgid, cmd, me, slot, left, signalVars, nextpid,
                 histories, status>>

\* After a waitpid that failed, status is whatever the stack held.
FgEnd ==
  /\ At("fg end") /\ fg_pgid' = 0 /\ Return
  /\ \/ result # "exited" /\ Marked(slot, "ST")
     \/ result # "stopped" /\ delete_job(jobs[slot].pgid)
  /\ UNCHANGED <<nextjid, signalVars, processVars, nextpid, histories, status>>

\* kill(-pgid, SIGKILL); group 0 is the shell's own.
Kill ==
  LET p == jobs[slot].pgid
  IN  /\ At("kill") /\ Goto("kill end")
      /\ \/ /\ p = 0 /\ status' = "killed" /\ UNCHANGED <<processVars, sigchld>>
         \/ /\ p # 0 /\ st[p] \in {"running", "stopped"}
            /\ Ends(p) /\ UNCHANGED status
         \/ /\ p # 0 /\ st[p] \notin {"running", "stopped"}
            /\ UNCHANGED <<processVars, sigchld, status>>
      /\ UNCHANGED <<tableVars, fg_pgid, localVars, handling, nextpid, histories>>

KillEnd ==
  /\ At("kill end") /\ delete_job(jobs[slot].pgid) /\ Return
  /\ UNCHANGED <<nextjid, fg_pgid, signalVars, processVars, nextpid, histories,
                 status>>

-------------------------------------------------------------------------------
(* execute_pipeline: no job, no foreground group, and a wait(0) a command. *)

PipeFork ==
  /\ At("eval") /\ cmd.name = "pipeline"
  /\ \/ Fork /\ untracked' = untracked \cup {nextpid}
     \/ ForkFails /\ UNCHANGED untracked
  /\ IF left = 1 THEN Goto("pipe wait") /\ left' = Piped
                 ELSE pc' = pc /\ left' = left - 1
  /\ UNCHANGED <<tableVars, fg_pgid, cmd, me, slot, result, signalVars, missed,
                 status>>

Children == {p \in Pids : st[p] \notin {"unborn", "gone"}}

PipeWait ==
  /\ At("pipe wait")
  /\ \/ \E p \in Pids :
          /\ st[p] = "zombie" /\ Reaped(p)
          /\ missed' = missed \cup
               IF get_job_by_pgid(p) # 0 THEN {<<p, "zombie">>} ELSE {}
     \/ Children = {} /\ UNCHANGED <<processVars, missed>>
  /\ IF left = 1 THEN Return
                 ELSE left' = left - 1 /\ UNCHANGED <<pc, cmd, me, slot, result>>
  /\ UNCHANGED <<tableVars, fg_pgid, signalVars, nextpid, untracked, status>>

-------------------------------------------------------------------------------
Shell ==
  \/ Quit \/ Launch \/ Foreground \/ Wait \/ EvalEnd \/ Background
  \/ Lookup \/ BgContinue \/ BgEnd \/ FgContinue \/ FgSet \/ FgWait \/ FgEnd
  \/ Kill \/ KillEnd \/ PipeFork \/ PipeWait

sigchld_handler == Handle \/ HandlerReturns \/ \E p \in Pids : Reap(p)

Outside ==
  \/ ReadCommand \/ sigint_handler \/ sigtstp_handler
  \/ \E p \in Pids : Exit(p) \/ StopsItself(p)

Next ==
  \/ status = "up" /\ (Shell \/ sigchld_handler \/ Outside)
  \/ status # "up" /\ UNCHANGED vars

Spec == Init /\ [][Next]_vars

FairSpec ==
  /\ Spec /\ WF_vars(status = "up" /\ Shell)
  /\ WF_vars(status = "up" /\ sigchld_handler)

-------------------------------------------------------------------------------
JobStates == {"FG", "BG", "ST"}
Places == {"prompt", "eval", "foreground", "wait", "waited", "background", "bg",
           "bg end", "fg", "fg set", "fg wait", "fg end", "kill", "kill end",
           "pipe wait"}

\* Every variable has its type, and what is ready for waitpid is a child.
TypeOK ==
  /\ jobs \in [Slots -> [jid : 0..MaxPids, pgid : 0..MaxPids, state : JobStates]]
  /\ nextjid \in 1..(MaxPids + 1) /\ fg_pgid \in 0..MaxPids
  /\ pc \in Places /\ cmd \in Typed \cup {Quiet} /\ me \in 0..MaxPids
  /\ slot \in 0..MaxJobs /\ result \in {"none", "exited", "stopped"}
  /\ left \in 0..Piped /\ sigchld \in BOOLEAN /\ handling \in BOOLEAN
  /\ st \in [Pids -> {"unborn", "running", "stopped", "zombie", "gone"}]
  /\ report \in [Pids -> {"none", "stopped", "continued"}]
  /\ nextpid \in 1..(MaxPids + 1) /\ untracked \subseteq Pids
  /\ missed \subseteq Pids \X {"zombie", "stopped"}
  /\ status \in {"up", "exited", "killed"}
  /\ \A p \in Pids : /\ report[p] = "stopped" => st[p] = "stopped"
                     /\ report[p] = "continued" => st[p] = "running"

(***************************************************************************)
(* The table is one: no process has two jobs, no two jobs have the same id *)
(* or an id yet to be given out, and a slot is free of both or of neither, *)
(* though the handler deletes jobs while the shell holds pointers to them. *)
(* At the prompt, on whatever way back to it, Ctrl-C and Ctrl-Z reach no   *)
(* process, in the table or out of it.                                     *)
(***************************************************************************)
PromptIsSafe == pc \in {"prompt", "eval", "background", "pipe wait"} => fg_pgid = 0
TableAgrees ==
  /\ TypeOK /\ PromptIsSafe
  /\ \A k \in Slots : (jobs[k].jid = 0 <=> jobs[k].pgid = 0)
                      /\ jobs[k].jid < nextjid
  /\ \A k, l \in Slots : k # l /\ jobs[k].jid # 0 =>
       jobs[k].jid # jobs[l].jid /\ jobs[k].pgid # jobs[l].pgid

(***************************************************************************)
(* No process slips out of the shell's hands: while it prompts, whatever   *)
(* still runs or is stopped has its job, unless the table was full or it   *)
(* came from a pipeline; and a zombie is always about to be reaped, for no *)
(* SIGCHLD of one is forgotten.  Nor does a job outlive its process: with  *)
(* nothing left to handle, the jobs of processes that are gone are those   *)
(* reaped between the shell's fork and add_job, or by the wait(0) of a     *)
(* pipeline: no other way to reap a process forgets its job.               *)
(***************************************************************************)
NoForgottenZombie ==
  status = "up" /\ (\E p \in Pids : st[p] = "zombie") => sigchld \/ handling
Tracked ==
  /\ NoForgottenZombie
  /\ pc = "prompt" =>
       \A p \in Pids \ untracked :
         st[p] \in {"running", "stopped"} => \E k \in Slots : jobs[k].pgid = p
  /\ pc = "prompt" /\ ~sigchld /\ ~handling =>
       \A k \in Slots : jobs[k].pgid # 0 /\ st[jobs[k].pgid] = "gone"
                         => <<jobs[k].pgid, "zombie">> \in missed

(***************************************************************************)
(* What jobs calls STOPPED does not run, but for the moment in which bg or *)
(* fg has continued it.  What it calls something else and is stopped: its  *)
(* report waits to be read with the next SIGCHLD, which no stop sends, or  *)
(* was read before the job was there, or overwritten by bg.                *)
(***************************************************************************)
MarkedStopped ==
  /\ pc \notin {"bg end", "fg set"} =>
       \A k \in Slots : jobs[k].pgid # 0 /\ jobs[k].state = "ST"
                         => st[jobs[k].pgid] # "running"
  /\ pc = "prompt" =>
       \A k \in Slots :
         LET p == jobs[k].pgid
         IN  p # 0 /\ jobs[k].state # "ST" /\ st[p] = "stopped"
               => report[p] = "stopped" \/ <<p, "stopped">> \in missed

-------------------------------------------------------------------------------
\* Every child that ends is reaped, whatever the shell is waiting for.
EndsReaped ==
  \A p \in Pids : st[p] = "zombie" ~> st[p] = "gone" \/ status # "up"

(***************************************************************************)
(* A process in the foreground that ends gives the prompt back, even when  *)
(* the handler has reaped it under the shell's own waitpid.                *)
(***************************************************************************)
PromptComesBack ==
  \A p \in Pids : fg_pgid = p /\ st[p] \in {"zombie", "gone"}
                  ~> pc = "prompt" \/ status # "up"
===============================================================================
