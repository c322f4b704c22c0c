------------------------------ MODULE PipeShell ------------------------------
(***************************************************************************)
(* The shells of phases 1 and 2: they read a line, parse it (ShellParse),  *)
(* fork the programs it names and wait for them, all of them processes     *)
(* that share pipes with one another and, for a while, with the shell.     *)
(* Phase 1 is the same loop without pipelines.                             *)
(*                                                                         *)
(* A program reads its input to the end and writes what it read; one that  *)
(* has the terminal for input writes Output items to its pipe; any may     *)
(* stop short.  What goes to the terminal is written at once.  A pipe      *)
(* holds one item.  There are MaxPids processes at a time, zombies         *)
(* included; with that many fork fails, and at other times too if it may.  *)
(* cd and the text of what is printed are left out.                        *)
(***************************************************************************)
EXTENDS ShellParse

CONSTANTS
  MaxPids,       \* processes the system has room for
  MAXPIPES,      \* rows of commands, in eval
  Output,        \* items a program writes that has no pipe to read (a bound)
  FirstLines,    \* the lines a session may begin with, by phase
  Typed,         \* the lines it goes on with (a bound)
  ForkMayFail    \* may fork fail with processes left?

ASSUME PipeShellAssumption ==
  /\ MaxPids \in Nat \ {0} /\ MAXPIPES \in Nat \ {0} /\ Output \in Nat
  /\ \A l \in FirstLines \cup Typed : l \in Seq(Chars \cup {"n"}) /\ l # <<>>
  /\ ForkMayFail \in BOOLEAN

VARIABLES
  fresh, ended,          \* is this the first line; is the input at its end
  cmds, i,               \* execute_pipeline: which commands have a program, i
  prev_pipe, next_pipe,  \* ... the pipes, by number; 0 is none yet
  held,                  \* the pipe ends the shell has open
  pid, left,             \* the pid to wait for, -1 of a failed fork; waits left
  kid, flow,             \* every process; the items in every pipe
  before, started, failed, \* histories of a line: the children there were,
                         \* those put in the background, did a fork fail
  status                 \* "up", "exited", or "corrupt"

shellVars == <<cmds, i, prev_pipe, next_pipe, held, pid, left>>
lineVars  == <<fresh, ended, before>>
forkVars  == <<started, failed>>
vars == <<phase, pc, parseVars, shellVars, lineVars, forkVars, kid, flow, status>>

-------------------------------------------------------------------------------
Pids  == 1..MaxPids
Pipes == 1..(MaxPids + 2)
Ends(k) == {<<k, "r">>, <<k, "w">>}
Tty == <<0, "tty">>

NoKid  == [st |-> "none", at |-> 0, prev |-> 0, next |-> 0, in |-> Tty,
           out |-> Tty, fds |-> {}, has |-> 0, program |-> FALSE]
Zombie == [NoKid EXCEPT !.st = "zombie"]

Children == {p \in Pids : kid[p].st # "none"}
Zombies  == {p \in Pids : kid[p].st = "zombie"}

\* Who has an end of a pipe open, whichever descriptor it is.
Has(p, end) == kid[p].in = end \/ kid[p].out = end \/ end \in kid[p].fds
IsOpen(end) == end \in held \/ \E p \in Children : Has(p, end)

Unused == {k \in Pipes : \A end \in Ends(k) : ~IsOpen(end)}

Init ==
  /\ phase \in {1, 2} /\ pc = "prompt"
  /\ line = <<>> /\ mem = <<NUL>> /\ current = 1 /\ start = 1 /\ buf = 1
  /\ argv = <<>> /\ pipe_cnt = 0 /\ quote = "none" /\ escape = FALSE
  /\ fresh = TRUE /\ ended = FALSE
  /\ cmds = <<>> /\ i = 1 /\ prev_pipe = 0 /\ next_pipe = 0 /\ held = {}
  /\ pid = 0 /\ left = 0
  /\ kid = [p \in Pids |-> NoKid] /\ flow = [k \in Pipes |-> 0]
  /\ before = 0 /\ started = 0 /\ failed = FALSE /\ status = "up"

-------------------------------------------------------------------------------
(* The loop of main, and eval up to its forks.                             *)

\* fgets: a line without a newline is the last one.
ReadLine ==
  /\ pc = "prompt" /\ ~ended
  /\ \E l \in IF fresh THEN FirstLines ELSE Typed :
       Parse(l) /\ ended' = (Last(l) # "n")
  /\ fresh' = FALSE
  /\ before' = Cardinality(Children) /\ started' = 0 /\ failed' = FALSE
  /\ UNCHANGED <<phase, shellVars, kid, flow, status>>

EndOfInput ==
  /\ pc = "prompt" /\ status' = "exited"
  /\ UNCHANGED <<phase, pc, parseVars, shellVars, lineVars, forkVars, kid, flow>>

\* eval returns, and with it the buffers and locals.
Return ==
  /\ Goto("prompt") /\ Forget
  /\ cmds' = <<>> /\ i' = 1 /\ prev_pipe' = 0 /\ next_pipe' = 0 /\ pid' = 0
  /\ left' = 0

\* A last word that begins with & is taken off: the rest is for the background.
bg   == Words # <<>> /\ Head(Last(Words)) = "&"
Args == IF bg THEN Front(Words) ELSE Words

\* An unmatched quote, a blank line, a lone &.
Nothing ==
  /\ pc = "error" \/ (pc = "parsed" /\ Args = <<>>)
  /\ Return
  /\ UNCHANGED <<phase, held, lineVars, forkVars, kid, flow, status>>

Command == pc = "parsed" /\ Args # <<>> /\ pipe_cnt = 0

builtin_command ==
  /\ Command /\ Head(Args) \in {<<"e">>, <<"&">>}
  /\ IF Head(Args) = <<"e">>
     THEN status' = "exited" /\ UNCHANGED <<pc, parseVars, shellVars>>
     ELSE Return /\ UNCHANGED <<held, status>>
  /\ UNCHANGED <<phase, lineVars, forkVars, kid, flow>>

-------------------------------------------------------------------------------
(* One command.                                                            *)

\* fork: the child has what the shell holds; the new pid, or -1.
Fork(child) ==
  \/ \E p \in Pids :
       /\ kid[p].st = "none" /\ \A q \in 1..(p - 1) : kid[q].st # "none"
       /\ kid' = [kid EXCEPT ![p] = child] /\ pid' = p /\ UNCHANGED failed
  \/ /\ ForkMayFail \/ Children = Pids
     /\ pid' = -1 /\ failed' = TRUE /\ UNCHANGED kid

\* The parent waits, or has the prompt at once.
RunCommand ==
  /\ Command /\ Head(Args) \notin {<<"e">>, <<"&">>}
  /\ Fork([NoKid EXCEPT !.st = "wired", !.program = TRUE])
  /\ Goto(IF bg THEN "started" ELSE "wait")
  /\ started' = IF bg /\ pid' # -1 THEN 1 ELSE 0
  /\ UNCHANGED <<phase, parseVars, cmds, i, prev_pipe, next_pipe, held, left,
                 lineVars, flow, status>>

Background ==
  /\ pc = "started" /\ Return
  /\ UNCHANGED <<phase, held, lineVars, forkVars, kid, flow, status>>

Reaped(p) == kid' = [kid EXCEPT ![p] = NoKid]

\* Mutant: waitpid(pid, &status, WNOHANG).
Waitpid_NoHang ==
  /\ pc = "wait"
  /\ \/ Reaped(pid)
     \/ UNCHANGED kid
  /\ Return
  /\ UNCHANGED <<phase, held, lineVars, forkVars, flow, status>>

\* waitpid(pid, &status, 0); -1 is any child, and at once if there is none.
Waitpid ==
  /\ pc = "wait"
  /\ \/ \E p \in Zombies : pid \in {p, -1} /\ Reaped(p)
     \/ pid = -1 /\ Children = {} /\ UNCHANGED kid
  /\ Return
  /\ UNCHANGED <<phase, held, lineVars, forkVars, flow, status>>

-------------------------------------------------------------------------------
(* A pipeline.                                                             *)

\* Where the words say "|": pipes, and bars that were quoted or escaped.
Separators == {k \in DOMAIN Args : Args[k] = BAR}

\* The rows eval fills, by the bars before their words: each has a program's
\* name or none.
Rows ==
  [k \in 1..(Cardinality(Separators) + 1) |->
     \E w \in DOMAIN Args \ Separators :
       Cardinality({b \in Separators : b < w}) = k - 1]

\* A row that commands does not have is written beyond it.
FillRows ==
  /\ pc = "parsed" /\ pipe_cnt > 0
  /\ IF Len(Rows) > MAXPIPES
     THEN status' = "corrupt" /\ UNCHANGED <<pc, parseVars, shellVars>>
     ELSE /\ cmds' = SubSeq(Rows, 1, pipe_cnt + 1)
          /\ Goto("pipe") /\ Forget
          /\ UNCHANGED <<i, prev_pipe, next_pipe, held, pid, left, status>>
  /\ UNCHANGED <<phase, lineVars, forkVars, kid, flow>>

num_commands == Len(cmds)
IsLast == i = num_commands

\* pipe, unless this is the last command, and fork.
PipeFork ==
  LET k      == IF IsLast THEN next_pipe ELSE Min(Unused)
      opened == IF IsLast THEN held ELSE held \cup Ends(k)
  IN  /\ pc = "pipe" /\ (IsLast \/ Unused # {})
      /\ Fork([NoKid EXCEPT !.st = "forked", !.at = i, !.fds = opened,
                            !.prev = IF i > 1 THEN prev_pipe ELSE 0,
                            !.next = IF IsLast THEN 0 ELSE k,
                            !.program = cmds[i]])
      /\ held' = opened /\ next_pipe' = k
      /\ flow' = IF IsLast THEN flow ELSE [flow EXCEPT ![k] = 0]
      /\ Goto("parent")
      /\ UNCHANGED <<phase, parseVars, cmds, i, prev_pipe, left, lineVars, started,
                     status>>

Dropped == IF i > 1 THEN Ends(prev_pipe) ELSE {}

ParentCloses ==
  /\ pc = "parent" /\ held' = held \ Dropped
  /\ prev_pipe' = IF IsLast THEN prev_pipe ELSE next_pipe
  /\ IF IsLast THEN Goto("waiting") /\ left' = num_commands /\ UNCHANGED i
               ELSE Goto("pipe") /\ i' = i + 1 /\ UNCHANGED left
  /\ UNCHANGED <<phase, parseVars, cmds, next_pipe, pid, lineVars, forkVars, kid,
                 flow, status>>

\* wait(0) for each command takes any child.
WaitAll ==
  /\ pc = "waiting"
  /\ \/ \E p \in Zombies : Reaped(p)
     \/ Children = {} /\ UNCHANGED kid
  /\ IF left = 1 THEN Return
     ELSE left' = left - 1
          /\ UNCHANGED <<pc, parseVars, cmds, i, prev_pipe, next_pipe, pid>>
  /\ UNCHANGED <<phase, held, lineVars, forkVars, flow, status>>

Shell ==
  /\ status = "up"
  /\ \/ parseline /\ UNCHANGED <<shellVars, lineVars, forkVars, kid, flow, status>>
     \/ Nothing \/ builtin_command \/ RunCommand \/ Background \/ Waitpid
     \/ FillRows \/ PipeFork \/ ParentCloses \/ WaitAll

-------------------------------------------------------------------------------
(* A child, before it is its program.                                      *)

Becomes(p, k) ==
  /\ kid' = [kid EXCEPT ![p] = k]
  /\ UNCHANGED <<phase, pc, parseVars, shellVars, lineVars, forkVars, status>>

\* Mutant: the child keeps the end it could write to itself.
RedirectIn_Reader(p) ==
  LET c == kid[p]
  IN  /\ c.st = "forked" /\ UNCHANGED flow
      /\ Becomes(p, IF c.prev = 0 THEN [c EXCEPT !.st = "redirected"]
                    ELSE [c EXCEPT !.st = "redirected", !.prev = 0,
                                   !.in = <<c.prev, "r">>,
                                   !.fds = @ \ {<<c.prev, "r">>}])

\* dup2 and the two closes of prev_pipe.
RedirectIn(p) ==
  LET c == kid[p]
      ends == Ends(c.prev)
  IN  /\ c.st = "forked" /\ UNCHANGED flow
      /\ Becomes(p, IF c.prev = 0 THEN [c EXCEPT !.st = "redirected"]
                    ELSE [c EXCEPT !.st = "redirected", !.prev = 0,
                                   !.in = <<c.prev, "r">>, !.fds = @ \ ends])

\* Mutant: the child keeps the end its successor reads.
RedirectOut_Reader(p) ==
  LET c == kid[p]
  IN  /\ c.st = "redirected" /\ UNCHANGED flow
      /\ Becomes(p, IF c.next = 0 THEN [c EXCEPT !.st = "wired"]
                    ELSE [c EXCEPT !.st = "wired", !.next = 0,
                                   !.out = <<c.next, "w">>,
                                   !.fds = @ \ {<<c.next, "w">>}])

RedirectOut(p) ==
  LET c == kid[p]
      ends == Ends(c.next)
  IN  /\ c.st = "redirected" /\ UNCHANGED flow
      /\ Becomes(p, IF c.next = 0 THEN [c EXCEPT !.st = "wired"]
                    ELSE [c EXCEPT !.st = "wired", !.next = 0,
                                   !.out = <<c.next, "w">>, !.fds = @ \ ends])

Exec(p) ==
  /\ kid[p].st = "wired" /\ kid[p].program /\ UNCHANGED flow
  /\ Becomes(p, [kid[p] EXCEPT !.st = "running",
                               !.has = IF kid[p].in = Tty /\ kid[p].out # Tty
                                       THEN Output ELSE 0])

\* There is no such program, or no name: the child exits, or dies of it.
ExecFails(p) == kid[p].st = "wired" /\ Becomes(p, Zombie) /\ UNCHANGED flow

-------------------------------------------------------------------------------
(* A program.                                                              *)

Running(p) == kid[p].st = "running"
Source(p)  == kid[p].in[1]
Sink(p)    == kid[p].out[1]

Read(p) ==
  /\ Running(p) /\ kid[p].has = 0 /\ kid[p].in # Tty /\ flow[Source(p)] = 1
  /\ flow' = [flow EXCEPT ![Source(p)] = 0]
  /\ Becomes(p, [kid[p] EXCEPT !.has = IF kid[p].out = Tty THEN 0 ELSE 1])

Write(p) ==
  /\ Running(p) /\ kid[p].has > 0
  /\ IsOpen(<<Sink(p), "r">>) /\ flow[Sink(p)] = 0
  /\ flow' = [flow EXCEPT ![Sink(p)] = 1]
  /\ Becomes(p, [kid[p] EXCEPT !.has = @ - 1])

\* A write that nobody can read any more.
Sigpipe(p) ==
  /\ Running(p) /\ kid[p].has > 0 /\ ~IsOpen(<<Sink(p), "r">>)
  /\ Becomes(p, Zombie) /\ UNCHANGED flow

\* The end of what it reads: of a pipe that is when nobody can write to it.
Finish(p) ==
  /\ Running(p) /\ kid[p].has = 0
  /\ kid[p].in # Tty => flow[Source(p)] = 0 /\ ~IsOpen(<<Source(p), "w">>)
  /\ Becomes(p, Zombie) /\ UNCHANGED flow

StopShort(p) == Running(p) /\ Becomes(p, Zombie) /\ UNCHANGED flow

Child(p) ==
  /\ status = "up"
  /\ \/ RedirectIn(p) \/ RedirectOut(p) \/ Exec(p) \/ ExecFails(p)
     \/ Read(p) \/ Write(p) \/ Sigpipe(p) \/ Finish(p)

User == status = "up" /\ (ReadLine \/ EndOfInput)

Over == status # "up" /\ UNCHANGED vars

Next ==
  \/ Shell \/ User \/ Over
  \/ \E p \in Pids : Child(p) \/ (status = "up" /\ StopShort(p))

Spec == Init /\ [][Next]_vars

\* The shell and its children run; the user types when the user likes.
FairSpec == Spec /\ WF_vars(Shell) /\ \A p \in Pids : WF_vars(Child(p))

-------------------------------------------------------------------------------
\* Every variable has its type.
TypeOK ==
  /\ phase \in {1, 2} /\ Len(mem) >= 1 /\ argv \in Seq(0..Len(mem))
  /\ cmds \in Seq(BOOLEAN) /\ i \in Nat /\ left \in Nat
  /\ pid \in -1..MaxPids /\ held \subseteq UNION {Ends(k) : k \in Pipes}
  /\ \A p \in Pids :
       /\ kid[p].st \in {"none", "forked", "redirected", "wired", "running", "zombie"}
       /\ kid[p].has \in 0..(Output + 1) /\ DOMAIN kid[p] = DOMAIN NoKid
  /\ flow \in [Pipes -> 0..1] /\ status \in {"up", "exited", "corrupt"}

(***************************************************************************)
(* The programs of a pipeline are wired as the bars say: the first reads   *)
(* and the last writes the terminal, a pipe leads from one to the next and *)
(* to nobody else, and no program holds an end it does not use, which      *)
(* would keep its neighbour waiting for an end of input, or alive with     *)
(* nobody to read what it writes.  At the prompt the shell holds no end.   *)
(***************************************************************************)
PipesWired ==
  /\ TypeOK
  /\ pc \notin {"pipe", "parent"} => held = {}
  /\ \A p \in Pids : Running(p) =>
       /\ kid[p].fds = {}
       /\ kid[p].at <= 1 <=> kid[p].in = Tty
       /\ \A q \in Pids \ {p} : Running(q) =>
            /\ kid[p].in = kid[q].in => kid[p].in = Tty
            /\ kid[p].out = kid[q].out => kid[p].out = Tty
            /\ kid[p].out # Tty /\ Sink(p) = Source(q) =>
                 kid[q].at = kid[p].at + 1

(***************************************************************************)
(* When eval is done with a line there are as many children as before it,  *)
(* and the one it put in the background: it waited for as many as it       *)
(* started.  Where a fork failed it may have waited for others, so there   *)
(* are no more than before.                                                *)
(***************************************************************************)
NothingLeftBehind ==
  pc = "prompt" =>
    IF failed THEN Cardinality(Children) <= before
    ELSE ~fresh => Cardinality(Children) = before + started

(***************************************************************************)
(* Whatever the line, the prompt comes back: every program of a pipeline   *)
(* is told the end of its input, or that nobody reads it any more; also    *)
(* when one of them stops short, is no program, or was not forked.         *)
(***************************************************************************)
PromptComesBack == pc # "prompt" ~> (pc = "prompt" \/ status # "up")
===============================================================================
