# Verification of the system programming projects

This directory holds TLA+ models of the programs of this repository, the TLC
configurations that check them on small instances, and theorems checked by TLAPS.
The repository has three unrelated projects:

- `src/prj1` - a command interpreter over lists, hash tables and bitmaps;
- `src/prj2` - a shell, in three phases: commands, pipelines, job control;
- `src/prj3` - a stock server, once event-driven (`task_1`) and once with a thread
  per client (`task_2`), with its clients.

The concurrent ones, the two servers and the shell of phase 3, were modelled first, the
structures of prj1 next, then the shells' parsers and pipelines, the clients' end of a
connection and the interpreter's tables.

## 1. Inventory

### prj3: the threaded stock server (`task_2/stockserver.c`)

*State.* A binary search tree of stocks, each with a `left_stock` and a semaphore;
`thread_count` under `thread_count_mutex`; one global `showString`; `stock.txt`.

*Operations.* `main` accepts a connection, counts it, and creates a detached thread.
`thread` serves `show`, `buy`, `sell` and `exit` until the end of its client's input,
then counts down; the thread that reaches zero rewrites `stock.txt`, still holding the
mutex. `handle_sigint` removes and rewrites `stock.txt` and exits.

*Interaction.* Threads meet at the semaphores, at `showString` (which has no lock), at
`thread_count` and in the file; the handler meets everybody and locks nothing.

*Hard.* Interleavings of the test and the store of a trade; a show under way while
others trade or show; a connection that arrives while the last thread saves; SIGINT
between any two of these; a failed call of main or of a connection, which ends the
process; a client that does not read its answer, which keeps its thread in the write.

*Correct when* no trade is lost or sells what is not there, each client is told the
decision on its own order, the save is made alone and is complete, and every
connection is served.

### prj3: the event-driven stock server (`task_1/stockserver.c`)

*State.* A pool: slots of descriptors, the highest slot used, the watched descriptors,
what `select` returned and the number of them still to serve; the same tree and file.

*Operations.* `select`; `add_client` for one connection a round; `check_clients`, which
serves one line of each ready client and saves when the last client's input has ended.

*Hard.* Clients write, send half lines and hang up between any two steps, and one that
does not read its answer has the only thread wait for it; the round ends early on a
counter decremented in three places; the pool may be full; `exit` and the end of input
leave by different ways, and a connection that fails ends the server without a save.

*Correct when* the pool's books agree, nobody is passed over or starved, and the save
is made when it should be.

### prj3: the tree and `stock.txt`

Both servers build the tree from the file's lines and write it in V-L-R order. *Correct
when* lookup finds what was inserted, a saved file loads to the same tree, and the
stocks survive saves, SIGINT and restarts.

### prj3: clients and csapp

`multiclient.c` sends random lines and reads `MAXLINE` bytes as each answer;
`stockclient.c` sends what is typed and reads up to a newline. The server answers with
`MAXLINE` bytes. All three go through `csapp.c`, the textbook's library: `rio_writen`
repeats short writes, `rio_readnb` and `rio_readlineb` read through a buffer that
`rio_read` fills, and its wrappers end the process on an error. `task_2/stockclient.c` is
an older copy of the event-driven server under a client's name; `echo.c` is not called.

*State.* Each side's place in a call, its line or buffer (which keeps what an earlier call
left), its read buffer, and the bytes under way in either direction.

*Hard.* Pieces of any size; buffers that are printed whatever a read returned; requests
that get no answer; either side gone at any moment, with bytes unread; writes that fill
the socket.

*Correct when* the server takes lines apart where the client put them together, an answer
printed is the one to the request, one client does not end the server for the others, and
neither side is left in a call for ever.

### prj2: the shells of phases 1 and 2 (`phase1/myshell.c`, `phase2/myshell.c`)

*State.* The line, the buffer `parseline` rewrites in place with its pointers into it, the
words and the number of pipes; in `execute_pipeline` two pipes at a time; the children,
and which ends of which pipes each has open.

*Operations.* Read, parse (phase 1: blank out the quotes, then split at spaces; phase 2: a
tokenizer with quotes, escapes and bars, which phase 3 kept), built-in commands, fork and
exec in the foreground or background, pipelines.

*Hard.* The parser writes where it reads; a child inherits every end the shell has open,
and an end left open anywhere keeps a reader waiting; `fork` may fail; `wait(0)` and
`waitpid(-1)` take any child.

*Correct when* the words are those the line means, the programs of a pipeline are wired to
one another and to nothing else, as many children are waited for as were started, and the
prompt comes back.

### prj2: the shell of phase 3 (`phase3/myshell.c`)

*State.* A table of jobs (id, process group, state), the next id, the foreground group;
in the kernel, the children, their unread reports and a pending SIGCHLD.

*Operations.* Run in the foreground or background, pipelines, `jobs`, `fg`, `bg`,
`kill`, `cd`, `quit`; handlers of SIGINT and SIGTSTP, which forward to the foreground
group, and of SIGCHLD, which reaps every child that has something to tell.

*Hard.* The SIGCHLD handler runs between any two steps and inside any wait, and both it
and the shell call `waitpid`; it deletes jobs the shell holds pointers to; signals do
not queue; the table may be full, `fork` may fail.

*Correct when* the table is consistent, no child stays a zombie, no process is out of
the user's reach, signals go nowhere at the prompt, and the prompt comes back.

Its tokenizer is that of phase 2, and its pipeline that of phase 2 with `setpgid`.

### prj1

`list.c` (doubly linked lists with splice, sort, merge, unique, shuffle), `hash.c`
(chained hash table that grows and shrinks), `bitmap.c` (bits in machine words, scans),
`main.c` (tables of named structures and a command loop); `debug.c` and `hex_dump.c`
print. It is sequential: what is hard is the order of pointer updates, rehashing, the
boundaries of words, and sequences of commands (`hash_apply` changes values where they
are, `delete` leaves gaps in the tables). *Correct when* each operation does to the
structure what it does to the sequence, set or bits it stands for, and a name leads to
the structure that was made under it.

## 2. Modules

| module | models | extends |
|---|---|---|
| `StockExchange` | what a stock server promises, abstractly | |
| `StockThreads` | the threaded server, a step per access to shared memory | |
| `StockSigint` | the same with `handle_sigint` interleaved | `StockThreads` |
| `StockEvents` | the event-driven server and its clients | |
| `StockTree` | the search tree as pure operators | |
| `StockStore` | `stock.txt` over loads, saves, SIGINT and restarts | `StockTree` |
| `StockFraming` | one client and its thread, byte by byte, through `csapp.c` | |
| `ShellParse` | `parseline` of phases 1 and 2, in the buffer it rewrites | |
| `PipeShell` | the shells of phases 1 and 2, their children and pipes | `ShellParse` |
| `JobControl` | the shell of phase 3, its children and its handlers | |
| `List` | the lists of prj1 on a heap of nodes | |
| `IntBag` | what a hash table of prj1 promises, abstractly | |
| `HashTable` | the hash table of prj1, over any hash function | |
| `HashBytes` | the hash function of prj1's `main.c` | |
| `Bitmap` | the bitmap of prj1 | |
| `Interpreter` | the tables of names of prj1's `main.c` | |
| `StockThreadsProofs` | theorems about the threaded server: its memory, its save, its shows, `StockExchange`, and what SIGINT leaves | `StockSigint` |
| `StockEventsProofs` | theorems about the event-driven server | `StockEvents` |
| `StockFramingProofs` | theorems about one connection | `StockFraming` |
| `JobControlProofs` | theorems about the shell of phase 3 | `JobControl` |
| `PipeShellProofs` | theorems about the shells of phases 1 and 2 | `PipeShell` |
| `ListProofs` | theorems about the lists and the hash table made of them | `List`, `HashTable` |
| `BitmapProofs` | theorems about the bitmap | `Bitmap` |
| `InterpreterProofs` | theorems about the tables of names | `Interpreter` |
| `MCSession` | sessions of prj1's interpreter, as TLC runs them | `List`, `HashTable`, `HashBytes`, `Bitmap`, `Interpreter` |
| the other `MC...` | the instances TLC checks | the module they name |

`MCStockThreads` also takes `StockTree`, to check (assumption `LoadedOrder`) that the
sequences of ids it uses as trees are what the loader and the walks make of a file.
Definitions called `X_Something` next to a definition `X` are variants of it with a
plausible mistake: the properties are known to notice each of them.

### StockThreads

| code (`task_2/stockserver.c`) | model |
|---|---|
| `left_stock`, the semaphore of an item | `stock[i]`, `sem[i]` |
| `thread_count`, `thread_count_mutex` | `thread_count`; `mutex` is the holder |
| the tree | `VLR`, its ids in the order the recursive walks visit them |
| a thread's place, line, answer and registers | `pc[c]`, `req[c]`, `verdict[c]`, `reg[c]`, `pos[c]`, `line[c]` |
| `showString` | a memory of lines and terminators, with `strlen` and the two halves of `strcat` |
| `stock.txt`, and the stream of a save | `file`, `fp` |

`main` is `Accept`, `CountUp`, `Pthread_create` (`MainGoesOn`) and `MainFails`. A thread is `ReadLine`, `Dispatch`,
then for a trade `P`, `Test`, `Store`, `V`; for a show `ResetString` and, at each node,
`Sprintf`, `StrcatScan`, `StrcatCopy`; then `Reply`. It leaves by `Close`, `CountDown`
and, when it is the last one, `Fopen`, `Fprintf` at each node, `Fclose`, `Unlock`.
`ConnFails` is the exit of the library's wrappers around a read, a write or a close, by
`exit(0)` or by SIGPIPE, and `MainFails` that of the wrappers main calls, `Malloc`,
`Accept` and `Pthread_create`, while the threads are anywhere. `Reply` returns when the
client has read, which only `Readers` have to. Registers that are dead are reset, to
keep the state space small. `seen` records, for each show, what was in stock since it
began; no action reads it. A file is written when its stream is closed or the process
exits: `stock.txt` is far smaller than a stream's buffer.

Abstracted: a line of the string is copied in one step (two shows can tear each other
at the grain of lines; the code can at that of bytes); prices; `byte_cnt`, which only a
log line reads; counts have no width. `StockExchange` has the ledger, each client's
session and the book (`stock.txt`); the refinement mapping is at the end of the module.

### StockSigint

The handler runs on main's thread (`MainStops`; any thread may be given the signal, and
Linux prefers main's), in steps `Sigint`, `Remove`,
`HandlerFopen`, `HandlerFprintf`, `HandlerFclose`, `HandlerExit`, while the threads go
on. A removed file lives on in the stream of a thread that is saving (`Detached`). A
second SIGINT during the handler, and a SIGINT before the tree is built, are not in this
module (`StockStore` has the latter). `calm`, `alone` and `hseen` are histories.

### StockEvents

`clientfd`, `maxi`, `read_set`, `ready_set`, `nready` are the pool's fields of those
names, with a descriptor named by its client; `pc`, `i`, `req`, `verdict` say where
`main` is. `Select`, `add_client`, `TooManyClients`, then for each slot `NextSlot`,
`ReadLine`, `ReadCutLine` or `ReadEof`, and `Show`, `Trade`, `Exit`, `Ignore`, `Answer`,
`Save`; `Fails` is the library's exit. `Answer` returns when the client has read, which
only `Readers` have to; until then the server does nothing else (`Jammed`). The clients `Connect`, `SendLine`, `SendHalf`,
`SendRest`, `Hangup` at any time. What a line says is chosen when it is read, which
makes no difference to the server and saves states. The copy of `clientrio[i]` that
`check_clients` reads through is why `ReadLine` empties the inbox: of lines that come in
one read, only the first is served.

### StockFraming

The client is `client` (the call it is in), `buf`, `at` (what of a call is done) and
`crio`; the thread `server`, `line`, `out` and `srio`; `socket` has the bytes under way to
each side and `closed` how each has gone. A step is one turn of a loop of `csapp.c`:
`ClientWrites` and `ServerWrites` of `rio_writen`, with a write that takes as much as it
likes; `ReadBuffer` of `rio_readnb`; `ReadByte` and `ServerReads` of `rio_readlineb`, both
through `RioRead`; `ReadEnds` and `ServerReadEnds` are the breaks at the end of the file.
`Order` and `Fgets` fill `buf`, `Fputs` prints it, whatever the read returned. `Obey` has
the branches of the thread's loop. A side that closes with bytes unread resets the
connection, the first write to a side that has gone is lost and the next one ends the
writer (`Close`, `ClientBroken`, `ServerBroken`).

The bytes are those the programs tell apart: the first of a command, a newline, a NUL,
what lies behind a string that is sent in full length, and, as an answer's text, the
number of the line it answers. That tree and counts decide which text it is, is
`StockThreads`' matter. The `usleep` of `multiclient.c` takes no step of its own. `asked`,
`heard` and `shown` are histories.

### StockTree, StockStore

A tree is a record of a root and three functions; `insert_Node`, `find_stock`,
`save_new_FILE` and the load loop are operators named as in the code. `StockStore` runs
them: `OpenFile`, `MallocRoot`, `ScanLine`, `EndOfFile`, `Trade`, `SaveOpen`,
`SaveClose`, `ConnectionFails`, `handle_sigint` (one action: the server has one thread) and
`Restart`. A
root that was allocated and never written has the outcomes of reading it
(`SavedImages`). `ledger`, `kept` (the ledger when the file was last written) and `original`
are histories: `ConnectionFails` ends a run without a save, and the trades since then are
lost. And `spoilt` tells the runs in
which an `fopen` failed or SIGINT came before the file was loaded: there the code does
lose stocks.

### ShellParse, PipeShell

`mem` is the buffer with its terminator, and `current`, `start`, `buf` and `argv` are the
code's pointers as places in it. `Escaped`, `Backslash`, `InQuote`, `OpenQuote`, `Pipe`,
`Space` and `Ordinary` are the branches of phase 2's loop, `BlankTurn` and `SplitTurn` the
turns of phase 1's two loops. Characters are the classes the shells tell apart. What a
line means in a shell (`Meant`) is said over the line alone; phase 2 finds that, phase 1
only in a line without quotes and backslashes, and never a letter too many or too few
(`ParsedAsMeant`).

`PipeShell` goes on from there: `ReadLine`, `Nothing`, `builtin_command`, `RunCommand`
with `Waitpid` or `Background`, and for a pipeline `FillRows`, then `PipeFork` and
`ParentCloses` for each command, and `WaitAll`. `held` has the pipe ends the shell has
open, `kid[p]` those of a child: it inherits them all, and `RedirectIn`, `RedirectOut` and
`Exec` or `ExecFails` are its steps up to its program. A program reads to the end of its
input, writes what it read and ends, or stops short; a writer without a reader is ended by
SIGPIPE. A pipe holds one item, and a process that has the terminal for its input writes
`Output` items. More rows than `MAXPIPES` end in `corrupt`, of which nothing more is said.
A row without a program is what a bar at an end, or a quoted bar next to a pipe, leaves.

### JobControl

| code (`phase3/myshell.c`) | model |
|---|---|
| `jobs`, `nextjid`, `fg_pgid` | the variables of those names |
| where `eval` is, and its locals | `pc`, `cmd`, `me`, `slot`, `result`, `left` |
| SIGCHLD pending, its handler running | `sigchld`, `handling` |
| each child: state, unread report | `st`, `report` |

A foreground command is `Launch`, `Foreground`, `Wait`, `EvalEnd`; a background one
`Launch`, `Background`; a pipeline `PipeFork` and `PipeWait` for each command. `fg` is
`Lookup`, `FgContinue`, `FgSet`, `FgWait`, `FgEnd`; `bg` and `kill` likewise. The
handler is `Handle`, `Reap` for each child with something to tell, `HandlerReturns`; the
shell does not move while it runs (`At`). Children `Exit` - they end, or are killed from outside, which
a stopped one can be, too - and stop themselves
(`StopsItself`: no child is ever the terminal's foreground group, so one that reads it
is stopped); Ctrl-C and Ctrl-Z are `sigint_handler` and `sigtstp_handler`.

`missed` is a history: the reports that were taken before there was a job to mark, or by
somebody who does not look at it (`add_job` after the fork, the end of `bg`, `wait(0)`).

`fg` after a failed `waitpid` reads a `status` that was never written: `FgEnd` then does
either. `kill` of a job the handler has deleted, or of `%0`, is a signal to the shell's
own group and ends it. Abstracted: one process a command; a child is in its group from
its fork on; `add_job` and `delete_job` are one step; pids are not used again.

### List

`next`, `prev` and `data` are the links and values of every node; a list is its head and
its tail. `list_insert`, `list_remove` and `list_splice` are the assignments of those
functions in their order, each on the heap the one before it left, because which
assignment reads which link is what can go wrong. The commands of `main.c` that move a
few pointers are one action each; `list_sort` (`FindRuns`, `MergeSkip`, `MergeMove`,
`MergeDone`, `PassDone`), `list_unique`, `list_reverse` and `list_shuffle` are a step for
each turn of their loops. A failed assertion ends the program (`aborted`). A splice of
something that is no range, and a swap with the tail, are accepted by the code and break
the lists: what follows (`corrupt`) is not modelled. `want` is a history: what each list
holds if the command is understood as one on sequences. `edge` marks where the merge
began. Items no list reaches are leaked by the code; here memory may hand them out again.

### HashTable, IntBag

`buckets` maps a bucket's number to a sequence of values, front first, because
`insert_elem` pushes to the front and rehashing moves the elements one by one from the
front. `rehash` fails without a word when memory runs out, so every change may or may not
resize. `find_bucket` and `turn_off_least_1bit` use `bitand`, the code's `&`, for a number
of buckets or less; the loop that rounds the number of buckets is `Rounded`. The hash
function is a constant, `hash`, as it is a member of `struct hash`: the run takes that of
`main.c`, `HashBytes`, which has the low byte of the code's, from the low bytes of its
constants, because there are fewer than 256 buckets. The iterator is a bucket and a place
in it; `Visited` is where it is after each `hash_next`, and `Dumped` what `dumpdata`
prints. The names `HashInit`, `HashNext` and `HashSpec`, and their like in
`Bitmap` and `Interpreter`, keep these modules apart in the one that runs them all and in
the one that proves about `List` and `HashTable`. `hash_apply` with `square` or `triple` changes values where
they are, and `stale` remembers it until the next resize. `IntBag` is a set of integers
for as long as it is `exact`, and `HashTable` implements it.

### Bitmap

An element is the set of the numbers of its bits that are 1. `orl`, `andl` and `xorl`
change the bits below `AsmBits` only, whatever the width of the element. A bitmap is
created with anything in the other bits (`NewBits`), which is what `malloc` leaves there.
Two widths stand for the two builds: longs of the instructions' width, and of twice that.
`marked` is a history: the bits that should be 1.

### Interpreter

`entries` has those of `LISTS`, `BITMAPS` and `HASHTABLE`, `count` their counts; a
structure is a number. `Create` stores its pointer at the count, with memory (`Created`)
or without (`NotCreated`), whatever the entry holds; `Delete` goes through the chain of
`else if` (`First`), empties the entry (`Removed`) and lowers the count. `Found` is the
three `return_..._address`. The other commands matter where they follow a null pointer
(`OnStructure`, `Dumpdata`) or store one (`Expand`). An entry behind its table, `beyond`, is
where nothing more is said. `live` is a history: the structures of each kind made and not
destroyed, whose numbers say in which order; `orderly` remembers whether every delete took the one made last.

## 3. Runs

All of them are checked exhaustively within their bounds.

| run | instance | states | shows |
|---|---|---|---|
| `StockThreads` | 3 clients, 1 item, failing calls, one need not read | 200,076 | `NoOversell`, `NoLostUpdate`, `SavesAlone`, `FileKept`, `Served`, `Answered`, and that the server implements `StockExchange` |
| `StockSigint` | 2 clients, 2 items, one shows, failing `fopen` | 652,481 | what `stock.txt` is worth after SIGINT: `SigintKeepsStocks`; `ShowWhole` |
| `StockStore` | all files of up to 4 lines over 4 ids, ends without a save | 1,363,464 | `LookupFindsLoaded`, `NothingLost` |
| `StockEvents` | 3 clients, 2 slots, every failure | 369,421 | `PoolAgrees`, `SavedWhenHungUp`, and that the loop implements `StockExchange` |
| `StockEventsLive` | 2 clients, half lines, one need not read | 36,391 | `Heard`, `Accepted` |
| `StockFraming` | 3 orders or 4 typed pieces, either side may go | 286,437 | `LinesAsSent`, `InStep`, `OthersServed`, `BothEnd` |
| `JobControl` | 3 processes, 2 jobs, every command | 437,913 | `TableAgrees`, `Tracked`, `MarkedStopped`, `EndsReaped`, `PromptComesBack` |
| `PipeShell` | every line of 3 characters, 3 processes | 140,231 | `ParsedAsMeant`, `PipesWired`, `NothingLeftBehind`, `PromptComesBack` |
| `Session` | prj1: 3 items in 2 lists, or 5 elements in 1 to 4 buckets, or 6 bits in two builds, or 4 structures under 2 names in tables of 3 | 208,168 | `Linked`, `DoesAsTold`, `CommandsEnd`; `FindsAll`, and that the table implements `IntBag`; `ReachableBitsRight`, `QueriesAgree`; `NamesKept` |

The remaining runs each check what a document or a comment of the repository says, and
TLC finds it violated by what the code does (section 5):

| run | property | violated because |
|---|---|---|
| `PipeShellQuotes` | `QuotesProtect` | phase 1 blanks quotes before it splits the line |
| `Bitmap64` | `AllBitsRight` | 32-bit instructions on 64-bit elements |
| `InterpreterDelete` | `DeleteDeletes` | the kinds are an `else if` chain on the counts |

`Session` is one run for the whole of prj1: structures share nothing but the tables of their
names, so that a session which mixes commands on several shows no more than one that stays
with the lists, a hash table, a bitmap or the tables.

Several of the properties are conjunctions of named parts, each a sentence of its own in the
module: `SavesAlone` has `CountsThreads`, `FileKept` has `FileWhole` and `QuietFile`,
`SigintKeepsStocks` has `SigintAtRest` and `SigintNoneSaving`, `PoolAgrees` has
`NreadyCounts`, `Heard` has `LetGo`, `LookupFindsLoaded` has `SaveLoadRoundTrip`,
`TableAgrees` has `PromptIsSafe`, `Linked` has `MergeSorted` and `FindsAll` has
`LoadInBounds`.

*Why the bounds are enough.* Three clients are the least with which two contend while a
third comes or leaves; trades of different items do not meet anywhere but in the walks,
so the contention run has one item and the runs with walks have two, a root and a child.
`MaxStock` only keeps sellers from counting for ever; a stock of 0, of 1 and of more are
all reached, and so are a buy that succeeds, one that is short and one of an unknown id.
Four ids give every shape of tree with four nodes, and duplicates of a line. Two slots
and three clients fill the pool. Three processes give a foreground command with a
background and a stopped one, and fill a table of two; `MaxPids` bounds how many commands
a behaviour has, and no pid is used twice.

Buffers of five bytes hold an answer of two lines with its NUL, and one line with bytes
behind it; sockets of two are smaller than an answer and than the longest piece, so that
writes are short, both sides can be caught writing, and an answer is in the socket, the
read buffer and `buf` at once. Four pieces let a stockclient fall behind, catch up by
lines that are not answered, and leave. `RIO_BUFSIZE` and `MAXLINE` are equal, as in
`csapp.h`. Every line of three characters has every pair of neighbours the parser's
branches meet, a quote or an escape open at the end included; the longer ones add two
bars of which one is quoted or escaped, three programs, and one more command than
there are rows. Three processes are a pipeline, or a background job and a pipeline of
two. Tables of three entries have a structure deleted in the middle, and four creates
fill one and go beyond it.

In the lists three items are sorted in two passes, the first of which leaves a run over,
and there are two lists so that elements move between lists and within one. A table of
five elements has one, two and four buckets, up and down: `BEST_ELEMS_PER_BUCKET` and the
least number of buckets are 1 instead of 2 and 4, and the arithmetic of `rehash` is that
of the code. Six bits are three full elements in one build, and in the other two of which
the second is not full, with bits in either half of each.

The type invariants `TypeOK` and `SigTypeOK` are conjuncts of the first safety property of
their run, except in `StockThreads`, where `TypeOK` is stated on its own and proved.

Symmetry is used under permutations of clients in `StockEvents`, and of names in
`InterpreterDelete`; not where a run has liveness properties or tells its clients apart.

*Fairness.* Weak fairness of `MainGoesOn` and of each thread's `Work` (threads are
scheduled), and of `Reply` for the clients in `Readers` only: the write of `MAXLINE` bytes
returns when its client has read enough. Nothing else is assumed of clients, which may
stop sending or never read, and there is no strong fairness for semaphores: POSIX does
not promise it, so `Answered` starts after `P`. `Served` holds for every client, and
`Answered` for every reader, though in the run one client is none: a thread in its write
holds neither a semaphore nor the mutex. The event loop has weak fairness of `Server`, in
which `Answer` is not, and of `Answer` to a client in `Readers`; of the two clients of
`StockEventsLive` one is. Clients are assumed to end a line they have begun, because the server blocks reading
it, and `Heard` and `Accepted` are false without that. They except the behaviours in which
the server stays in a write to a client that does not read (`Jammed`): then nobody is
served any more. The shell and its handler
have weak fairness each; the user, and children, have none. In `PipeShell` the shell and
each child have weak fairness, programs included: they read, write and end when they can,
and the shell's part is that they can. In `StockFraming` each side has weak fairness of
its steps, which includes a user who sooner or later types a line or ends the input; that
it goes away, or stops short, is never forced. The loops of the list commands
have weak fairness: nothing else runs while one does.

*Deadlock* is checked in every run of a server and of the shells of phases 1 and 2. It is
not in `JobControl`: the shell really may wait for ever, for instance for a command of a
pipeline that has stopped. Nor in `StockFraming`, where both sides end, and a stockclient
may wait for ever (`BothEnd` says when); nor in the runs of prj1, where the program ends,
by a failed assertion or a null pointer if not by `quit`.

## 4. Proofs

Each theorem holds for every value of the constants that the named assumption of its
module allows: any finite set of clients, any tree, any lines, any number of processes,
slots, jobs or structures, whatever the bounds of the runs. Where a theorem needs more it
says so in an `ASSUME ... PROVE`. In every case the property is not inductive: the
invariant adds what holds at the places where the property looks at nothing.

| module | theorem | states | beyond the assumption |
|---|---|---|---|
| `StockThreadsProofs` | `TypeCorrect`, `NoUpdateIsLost` | `TypeOK`, `NoLostUpdate` | |
| | `SaveIsAlone` | `SavesAlone` | |
| | `FileIsKept` | `FileKept` | |
| | `NothingOversold` | `NoOversell` | |
| | `OneShowIsWhole` | `ShowWhole` | at most one client shows |
| | `ServerIsExchange` | `ImplementsExchange` | |
| | `SigintKeeps` | `SigintKeepsStocks` | no call ends the server |
| | `SigintLeavesShows` | `ShowWhole` | at most one client shows |
| `StockEventsProofs` | `PoolStaysInStep` | `PoolAgrees` | |
| | `HangupSaves` | `SavedWhenHungUp` | |
| | `LoopIsExchange` | `ImplementsExchange` | |
| `StockFramingProofs` | `LinesAreWhole` | `LinesAsSent` | |
| | `OthersStayServed` | `OthersServed` | |
| | `MulticlientInStep` | `InStep` | a multiclient |
| `JobControlProofs` | `TableStaysWhole` | `TableAgrees` | |
| | `NoProcessIsLost` | `Tracked` | |
| | `StoppedIsStopped` | `MarkedStopped` | |
| `PipeShellProofs` | `PipesLead` | `PipesWired` | |
| | `AllAreWaitedFor` | `NothingLeftBehind` | |
| `ListProofs` | `LinksStayWhole` | `Linked` | |
| | `CommandsDoAsTold` | `DoesAsTold` | |
| | `TableFindsAll` | `FindsAll` | |
| `BitmapProofs` | `BitsAreRight` | `ReachableBitsRight` | |
| | `AllRightIn32Bits` | `AllBitsRight` | elements as wide as the instructions |
| | `QueriesDoAgree` | `QueriesAgree` | |
| `InterpreterProofs` | `NamesLeadToLive` | `NamesKept` | |

### The threaded server

Assumed is `ThreadsAssumption`: finitely many clients, a tree without duplicates, initial
stocks for its items, and requests and shows of the clients there are.

`Inv` is `MemInv` (`MemType`, `PlaceInv`, `LockInv`) and `FileType`; the two are apart
because the SIGINT handler leaves the first alone and not the second, so that what is
proved about memory can be used under SIGINT. `strlen` is only defined when there is a
terminator in `showString`, and `stock[req.id]` only for an id of the tree: `PlaceInv`
says so for each place where a thread uses them. Nothing in `NoLostUpdate` keeps a second
thread out of the critical section: `LockInv` adds that a thread between `P` and `V` has
its item's semaphore at zero and no companion.

Upon that stand, one upon the other:

- `MainInv` and `MutexInv`: a connection is in the backlog once, main has at most the one
  it accepted, and a saving thread holds the mutex with `thread_count` at zero. That
  `thread_count` is the number of threads between two places is a fact about
  cardinalities that each step changes by at most one (`CountedStep`);
- `FileInv`: at each place of a save, what the stream has (`Walked`) and that the file is
  empty; that the items passed still have the stocks written is `SavesAlone`. `EndInv`: when
  the server has ended while a thread was saving, main had no connection in hand. A
  connection cannot fail then, because nobody else is served, and so it was main's own
  `Malloc` or `Accept` that ended it: what the theorem leaves as the one way to a torn file;
- `OrderInv`: a trade at its store still has in stock what its test saw, by `NoLostUpdate`;
- `ShowInv`: where the lone show is in its walk, the lines in `showString` are those of
  the items passed, each with a stock the item had since the show began. A second show
  breaks this, and the code, hence the hypothesis;
- `ServerIsExchange`: initial states map to initial states, and each step is a step of
  `StockExchange` or a stutter (`ExchangeStep`): `Store`, and a `Test` that fails, decide
  an order, `Reply` tells it, and `Fclose` writes the book.

The part about SIGINT takes `MemInv` and `AloneInv` over, which each of the handler's steps
leaves alone, and adds: a stream is open only while a thread writes to it
(`StreamOpen`); what the handler has written of the items it passed (`KeptInv`), with
nobody saving; and that nobody starts while main is in the handler, so that a server at
rest when the signal came is still at rest (`RestInv`). `FileInv` is no part of it: while
a thread saves, the handler and the thread spoil each other's file, which is the point of
the two cases of `SigintKeepsStocks`. The hypothesis of `SigintKeeps` is that of the run: a
call that fails ends the process in the middle of the handler's walk, with whatever the
file then holds.

### The event-driven server

Assumed is `EventsAssumption`. `PoolInv` is the types, `BooksAgree` (the slots, the watched
descriptors and the connections tell the same story), `QueueInv` and `RoundInv`: what is
left of `nready` is the number of ready clients in the slots from here on, at every place
of the round and not only where the loop looks at it, which needs that a hang-up between
two steps changes no descriptor. `FileInv` is the save: the tree differs from `stock.txt`
only while somebody is in the pool, after an `exit`, or on the way to the save.
`LoopIsExchange` uses `OrderInv`: a line has no verdict until it is decided.

### The connection

Assumed is `SizesAssumption`: buffers, sockets and read buffers of any size but zero, and
lines long enough for an order. The pieces a `write` or `read` moves are any.

- `PlaceInv`: the types, and for each side what its buffers hold at each place.
- `StreamInv`: behind the pieces the server has heard, what is in its line, its read
  buffer and the socket is the pieces from there on, up to the last one, of which some
  first part is sent. `Wholes` names what the first `n` pieces put into the stream. That
  the server's next line is then the next piece rests on `LineCut` and `PartCut`: both
  `fgets` and `rio_readlineb` end at the first newline or one byte before `MAXLINE`, so
  that neither can end before the other. A client killed in its write leaves a part of its
  last piece, which is what `LinesAsSent` allows.
- `Turns`: a multiclient and its server are quiet, or a request is under way, or the rest
  of an answer that `buf` has begun. What it prints is therefore the answer
  (`MulticlientInStep`), and it closes with nothing unread, so that no write of the server
  fails (`OthersStayServed`) - without `Turns` the latter is not inductive.

### The shell with jobs

Assumed is `JobsAssumption`. `TableInv` says that slots are free of all or of nothing,
that ids and processes are below the next ones to be given out, and that the process just
forked has no job; with `PlaceInv` (what the shell's locals hold at each place, and a
foreground group only around a wait) and `BornInv` it is inductive, and gives
`TableAgrees`. For the other two: `ToldInv`, what `waitpid` told is still so when the shell
acts on it, since nobody else continues a process - but that a stopped one may have been
killed meanwhile, and then its end is still to be told, or was taken by the handler before
there was a job (`missed`); `HeldInv`, a live process has its job
or was just forked; `GoneInv` and `StopInv`, a job whose process is gone, or stopped
unmarked, is at one of the few places of the shell where it is about to be dealt with, or
in `missed`; and `NoForgottenZombie`. The handler's `Reap` keeps all of them at every
place, because it runs between any two steps.

### The shells of phases 1 and 2

Assumed is `PipeShellAssumption`. `ParseInv` keeps the parsers' pointers in their buffer
and in order, and says that `pipe_cnt` is the number of bars among the words - which is why
`execute_pipeline` never reads a row that was not filled (`RowsEnough`). `HeldInv` says
which ends the shell has open at each place of the loop over the commands. `WireInv` has
`KidInv` for each child (the ends it holds at each of its steps), `Apart` for each two (no
two read or write one pipe, and a pipe goes from a program to the next one) and `NotRead`
for the pipe whose reader is still to be forked. `CountInv` is the count of children over
those before the line, place by place, with `failed` for a fork that failed.

### The lists

Assumed is `ListAssumption`: finitely many items, none of which is an end of a list, and
values that are integers.

The shape of a heap is said with two ghosts: `own`, the list a node is in, and `rk`, how
far it is from that list's head. A heap is `Placed` by them when no two nodes of a list
have one rank and the links go up and down by one; `Loose` says that a node of no list has
no links. All walks of the model - `list_size`, `find_end_of_run`, `list_max`, the spans
of the assertions - are then facts about ranks (`ElementIs`, `SizeIs`, `RunEnd`, `BestIs`,
`SpanIs`), and what a list holds is `Holds`: the value of the node of rank `k` is the
`k`-th of the sequence.

`list_insert`, `list_remove` and `list_splice` are cuts and pastes of a segment of nodes
(`CutOf`, `PasteOf`). `CutPlaced`, `PastePlaced`, `CutHolds` and `PasteHolds` say what they
do to ranks and to sequences, and `InsertDoes`, `RemoveDoes` and `SpliceDoes` sum that up:
there are ghosts for the heap after the operation, under which the sequences are
`InsertAt`, `RemoveAt` and the move of a range. The code writes one link at a time, and
reads links it has just written; `InsertIs`, `RemoveIs` and `SpliceIs` are where that is
settled.

`Inv` is: the types, and that there are ghosts with `At`, which has a part for each loop.

- `RunInv` and `MergeInv`, for `list_sort`: a pass that has found `n` runs is at a rank
  above `n`, and one run alone is sorted from the front on, so that a pass which ends with
  at most one run has a sorted list before it. In a merge, beside the three sorted parts,
  what lies between the edge and `a0` is not greater than what follows up to `b1`. That
  the values stay the same is `Goal`: for every `v` as many of the list as of what it is to
  hold in the end are less than `v`. Two sorted sequences that agree in this are equal
  (`SortedOne`).
- `UniqueInv`, for `list_unique`: with `m` elements done, the list holds those it kept
  followed by the rest, and the other list what it held followed by those it was given
  (`KeptStep`, `PutLast`). Of a list onto itself only the shape is said.
- `ReverseInv`, for `list_reverse`: half way the heap is not placed; it is a placed heap
  in which `next` and `prev` of the nodes behind `e` have changed places. At the ends the
  new ranks count from the other side (`ReverseLast`).
- Between commands, and in a shuffle, every list holds what `want` says.

Nothing is said, as in the properties, of what follows a `list_splice` whose range
contains its own destination, or a `list_swap` with the tail (`corrupt`).

### The hash table

Assumed is `HashAssumption`: a least number of buckets that is a power of 2, at least one
element to a bucket at best, and a hash function, any, from the integers to the naturals.

`HashInv` is: the types, the ratios, that `elem_cnt` is the number of elements in the
buckets, and, unless a value was changed in place, that every element is in the bucket it
is looked for in (`Homed`); `FindsAll` speaks of what the iterator shows, and is not
inductive. What it takes:

- `x & (x - 1)` (`AndIs`, `AndLess`, `OffIs`): an odd number loses its 1, an even one is
  twice its half's. Hence a number that is no power of 2 keeps its highest bit
  (`HighBit`), the loop of `rehash` ends at the one power of 2 that is not greater and of
  which the double is (`RoundedIs`), and the ratios follow (`NewCountIs`). That
  `hash & (bucket_cnt - 1)` is the number of a bucket is `InTable`.
- `Preceding` is the number of elements in the first buckets. `OneBucket` says that a
  change of one bucket changes it by as many; `InsertHolds` and `RemoveHolds` use it, and
  `MovedHolds` is an induction over the elements moved: all of them are in the new
  buckets, each where the new number of buckets has it looked for.
- `NextIs`: the iterator that is at the `n`-th element goes to the next, over empty
  buckets, and to the end from the last. So it visits every element once (`DumpedIs`).

### The bitmap

Assumed is `BitmapAssumption`: elements at least as wide as the instructions. `Inv` says
that no bit beyond the bitmap's end is set (`Trimmed`) - the bits above the instructions'
width included, whatever `malloc` left in them - and that the reachable bits are the marked
ones. Where the elements are as wide as the instructions every bit is reachable
(`AllRightIn32Bits`): the widths are the whole difference between the code and its comments. `bitmap_set_multiple`
and `bitmap_scan` are loops, which the model has as recursive functions; the lemmas
`LoopExists` and `LoopIs` show that such a function exists and is the one that marks the
first `k` bits, by the least `k` for which it would not (`HasLeast`). `CountIs` and
`ScanIs` say the same of the count and the scan, and `QueriesAgree` follows from those.

### The interpreter

Assumed is `TablesAssumption`. Below the count of a table `Named` says that an entry is a
structure that lives and that no two entries have the same; `Counted`, that the counts are
the numbers of those alive (for bitmaps, at most: `expand` loses one); `InOrder`, that as
long as every delete took the one made last the entries are exactly the structures alive,
from the first made to the last. `Beyond` says when an entry behind its table may be written.

### What is only model-checked

- *Liveness, fairness and deadlock*, out of the prover's reach: `Served`, `Answered`,
  `Heard`, `Accepted`, `BothEnd`, `EndsReaped`, `PromptComesBack`, `CommandsEnd`.
- *The tree and its file*: `StockTree` is made of recursive operators, and what those
  compute is an induction over trees. `StockStore` is checked on every tree of four nodes,
  and the theorems about the servers are about any sequence of ids the tree may have.
- *The hash table as a bag*: that it implements `IntBag`, whose operators on bags are sums
  over sets that the library defines by recursion.
- *A stockclient's part of `InStep`*: that needs the places of the terminators in the
  stream of answers, of which a stockclient takes a line at a time.
- *The parsers' meaning* (`ParsedAsMeant`): `Meant` is recursive over the line. What is
  proved is that they stay in their buffer and count their bars.

## 5. Where code and documentation differ

Met while modelling, and modelled. Where a run that expects a violation shows the
difference, it is named at the end of the item; the other properties say what holds all
the same:

- SIGCHLD is not blocked between `fork` and `add_job`: a background child that ends first
  is reaped by the handler, which finds no job, and its job, added after that, stays in
  the table for ever (`phase3/myshell.c:185`; `phase3/README.md:46` says that SIGCHLD is
  used to update the jobs). `Tracked` allows jobs of processes that are gone for the
  reports in `missed` only;
- an element of a bitmap is an `unsigned long` and `orl`, `andl` and `xorl` change its
  lower 32 bits: the upper ones keep what `malloc` left (`prj1/bitmap.c:140`, where
  `prj1/bitmap.c:54` says that all bits of a new bitmap are false, `:131` that a mark sets
  its bit and `:137` that it is equivalent to `b->bits[idx] |= mask`). `ReachableBitsRight` is
  what is left of that. Run `Bitmap64`;
- with a list in the tables `delete` of a bitmap or a hash table does nothing
  (`prj1/main.c:149`; `prj1/Readme.md:12` says that it deletes the given structure). Run
  `InterpreterDelete`;
- a delete out of order makes the structure made last unreachable, and the next create
  loses it (`prj1/main.c:144`); no create looks whether its table is full
  (`prj1/main.c:89`); a name that is not found is a null pointer followed;
- a stockclient is one answer behind from its second request on, because an answer has
  `MAXLINE` bytes and it reads a line of them (`task_1/stockclient.c:25`; the line
  commented out at `multiclient.c:75` is the same call); a line that is no command, or a
  last line without a newline, leaves it waiting;
- a stockclient that ends with answers unread ends the whole server, by an error or by
  SIGPIPE (`task_2/stockserver.c:93`); one that goes on long enough ends in a write with
  the server in another (`task_2/stockserver.c:101`);
- after the server has ended a client prints its own request, or an answer over it
  (`multiclient.c:77`);
- phase 1 turns quotes and backslashes into spaces, so that they part words instead of
  joining them, and protect nothing (`phase1/myshell.c:113`; `phase1/README.md:23` says that
  it handles quoted strings and escape characters similarly to a real shell).
  `ParsedAsMeant` is stated of the lines of phase 1 that have none. Run `PipeShellQuotes`;
- in phase 2 a bar that was quoted or escaped is taken for a pipe when the
  line has another (`phase2/myshell.c:57`); more than `MAXPIPES` commands are written
  behind the rows (`phase2/myshell.c:58`);
- after a `fork` that failed, `waitpid(-1)` waits for any background job
  (`phase2/myshell.c:86`); background jobs stay zombies until a pipeline's `wait(0)`
  happens to take them, and then the prompt comes before the pipeline's end
  (`phase2/myshell.c:263`; the comment at `:261` says that every child is waited for);
- two shows at a time share `showString`: a client may be sent another's lines, or some
  twice (`task_2/stockserver.c:99`; `ShowWhole` is checked with one client that shows);
- the last thread's `fopen` truncates the file the SIGINT handler is writing, and the file
  left at exit may be incomplete (`task_2/stockserver.c:150`; `SigintNoneSaving` is stated
  of the runs in which no thread saves);
- the handler may take the report that the foreground process stopped, and the shell then
  waits for one that does not come (`phase3/myshell.c:398`);
- a pipeline's `wait(0)` returns for a background job as well, so that the prompt comes
  before the pipeline has ended (`phase3/myshell.c:379`);
- values changed by `hash_apply` are not found until the table is resized
  (`prj1/main.c:561`, `prj1/hash.c:127`);
- `bitmap_scan_and_flip` of no bits at all returns the start, and flips nothing
  (`prj1/bitmap.c:279`);
- `list_shuffle` of a list of one element does not end, and `list_unique` of a list onto
  itself need not (`prj1/list.c:540`, `prj1/list.c:455`);
- SIGINT while `main` loads `stock.txt` replaces it by what is loaded so far
  (`task_1/stockserver.c:51`);
- of lines that arrive together the event-driven server serves the first only
  (`task_1/stockserver.c:185`);
- when the last client leaves by `exit` the event-driven server does not save
  (`task_1/stockserver.c:239`);
- a trade made after the handler has written its item is not in the file
  (`task_2/stockserver.c:227`);
- `bg %1`, as documented (`phase3/README.md:51`), gives `%1` to `atoi` and never resumes
  a job (`phase3/myshell.c:224`);
- `kill %0`, or `kill` of a job the handler has just deleted, signals group 0 and ends the
  shell itself (`phase3/myshell.c:269`; `phase3/README.md:52` says that it terminates a job);
- a failed `Malloc` or `Accept` of main ends the threaded server, and when the last thread
  is just then saving, `stock.txt` is left incomplete (`task_2/stockserver.c:72`; `FileKept`
  says that nothing else does it);
- a client that does not read its answer stops the event-driven server for everybody
  (`task_1/stockserver.c:202`; `Jammed`), and a thread of the other server for itself;
- a connection that fails ends either server without a save, and the trades since the last
  one are lost (`task_1/stockserver.c:173`; `NothingLost` says that no earlier ones are);
- with `SA_NOCLDSTOP` a background job that stops is listed as running until another
  child ends (`phase3/myshell.c:108`);
- Ctrl-C does not reach a pipeline: it has no foreground group (`phase3/README.md:44`).

## 6. Not modelled

`cd`, which changes nothing the models have; the fork of several clients in
`multiclient.c`; `task_2/stockclient.c`, an older copy of a server that is modelled;
printing and logging everywhere; the wrappers of single system calls in `csapp.c`, its
host lookup and its signal-safe output, and `echo.c`, which nothing calls; `debug.c` and
`hex_dump.c`. Lengths of names and of lines beyond their buffers, `MAXARGS`, and the width
of counts of stocks are left out, too; and of `bitmap_expand` the
wrap of its `size_t` sum, when a negative size exceeds the bitmap's.

## 7. Plan

1. Done: every program that runs - the two servers, SIGINT, the tree and the file, the
   clients, the three shells, the lists, hash tables and bitmaps and the interpreter's
   tables; the first theorems.
2. Done: proofs of every safety property of the two servers, of SIGINT, of the shell with
   jobs, of the interpreter's tables, of the bitmap, of the lists and of the hash table, of
   the pipes and the children of the first two shells, of the connection, and of both
   refinements of `StockExchange`.
3. Open: `InStep` of a stockclient; of `ParsedAsMeant` the parts that do not need `Meant`;
   that the hash table implements `IntBag`.
