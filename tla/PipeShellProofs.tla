---------------------------- MODULE PipeShellProofs ----------------------------
(***************************************************************************)
(* Theorems about PipeShell, for any lines, any number of processes, rows  *)
(* and items: the programs of a pipeline are wired to one another and to   *)
(* nobody else, and as many children are waited for as were started.       *)
(***************************************************************************)
EXTENDS PipeShell, FiniteSetTheorems, WellFoundedInduction, TLAPS

-------------------------------------------------------------------------------
(* The least of some numbers, and the bars among the words' addresses.     *)

LEMMA LeastIsOne ==
  ASSUME NEW S \in SUBSET Nat, S # {}
  PROVE  Min(S) \in S
<1>1. PICK e \in S : \A k \in S : ~(<<k, e>> \in OpToRel(<, Nat))
  <2>1. IsWellFoundedOn(OpToRel(<, Nat), Nat)
    BY NatLessThanWellFounded
  <2> QED
    BY <2>1, WFMin
<1>2. \A k \in S : ~(k < e)
  BY <1>1 DEF OpToRel
<1>3. \A k \in S : e =< k
  BY <1>2
<1> QED
  BY <1>3 DEF Min

BarsOf(a) == {k \in DOMAIN a : a[k] = PIPE}

LEMMA BarsFinite ==
  ASSUME NEW n \in Nat, NEW a \in Seq(0..n)
  PROVE  IsFiniteSet(BarsOf(a)) /\ Cardinality(BarsOf(a)) \in Nat
<1>1. IsFiniteSet(1..Len(a))
  BY FS_Interval
<1>2. BarsOf(a) \in SUBSET (1..Len(a))
  BY DEF BarsOf
<1> QED
  BY <1>1, <1>2, FS_Subset, FS_CardinalityType

LEMMA WordAdded ==
  ASSUME NEW n \in Nat, NEW a \in Seq(0..n), NEW w \in 1..n
  PROVE  /\ Append(a, w) \in Seq(0..n)
         /\ Cardinality(BarsOf(Append(a, w))) = Cardinality(BarsOf(a))
<1>1. BarsOf(Append(a, w)) = BarsOf(a)
  BY DEF BarsOf, PIPE
<1> QED
  BY <1>1

LEMMA BarAdded ==
  ASSUME NEW n \in Nat, NEW a \in Seq(0..n)
  PROVE  /\ Append(a, PIPE) \in Seq(0..n)
         /\ Cardinality(BarsOf(Append(a, PIPE))) = Cardinality(BarsOf(a)) + 1
<1>1. BarsOf(Append(a, PIPE)) = BarsOf(a) \cup {Len(a) + 1}
  BY DEF BarsOf, PIPE
<1>2. Len(a) + 1 \notin BarsOf(a)
  BY DEF BarsOf
<1> QED
  BY <1>1, <1>2, BarsFinite, FS_AddElement DEF PIPE

-------------------------------------------------------------------------------
(* The parsers stay in their buffer, and leave addresses in it.            *)

Bytes == Chars \cup {"n", NUL}

LEMMA Known == NUL \in Bytes /\ SPACE \in Bytes /\ NUL # SPACE
BY Zenon DEF NUL, SPACE, Bytes, Chars

LEMMA Ended ==
  ASSUME NEW s \in Seq(Bytes)
  PROVE  /\ Append(s, NUL) \in Seq(Bytes) /\ Len(Append(s, NUL)) = Len(s) + 1
         /\ Append(s, NUL)[Len(s) + 1] = NUL
BY Known

Scan ==
  pc = "scan" =>
    /\ mem[Len(mem)] = NUL /\ start \in Nat
    /\ buf <= start /\ start <= current /\ current <= Len(mem)

ParseInv ==
  /\ phase \in {1, 2} /\ mem \in Seq(Bytes) /\ Len(mem) >= 1
  /\ current \in Nat \ {0} /\ buf \in 1..Len(mem)
  /\ argv \in Seq(0..Len(mem))
  /\ pipe_cnt \in Nat /\ pipe_cnt = Cardinality(BarsOf(argv))
  /\ Scan
  /\ pc = "blank" => Len(mem) >= 2
  /\ pc = "split" => mem[Len(mem)] = NUL

LEMMA Emptied ==
  ASSUME Forget, phase' = phase, phase \in {1, 2}, pc' \notin {"scan", "blank", "split"}
  PROVE  ParseInv'
<1>1. /\ mem' = <<NUL>> /\ current' = 1 /\ start' = 1 /\ buf' = 1
      /\ argv' = <<>> /\ pipe_cnt' = 0
  BY DEF Forget
<1>2. BarsOf(argv') = {} /\ argv' \in Seq(0..Len(mem'))
  BY <1>1 DEF BarsOf
<1>3. Cardinality(BarsOf(argv')) = 0
  BY <1>2, FS_EmptySet
<1>4. mem' \in Seq(Bytes) /\ Len(mem') = 1
  BY <1>1, Known
<1> QED
  BY <1>1, <1>2, <1>3, <1>4 DEF ParseInv, Scan

LEMMA Given ==
  ASSUME NEW l \in Seq(Chars \cup {"n"}), l # <<>>, Parse(l), phase' = phase,
         phase \in {1, 2}
  PROVE  ParseInv'
<1> DEFINE text == IF phase = 1 THEN l ELSE Chopped(l)
<1>1. text \in Seq(Bytes) /\ Len(text) = Len(l) /\ Len(l) \in Nat \ {0}
  <2>1. l \in Seq(Bytes) /\ Len(l) \in Nat \ {0}
    BY DEF Bytes
  <2> QED
    BY <2>1, Known DEF Chopped
<1>2. mem' = Append(text, NUL) /\ argv' = <<>> /\ pipe_cnt' = 0
      /\ current' = 1 /\ start' = 1 /\ buf' = 1
      /\ pc' = IF phase = 1 THEN "blank" ELSE "scan"
  BY DEF Parse, Goto
<1>3. mem' \in Seq(Bytes) /\ Len(mem') = Len(text) + 1 /\ mem'[Len(mem')] = NUL
  <2> HIDE DEF text
  <2> QED
    BY <1>1, <1>2, Known
<1>4. BarsOf(argv') = {} /\ argv' \in Seq(0..Len(mem'))
  BY <1>2 DEF BarsOf
<1>5. Cardinality(BarsOf(argv')) = 0
  BY <1>4, FS_EmptySet
<1> HIDE DEF text
<1> QED
  BY <1>1, <1>2, <1>3, <1>4, <1>5 DEF ParseInv, Scan

\* The next character that is no space: the terminator is none.
LEMMA SpacesEnd ==
  ASSUME NEW m \in Seq(Bytes), NEW a \in Nat \ {0}, a <= Len(m), m[Len(m)] = NUL
  PROVE  Unspaced(m, a) \in a..Len(m)
<1> DEFINE S == {k \in a..Len(m) : m[k] # SPACE}
<1>1. Len(m) \in S /\ S \in SUBSET Nat
  BY Known
<1>2. Min(S) \in S
  BY <1>1, LeastIsOne
<1> QED
  BY <1>2 DEF Unspaced

LEMMA WordLeft ==
  ASSUME ParseInv, pc = "scan"
  PROVE  /\ WordEnded \in Seq(0..Len(mem))
         /\ Cardinality(BarsOf(WordEnded)) = pipe_cnt
         /\ Terminated \in Seq(Bytes) /\ Len(Terminated) = Len(mem)
         /\ Terminated[Len(mem)] = NUL
<1>1. WordEnded \in {argv, Append(argv, buf)}
  BY DEF WordEnded
<1>2. Len(mem) \in Nat /\ argv \in Seq(0..Len(mem)) /\ buf \in 1..Len(mem)
  BY DEF ParseInv
<1>3. /\ Append(argv, buf) \in Seq(0..Len(mem))
      /\ Cardinality(BarsOf(Append(argv, buf))) = Cardinality(BarsOf(argv))
  BY <1>2, WordAdded
<1>4. /\ Terminated \in Seq(Bytes) /\ Len(Terminated) = Len(mem)
      /\ Terminated[Len(mem)] = NUL
  BY Known DEF Terminated, ParseInv, Scan
<1> QED
  BY <1>1, <1>2, <1>3, <1>4 DEF ParseInv

LEMMA ScanSteps ==
  ASSUME ParseInv,
         Escaped \/ Backslash \/ InQuote \/ OpenQuote \/ Pipe \/ Space \/ Ordinary
         \/ ScanEnd
  PROVE  ParseInv'
<1> USE DEF Goto
<1>1. CASE ScanEnd
  <2>1. phase' = phase /\ current' = current /\ start' = start /\ buf' = buf
        /\ pipe_cnt' = pipe_cnt /\ pc' \in {"error", "parsed"}
    BY <1>1 DEF ScanEnd
  <2>2. \/ mem' = mem /\ argv' = argv
        \/ mem' = Terminated /\ argv' = WordEnded
    BY <1>1 DEF ScanEnd
  <2>3. pc = "scan"
    BY <1>1 DEF ScanEnd
  <2> QED
    BY <2>1, <2>2, <2>3, WordLeft DEF ParseInv, Scan
<1>2. ASSUME Scanning
      PROVE  current < Len(mem) /\ pc = "scan" /\ current + 1 \in Nat \ {0}
  BY <1>2 DEF Scanning, Here, ParseInv, Scan
<1>3. ASSUME Scanning, DropChar, UNCHANGED <<phase, pc, buf, argv, pipe_cnt>>
      PROVE  ParseInv'
  BY <1>2, <1>3 DEF DropChar, ParseInv, Scan
<1>4. ASSUME Scanning, KeepChar, UNCHANGED <<phase, pc, buf, argv, pipe_cnt>>
      PROVE  ParseInv'
  <2>1. /\ mem' = [mem EXCEPT ![start] = mem[current]]
        /\ start' = start + 1 /\ current' = current + 1
    BY <1>4 DEF KeepChar, Here
  <2>2. start \in 1..Len(mem) /\ start < Len(mem) /\ mem[current] \in Bytes
    BY <1>2, <1>4 DEF ParseInv, Scan
  <2>3. mem' \in Seq(Bytes) /\ Len(mem') = Len(mem) /\ mem'[Len(mem)] = mem[Len(mem)]
    BY <2>1, <2>2 DEF ParseInv
  <2> QED
    BY <1>2, <1>4, <2>1, <2>2, <2>3 DEF ParseInv, Scan
<1>5. CASE Escaped
  BY <1>4, <1>5 DEF Escaped
<1>6. CASE Backslash
  BY <1>3, <1>6 DEF Backslash
<1>7. CASE InQuote
  BY <1>3, <1>4, <1>7 DEF InQuote, Plainly
<1>8. CASE OpenQuote
  BY <1>3, <1>8 DEF OpenQuote, Plainly
<1>9. CASE Ordinary
  BY <1>4, <1>9 DEF Ordinary, Plainly
<1>10. CASE Pipe
  <2>1. Scanning /\ mem' = Terminated /\ argv' = Append(WordEnded, PIPE)
        /\ pipe_cnt' = pipe_cnt + 1 /\ phase' = phase /\ pc' = pc
        /\ current' = current + 1 /\ buf' = current + 1 /\ start' = current + 1
    BY <1>10 DEF Pipe, Plainly, Begin
  <2>2. /\ argv' \in Seq(0..Len(mem))
        /\ Cardinality(BarsOf(argv')) = pipe_cnt + 1
    BY <1>2, <2>1, WordLeft, BarAdded DEF ParseInv
  <2> QED
    BY <1>2, <2>1, <2>2, WordLeft DEF ParseInv, Scan
<1>11. CASE Space
  <2>1. Scanning /\ mem' = Terminated /\ argv' = WordEnded
        /\ pipe_cnt' = pipe_cnt /\ phase' = phase /\ pc' = pc
        /\ current' = Unspaced(mem, current + 1) /\ buf' = current' /\ start' = current'
    BY <1>11 DEF Space, Plainly, Begin
  <2>2. Unspaced(mem, current + 1) \in (current + 1)..Len(mem)
    BY <1>2, <2>1, SpacesEnd DEF ParseInv, Scan
  <2> QED
    BY <1>2, <2>1, <2>2, WordLeft DEF ParseInv, Scan
<1> QED
  BY <1>1, <1>5, <1>6, <1>7, <1>8, <1>9, <1>10, <1>11

LEMMA SplitSteps ==
  ASSUME ParseInv, BlankTurn \/ BlankEnd \/ SplitTurn \/ SplitEnd
  PROVE  ParseInv'
<1> USE DEF Goto
<1>1. CASE BlankTurn
  <2>1. /\ pc = "blank" /\ pc' = pc /\ phase' = phase /\ buf' = buf /\ argv' = argv
        /\ pipe_cnt' = pipe_cnt /\ current < Len(mem)
    BY <1>1 DEF BlankTurn
  <2>2. mem' \in {mem, Blanked} /\ current' \in {current + 1, current + 2}
    BY <1>1 DEF BlankTurn
  <2>3. Blanked \in Seq(Bytes) /\ Len(Blanked) = Len(mem)
    BY <2>1, Known DEF Blanked, ParseInv
  <2> QED
    BY <2>1, <2>2, <2>3 DEF ParseInv, Scan
<1>2. CASE BlankEnd
  <2>1. /\ pc = "blank" /\ phase' = phase /\ argv' = argv /\ current' = current
        /\ pipe_cnt' = pipe_cnt
        /\ \/ pc' = "error" /\ mem' = mem /\ buf' = buf
           \/ /\ pc' = "split" /\ mem' = Append(Chopped(Front(mem)), NUL)
              /\ buf' = Unspaced(mem', 1)
    BY <1>2 DEF BlankEnd
  <2>2. CASE pc' = "error"
    BY <2>1, <2>2 DEF ParseInv, Scan
  <2>3. CASE pc' = "split"
    <3>1. Front(mem) \in Seq(Bytes) /\ Len(Front(mem)) = Len(mem) - 1
      BY <2>1 DEF ParseInv, Front
    <3>2. Chopped(Front(mem)) \in Seq(Bytes) /\ Len(Chopped(Front(mem))) = Len(mem) - 1
      BY <2>1, <3>1, Known DEF ParseInv, Chopped
    <3> DEFINE text == Chopped(Front(mem))
    <3> HIDE DEF text
    <3>6. mem' = Append(text, NUL)
      BY <2>1, <2>3 DEF text
    <3>7. text \in Seq(Bytes) /\ Len(text) = Len(mem) - 1
      BY <3>2 DEF text
    <3>8. Len(mem) \in Nat
      BY DEF ParseInv
    <3>3. mem' \in Seq(Bytes) /\ Len(mem') = Len(mem) /\ mem'[Len(mem)] = NUL
      BY <3>6, <3>7, <3>8, Ended
    <3>4. buf' \in 1..Len(mem)
      BY <2>1, <2>3, <3>3, SpacesEnd DEF ParseInv
    <3> QED
      BY <2>1, <2>3, <3>3, <3>4 DEF ParseInv, Scan
  <2> QED
    BY <2>1, <2>2, <2>3
<1>3. CASE SplitTurn
  <2> DEFINE d == Min(Delimiters)
  <2>1. /\ pc = "split" /\ pc' = pc /\ phase' = phase /\ current' = current
        /\ pipe_cnt' = pipe_cnt /\ Delimiters # {}
        /\ argv' = Append(argv, buf) /\ mem' = [mem EXCEPT ![d] = NUL]
        /\ buf' = Unspaced(mem, d + 1)
    BY <1>3 DEF SplitTurn
  <2>2. TerminatorFrom(buf) \in 1..Len(mem)
    <3> DEFINE S == {k \in buf..Len(mem) : mem[k] = NUL}
    <3>1. S \in SUBSET Nat /\ Len(mem) \in S
      BY <2>1 DEF ParseInv
    <3>2. Min(S) \in S
      BY <3>1, LeastIsOne
    <3> QED
      BY <3>2 DEF TerminatorFrom, ParseInv
  <2>3. d \in Delimiters
    <3>1. Delimiters \in SUBSET Nat
      BY <2>2 DEF Delimiters, ParseInv
    <3> QED
      BY <2>1, <3>1, LeastIsOne
  <2>4. d \in 1..Len(mem) /\ mem[d] = SPACE
    BY <2>2, <2>3 DEF Delimiters, ParseInv
  <2> HIDE DEF d
  <2>5. d < Len(mem)
    BY <2>1, <2>4, Known DEF ParseInv
  <2>6. buf' \in 1..Len(mem)
    BY <2>1, <2>4, <2>5, SpacesEnd DEF ParseInv
  <2>7. mem' \in Seq(Bytes) /\ Len(mem') = Len(mem) /\ mem'[Len(mem)] = NUL
    BY <2>1, <2>4, <2>5, Known DEF ParseInv
  <2>8. /\ argv' \in Seq(0..Len(mem))
        /\ Cardinality(BarsOf(argv')) = Cardinality(BarsOf(argv))
    BY <2>1, WordAdded DEF ParseInv
  <2> QED
    BY <2>1, <2>6, <2>7, <2>8 DEF ParseInv, Scan
<1>4. CASE SplitEnd
  BY <1>4 DEF SplitEnd, parseVars, ParseInv, Scan
<1> QED
  BY <1>1, <1>2, <1>3, <1>4

-------------------------------------------------------------------------------
(* Who has which end of which pipe open.                                   *)

NPipes == MaxPids + 2
AllEnds == UNION {Ends(k) : k \in Pipes}

KidType ==
  [st : {"none", "forked", "redirected", "wired", "running", "zombie"}, at : Nat,
   prev : 0..NPipes, next : 0..NPipes,
   in : {Tty} \cup {<<k, "r">> : k \in Pipes},
   out : {Tty} \cup {<<k, "w">> : k \in Pipes},
   fds : SUBSET AllEnds, has : 0..(Output + 1), program : BOOLEAN]

ShellType ==
  /\ cmds \in Seq(BOOLEAN) /\ i \in Nat /\ left \in Nat
  /\ prev_pipe \in 0..NPipes /\ next_pipe \in 0..NPipes
  /\ pid \in -1..MaxPids /\ held \subseteq AllEnds
  /\ flow \in [Pipes -> 0..1] /\ status \in {"up", "exited", "corrupt"}
  /\ pc \in {"prompt", "blank", "split", "scan", "error", "parsed", "wait", "started",
            "pipe", "parent", "waiting"}

\* The ends of a pipe, if it is one.
PipeEnds(k) == IF k = 0 THEN {} ELSE Ends(k)

\* The shell holds the pipe to the next command and, until it has closed it,
\* the one before.
HeldInv ==
  /\ pc \notin {"pipe", "parent"} => held = {}
  /\ pc \notin {"pipe", "parent", "waiting"} => i = 1 /\ prev_pipe = 0
  /\ pc \in {"pipe", "parent"} => i \in 1..Len(cmds) /\ Len(cmds) >= 2
  /\ pc \in {"pipe", "parent"} => (prev_pipe = 0 <=> i = 1)
  /\ pc = "pipe" => held = PipeEnds(prev_pipe) /\ (i > 1 => next_pipe = prev_pipe)
  /\ pc = "parent" => /\ next_pipe # 0 /\ held = PipeEnds(prev_pipe) \cup Ends(next_pipe)
                      /\ i < Len(cmds) <=> prev_pipe # next_pipe
  /\ pc = "waiting" => left # 0

\* A child has what it was given, until it has closed it.
Plain(c) == c.prev = 0 /\ c.next = 0 /\ c.in = Tty /\ c.out = Tty /\ c.fds = {}
Inputs(c) == c.at <= 1 <=> c.in = Tty

KidInv(c) ==
  /\ c.st \in {"none", "zombie"} => Plain(c)
  /\ c.st = "forked" =>
       /\ c.at >= 1 /\ c.in = Tty /\ c.out = Tty /\ (c.at = 1 <=> c.prev = 0)
       /\ c.fds = PipeEnds(c.prev) \cup PipeEnds(c.next)
       /\ c.prev = c.next => c.prev = 0
  /\ c.st = "redirected" =>
       /\ c.prev = 0 /\ c.out = Tty /\ Inputs(c) /\ c.fds = PipeEnds(c.next)
  /\ c.st \in {"wired", "running"} =>
       c.prev = 0 /\ c.next = 0 /\ c.fds = {} /\ Inputs(c)

\* The pipe a child reads or will read, and the one it writes or will write.
From(c) == IF c.prev # 0 THEN c.prev ELSE c.in[1]
To(c)   == IF c.next # 0 THEN c.next ELSE c.out[1]

\* No pipe has two readers or two writers, and it leads from a command to the
\* next; the one the shell is about to hand on has no reader yet.
Apart(c, d) ==
  /\ From(c) = From(d) => From(c) = 0
  /\ To(c) = To(d) => To(c) = 0
  /\ To(c) = From(d) /\ To(c) # 0 => d.at = c.at + 1
NotRead(k, n) ==
  \A p \in Pids : From(kid[p]) # k /\ (To(kid[p]) = k => kid[p].at = n)

WireInv ==
  /\ kid \in [Pids -> KidType]
  /\ \A p \in Pids : KidInv(kid[p])
  /\ \A p, q \in Pids : p # q => Apart(kid[p], kid[q])
  /\ pc = "pipe" /\ i > 1 => NotRead(prev_pipe, i - 1)
  /\ pc = "parent" /\ i < Len(cmds) => NotRead(next_pipe, i)

Inv == ParseInv /\ ShellType /\ HeldInv /\ WireInv

LEMMA NobodyFits ==
  /\ NoKid \in KidType /\ KidInv(NoKid) /\ Apart(NoKid, NoKid)
  /\ From(NoKid) = 0 /\ To(NoKid) = 0
BY PipeShellAssumption
   DEF NoKid, KidType, NPipes, KidInv, Plain, Apart, From, To, Tty

LEMMA Start == Init => Inv
<1> SUFFICES ASSUME Init PROVE Inv
  OBVIOUS
<1>1. BarsOf(argv) = {} /\ argv \in Seq(0..Len(mem))
  BY DEF Init, BarsOf
<1>2. Cardinality(BarsOf(argv)) = 0
  BY <1>1, FS_EmptySet
<1>3. mem \in Seq(Bytes) /\ Len(mem) = 1
  BY Known DEF Init
<1>4. ParseInv
  BY <1>1, <1>2, <1>3 DEF Init, ParseInv, Scan
<1>6. kid = [p \in Pids |-> NoKid]
  BY DEF Init
<1>7. WireInv
  BY <1>6, NobodyFits DEF WireInv, Init
<1>8. ShellType /\ HeldInv
  BY PipeShellAssumption DEF ShellType, HeldInv, Init, NPipes, AllEnds
<1> QED
  BY <1>4, <1>7, <1>8 DEF Inv

\* What a child does with the ends it has: it closes some.
LEMMA KidMoves ==
  ASSUME WireInv, NEW p \in Pids, NEW k \in KidType, KidInv(k),
         kid' = [kid EXCEPT ![p] = k],
         From(k) \in {0, From(kid[p])}, To(k) \in {0, To(kid[p])},
         From(k) # 0 \/ To(k) # 0 => k.at = kid[p].at
  PROVE  /\ kid' \in [Pids -> KidType]
         /\ \A q \in Pids : KidInv(kid'[q])
         /\ \A q, r \in Pids : q # r => Apart(kid'[q], kid'[r])
         /\ \A j, n : j # 0 /\ NotRead(j, n) =>
              \A q \in Pids : From(kid'[q]) # j /\ (To(kid'[q]) = j => kid'[q].at = n)
<1>1. \A q \in Pids : kid'[q] = IF q = p THEN k ELSE kid[q]
  BY DEF WireInv
<1>2. \A q \in Pids : q # p => Apart(k, kid[q]) /\ Apart(kid[q], k)
  BY DEF WireInv, Apart
<1>3. kid' \in [Pids -> KidType]
  BY DEF WireInv
<1>4. \A q \in Pids : KidInv(kid'[q])
  BY <1>1 DEF WireInv
<1>5. \A q, r \in Pids : q # r => Apart(kid'[q], kid'[r])
  BY <1>1, <1>2 DEF WireInv
<1>6. ASSUME NEW j, NEW n, j # 0, NotRead(j, n), NEW q \in Pids
      PROVE  From(kid'[q]) # j /\ (To(kid'[q]) = j => kid'[q].at = n)
  BY <1>1, <1>6 DEF NotRead
<1> QED
  BY <1>3, <1>4, <1>5, <1>6

\* The wires where the shell stays, or leaves the pipes alone.
LEMMA KidMovesInv ==
  ASSUME Inv, NEW p \in Pids, NEW k \in KidType, KidInv(k),
         kid' = [kid EXCEPT ![p] = k],
         From(k) \in {0, From(kid[p])}, To(k) \in {0, To(kid[p])},
         From(k) # 0 \/ To(k) # 0 => k.at = kid[p].at,
         \/ UNCHANGED <<pc, i, prev_pipe, next_pipe, cmds>>
         \/ pc' \notin {"pipe", "parent"}
  PROVE  WireInv'
<1>1. /\ kid' \in [Pids -> KidType]
      /\ \A q \in Pids : KidInv(kid'[q])
      /\ \A q, r \in Pids : q # r => Apart(kid'[q], kid'[r])
      /\ \A j, n : j # 0 /\ NotRead(j, n) =>
           \A q \in Pids : From(kid'[q]) # j /\ (To(kid'[q]) = j => kid'[q].at = n)
  BY KidMoves DEF Inv
<1>2. CASE pc' \notin {"pipe", "parent"}
  BY <1>1, <1>2 DEF WireInv, KidInv, Plain, Inputs, Apart, From, To
<1>3. CASE UNCHANGED <<pc, i, prev_pipe, next_pipe, cmds>>
  <2>1. pc = "pipe" /\ i > 1 => NotRead(prev_pipe, i - 1)'
    BY <1>1, <1>3 DEF Inv, WireInv, HeldInv, NotRead, From, To
  <2>2. pc = "parent" /\ i < Len(cmds) => NotRead(next_pipe, i)'
    BY <1>1, <1>3 DEF Inv, WireInv, HeldInv, NotRead, From, To
  <2> QED
    BY <1>1, <1>3, <2>1, <2>2 DEF WireInv, KidInv, Plain, Inputs, Apart, From, To
<1> QED
  BY <1>2, <1>3

-------------------------------------------------------------------------------
(* The steps of children and programs.                                     *)

LEMMA Becoming ==
  ASSUME Inv, NEW p \in Pids, NEW k, Becomes(p, k), k \in KidType, KidInv(k),
         From(k) \in {0, From(kid[p])}, To(k) \in {0, To(kid[p])},
         From(k) # 0 \/ To(k) # 0 => k.at = kid[p].at,
         flow' \in [Pipes -> 0..1]
  PROVE  Inv'
<1>1. kid' = [kid EXCEPT ![p] = k]
  BY DEF Becomes
<1>2. WireInv'
  BY <1>1, KidMovesInv DEF Becomes, shellVars
<1>3. ParseInv'
  BY DEF Becomes, parseVars, Inv, ParseInv, Scan, BarsOf
<1>4. ShellType' /\ HeldInv'
  BY DEF Becomes, parseVars, shellVars, Inv, ShellType, HeldInv, PipeEnds, Ends
<1> QED
  BY <1>2, <1>3, <1>4 DEF Inv

LEMMA Dies ==
  ASSUME Inv, NEW p \in Pids, Becomes(p, Zombie), UNCHANGED flow
  PROVE  Inv'
<1>1. Zombie \in KidType /\ KidInv(Zombie) /\ From(Zombie) = 0 /\ To(Zombie) = 0
  <2>1. Zombie = [NoKid EXCEPT !.st = "zombie"]
    BY DEF Zombie
  <2>2. Zombie \in KidType
    BY <2>1, NobodyFits DEF KidType
  <2>3. /\ Zombie.st = "zombie" /\ Zombie.prev = 0 /\ Zombie.next = 0 /\ Zombie.in = Tty
        /\ Zombie.out = Tty /\ Zombie.fds = {}
    BY <2>1 DEF NoKid
  <2> QED
    BY <2>2, <2>3 DEF KidInv, Plain, From, To, Tty
<1>2. flow' \in [Pipes -> 0..1]
  BY DEF Inv, ShellType
<1> QED
  BY <1>1, <1>2, Becoming

\* A record with some fields changed has the type, if those have theirs.
LEMMA Redirected ==
  ASSUME NEW c \in KidType, NEW b \in {Tty} \cup {<<j, "r">> : j \in Pipes},
         NEW f \in SUBSET AllEnds
  PROVE  [c EXCEPT !.st = "redirected", !.prev = 0, !.in = b, !.fds = f] \in KidType
<1>1. 0 \in 0..NPipes
  BY PipeShellAssumption DEF NPipes
<1> QED
  BY <1>1 DEF KidType

LEMMA Wired ==
  ASSUME NEW c \in KidType, NEW b \in {Tty} \cup {<<j, "w">> : j \in Pipes},
         NEW f \in SUBSET AllEnds
  PROVE  [c EXCEPT !.st = "wired", !.next = 0, !.out = b, !.fds = f] \in KidType
<1>1. 0 \in 0..NPipes
  BY PipeShellAssumption DEF NPipes
<1> QED
  BY <1>1 DEF KidType

LEMMA ChildSteps ==
  ASSUME Inv, NEW p \in Pids, RedirectIn(p) \/ RedirectOut(p)
  PROVE  Inv'
<1> DEFINE c == kid[p]
<1>1. c \in KidType /\ KidInv(c) /\ flow \in [Pipes -> 0..1]
  BY DEF Inv, WireInv, ShellType
<1> HIDE DEF c
<1>2. ASSUME RedirectIn(p), c.prev = 0
      PROVE  Inv'
  <2> DEFINE k == [c EXCEPT !.st = "redirected"]
  <2>1. c.st = "forked" /\ Becomes(p, k) /\ UNCHANGED flow
    BY <1>2 DEF RedirectIn, c
  <2>2. k \in KidType
    BY <1>1 DEF KidType
  <2>3. KidInv(k)
    BY <1>1, <1>2, <2>1 DEF KidInv, Plain, Inputs, KidType, PipeEnds
  <2>4. From(k) = From(c) /\ To(k) = To(c) /\ k.at = c.at
    BY <1>1 DEF From, To, KidType
  <2> HIDE DEF k
  <2> QED
    BY <1>1, <2>1, <2>2, <2>3, <2>4, Becoming DEF c
<1>3. ASSUME RedirectIn(p), c.prev # 0
      PROVE  Inv'
  <2> DEFINE k == [c EXCEPT !.st = "redirected", !.prev = 0, !.in = <<c.prev, "r">>,
                            !.fds = @ \ Ends(c.prev)]
  <2>1. c.st = "forked" /\ Becomes(p, k) /\ UNCHANGED flow
    BY <1>3 DEF RedirectIn, c
  <2>2. k \in KidType
    <3>1. c.prev \in Pipes
      BY <1>1, <1>3 DEF KidType, NPipes, Pipes
    <3>2. <<c.prev, "r">> \in {<<j, "r">> : j \in Pipes}
      BY <3>1
    <3>3. c.fds \ Ends(c.prev) \in SUBSET AllEnds
      BY <1>1 DEF KidType
    <3> QED
      BY <1>1, <3>2, <3>3, Redirected
  <2>3. k.fds = PipeEnds(k.next) /\ k.st = "redirected" /\ k.prev = 0 /\ k.out = Tty
        /\ k.in # Tty /\ k.at > 1
    BY <1>1, <1>3, <2>1 DEF KidInv, Plain, KidType, PipeEnds, Ends, Tty
  <2>4. KidInv(k)
    <3> HIDE DEF k
    <3>1. Inputs(k)
      BY <2>2, <2>3 DEF Inputs, KidType
    <3> QED
      BY <2>3, <3>1 DEF KidInv
  <2>5. From(k) = From(c) /\ To(k) = To(c) /\ k.at = c.at
    BY <1>1, <1>3 DEF From, To, KidType
  <2> HIDE DEF k
  <2> QED
    BY <1>1, <2>1, <2>2, <2>4, <2>5, Becoming DEF c
<1>4. ASSUME RedirectOut(p), c.next = 0
      PROVE  Inv'
  <2> DEFINE k == [c EXCEPT !.st = "wired"]
  <2>1. c.st = "redirected" /\ Becomes(p, k) /\ UNCHANGED flow
    BY <1>4 DEF RedirectOut, c
  <2>2. k \in KidType
    BY <1>1 DEF KidType
  <2>3. KidInv(k)
    BY <1>1, <1>4, <2>1 DEF KidInv, Plain, Inputs, KidType, PipeEnds
  <2>4. From(k) = From(c) /\ To(k) = To(c) /\ k.at = c.at
    BY <1>1 DEF From, To, KidType
  <2> HIDE DEF k
  <2> QED
    BY <1>1, <2>1, <2>2, <2>3, <2>4, Becoming DEF c
<1>5. ASSUME RedirectOut(p), c.next # 0
      PROVE  Inv'
  <2> DEFINE k == [c EXCEPT !.st = "wired", !.next = 0, !.out = <<c.next, "w">>,
                            !.fds = @ \ Ends(c.next)]
  <2>1. c.st = "redirected" /\ Becomes(p, k) /\ UNCHANGED flow
    BY <1>5 DEF RedirectOut, c
  <2>2. k \in KidType
    <3>1. c.next \in Pipes
      BY <1>1, <1>5 DEF KidType, NPipes, Pipes
    <3>2. <<c.next, "w">> \in {<<j, "w">> : j \in Pipes}
      BY <3>1
    <3>3. c.fds \ Ends(c.next) \in SUBSET AllEnds
      BY <1>1 DEF KidType
    <3> QED
      BY <1>1, <3>2, <3>3, Wired
  <2>3. k.fds = {} /\ k.st = "wired" /\ k.prev = 0 /\ k.next = 0
        /\ (k.at <= 1 <=> k.in = Tty)
    BY <1>1, <1>5, <2>1 DEF KidInv, Plain, Inputs, KidType, PipeEnds
  <2>4. KidInv(k)
    BY <2>3 DEF KidInv, Inputs
  <2>5. From(k) = From(c) /\ To(k) = To(c) /\ k.at = c.at
    BY <1>1, <1>5, <2>1 DEF From, To, KidType
  <2> HIDE DEF k
  <2> QED
    BY <1>1, <2>1, <2>2, <2>4, <2>5, Becoming DEF c
<1> QED
  BY <1>2, <1>3, <1>4, <1>5

LEMMA FlowSet ==
  ASSUME flow \in [Pipes -> 0..1], NEW k, NEW n \in 0..1
  PROVE  [flow EXCEPT ![k] = n] \in [Pipes -> 0..1]
<1>1. CASE k \in Pipes
  BY <1>1
<1>2. CASE k \notin Pipes
  <2>1. [flow EXCEPT ![k] = n] = flow
    BY <1>2
  <2> QED
    BY <2>1
<1> QED
  BY <1>1, <1>2

LEMMA ProgramSteps ==
  ASSUME Inv, NEW p \in Pids, Exec(p) \/ Read(p) \/ Write(p)
  PROVE  Inv'
<1>1. kid[p] \in KidType /\ KidInv(kid[p]) /\ flow \in [Pipes -> 0..1]
  BY DEF Inv, WireInv, ShellType
<1>2. ASSUME NEW n \in 0..(Output + 1), kid[p].st \in {"wired", "running"},
             Becomes(p, [kid[p] EXCEPT !.st = "running", !.has = n]),
             flow' \in [Pipes -> 0..1]
      PROVE  Inv'
  <2> DEFINE k == [kid[p] EXCEPT !.st = "running", !.has = n]
  <2>1. k \in KidType
    BY <1>1 DEF KidType
  <2>2. KidInv(k)
    BY <1>1, <1>2 DEF KidInv, Inputs, KidType
  <2>3. From(k) = From(kid[p]) /\ To(k) = To(kid[p]) /\ k.at = kid[p].at
    BY <1>1 DEF From, To, KidType
  <2>4. Becomes(p, k)
    BY <1>2
  <2> HIDE DEF k
  <2> QED
    BY <1>2, <2>1, <2>2, <2>3, <2>4, Becoming
<1>3. ASSUME NEW n \in 0..(Output + 1), Running(p)
      PROVE  [kid[p] EXCEPT !.has = n] = [kid[p] EXCEPT !.st = "running", !.has = n]
  BY <1>1, <1>3 DEF Running, KidType
<1>4. CASE Exec(p)
  <2>1. PICK n \in {Output, 0} :
          Becomes(p, [kid[p] EXCEPT !.st = "running", !.has = n])
    BY <1>4 DEF Exec
  <2>2. n \in 0..(Output + 1)
    BY PipeShellAssumption
  <2> QED
    BY <1>1, <1>2, <1>4, <2>1, <2>2 DEF Exec
<1>5. CASE Read(p)
  <2>1. PICK n \in {0, 1} : Becomes(p, [kid[p] EXCEPT !.has = n])
    BY <1>5 DEF Read
  <2>2. n \in 0..(Output + 1)
    BY PipeShellAssumption
  <2>3. Running(p) /\ flow' = [flow EXCEPT ![Source(p)] = 0]
    BY <1>5 DEF Read
  <2>4. flow' \in [Pipes -> 0..1]
    BY <1>1, <2>3, FlowSet
  <2> QED
    BY <1>2, <1>3, <2>1, <2>2, <2>3, <2>4 DEF Running
<1>6. CASE Write(p)
  <2>1. Running(p) /\ Becomes(p, [kid[p] EXCEPT !.has = kid[p].has - 1])
        /\ kid[p].has > 0 /\ flow' = [flow EXCEPT ![Sink(p)] = 1]
    BY <1>6 DEF Write
  <2>2. kid[p].has - 1 \in 0..(Output + 1)
    BY <1>1, <2>1, PipeShellAssumption DEF KidType
  <2>3. flow' \in [Pipes -> 0..1]
    BY <1>1, <2>1, FlowSet
  <2> QED
    BY <1>2, <1>3, <2>1, <2>2, <2>3 DEF Running
<1> QED
  BY <1>4, <1>5, <1>6

LEMMA KidsStep ==
  ASSUME Inv, NEW p \in Pids, Child(p) \/ StopShort(p)
  PROVE  Inv'
BY ChildSteps, ProgramSteps, Dies
   DEF Child, StopShort, ExecFails, Sigpipe, Finish

-------------------------------------------------------------------------------
(* The steps of the shell.                                                 *)

\* Where the shell does nothing to its children and is not among its pipes.
LEMMA Elsewhere ==
  ASSUME Inv, UNCHANGED <<kid, flow, held, cmds, left, pid, i, prev_pipe, next_pipe>>,
         status' \in {"up", "exited", "corrupt"},
         pc' \in {"prompt", "blank", "split", "scan", "error", "parsed"},
         pc \in {"prompt", "blank", "split", "scan", "error", "parsed"}
  PROVE  ShellType' /\ HeldInv' /\ WireInv'
<1>1. ShellType' /\ HeldInv'
  BY DEF Inv, ShellType, HeldInv
<1>2. WireInv'
  BY DEF Inv, WireInv, KidInv, Plain, Inputs, Apart, From, To
<1> QED
  BY <1>1, <1>2

LEMMA ParseSteps ==
  ASSUME Inv, parseline, UNCHANGED <<shellVars, kid, flow, status>>
  PROVE  Inv'
<1>1. ParseInv'
  BY ScanSteps, SplitSteps DEF Inv, parseline
<1>2. /\ pc' \in {"blank", "split", "scan", "error", "parsed"}
      /\ pc \in {"blank", "split", "scan"}
  BY DEF parseline, Escaped, Backslash, InQuote, OpenQuote, Pipe, Space, Ordinary,
         ScanEnd, BlankTurn, BlankEnd, SplitTurn, SplitEnd, Plainly, Scanning, Goto
<1> QED
  BY <1>1, <1>2, Elsewhere DEF shellVars, Inv, ShellType

LEMMA UserSteps ==
  ASSUME Inv, ReadLine \/ EndOfInput
  PROVE  Inv'
<1>1. CASE ReadLine
  <2>1. PICK l \in FirstLines \cup Typed : Parse(l)
    BY <1>1 DEF ReadLine
  <2>2. ParseInv'
    BY <1>1, <2>1, Given, PipeShellAssumption DEF ReadLine, Inv, ParseInv
  <2>3. pc' \in {"blank", "scan"}
    BY <2>1 DEF Parse, Goto
  <2> QED
    BY <1>1, <2>2, <2>3, Elsewhere DEF ReadLine, shellVars, Inv, ShellType
<1>2. CASE EndOfInput
  <2>1. ParseInv'
    BY <1>2 DEF EndOfInput, parseVars, Inv, ParseInv, Scan, BarsOf
  <2> QED
    BY <1>2, <2>1, Elsewhere DEF EndOfInput, shellVars, Inv
<1> QED
  BY <1>1, <1>2

\* eval returns, having waited for one of its children or for none.
LEMMA Returns ==
  ASSUME Inv, Return, pc \notin {"pipe", "parent"},
         UNCHANGED <<phase, held, flow, status>>,
         UNCHANGED kid \/ \E p \in Pids : Reaped(p)
  PROVE  Inv'
<1>1. /\ pc' = "prompt" /\ cmds' = <<>> /\ i' = 1 /\ prev_pipe' = 0 /\ next_pipe' = 0
      /\ pid' = 0 /\ left' = 0 /\ Forget
  BY DEF Return, Goto
<1>2. ParseInv'
  BY <1>1, Emptied DEF Inv, ParseInv
<1>3. ShellType' /\ HeldInv'
  <2>1. 0 \in 0..NPipes /\ 0 \in -1..MaxPids
    BY PipeShellAssumption DEF NPipes
  <2>2. ShellType'
    BY <1>1, <2>1 DEF Inv, ShellType
  <2>3. HeldInv'
    BY <1>1 DEF Inv, HeldInv
  <2> QED
    BY <2>2, <2>3
<1>4. WireInv'
  <2>1. CASE UNCHANGED kid
    BY <1>1, <2>1 DEF Inv, WireInv, KidInv, Plain, Inputs, Apart, From, To
  <2>2. CASE \E p \in Pids : Reaped(p)
    <3>1. PICK p \in Pids : kid' = [kid EXCEPT ![p] = NoKid]
      BY <2>2 DEF Reaped
    <3> QED
      BY <1>1, <3>1, NobodyFits, KidMovesInv
  <2> QED
    BY <2>1, <2>2
<1> QED
  BY <1>2, <1>3, <1>4 DEF Inv

LEMMA EvalEnds ==
  ASSUME Inv, Nothing \/ builtin_command \/ Background \/ Waitpid
  PROVE  Inv'
<1>1. CASE Nothing
  BY <1>1, Returns DEF Nothing
<1>2. CASE builtin_command
  <2>1. CASE Return
    BY <1>2, <2>1, Returns DEF builtin_command, Command, Return, Goto
  <2>2. CASE ~Return
    <3>1. status' = "exited" /\ UNCHANGED <<pc, phase, parseVars, shellVars, kid, flow>>
          /\ pc = "parsed"
      BY <1>2, <2>2 DEF builtin_command, Command
    <3>2. ParseInv'
      BY <3>1 DEF parseVars, Inv, ParseInv, Scan, BarsOf
    <3> QED
      BY <3>1, <3>2, Elsewhere DEF shellVars, Inv
  <2> QED
    BY <2>1, <2>2
<1>3. CASE Background
  BY <1>3, Returns DEF Background
<1>4. CASE Waitpid
  BY <1>4, Returns DEF Waitpid, Zombies
<1> QED
  BY <1>1, <1>2, <1>3, <1>4

\* fork gives a new child what it gives it, or fails.
LEMMA ForkEither ==
  ASSUME NEW child, Fork(child)
  PROVE  \/ \E p \in Pids : /\ kid[p].st = "none" /\ pid' = p
                             /\ kid' = [kid EXCEPT ![p] = child] /\ failed' = failed
         \/ pid' = -1 /\ kid' = kid /\ failed' = TRUE
BY DEF Fork

LEMMA Commands ==
  ASSUME Inv, RunCommand
  PROVE  Inv'
<1> DEFINE child == [NoKid EXCEPT !.st = "wired", !.program = TRUE]
<1>1. /\ pc = "parsed" /\ pc' \in {"wait", "started"} /\ Fork(child)
      /\ UNCHANGED <<phase, parseVars, cmds, i, prev_pipe, next_pipe, held, left, flow,
                     status>>
  BY DEF RunCommand, Command, Goto
<1>2. ParseInv'
  BY <1>1 DEF parseVars, Inv, ParseInv, Scan, BarsOf
<1>3. child \in KidType
  BY NobodyFits DEF KidType
<1>4. child.st = "wired" /\ child.prev = 0 /\ child.next = 0 /\ child.in = Tty
      /\ child.out = Tty /\ child.fds = {} /\ child.at = 0
  BY DEF NoKid
<1> HIDE DEF child
<1>5. KidInv(child) /\ From(child) = 0 /\ To(child) = 0
  BY <1>4 DEF KidInv, Inputs, From, To, Tty
<1>6. WireInv' /\ pid' \in -1..MaxPids
  <2>1. CASE pid' = -1 /\ kid' = kid
    BY <1>1, <2>1, PipeShellAssumption
       DEF Inv, WireInv, KidInv, Plain, Inputs, Apart, From, To
  <2>2. CASE ~(pid' = -1 /\ kid' = kid)
    <3>1. PICK p \in Pids : pid' = p /\ kid' = [kid EXCEPT ![p] = child]
      BY <1>1, <2>2, ForkEither
    <3>2. WireInv'
      BY <1>1, <1>3, <1>5, <3>1, KidMovesInv
    <3> QED
      BY <3>1, <3>2, PipeShellAssumption DEF Pids
  <2> QED
    BY <2>1, <2>2
<1>7. ShellType' /\ HeldInv'
  BY <1>1, <1>6 DEF Inv, ShellType, HeldInv
<1> QED
  BY <1>2, <1>6, <1>7 DEF Inv

-------------------------------------------------------------------------------
(* The rows eval fills, and the pipeline.                                  *)

LEMMA FirstOfOne == ASSUME NEW x PROVE Head(<<x>>) = x
OBVIOUS

\* A bar is no word that begins with &.
LEMMA BarIsNoAmp == Head(BAR) # "&"
<1>1. Head(<<"|">>) = "|"
  BY FirstOfOne
<1>2. Head(BAR) = "|"
  BY Zenon, <1>1 DEF BAR
<1> QED
  BY Zenon, <1>2

LEMMA RowsEnough ==
  ASSUME ParseInv
  PROVE  Rows \in Seq(BOOLEAN) /\ pipe_cnt + 1 =< Len(Rows)
<1>1. argv \in Seq(0..Len(mem)) /\ Len(mem) \in Nat
  BY DEF ParseInv
<1> DEFINE W == {Words[k] : k \in DOMAIN argv}
<1>2. Words \in Seq(W) /\ Len(Words) = Len(argv)
  BY <1>1 DEF Words
<1>3. \A k \in BarsOf(argv) : k \in 1..Len(Words) /\ Words[k] = BAR
  BY <1>1, <1>2 DEF BarsOf, Words
<1>4. Args \in Seq(W) /\ BarsOf(argv) \subseteq Separators
  <2>1. CASE ~bg
    BY <1>2, <1>3, <2>1 DEF Args, Separators
  <2>2. CASE bg
    <3>1. Words # <<>> /\ Head(Words[Len(Words)]) = "&"
      BY Zenon, <2>2 DEF bg, Last
    <3>2. Words[Len(Words)] # BAR
      BY Zenon, <3>1, BarIsNoAmp
    <3>3. Args = SubSeq(Words, 1, Len(Words) - 1)
      BY <2>2 DEF Args, Front
    <3> HIDE DEF W
    <3>4. /\ Args \in Seq(W) /\ Len(Args) = Len(Words) - 1
          /\ \A k \in 1..Len(Args) : Args[k] = Words[k]
      BY <1>2, <3>1, <3>3
    <3>5. \A k \in BarsOf(argv) : k \in 1..Len(Args) /\ Args[k] = BAR
      BY <1>2, <1>3, <3>2, <3>4
    <3> QED
      BY <3>4, <3>5 DEF Separators
  <2> QED
    BY <2>1, <2>2
<1>5. IsFiniteSet(Separators)
  <2>1. IsFiniteSet(1..Len(Args))
    BY <1>4, FS_Interval
  <2>2. Separators \in SUBSET (1..Len(Args))
    BY <1>4 DEF Separators
  <2> QED
    BY <2>1, <2>2, FS_Subset
<1>6. Cardinality(Separators) \in Nat /\ pipe_cnt <= Cardinality(Separators)
  BY <1>4, <1>5, FS_CardinalityType, FS_Subset DEF ParseInv
<1>7. Rows \in [1..(Cardinality(Separators) + 1) -> BOOLEAN]
  BY DEF Rows
<1>8. pipe_cnt \in Nat
  BY DEF ParseInv
<1> HIDE DEF Rows
<1> QED
  BY <1>6, <1>7, <1>8

LEMMA RowsFilled ==
  ASSUME Inv, FillRows
  PROVE  Inv'
<1>1. pc = "parsed" /\ pipe_cnt \in Nat /\ pipe_cnt > 0
      /\ UNCHANGED <<phase, kid, flow>>
  BY DEF FillRows, Inv, ParseInv
<1>2. CASE Len(Rows) > MAXPIPES
  <2>1. status' = "corrupt" /\ UNCHANGED <<pc, parseVars, shellVars>>
    BY <1>2 DEF FillRows
  <2>2. ParseInv'
    BY <1>1, <2>1 DEF parseVars, Inv, ParseInv, Scan, BarsOf
  <2> QED
    BY <1>1, <2>1, <2>2, Elsewhere DEF shellVars, Inv
<1>3. CASE ~(Len(Rows) > MAXPIPES)
  <2>1. /\ cmds' = SubSeq(Rows, 1, pipe_cnt + 1) /\ pc' = "pipe" /\ Forget
        /\ UNCHANGED <<i, prev_pipe, next_pipe, held, pid, left, status>>
    BY <1>3 DEF FillRows, Goto
  <2>2. cmds' \in Seq(BOOLEAN) /\ Len(cmds') = pipe_cnt + 1
    BY <1>1, <2>1, RowsEnough DEF Inv
  <2>3. ParseInv'
    BY <1>1, <2>1, Emptied DEF Inv, ParseInv
  <2>4. ShellType'
    BY <1>1, <2>1, <2>2 DEF Inv, ShellType
  <2>5. HeldInv'
    BY <1>1, <2>1, <2>2 DEF Inv, HeldInv, PipeEnds
  <2>6. WireInv'
    BY <1>1, <2>1, <2>2 DEF Inv, HeldInv, WireInv, KidInv, Plain, Inputs, Apart, From, To
  <2> QED
    BY <2>3, <2>4, <2>5, <2>6 DEF Inv
<1> QED
  BY <1>2, <1>3

LEMMA Closes ==
  ASSUME Inv, ParentCloses
  PROVE  Inv'
<1>1. /\ pc = "parent" /\ held' = held \ Dropped
      /\ prev_pipe' = (IF IsLast THEN prev_pipe ELSE next_pipe)
      /\ UNCHANGED <<phase, parseVars, cmds, next_pipe, pid, kid, flow, status>>
      /\ IF IsLast THEN pc' = "waiting" /\ left' = Len(cmds) /\ i' = i
                   ELSE pc' = "pipe" /\ i' = i + 1 /\ left' = left
  BY DEF ParentCloses, Goto, num_commands
<1>2. ParseInv'
  BY <1>1 DEF parseVars, Inv, ParseInv, Scan, BarsOf
<1>3. /\ cmds \in Seq(BOOLEAN) /\ i \in 1..Len(cmds) /\ Len(cmds) >= 2 /\ Len(cmds) \in Nat
      /\ next_pipe \in 0..NPipes /\ next_pipe # 0 /\ prev_pipe \in 0..NPipes
      /\ (prev_pipe = 0 <=> i = 1) /\ held = PipeEnds(prev_pipe) \cup Ends(next_pipe)
      /\ (i < Len(cmds) <=> prev_pipe # next_pipe)
  BY <1>1 DEF Inv, ShellType, HeldInv
<1>4. ShellType'
  BY <1>1, <1>3 DEF Inv, ShellType
<1>5. CASE IsLast
  <2>1. i = Len(cmds) /\ i > 1 /\ prev_pipe # 0
    BY <1>3, <1>5 DEF IsLast, num_commands
  <2>2. prev_pipe = next_pipe
    BY <1>3, <2>1
  <2>3. held' = {}
    BY <1>1, <1>3, <2>1, <2>2 DEF Dropped, PipeEnds
  <2>4. HeldInv'
    BY <1>1, <1>3, <1>5, <2>1, <2>3 DEF HeldInv
  <2>5. WireInv'
    BY <1>1, <1>5 DEF Inv, WireInv, KidInv, Plain, Inputs, Apart, From, To
  <2> QED
    BY <1>2, <1>4, <2>4, <2>5 DEF Inv
<1>6. CASE ~IsLast
  <2>1. i < Len(cmds) /\ i' = i + 1 /\ prev_pipe' = next_pipe /\ pc' = "pipe"
        /\ prev_pipe # next_pipe
    BY <1>1, <1>3, <1>6 DEF IsLast, num_commands
  <2>2. held' = Ends(next_pipe)
    BY <1>1, <1>3, <2>1 DEF Dropped, PipeEnds, Ends
  <2>3. HeldInv'
    BY <1>1, <1>3, <2>1, <2>2 DEF HeldInv, PipeEnds
  <2>4. NotRead(next_pipe, i)
    BY <1>1, <2>1 DEF Inv, WireInv
  <2>5. NotRead(prev_pipe, i - 1)'
    BY <1>1, <1>3, <2>1, <2>4 DEF NotRead, From, To
  <2>6. WireInv'
    BY <1>1, <2>1, <2>5 DEF Inv, WireInv, KidInv, Plain, Inputs, Apart, From, To
  <2> QED
    BY <1>2, <1>4, <2>3, <2>6 DEF Inv
<1> QED
  BY <1>5, <1>6

LEMMA Waits ==
  ASSUME Inv, WaitAll
  PROVE  Inv'
<1>1. /\ pc = "waiting" /\ UNCHANGED <<phase, held, flow, status>>
      /\ UNCHANGED kid \/ \E p \in Pids : Reaped(p)
  BY DEF WaitAll, Zombies
<1>2. CASE left = 1
  BY <1>1, <1>2, Returns DEF WaitAll
<1>3. CASE left # 1
  <2>1. left' = left - 1 /\ UNCHANGED <<pc, parseVars, cmds, i, prev_pipe, next_pipe, pid>>
    BY <1>3 DEF WaitAll
  <2>2. ParseInv'
    BY <1>1, <2>1 DEF parseVars, Inv, ParseInv, Scan, BarsOf
  <2>3. ShellType'
    BY <1>1, <1>3, <2>1 DEF Inv, ShellType, HeldInv
  <2>4. HeldInv'
    BY <1>1, <1>3, <2>1 DEF Inv, ShellType, HeldInv
  <2>5. WireInv'
    <3>1. CASE UNCHANGED kid
      BY <1>1, <2>1, <3>1 DEF Inv, WireInv, KidInv, Plain, Inputs, Apart, From, To
    <3>2. CASE \E p \in Pids : Reaped(p)
      <4>1. PICK p \in Pids : kid' = [kid EXCEPT ![p] = NoKid]
        BY <3>2 DEF Reaped
      <4> QED
        BY <1>1, <2>1, <4>1, NobodyFits, KidMovesInv
    <3> QED
      BY <1>1, <3>1, <3>2
  <2> QED
    BY <2>2, <2>3, <2>4, <2>5 DEF Inv
<1> QED
  BY <1>2, <1>3

\* A pipe nobody has open is read and written by nobody.
LEMMA UnusedUnread ==
  ASSUME WireInv, NEW k \in Unused, NEW p \in Pids
  PROVE  From(kid[p]) # k /\ To(kid[p]) # k
<1> DEFINE c == kid[p]
<1>1. c \in KidType /\ KidInv(c)
  BY DEF WireInv
<1>2. k \in Pipes /\ k # 0 /\ ~IsOpen(<<k, "r">>) /\ ~IsOpen(<<k, "w">>)
  BY DEF Unused, Ends, Pipes
<1>3. c.st # "none" => /\ c.in # <<k, "r">> /\ c.out # <<k, "w">>
                       /\ <<k, "r">> \notin c.fds /\ <<k, "w">> \notin c.fds
  BY <1>2 DEF IsOpen, Has, Children
<1> HIDE DEF c
<1>4. c.st = "none" => From(c) = 0 /\ To(c) = 0
  BY <1>1 DEF KidInv, Plain, From, To, Tty
<1>5. ASSUME c.st # "none", From(c) = k
      PROVE  FALSE
  <2>1. CASE c.prev # 0
    <3>1. c.prev = k /\ c.st = "forked"
      BY <1>1, <1>5, <2>1 DEF From, KidInv, Plain, KidType
    <3>2. <<k, "r">> \in c.fds
      BY <1>1, <1>2, <3>1 DEF KidInv, PipeEnds, Ends
    <3> QED
      BY <1>3, <1>5, <3>2
  <2>2. CASE c.prev = 0
    <3>1. c.in[1] = k
      BY <1>5, <2>2 DEF From
    <3>2. c.in # Tty
      BY <1>2, <3>1 DEF Tty
    <3>3. c.in \in {<<j, "r">> : j \in Pipes}
      BY <1>1, <3>2 DEF KidType
    <3> QED
      BY <1>3, <1>5, <3>1, <3>3
  <2> QED
    BY <2>1, <2>2
<1>6. ASSUME c.st # "none", To(c) = k
      PROVE  FALSE
  <2>1. CASE c.next # 0
    <3>1. c.next = k /\ c.st \in {"forked", "redirected"}
      BY <1>1, <1>6, <2>1 DEF To, KidInv, Plain, KidType
    <3>2. <<k, "w">> \in c.fds
      BY <1>1, <1>2, <3>1 DEF KidInv, PipeEnds, Ends
    <3> QED
      BY <1>3, <1>6, <3>2
  <2>2. CASE c.next = 0
    <3>1. c.out[1] = k
      BY <1>6, <2>2 DEF To
    <3>2. c.out # Tty
      BY <1>2, <3>1 DEF Tty
    <3>3. c.out \in {<<j, "w">> : j \in Pipes}
      BY <1>1, <3>2 DEF KidType
    <3> QED
      BY <1>3, <1>6, <3>1, <3>3
  <2> QED
    BY <2>1, <2>2
<1> QED
  BY <1>2, <1>4, <1>5, <1>6 DEF c

LEMMA Forks ==
  ASSUME Inv, PipeFork
  PROVE  Inv'
<1> DEFINE k == IF IsLast THEN next_pipe ELSE Min(Unused)
           opened == IF IsLast THEN held ELSE held \cup Ends(k)
           child == [NoKid EXCEPT !.st = "forked", !.at = i, !.fds = opened,
                                  !.prev = IF i > 1 THEN prev_pipe ELSE 0,
                                  !.next = IF IsLast THEN 0 ELSE k,
                                  !.program = cmds[i]]
<1>1. /\ pc = "pipe" /\ pc' = "parent" /\ (IsLast \/ Unused # {}) /\ Fork(child)
      /\ held' = opened /\ next_pipe' = k
      /\ flow' = (IF IsLast THEN flow ELSE [flow EXCEPT ![k] = 0])
      /\ UNCHANGED <<phase, parseVars, cmds, i, prev_pipe, left, status>>
  BY DEF PipeFork, Goto
<1>2. /\ cmds \in Seq(BOOLEAN) /\ i \in 1..Len(cmds) /\ Len(cmds) >= 2 /\ Len(cmds) \in Nat
      /\ next_pipe \in 0..NPipes /\ prev_pipe \in 0..NPipes
      /\ (prev_pipe = 0 <=> i = 1) /\ held = PipeEnds(prev_pipe)
      /\ (i > 1 => next_pipe = prev_pipe)
  BY <1>1 DEF Inv, ShellType, HeldInv
<1>3. IsLast => i > 1 /\ k = prev_pipe /\ opened = Ends(prev_pipe)
  BY <1>2 DEF IsLast, num_commands, PipeEnds
<1>4. ~IsLast => i < Len(cmds) /\ k \in Unused /\ k # prev_pipe
  <2>1. SUFFICES ASSUME ~IsLast
                 PROVE  i < Len(cmds) /\ Min(Unused) \in Unused /\ Min(Unused) # prev_pipe
    OBVIOUS
  <2>2. Unused \in SUBSET Nat
    BY DEF Unused, Pipes
  <2>3. Min(Unused) \in Unused
    BY <1>1, <2>1, <2>2, LeastIsOne
  <2>4. ASSUME prev_pipe \in Unused
        PROVE  FALSE
    <3>1. prev_pipe # 0
      BY <2>4 DEF Unused, Pipes
    <3>2. <<prev_pipe, "r">> \in held
      BY <1>2, <3>1 DEF PipeEnds, Ends
    <3> QED
      BY <2>4, <3>2 DEF Unused, Ends, IsOpen
  <2> QED
    BY <1>2, <2>1, <2>3, <2>4 DEF IsLast, num_commands
<1>5. k \in Pipes /\ k # 0
  <2>1. Unused \subseteq Pipes
    BY DEF Unused
  <2>2. prev_pipe # 0 => prev_pipe \in Pipes
    BY <1>2, PipeShellAssumption DEF NPipes, Pipes
  <2>3. k \in Pipes
    BY <1>2, <1>3, <1>4, <2>1, <2>2
  <2> QED
    BY <2>3 DEF Pipes
<1>6. opened \subseteq AllEnds
  <2>1. held \subseteq AllEnds
    BY DEF Inv, ShellType
  <2> QED
    BY <1>5, <2>1 DEF AllEnds
<1>7. /\ child.st = "forked" /\ child.at = i /\ child.fds = opened
      /\ child.prev = prev_pipe /\ child.next = (IF IsLast THEN 0 ELSE k)
      /\ child.in = Tty /\ child.out = Tty
  BY <1>2 DEF NoKid
<1>8. child \in KidType
  <2>1. cmds[i] \in BOOLEAN /\ i \in Nat
    BY <1>2
  <2>2. (IF i > 1 THEN prev_pipe ELSE 0) \in 0..NPipes
    BY <1>2, PipeShellAssumption DEF NPipes
  <2>3. (IF IsLast THEN 0 ELSE k) \in 0..NPipes
    BY <1>2, <1>5, PipeShellAssumption DEF NPipes, Pipes
  <2> HIDE DEF k, opened
  <2> QED
    BY <1>6, <2>1, <2>2, <2>3, NobodyFits DEF KidType
<1>9. opened = PipeEnds(prev_pipe) \cup PipeEnds(IF IsLast THEN 0 ELSE k)
  BY <1>2, <1>3, <1>5 DEF PipeEnds
<1>10. \A q \in Pids : i > 1 => From(kid[q]) # prev_pipe
                                /\ (To(kid[q]) = prev_pipe => kid[q].at = i - 1)
  BY <1>1 DEF Inv, WireInv, NotRead
<1>11. \A q \in Pids : ~IsLast => From(kid[q]) # k /\ To(kid[q]) # k
  BY <1>4, UnusedUnread DEF Inv
<1> HIDE DEF child, k, opened
<1>12. From(child) = prev_pipe /\ To(child) = (IF IsLast THEN 0 ELSE k)
  <2>1. Tty[1] = 0
    BY DEF Tty
  <2>2. From(child) = prev_pipe
    BY <1>7, <2>1 DEF From
  <2>3. CASE IsLast
    BY <1>7, <2>1, <2>2, <2>3 DEF To
  <2>4. CASE ~IsLast
    BY <1>5, <1>7, <2>2, <2>4 DEF To
  <2> QED
    BY <2>3, <2>4
<1>13. KidInv(child)
  BY <1>2, <1>4, <1>7, <1>9 DEF KidInv
<1>14. ShellType'
  <2>1. pid' \in -1..MaxPids
    <3>1. pid' = -1 \/ pid' \in Pids
      BY <1>1, ForkEither
    <3> QED
      BY <3>1, PipeShellAssumption DEF Pids
  <2>2. flow' \in [Pipes -> 0..1]
    BY <1>1, FlowSet DEF Inv, ShellType
  <2>3. next_pipe' \in 0..NPipes
    BY <1>1, <1>5 DEF NPipes, Pipes
  <2> QED
    BY <1>1, <1>6, <2>1, <2>2, <2>3 DEF Inv, ShellType
<1>15. HeldInv'
  <2>1. opened = PipeEnds(prev_pipe) \cup Ends(k)
    BY <1>2, <1>3, <1>5, <1>9 DEF PipeEnds
  <2>2. i < Len(cmds) <=> prev_pipe # k
    BY <1>2, <1>3, <1>4 DEF IsLast, num_commands
  <2> QED
    BY <1>1, <1>2, <1>5, <2>1, <2>2 DEF HeldInv
<1>16. WireInv'
  <2>1. CASE kid' = kid
    <3>1. pc' = "parent" /\ i' < Len(cmds') => NotRead(next_pipe, i)'
      BY <1>1, <1>2, <1>11, <2>1 DEF NotRead, IsLast, num_commands, From, To
    <3> QED
      BY <1>1, <2>1, <3>1 DEF Inv, WireInv, KidInv, Plain, Inputs, Apart, From, To
  <2>2. CASE kid' # kid
    <3>1. PICK p \in Pids : kid[p].st = "none" /\ kid' = [kid EXCEPT ![p] = child]
      BY <1>1, <2>2, ForkEither
    <3>2. /\ kid' \in [Pids -> KidType]
          /\ \A q \in Pids : kid'[q] = IF q = p THEN child ELSE kid[q]
      BY <1>8, <3>1 DEF Inv, WireInv
    <3>3. \A q \in Pids : Apart(child, kid[q]) /\ Apart(kid[q], child)
      <4>1. SUFFICES ASSUME NEW q \in Pids
                     PROVE  Apart(child, kid[q]) /\ Apart(kid[q], child)
        OBVIOUS
      <4>2. From(child) = From(kid[q]) => From(child) = 0
        BY <1>2, <1>10, <1>12
      <4>3. To(child) = To(kid[q]) => To(child) = 0
        BY <1>11, <1>12
      <4>4. To(child) = From(kid[q]) => To(child) = 0
        BY <1>11, <1>12
      <4>5. To(kid[q]) = From(child) /\ From(child) # 0 => child.at = kid[q].at + 1
        BY <1>2, <1>7, <1>10, <1>12
      <4> QED
        BY <4>2, <4>3, <4>4, <4>5 DEF Apart
    <3>4. \A q \in Pids : KidInv(kid'[q])
      BY <1>13, <3>2 DEF Inv, WireInv
    <3>5. \A q, r \in Pids : q # r => Apart(kid'[q], kid'[r])
      BY <3>2, <3>3 DEF Inv, WireInv
    <3>6. ASSUME i < Len(cmds), NEW q \in Pids
          PROVE  From(kid'[q]) # k /\ (To(kid'[q]) = k => kid'[q].at = i)
      BY <1>2, <1>4, <1>7, <1>11, <1>12, <3>2, <3>6 DEF IsLast, num_commands
    <3>7. pc' = "parent" /\ i' < Len(cmds') => NotRead(next_pipe, i)'
      BY <1>1, <3>6 DEF NotRead, From, To
    <3> QED
      BY <1>1, <3>2, <3>4, <3>5, <3>7 DEF WireInv, KidInv, Plain, Inputs, Apart, From, To
  <2> QED
    BY <2>1, <2>2
<1>17. ParseInv'
  BY <1>1 DEF parseVars, Inv, ParseInv, Scan, BarsOf
<1> QED
  BY <1>14, <1>15, <1>16, <1>17 DEF Inv

LEMMA Stutter ==
  ASSUME Inv, UNCHANGED vars
  PROVE  Inv'
<1>1. ParseInv'
  BY DEF vars, parseVars, Inv, ParseInv, Scan, BarsOf
<1>2. ShellType' /\ HeldInv'
  BY DEF vars, shellVars, Inv, ShellType, HeldInv, PipeEnds, Ends
<1>3. WireInv'
  BY DEF vars, shellVars, Inv, WireInv, KidInv, Plain, Inputs, Apart, From, To, NotRead
<1> QED
  BY <1>1, <1>2, <1>3 DEF Inv

LEMMA InvStep == Inv /\ [Next]_vars => Inv'
<1>1. Inv /\ Next => Inv'
  <2> SUFFICES ASSUME Inv, Next PROVE Inv'
    OBVIOUS
  <2>1. CASE Shell
    BY <2>1, ParseSteps, EvalEnds, Commands, RowsFilled, Forks, Closes, Waits DEF Shell
  <2>2. CASE User
    BY <2>2, UserSteps DEF User
  <2>3. CASE Over
    BY <2>3, Stutter DEF Over
  <2>4. CASE \E p \in Pids : Child(p) \/ (status = "up" /\ StopShort(p))
    BY <2>4, KidsStep
  <2> QED
    BY <2>1, <2>2, <2>3, <2>4 DEF Next
<1>2. Inv /\ UNCHANGED vars => Inv'
  BY Stutter
<1> QED
  BY <1>1, <1>2

THEOREM WiresHold == Spec => []Inv
BY Start, InvStep, PTL DEF Spec

(***************************************************************************)
(* Whatever the lines, and though programs of an earlier pipeline may      *)
(* still run when the next one is wired: a pipe leads from a program to    *)
(* the next and to nobody else, none holds an end it does not use, and at  *)
(* the prompt neither does the shell.                                      *)
(***************************************************************************)
THEOREM PipesLead == Spec => []PipesWired
<1>1. ASSUME Inv
      PROVE  PipesWired
  <2>1. TypeOK
    BY <1>1 DEF Inv, ParseInv, ShellType, WireInv, KidType, TypeOK, AllEnds, NoKid
  <2>2. pc \notin {"pipe", "parent"} => held = {}
    BY <1>1 DEF Inv, HeldInv
  <2>3. ASSUME NEW p \in Pids, Running(p)
        PROVE  /\ kid[p].fds = {} /\ (kid[p].at <= 1 <=> kid[p].in = Tty)
               /\ From(kid[p]) = Source(p) /\ To(kid[p]) = Sink(p)
               /\ kid[p].in # Tty => Source(p) # 0
               /\ kid[p].out # Tty => Sink(p) # 0
    <3>1. kid[p] \in KidType /\ KidInv(kid[p]) /\ kid[p].st = "running"
      BY <1>1, <2>3 DEF Inv, WireInv, Running
    <3>2. kid[p].in # Tty => Source(p) # 0
      BY <3>1 DEF KidType, Source, Pipes
    <3>3. kid[p].out # Tty => Sink(p) # 0
      BY <3>1 DEF KidType, Sink, Pipes
    <3> QED
      BY <3>1, <3>2, <3>3 DEF KidInv, Inputs, From, To, Source, Sink
  <2>4. ASSUME NEW p \in Pids, NEW q \in Pids \ {p}, Running(p), Running(q)
        PROVE  /\ kid[p].in = kid[q].in => kid[p].in = Tty
               /\ kid[p].out = kid[q].out => kid[p].out = Tty
               /\ kid[p].out # Tty /\ Sink(p) = Source(q) => kid[q].at = kid[p].at + 1
    <3>1. Apart(kid[p], kid[q])
      BY <1>1 DEF Inv, WireInv
    <3> QED
      BY <2>3, <2>4, <3>1 DEF Apart, Source, Sink
  <2> QED
    BY <2>1, <2>2, <2>3, <2>4 DEF PipesWired
<1> QED
  BY <1>1, WiresHold, PTL

-------------------------------------------------------------------------------
(* How many children there are.                                            *)

Number == Cardinality(Children)

\* What eval has started, and has yet to wait for, over the children before it.
Awaited(n) == IF failed THEN Number <= before + n ELSE Number = before + n

CountInv ==
  /\ before \in Nat /\ started \in 0..1 /\ failed \in BOOLEAN
  /\ pc = "prompt" => NothingLeftBehind
  /\ pc \in {"blank", "split", "scan", "error", "parsed"} =>
       ~failed /\ started = 0 /\ Number = before
  /\ pc = "started" => Awaited(started) /\ (failed => started = 0)
  /\ pc = "wait" => Number = before + (IF failed THEN 0 ELSE 1) /\ started = 0
  /\ pc = "pipe" => Awaited(i - 1) /\ started = 0
  /\ pc = "parent" => Awaited(i) /\ started = 0
  /\ pc = "waiting" => Awaited(left) /\ started = 0

LEMMA KidsFinite == IsFiniteSet(Children) /\ Number \in Nat
<1>1. IsFiniteSet(Pids)
  BY PipeShellAssumption, FS_Interval DEF Pids
<1>2. Children \in SUBSET Pids
  BY DEF Children
<1> QED
  BY <1>1, <1>2, FS_Subset, FS_CardinalityType DEF Number

\* A child more, a child less, or as many as before.
LEMMA OneMore ==
  ASSUME Inv, NEW p \in Pids, NEW k, kid' = [kid EXCEPT ![p] = k], k.st # "none"
  PROVE  Number' = IF kid[p].st = "none" THEN Number + 1 ELSE Number
<1>1. Children' = Children \cup {p}
  BY DEF Inv, WireInv, Children
<1>2. p \in Children <=> kid[p].st # "none"
  BY DEF Children
<1> QED
  BY <1>1, <1>2, KidsFinite, FS_AddElement DEF Number

LEMMA OneLess ==
  ASSUME Inv, NEW p \in Pids, Reaped(p), kid[p].st # "none"
  PROVE  Number' = Number - 1
<1>1. Children' = Children \ {p}
  BY DEF Inv, WireInv, Children, Reaped, NoKid
<1>2. p \in Children
  BY DEF Children
<1> QED
  BY <1>1, <1>2, KidsFinite, FS_RemoveElement DEF Number

LEMMA AsMany ==
  ASSUME UNCHANGED kid
  PROVE  Number' = Number /\ Children' = Children
BY DEF Number, Children

LEMMA KidsCount ==
  ASSUME Inv, CountInv, NEW p \in Pids, Child(p) \/ StopShort(p)
  PROVE  CountInv'
<1>1. kid[p].st # "none" /\ kid[p] \in KidType
  BY DEF Child, StopShort, RedirectIn, RedirectOut, Exec, ExecFails, Read, Write,
         Sigpipe, Finish, Running, Inv, WireInv
<1>2. \E k : Becomes(p, k) /\ k.st # "none"
  <2>1. Zombie.st # "none"
    BY DEF Zombie, NoKid
  <2>2. CASE RedirectIn(p)
    <3> DEFINE k == IF kid[p].prev = 0 THEN [kid[p] EXCEPT !.st = "redirected"]
                    ELSE [kid[p] EXCEPT !.st = "redirected", !.prev = 0,
                                        !.in = <<kid[p].prev, "r">>,
                                        !.fds = @ \ Ends(kid[p].prev)]
    <3>1. Becomes(p, k)
      BY <2>2 DEF RedirectIn
    <3>2. k.st = "redirected"
      BY <1>1 DEF KidType
    <3> QED
      BY <3>1, <3>2
  <2>3. CASE RedirectOut(p)
    <3> DEFINE k == IF kid[p].next = 0 THEN [kid[p] EXCEPT !.st = "wired"]
                    ELSE [kid[p] EXCEPT !.st = "wired", !.next = 0,
                                        !.out = <<kid[p].next, "w">>,
                                        !.fds = @ \ Ends(kid[p].next)]
    <3>1. Becomes(p, k)
      BY <2>3 DEF RedirectOut
    <3>2. k.st = "wired"
      BY <1>1 DEF KidType
    <3> QED
      BY <3>1, <3>2
  <2>5. CASE Exec(p)
    <3> DEFINE k == [kid[p] EXCEPT !.st = "running",
                                   !.has = IF kid[p].in = Tty /\ kid[p].out # Tty
                                           THEN Output ELSE 0]
    <3>1. Becomes(p, k)
      BY <2>5 DEF Exec
    <3>2. k.st = "running"
      BY <1>1 DEF KidType
    <3> QED
      BY <3>1, <3>2
  <2>6. CASE Read(p) \/ Write(p)
    <3>1. PICK n : Becomes(p, [kid[p] EXCEPT !.has = n])
      BY <2>6 DEF Read, Write
    <3>2. [kid[p] EXCEPT !.has = n].st # "none"
      BY <1>1 DEF KidType
    <3> QED
      BY <3>1, <3>2
  <2>4. CASE ExecFails(p) \/ Sigpipe(p) \/ Finish(p) \/ StopShort(p)
    BY <2>1, <2>4 DEF ExecFails, Sigpipe, Finish, StopShort
  <2> QED
    BY <2>2, <2>3, <2>4, <2>5, <2>6 DEF Child
<1>3. PICK k : Becomes(p, k) /\ k.st # "none"
  BY <1>2
<1>4. Number' = Number
  BY <1>1, <1>3, OneMore DEF Becomes
<1> QED
  BY <1>3, <1>4 DEF Becomes, shellVars, lineVars, forkVars, CountInv, Awaited,
     NothingLeftBehind, Number

LEMMA EvalCounts ==
  ASSUME Inv, CountInv,
         Nothing \/ builtin_command \/ Background \/ Waitpid
  PROVE  CountInv'
<1>1. UNCHANGED <<before, started, failed>>
  BY DEF Nothing, builtin_command, Background, Waitpid, lineVars, forkVars
<1>2. CASE Waitpid
  <2>1. pc = "wait" /\ pc' = "prompt" /\ fresh' = fresh
    BY <1>2 DEF Waitpid, Return, Goto, lineVars
  <2>2. Number' = Number - 1 \/ (Number' = Number /\ Number = 0)
    <3>1. CASE \E p \in Zombies : Reaped(p)
      BY <3>1, OneLess DEF Zombies
    <3>2. CASE Children = {} /\ UNCHANGED kid
      BY <3>2, AsMany, FS_EmptySet DEF Number
    <3> QED
      BY <1>2, <3>1, <3>2 DEF Waitpid
  <2>3. Number \in Nat
    BY KidsFinite
  <2>4. IF failed THEN Number' <= before ELSE Number' = before + started
    BY <2>1, <2>2, <2>3 DEF CountInv
  <2> QED
    BY <1>1, <2>1, <2>4 DEF CountInv, NothingLeftBehind, Number
<1>3. CASE Nothing \/ builtin_command \/ Background
  <2>1. UNCHANGED kid /\ pc \in {"error", "parsed", "started"}
    BY <1>3 DEF Nothing, builtin_command, Background, Command
  <2>2. pc' = "prompt" \/ UNCHANGED pc
    BY <1>3 DEF Nothing, builtin_command, Background, Return, Goto
  <2>3. IF failed THEN Number <= before ELSE Number = before + started
    BY <2>1, KidsFinite DEF CountInv, Awaited
  <2> QED
    BY <1>1, <2>1, <2>2, <2>3, AsMany DEF CountInv, Awaited, NothingLeftBehind, Number
<1> QED
  BY <1>2, <1>3

LEMMA ForkCounts ==
  ASSUME Inv, NEW child, Fork(child), child.st # "none", failed \in BOOLEAN
  PROVE  \/ Number' = Number + 1 /\ failed' = failed /\ pid' # -1
         \/ Number' = Number /\ failed' = TRUE /\ pid' = -1
<1>1. ASSUME NEW p \in Pids, kid[p].st = "none", pid' = p,
             kid' = [kid EXCEPT ![p] = child], failed' = failed
      PROVE  Number' = Number + 1 /\ failed' = failed /\ pid' # -1
  <2>1. Number' = Number + 1
    BY <1>1, OneMore
  <2>2. pid' # -1
    BY <1>1 DEF Pids
  <2> QED
    BY <1>1, <2>1, <2>2
<1> QED
  BY <1>1, ForkEither, AsMany

LEMMA ShellCounts ==
  ASSUME Inv, CountInv,
         RunCommand \/ FillRows \/ PipeFork \/ ParentCloses \/ WaitAll
  PROVE  CountInv'
<1>1. Number \in Nat /\ before \in Nat /\ started \in 0..1 /\ failed \in BOOLEAN
      /\ before' = before
  BY KidsFinite DEF CountInv, RunCommand, FillRows, PipeFork, ParentCloses, WaitAll, lineVars
<1>2. CASE RunCommand
  <2> DEFINE child == [NoKid EXCEPT !.st = "wired", !.program = TRUE]
  <2>1. Fork(child) /\ pc = "parsed" /\ pc' = (IF bg THEN "started" ELSE "wait")
        /\ started' = (IF bg /\ pid' # -1 THEN 1 ELSE 0)
    BY <1>2 DEF RunCommand, Command, Goto
  <2>2. child.st # "none"
    BY DEF NoKid
  <2> HIDE DEF child
  <2>3. \/ Number' = Number + 1 /\ failed' = failed /\ pid' # -1
        \/ Number' = Number /\ failed' = TRUE /\ pid' = -1
    BY <1>1, <2>1, <2>2, ForkCounts
  <2>7. ~failed /\ Number = before
    BY <2>1 DEF CountInv
  <2>8. failed = FALSE
    BY Zenon, <1>1, <2>7
  <2>4. \/ Number' = before + 1 /\ failed' = FALSE /\ pid' # -1
        \/ Number' = before /\ failed' = TRUE /\ pid' = -1
    BY <2>3, <2>7, <2>8
  <2>9. failed' \in BOOLEAN
    BY Zenon, <2>4
  <2>5. CASE bg
    <3>1. pc' = "started" /\ started' \in 0..1
      BY <2>1, <2>5
    <3>2. failed' => Number' = before /\ started' = 0
      BY <2>1, <2>4, <2>5
    <3>3. ~failed' => Number' = before + 1 /\ started' = 1
      BY <2>1, <2>4, <2>5
    <3> QED
      BY <1>1, <2>9, <3>1, <3>2, <3>3 DEF CountInv, Awaited
  <2>6. CASE ~bg
    <3>1. pc' = "wait" /\ started' = 0
      BY <2>1, <2>6
    <3>2. failed' => Number' = before
      BY <2>4
    <3>3. ~failed' => Number' = before + 1
      BY <2>4
    <3> QED
      BY <1>1, <2>9, <3>1, <3>2, <3>3 DEF CountInv, Awaited
  <2> QED
    BY <2>5, <2>6
<1>3. CASE FillRows
  <2>1. pc = "parsed" /\ UNCHANGED <<kid, started, failed>>
        /\ (UNCHANGED pc \/ (pc' = "pipe" /\ i' = i))
    BY <1>3 DEF FillRows, Goto, forkVars
  <2>2. i = 1
    BY <2>1 DEF Inv, HeldInv
  <2> QED
    BY <1>1, <2>1, <2>2, AsMany DEF CountInv, Awaited
<1>4. CASE PipeFork
  <2>1. PICK child : Fork(child) /\ child.st = "forked"
    <3> DEFINE k == IF IsLast THEN next_pipe ELSE Min(Unused)
               opened == IF IsLast THEN held ELSE held \cup Ends(k)
               child == [NoKid EXCEPT !.st = "forked", !.at = i, !.fds = opened,
                                      !.prev = IF i > 1 THEN prev_pipe ELSE 0,
                                      !.next = IF IsLast THEN 0 ELSE k,
                                      !.program = cmds[i]]
    <3>1. Fork(child)
      BY <1>4 DEF PipeFork
    <3>2. child.st = "forked"
      BY DEF NoKid
    <3> QED
      BY <3>1, <3>2
  <2>2. \/ Number' = Number + 1 /\ failed' = failed
        \/ Number' = Number /\ failed' = TRUE
    BY <1>1, <2>1, ForkCounts
  <2>3. pc = "pipe" /\ pc' = "parent" /\ i' = i /\ started' = started
    BY <1>4 DEF PipeFork, Goto
  <2>4. i \in Nat /\ i >= 1 /\ Awaited(i - 1) /\ started = 0
    BY <2>3 DEF CountInv, Inv, ShellType, HeldInv
  <2>5. IF failed' THEN Number' <= before + i ELSE Number' = before + i
    BY <1>1, <2>2, <2>4 DEF Awaited
  <2>6. failed' \in BOOLEAN
    BY <1>1, <2>2
  <2> QED
    BY <1>1, <2>3, <2>4, <2>5, <2>6 DEF CountInv, Awaited
<1>5. CASE ParentCloses
  <2>1. pc = "parent" /\ UNCHANGED <<kid, started, failed>>
        /\ IF IsLast THEN pc' = "waiting" /\ left' = Len(cmds) /\ i = Len(cmds)
                     ELSE pc' = "pipe" /\ i' = i + 1
    BY <1>5 DEF ParentCloses, Goto, forkVars, IsLast, num_commands
  <2>2. i \in Nat /\ Awaited(i) /\ started = 0
    BY <2>1 DEF CountInv, Inv, ShellType
  <2> QED
    BY <1>1, <2>1, <2>2, AsMany DEF CountInv, Awaited
<1>6. CASE WaitAll
  <2>1. pc = "waiting" /\ UNCHANGED <<started, failed, fresh>>
        /\ ((left = 1 /\ pc' = "prompt") \/ (left # 1 /\ left' = left - 1 /\ pc' = pc))
    <3>1. left = 1 => pc' = "prompt"
      BY <1>6 DEF WaitAll, Return, Goto
    <3>2. left # 1 => left' = left - 1 /\ pc' = pc
      BY <1>6 DEF WaitAll
    <3> QED
      BY <1>6, <3>1, <3>2 DEF WaitAll, forkVars, lineVars
  <2>2. left \in Nat \ {0} /\ Awaited(left) /\ started = 0
    BY <2>1 DEF CountInv, Inv, ShellType, HeldInv
  <2>3. Number' = Number - 1 \/ (Number' = Number /\ Number = 0)
    <3>1. CASE \E p \in Zombies : Reaped(p)
      BY <3>1, OneLess DEF Zombies
    <3>2. CASE Children = {} /\ UNCHANGED kid
      BY <3>2, AsMany, FS_EmptySet DEF Number
    <3> QED
      BY <1>6, <3>1, <3>2 DEF WaitAll
  <2>4. IF failed THEN Number' <= before + (left - 1) ELSE Number' = before + (left - 1)
    BY <1>1, <2>2, <2>3 DEF Awaited
  <2> QED
    BY <1>1, <2>1, <2>2, <2>4 DEF CountInv, Awaited, NothingLeftBehind, Number
<1> QED
  BY <1>2, <1>3, <1>4, <1>5, <1>6

THEOREM CountsHold == Spec => [](Inv /\ CountInv)
<1>1. Init => CountInv
  <2> SUFFICES ASSUME Init PROVE CountInv
    OBVIOUS
  <2>1. Children = {}
    BY DEF Init, Children, NoKid
  <2>2. Cardinality(Children) = 0
    BY <2>1, FS_EmptySet
  <2>3. pc = "prompt" /\ before = 0 /\ started = 0 /\ failed = FALSE /\ fresh = TRUE
    BY DEF Init
  <2>4. failed \in BOOLEAN /\ ~failed
    BY Zenon, <2>3
  <2>5. NothingLeftBehind
    BY <2>3, <2>4 DEF NothingLeftBehind
  <2> QED
    BY <2>3, <2>4, <2>5 DEF CountInv
<1>2. Inv /\ CountInv /\ [Next]_vars => CountInv'
  <2> SUFFICES ASSUME Inv, CountInv, [Next]_vars PROVE CountInv'
    OBVIOUS
  <2>1. ASSUME UNCHANGED kid, UNCHANGED <<before, started, failed, fresh>>,
               \/ UNCHANGED <<pc, i, left>>
               \/ /\ pc \in {"blank", "split", "scan"}
                  /\ pc' \in {"blank", "split", "scan", "error", "parsed"}
        PROVE  CountInv'
    BY <2>1, AsMany DEF CountInv, Awaited, NothingLeftBehind, Number
  <2>2. CASE parseline /\ UNCHANGED <<shellVars, lineVars, forkVars, kid, flow, status>>
    <3>1. /\ pc' \in {"blank", "split", "scan", "error", "parsed"}
          /\ pc \in {"blank", "split", "scan"}
      BY <2>2 DEF parseline, Escaped, Backslash, InQuote, OpenQuote, Pipe, Space, Ordinary,
             ScanEnd, BlankTurn, BlankEnd, SplitTurn, SplitEnd, Plainly, Scanning, Goto
    <3> QED
      BY <2>1, <2>2, <3>1 DEF lineVars, forkVars
  <2>3. CASE ReadLine
    <3>1. /\ pc' \in {"blank", "scan"} /\ UNCHANGED kid
          /\ before' = Number /\ started' = 0 /\ failed' = FALSE
      BY <2>3 DEF ReadLine, Parse, Goto, Number
    <3>2. failed' \in BOOLEAN /\ ~failed'
      BY Zenon, <3>1
    <3>3. before' \in Nat /\ Number' = before'
      BY <3>1, AsMany, KidsFinite
    <3> QED
      BY <3>1, <3>2, <3>3 DEF CountInv
  <2>4. CASE EndOfInput
    BY <2>1, <2>4 DEF EndOfInput, lineVars, forkVars, shellVars
  <2>5. CASE UNCHANGED vars
    BY <2>1, <2>5 DEF vars, lineVars, forkVars, shellVars
  <2> QED
    BY <2>2, <2>3, <2>4, <2>5, EvalCounts, ShellCounts, KidsCount
       DEF Next, Shell, User, Over
<1>3. Inv /\ [Next]_vars => Inv'
  BY InvStep
<1> QED
  BY <1>1, <1>2, <1>3, Start, PTL DEF Spec

(***************************************************************************)
(* Whatever the lines, when eval is done with one there are as many        *)
(* children as before it, and the one it put in the background; where a    *)
(* fork failed, no more than before.                                       *)
(***************************************************************************)
THEOREM AllAreWaitedFor == Spec => []NothingLeftBehind
<1>1. Inv /\ CountInv => NothingLeftBehind
  BY DEF CountInv, NothingLeftBehind
<1> QED
  BY <1>1, CountsHold, PTL

===============================================================================
