------------------------------ MODULE ShellParse ------------------------------
(***************************************************************************)
(* The command line of the shells: parseline of phase 1, and parseline of  *)
(* phase 2, which phase 3 kept.  Both work in the buffer that holds the    *)
(* line: they move what they keep towards its start, write terminators and *)
(* leave in argv the addresses of the words.  A step is one turn of their  *)
(* loops.                                                                  *)
(*                                                                         *)
(* A character is one of the classes the shells tell apart: "x" stands for *)
(* any that means nothing to them, "e" for a word that is `exit' or        *)
(* `quit', "n" for the newline.  MAXARGS is out of reach of these lines.   *)
(***************************************************************************)
EXTENDS Integers, Sequences, SequencesExt

VARIABLES
  phase,                   \* whose parseline it is: 1, or 2
  pc,                      \* where the shell is
  line,                    \* cmdline, as fgets left it
  mem,                     \* buf of eval: the characters and the terminator
  current, start, buf,     \* parseline's pointers; current is i in phase 1
  argv, pipe_cnt,          \* the words' addresses so far, and the pipes
  quote, escape            \* in_quote; singleQuote, doubleQuote

parseVars == <<line, mem, current, start, buf, argv, pipe_cnt, quote, escape>>

NUL    == "0"
SPACE  == " "
Quotes == {"'", "\""}
Chars  == {"x", "e", SPACE, "\\", "|", "&"} \cup Quotes

\* The literal "|", and its address, which is not in the buffer.
BAR  == <<"|">>
PIPE == 0

Goto(place) == pc' = place

\* strlen, and the C string at an address.
TerminatorFrom(a) == Min({k \in a..Len(mem) : mem[k] = NUL})
CString(a) == SubSeq(mem, a, TerminatorFrom(a) - 1)

\* The words argv has the addresses of.
Words == [k \in DOMAIN argv |-> IF argv[k] = PIPE THEN BAR ELSE CString(argv[k])]

\* buf[strlen(buf) - 1] = ' ', on whatever the last character is.
Chopped(l) == [l EXCEPT ![Len(l)] = SPACE]

\* strcpy, and the call of parseline.
Parse(l) ==
  /\ line' = l /\ mem' = Append(IF phase = 1 THEN l ELSE Chopped(l), NUL)
  /\ current' = 1 /\ start' = 1 /\ buf' = 1 /\ argv' = <<>> /\ pipe_cnt' = 0
  /\ quote' = "none" /\ escape' = FALSE
  /\ Goto(IF phase = 1 THEN "blank" ELSE "scan")

\* What is left of a call that has returned.
Forget ==
  /\ line' = <<>> /\ mem' = <<NUL>> /\ current' = 1 /\ start' = 1 /\ buf' = 1
  /\ argv' = <<>> /\ pipe_cnt' = 0 /\ quote' = "none" /\ escape' = FALSE

-------------------------------------------------------------------------------
(* Phase 2: one pass, by characters.                                       *)

Here == mem[current]

Scanning == pc = "scan" /\ Here # NUL
Plainly  == Scanning /\ ~escape /\ Here # "\\"

\* *start++ = *current++
KeepChar ==
  /\ mem' = [mem EXCEPT ![start] = Here]
  /\ start' = start + 1 /\ current' = current + 1

DropChar == current' = current + 1 /\ UNCHANGED <<mem, start>>

Escaped ==
  /\ Scanning /\ escape /\ KeepChar /\ escape' = FALSE
  /\ UNCHANGED <<phase, pc, line, buf, argv, pipe_cnt, quote>>

Backslash ==
  /\ Scanning /\ ~escape /\ Here = "\\" /\ DropChar /\ escape' = TRUE
  /\ UNCHANGED <<phase, pc, line, buf, argv, pipe_cnt, quote>>

InQuote ==
  /\ Plainly /\ quote # "none"
  /\ IF Here = quote THEN DropChar /\ quote' = "none"
                     ELSE KeepChar /\ UNCHANGED quote
  /\ UNCHANGED <<phase, pc, line, buf, argv, pipe_cnt, escape>>

OpenQuote ==
  /\ Plainly /\ quote = "none" /\ Here \in Quotes
  /\ DropChar /\ quote' = Here
  /\ UNCHANGED <<phase, pc, line, buf, argv, pipe_cnt, escape>>

\* *start = 0, and argv has the word if there is one.
Terminated == [mem EXCEPT ![start] = NUL]
WordEnded  == IF start > buf THEN Append(argv, buf) ELSE argv

\* The next word may begin at address a.
Begin(a) == current' = a /\ buf' = a /\ start' = a

\* Mutant: a pipe does not end the word before it.
Pipe_Unterminated ==
  /\ Plainly /\ quote = "none" /\ Here = "|"
  /\ argv' = Append(WordEnded, PIPE) /\ pipe_cnt' = pipe_cnt + 1
  /\ Begin(current + 1)
  /\ UNCHANGED <<phase, pc, line, mem, quote, escape>>

Pipe ==
  /\ Plainly /\ quote = "none" /\ Here = "|"
  /\ mem' = Terminated
  /\ argv' = Append(WordEnded, PIPE) /\ pipe_cnt' = pipe_cnt + 1
  /\ Begin(current + 1)
  /\ UNCHANGED <<phase, pc, line, quote, escape>>

\* The next character, from address a of memory m, that is not a space.
Unspaced(m, a) == Min({k \in a..Len(m) : m[k] # SPACE})

Space ==
  /\ Plainly /\ quote = "none" /\ Here = SPACE
  /\ mem' = Terminated /\ argv' = WordEnded
  /\ Begin(Unspaced(mem, current + 1))
  /\ UNCHANGED <<phase, pc, line, pipe_cnt, quote, escape>>

Ordinary ==
  /\ Plainly /\ quote = "none" /\ Here \notin Quotes \cup {"|", SPACE}
  /\ KeepChar
  /\ UNCHANGED <<phase, pc, line, buf, argv, pipe_cnt, quote, escape>>

ScanEnd ==
  /\ pc = "scan" /\ Here = NUL
  /\ IF quote # "none" THEN Goto("error") /\ UNCHANGED <<mem, argv>>
     ELSE Goto("parsed") /\ mem' = Terminated /\ argv' = WordEnded
  /\ UNCHANGED <<phase, line, current, start, buf, pipe_cnt, quote, escape>>

-------------------------------------------------------------------------------
(* Phase 1: blank the quotes and the backslashes, then split at spaces.    *)

Blanked == [mem EXCEPT ![current] = SPACE]

\* The turn at a character the loop looks at; a backslash skips the next.
BlankTurn ==
  /\ pc = "blank" /\ current < Len(mem)
  /\ CASE Here = quote ->
            mem' = Blanked /\ quote' = "none" /\ current' = current + 1
       [] quote = "none" /\ Here \in Quotes ->
            mem' = Blanked /\ quote' = Here /\ current' = current + 1
       [] quote = "none" /\ Here = "\\" ->
            mem' = Blanked /\ current' = current + 2 /\ UNCHANGED quote
       [] OTHER ->
            current' = current + 1 /\ UNCHANGED <<mem, quote>>
  /\ UNCHANGED <<phase, pc, line, start, buf, argv, pipe_cnt, escape>>

\* The unmatched quote, or the newline and the leading spaces.
BlankEnd ==
  /\ pc = "blank" /\ current >= Len(mem)
  /\ IF quote # "none" THEN Goto("error") /\ UNCHANGED <<mem, buf>>
     ELSE /\ Goto("split")
          /\ mem' = Append(Chopped(Front(mem)), NUL) /\ buf' = Unspaced(mem', 1)
  /\ UNCHANGED <<phase, line, current, start, argv, pipe_cnt, quote, escape>>

\* strchr(buf, ' ')
Delimiters == {k \in buf..TerminatorFrom(buf) : mem[k] = SPACE}

SplitTurn ==
  /\ pc = "split" /\ Delimiters # {}
  /\ argv' = Append(argv, buf)
  /\ mem' = [mem EXCEPT ![Min(Delimiters)] = NUL]
  /\ buf' = Unspaced(mem, Min(Delimiters) + 1)
  /\ UNCHANGED <<phase, pc, line, current, start, pipe_cnt, quote, escape>>

SplitEnd ==
  /\ pc = "split" /\ Delimiters = {} /\ Goto("parsed")
  /\ UNCHANGED <<phase, parseVars>>

parseline ==
  \/ Escaped \/ Backslash \/ InQuote \/ OpenQuote \/ Pipe \/ Space \/ Ordinary
  \/ ScanEnd \/ BlankTurn \/ BlankEnd \/ SplitTurn \/ SplitEnd

-------------------------------------------------------------------------------
(* What a line means, by the places of its characters, and whether the     *)
(* parsers' work in the buffer comes to that.                              *)

\* Before each place: the quote in force, and whether a backslash escapes it.
Lexed(ph, l) ==
  LET lex[k \in 1..(Len(l) + 1)] ==
        IF k = 1 THEN [quote |-> "none", escape |-> FALSE]
        ELSE LET c == l[k - 1]
                 b == lex[k - 1]
             IN  IF b.escape THEN [b EXCEPT !.escape = FALSE]
                 ELSE IF c = "\\" /\ (ph = 2 \/ b.quote = "none")
                   THEN [b EXCEPT !.escape = TRUE]
                 ELSE IF c \in Quotes /\ b.quote \in {"none", c}
                   THEN [b EXCEPT !.quote = IF @ = c THEN "none" ELSE c]
                 ELSE b
  IN  lex

Unmatched(ph, l) == Lexed(ph, l)[Len(l) + 1].quote # "none"

\* Quotes and backslashes that do their work and are no part of a word.
Marks(ph, l) ==
  LET lex == Lexed(ph, l)
  IN  {k \in DOMAIN l : ~lex[k].escape /\ lex[k + 1] # lex[k]}

\* Outside quotes and unescaped, a bar (of phase 2) and a space end a word;
\* so does the last character in phase 1, which is a space once it is scanned.
Bars(ph, l) ==
  LET lex == Lexed(ph, l)
  IN  {k \in DOMAIN l : /\ ph = 2 /\ l[k] = "|" /\ ~lex[k].escape
                        /\ lex[k].quote = "none"}
Breaks(ph, l) ==
  LET lex == Lexed(ph, l)
  IN  {k \in DOMAIN l : /\ l[k] = SPACE /\ ~lex[k].escape
                        /\ lex[k].quote = "none"}
      \cup (IF ph = 1 THEN {Len(l)} ELSE {})

\* The words: between breaks and bars, the characters that are no marks.
Meant(ph, l) ==
  LET ends  == SetToSortSeq(Bars(ph, l) \cup Breaks(ph, l) \cup {0, Len(l) + 1}, <)
      piece(k) == {j \in (ends[k] + 1)..(ends[k + 1] - 1) : j \notin Marks(ph, l)}
      word(k)  == LET at == SetToSortSeq(piece(k), <)
                  IN  [j \in DOMAIN at |-> l[at[j]]]
      part(k)  == (IF word(k) = <<>> THEN <<>> ELSE <<word(k)>>)
                  \o (IF ends[k + 1] \in Bars(ph, l) THEN <<BAR>> ELSE <<>>)
  IN  FlattenSeq([k \in 1..(Len(ends) - 1) |-> part(k)])

\* The characters of words, the spaces among them left out.
Unblank(c)    == c # SPACE
Letters(words) == SelectSeq(FlattenSeq(words), Unblank)

(***************************************************************************)
(* What the parsers find in the buffer they rewrite under their own feet:  *)
(* they never write where they have yet to read, and reject the lines      *)
(* whose quotes do not match and no others.  The parser of phases 2 and 3  *)
(* gives the words that the quotes, backslashes, spaces and bars of the    *)
(* line make, in order and whole, with the number of pipes.  That of phase *)
(* 1 does so for a line without quotes and backslashes; of any other line  *)
(* it only keeps the characters and their order, and not which of them are *)
(* one word (QuotesProtect).                                               *)
(***************************************************************************)
ParsedAsMeant ==
  LET l == IF phase = 1 THEN line ELSE Chopped(line)
  IN  /\ pc = "scan" =>
           SubSeq(mem, current, Len(l)) = SubSeq(l, current, Len(l))
      /\ pc = "error" => Unmatched(phase, l)
      /\ pc = "parsed" =>
           /\ ~Unmatched(phase, l)
           /\ phase = 2 \/ Marks(1, l) = {} => Words = Meant(phase, l)
           /\ Letters(Words) = Letters(Meant(phase, l))
           /\ pipe_cnt = Cardinality(Bars(phase, l))

(***************************************************************************)
(* What phase 1 says of itself, in line 23 of its README: it "handles      *)
(* quoted strings and escape characters similarly to a real shell".  A     *)
(* space that is quoted or escaped then is a part of its word, and a quote *)
(* or a backslash in a word does not end it.  The code blanks both, and so *)
(* parts the words at them and at the spaces they should protect.          *)
(***************************************************************************)
QuotesProtect == pc = "parsed" /\ phase = 1 => Words = Meant(1, line)
===============================================================================
