---------------------------- MODULE StockFraming ----------------------------
(***************************************************************************)
(* One connection of the stock server, byte by byte: a client of task_1    *)
(* (multiclient.c or stockclient.c), the server's thread of task_2, the    *)
(* two directions of the socket, and the robust I/O functions of csapp.c   *)
(* through which both sides read and write.  A request is a line, an       *)
(* answer is MAXLINE bytes whatever its text: multiclient reads MAXLINE    *)
(* bytes, stockclient reads up to a newline.  The numbers and the tree of  *)
(* stocks are StockThreads': here an answer is the number of the line it   *)
(* answers.                                                                *)
(***************************************************************************)
EXTENDS Naturals, Sequences, SequencesExt, FiniteSetsExt

CONSTANTS
  MAXLINE,            \* csapp.h: the size of the buffers, and of an answer
  RIO_BUFSIZE,        \* csapp.h: the size of a read buffer
  ORDER_PER_CLIENT,   \* multiclient.c: the requests of a multiclient
  RequestRoom,        \* what the socket holds from the client to the server
  AnswerRoom,         \* what it holds from the server to the client
  Typed               \* bound: the most pieces a stockclient is given

ASSUME SizesAssumption ==
  /\ {MAXLINE, RIO_BUFSIZE, RequestRoom, AnswerRoom} \subseteq Nat \ {0}
  /\ MAXLINE >= 5 /\ {ORDER_PER_CLIENT, Typed} \subseteq Nat

(* Bytes: the end of a string, a newline, what lies behind a string that   *)
(* is shorter than MAXLINE, the first byte of a request, and, from Text    *)
(* on, the text of the answer to the request of that number.               *)
NUL == 0   NL == 1   Behind == 2
Show == 3  Trade == 4  Exit == 5  Other == 6
Text == 10

VARIABLES
  kind,      \* the client: "multiclient" or "stockclient"
  client,    \* where it is: next, write, read, fputs, ended
  buf,       \* its buffer of MAXLINE bytes
  at,        \* n - nleft of the rio call it is in
  crio,      \* the unread bytes of its rio_t
  server,    \* the thread: readline, writen, closed; or the whole process is
             \* interrupted, or ended in an error
  line,      \* what its rio_readlineb has read
  out,       \* what its rio_writen has left to write
  srio,      \* the unread bytes of its rio_t
  socket,    \* the bytes under way, to each side
  closed,    \* how each side has closed its end: open, fin, reset, refused
  stopped,   \* the client was killed from outside
  asked,     \* history: the pieces the client has begun to send
  heard,     \* history: the lines the server has read
  shown      \* history: what the client has printed, a text per piece

cvars == <<client, buf, at, crio, asked, shown>>
svars == <<server, line, out, srio, heard>>
vars == <<kind, cvars, svars, socket, closed, stopped>>

Sides == {"client", "server"}

-----------------------------------------------------------------------------
(* csapp.c.                                                                *)

\* rio_read: the bytes a call returns, and what stays in the read buffer and
\* in the socket.  The socket is asked only when the buffer is empty.
RioRead(rio, sock, n) ==
  LET held == IF rio = <<>> THEN SubSeq(sock, 1, Min({RIO_BUFSIZE, Len(sock)}))
                            ELSE rio
      cnt  == Min({n, Len(held)})
  IN [got  |-> SubSeq(held, 1, cnt),
      rio  |-> SubSeq(held, cnt + 1, Len(held)),
      sock |-> IF rio = <<>> THEN SubSeq(sock, Len(held) + 1, Len(sock)) ELSE sock]

\* Mutant: it fills the buffer to its end.
LineRead_Full(bytes) == Last(bytes) = NL \/ Len(bytes) = MAXLINE

\* The loop of rio_readlineb ends at a newline and one byte before maxlen.
LineRead(bytes) == Last(bytes) = NL \/ Len(bytes) = MAXLINE - 1

\* The string in a buffer; one without a NUL is read to the buffer's end, and
\* what is printed beyond is not followed.
CString(b) ==
  LET nul == {i \in DOMAIN b : b[i] = NUL}
  IN SubSeq(b, 1, IF nul = {} THEN Len(b) ELSE Min(nul) - 1)

\* Bytes copied into a buffer from a place on.
Stored(b, from, bytes) ==
  [i \in DOMAIN b |-> IF i - from \in 1..Len(bytes) THEN bytes[i - from] ELSE b[i]]

\* The socket: how many bytes of a write it takes at once.
Taken(sock, n, room) == {k \in 1..n : Len(sock) + k <= room}

\* Close, and the end of a process: the other side is told at once that
\* nothing more is read when bytes are left unread.
Close(side) ==
  closed' = [closed EXCEPT ![side] = IF socket[side] = <<>> THEN "fin" ELSE "reset"]

\* A read finds nothing, and the other side has closed: the end of the file,
\* or an error.
EndOfFile(side, rio, peer) ==
  rio = <<>> /\ socket[side] = <<>> /\ closed[peer] \in {"fin", "refused"}
ReadFails(side, rio, peer) ==
  rio = <<>> /\ socket[side] = <<>> /\ closed[peer] = "reset"

-----------------------------------------------------------------------------
Init ==
  /\ kind \in {"multiclient", "stockclient"}
  /\ client = "next" /\ buf = [i \in 1..MAXLINE |-> Behind] /\ at = 0
  /\ server = "readline" /\ line = <<>> /\ out = <<>>
  /\ crio = <<>> /\ srio = <<>>
  /\ socket = [s \in Sides |-> <<>>] /\ closed = [s \in Sides |-> "open"]
  /\ stopped = FALSE /\ asked = <<>> /\ heard = <<>> /\ shown = <<>>

(* The client.                                                             *)

\* What a client puts into buf before it writes: a string with its NUL.
Put(piece) ==
  /\ buf' = Stored(buf, 0, Append(piece, NUL))
  /\ asked' = Append(asked, piece)
  /\ client' = "write" /\ at' = 0
  /\ UNCHANGED <<kind, crio, shown, svars, socket, closed, stopped>>

\* multiclient.c: an order chosen by rand().
Order ==
  /\ client = "next" /\ kind = "multiclient" /\ Len(asked) < ORDER_PER_CLIENT
  /\ \E order \in {Show, Trade} : Put(<<order, NL>>)

\* What Fgets makes of what is typed: lines, a line of which only the first
\* MAXLINE - 1 bytes fit, and a last line that ends with the input.
Unended == {<<Trade>>}
Pieces ==
  {<<c, NL>> : c \in {Show, Trade, Exit, Other}} \union Unended
    \union {[i \in 1..(MAXLINE - 1) |-> IF i = 1 THEN Trade ELSE Other]}

\* stockclient.c: Fgets.
Fgets ==
  /\ client = "next" /\ kind = "stockclient" /\ Len(asked) < Typed
  /\ asked # <<>> => Last(asked) \notin Unended
  /\ \E piece \in Pieces : Put(piece)

\* All orders are given, or Fgets finds the end of the input: Close, exit.
ClientCloses ==
  /\ client = "next"
  /\ kind = "multiclient" => Len(asked) = ORDER_PER_CLIENT
  /\ client' = "ended" /\ Close("client")
  /\ UNCHANGED <<kind, buf, at, crio, asked, shown, svars, socket, stopped>>

\* One turn of rio_writen.  A write to a server that has closed is taken and
\* lost; the next one ends the client by SIGPIPE.
ClientWrites ==
  LET string == CString(buf) IN
  /\ client = "write"
  /\ \E k \in Taken(socket["server"], Len(string) - at, RequestRoom) :
       /\ closed["server"] \in {"open", "fin"}
       /\ at' = IF at + k = Len(string) THEN 0 ELSE at + k
       /\ client' = IF at' = 0 THEN "read" ELSE "write"
       /\ IF closed["server"] = "open"
          THEN /\ socket' = [socket EXCEPT !["server"] =
                               @ \o SubSeq(string, at + 1, at + k)]
               /\ UNCHANGED closed
          ELSE closed' = [closed EXCEPT !["server"] = "refused"] /\ UNCHANGED socket
  /\ UNCHANGED <<kind, buf, crio, asked, shown, svars, stopped>>

ClientBroken ==
  /\ \/ client = "write" /\ closed["server"] \in {"reset", "refused"}
     \/ client = "read" /\ ReadFails("client", crio, "server")
  /\ client' = "ended" /\ Close("client")
  /\ UNCHANGED <<kind, buf, at, crio, asked, shown, svars, socket, stopped>>

\* Mutant: what one read returns is taken for the whole answer.
ReadBuffer_Once ==
  LET r == RioRead(crio, socket["client"], MAXLINE) IN
  /\ client = "read" /\ kind = "multiclient" /\ r.got # <<>>
  /\ buf' = Stored(buf, 0, r.got) /\ client' = "fputs"
  /\ crio' = r.rio /\ socket' = [socket EXCEPT !["client"] = r.sock]
  /\ UNCHANGED <<kind, at, asked, shown, svars, closed, stopped>>

\* Mutant: room is left for a NUL that no answer needs.
ReadBuffer_Short ==
  LET r == RioRead(crio, socket["client"], MAXLINE - 1 - at) IN
  /\ client = "read" /\ kind = "multiclient" /\ r.got # <<>>
  /\ buf' = Stored(buf, at, r.got) /\ at' = at + Len(r.got)
  /\ client' = IF at' = MAXLINE - 1 THEN "fputs" ELSE "read"
  /\ crio' = r.rio /\ socket' = [socket EXCEPT !["client"] = r.sock]
  /\ UNCHANGED <<kind, asked, shown, svars, closed, stopped>>

\* One turn of rio_readnb, which asks for all that MAXLINE bytes lack.
ReadBuffer ==
  LET r == RioRead(crio, socket["client"], MAXLINE - at) IN
  /\ client = "read" /\ kind = "multiclient" /\ r.got # <<>>
  /\ buf' = Stored(buf, at, r.got) /\ at' = at + Len(r.got)
  /\ client' = IF at' = MAXLINE THEN "fputs" ELSE "read"
  /\ crio' = r.rio /\ socket' = [socket EXCEPT !["client"] = r.sock]
  /\ UNCHANGED <<kind, asked, shown, svars, closed, stopped>>

\* One turn of rio_readlineb, a byte; the string is ended behind the last one.
ReadByte ==
  LET r == RioRead(crio, socket["client"], 1)
      bytes == SubSeq(buf, 1, at) \o r.got
  IN
  /\ client = "read" /\ kind = "stockclient" /\ r.got # <<>>
  /\ at' = at + 1
  /\ IF LineRead(bytes)
     THEN buf' = Stored(buf, at, Append(r.got, NUL)) /\ client' = "fputs"
     ELSE buf' = Stored(buf, at, r.got) /\ UNCHANGED client
  /\ crio' = r.rio /\ socket' = [socket EXCEPT !["client"] = r.sock]
  /\ UNCHANGED <<kind, asked, shown, svars, closed, stopped>>

\* Mutant: rio_readnb has no break at the end of the file.
ReadEnds_NoBreak ==
  /\ client = "read" /\ EndOfFile("client", crio, "server")
  /\ kind = "stockclient"
  /\ client' = "fputs"
  /\ buf' = IF at > 0 THEN Stored(buf, at, <<NUL>>) ELSE buf
  /\ UNCHANGED <<kind, at, crio, asked, shown, svars, socket, closed, stopped>>

\* The server has closed.  rio_readnb returns what it has; rio_readlineb ends
\* the string, but not when nothing was read: buf keeps the request.
ReadEnds ==
  /\ client = "read" /\ EndOfFile("client", crio, "server")
  /\ client' = "fputs"
  /\ buf' = IF kind = "stockclient" /\ at > 0 THEN Stored(buf, at, <<NUL>>) ELSE buf
  /\ UNCHANGED <<kind, at, crio, asked, shown, svars, socket, closed, stopped>>

\* Fputs, whatever the read returned.
Fputs ==
  /\ client = "fputs"
  /\ shown' = Append(shown, CString(buf)) /\ client' = "next"
  /\ UNCHANGED <<kind, buf, at, crio, asked, svars, socket, closed, stopped>>

ClientStops ==
  /\ client # "ended" /\ client' = "ended" /\ stopped' = TRUE /\ Close("client")
  /\ UNCHANGED <<kind, buf, at, crio, asked, shown, svars, socket>>

-----------------------------------------------------------------------------
(* The server's thread.                                                    *)

\* The MAXLINE bytes of the answer to the n-th line: the whole show string,
\* with a newline for each stock, or a string constant and what lies behind it.
Answers(command, n) ==
  LET text == IF command = Show THEN <<Text + n, NL, Text + n, NL, NUL>>
                                ELSE <<Text + n, NL, NUL>>
  IN {text \o [i \in 1..(MAXLINE - Len(text)) |-> b] : b \in {Behind, NL}}

\* The branches of the thread's loop, by the line it has read.  A line that is
\* no command gets no answer, and exit leaves the loop.
Obey(read) ==
  LET command == Head(read) IN
  /\ heard' = Append(heard, read) /\ line' = <<>>
  /\ \/ command \in {Show, Trade} /\ server' = "writen"
          /\ out' \in Answers(command, Len(heard')) /\ UNCHANGED closed
     \/ command = Exit /\ server' = "closed" /\ UNCHANGED out
          /\ closed' = [closed EXCEPT !["server"] =
                          IF socket'["server"] = <<>> THEN "fin" ELSE "reset"]
     \/ command = Other /\ server' = "readline" /\ UNCHANGED <<out, closed>>

\* One turn of the thread's rio_readlineb.
ServerReads ==
  LET r == RioRead(srio, socket["server"], 1) IN
  /\ server = "readline" /\ r.got # <<>>
  /\ srio' = r.rio /\ socket' = [socket EXCEPT !["server"] = r.sock]
  /\ IF LineRead(line \o r.got)
     THEN Obey(line \o r.got)
     ELSE line' = line \o r.got /\ UNCHANGED <<server, out, heard, closed>>
  /\ UNCHANGED <<kind, cvars, stopped>>

\* The client has closed: what was read of a line is obeyed, and the next call
\* returns 0 and ends the loop.
ServerReadEnds ==
  /\ server = "readline" /\ EndOfFile("server", srio, "client")
  /\ IF line # <<>>
     THEN UNCHANGED <<srio, socket>> /\ Obey(line)
     ELSE /\ server' = "closed" /\ Close("server")
          /\ UNCHANGED <<line, out, srio, heard, socket>>
  /\ UNCHANGED <<kind, cvars, stopped>>

\* One turn of the thread's rio_writen.
ServerWrites ==
  /\ server = "writen"
  /\ \E k \in Taken(socket["client"], Len(out), AnswerRoom) :
       /\ closed["client"] \in {"open", "fin"}
       /\ out' = SubSeq(out, k + 1, Len(out))
       /\ server' = IF out' = <<>> THEN "readline" ELSE "writen"
       /\ IF closed["client"] = "open"
          THEN /\ socket' = [socket EXCEPT !["client"] = @ \o SubSeq(out, 1, k)]
               /\ UNCHANGED closed
          ELSE closed' = [closed EXCEPT !["client"] = "refused"] /\ UNCHANGED socket
  /\ UNCHANGED <<kind, cvars, line, srio, heard, stopped>>

\* A read that fails goes through unix_error to exit(0), a write to SIGPIPE:
\* either ends the process, with the connections of all clients.
ServerBroken ==
  /\ \/ server = "readline" /\ ReadFails("server", srio, "client")
     \/ server = "writen" /\ closed["client"] \in {"reset", "refused"}
  /\ server' = "ended in an error" /\ Close("server")
  /\ UNCHANGED <<kind, cvars, line, out, srio, heard, socket, stopped>>

\* handle_sigint, or another connection that fails.
Interrupted ==
  /\ server \in {"readline", "writen"}
  /\ server' = "interrupted" /\ Close("server")
  /\ UNCHANGED <<kind, cvars, line, out, srio, heard, socket, stopped>>

-----------------------------------------------------------------------------
ClientSteps ==
  \/ Order \/ Fgets \/ ClientCloses
  \/ ClientWrites \/ ClientBroken
  \/ ReadBuffer \/ ReadByte \/ ReadEnds \/ Fputs
ServerSteps ==
  ServerReads \/ ServerReadEnds \/ ServerWrites \/ ServerBroken

Next == ClientSteps \/ ServerSteps \/ ClientStops \/ Interrupted

\* Each process goes on while the kernel lets it.
FairSpec ==
  Init /\ [][Next]_vars /\ WF_vars(ClientSteps) /\ WF_vars(ServerSteps)

-----------------------------------------------------------------------------
(* Properties.                                                             *)

TypeOK ==
  /\ client \in {"next", "write", "read", "fputs", "ended"}
  /\ server \in {"readline", "writen", "closed", "interrupted", "ended in an error"}
  /\ Len(buf) = MAXLINE /\ at \in 0..MAXLINE
  /\ Len(crio) < RIO_BUFSIZE /\ Len(srio) < RIO_BUFSIZE
  /\ Len(socket["client"]) <= AnswerRoom /\ Len(socket["server"]) <= RequestRoom
  /\ \A s \in Sides : closed[s] \in {"open", "fin", "reset", "refused"}

\* The server takes the requests apart exactly where the client cut them,
\* whatever the socket made of them: the lines it has read are the pieces sent,
\* in order, each whole.  Only a piece without its newline, at the end of the
\* input, waits for more; and the line a client that closes or is killed leaves
\* unfinished may be a part of its last piece.
LinesAsSent ==
  /\ TypeOK
  /\ Len(heard) <= Len(asked)
  /\ \A i \in DOMAIN heard :
       \/ heard[i] = asked[i]
       \/ stopped /\ i = Len(asked) /\ IsPrefix(heard[i], asked[i])

\* The texts of the answers a buffer shows.
AnswersIn(text) == {text[i] - Text : i \in {j \in DOMAIN text : text[j] > Text}}

\* A multiclient stays in step: what it prints after its n-th order is the
\* answer to that order, whole, as long as the server's end is open.  A
\* stockclient reads a line of an answer of MAXLINE bytes and leaves the rest:
\* it is in step for its first request, and from then on prints what is left of
\* an earlier answer instead of the one it asked for, until it has sent lines
\* that are not answered.  It never shows the answers out of their order.
InStep ==
  \A n \in DOMAIN shown :
    LET told == AnswersIn(shown[n]) IN
    IF kind = "multiclient"
    THEN \/ shown[n] \in {CString(a) : a \in Answers(Head(asked[n]), n)}
         \/ closed["server"] # "open"
    ELSE /\ \A m \in told : m <= n
         /\ n \in told => n = 1 \/ \E i \in 1..(n - 1) : Head(asked[i]) = Other
         /\ \A i \in 1..(n - 1) :
              \A m \in told, l \in AnswersIn(shown[i]) : l <= m

\* One client cannot end the server for the others by what it sends: the
\* process ends in an error only after a client went away with an answer, or a
\* part of one, still to come.  A multiclient that is left alone never does; a
\* stockclient does by ending its input.
OthersServed ==
  server = "ended in an error" =>
    /\ client = "ended" /\ (stopped \/ kind = "stockclient")
    /\ closed["client"] \in {"reset", "refused"}

\* A stockclient waits for an answer that does not come: to a line that is no
\* command, or to a last line without its newline.
Unanswered ==
  /\ kind = "stockclient" /\ client = "read" /\ server = "readline"
  /\ line # <<>> \/ \E i \in DOMAIN heard : Head(heard[i]) = Other

\* Both sides write and neither reads.
Jammed ==
  /\ kind = "stockclient" /\ client = "write" /\ server = "writen"
  /\ Taken(socket["server"], 1, RequestRoom) = {}
  /\ Taken(socket["client"], 1, AnswerRoom) = {}

\* A multiclient gives all its orders, or ends because the server is gone; a
\* stockclient too, unless it asked what is not answered or left so much of the
\* answers unread that both sides are caught in a write.  Once the client is
\* gone the server's thread is not left behind.  (The fairness of ClientSteps
\* is also that of the user: fgets gets a line, or the end, sooner or later.)
BothEnd ==
  /\ <>(client = "ended" \/ []Unanswered \/ []Jammed)
  /\ client = "ended" ~> server \notin {"readline", "writen"}
=============================================================================
