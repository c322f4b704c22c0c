-------------------------- MODULE StockFramingProofs --------------------------
(***************************************************************************)
(* One connection, proved for buffers and sockets of every size, pieces    *)
(* cut anywhere, and either side gone at any moment: the server takes the  *)
(* lines apart where the client put them together, a multiclient is told   *)
(* the answer it asked for, and neither side's leaving ends the server but *)
(* where the property says so.                                             *)
(***************************************************************************)
EXTENDS StockFraming, SequenceTheorems, WellFoundedInduction, TLAPS

(***************************************************************************)
(* The inductive invariant.  The types; a piece is what Fgets or an order  *)
(* makes of a line.                                                        *)
(***************************************************************************)
ClientType ==
  /\ kind \in {"multiclient", "stockclient"}
  /\ client \in {"next", "write", "read", "fputs", "ended"}
  /\ buf \in [1..MAXLINE -> Nat] /\ at \in 0..MAXLINE
  /\ crio \in Seq(Nat) /\ Len(crio) < RIO_BUFSIZE
  /\ asked \in Seq(Pieces) /\ shown \in Seq(Seq(Nat))

ServerType ==
  /\ server \in {"readline", "writen", "closed", "interrupted", "ended in an error"}
  /\ line \in Seq(Nat) /\ out \in Seq(Nat)
  /\ srio \in Seq(Nat) /\ Len(srio) < RIO_BUFSIZE
  /\ heard \in Seq(Seq(Nat))

SocketType ==
  /\ socket \in [Sides -> Seq(Nat)]
  /\ Len(socket["client"]) <= AnswerRoom /\ Len(socket["server"]) <= RequestRoom
  /\ closed \in [Sides -> {"open", "fin", "reset", "refused"}]
  /\ stopped \in BOOLEAN

Types == ClientType /\ ServerType /\ SocketType

(***************************************************************************)
(* Each side is where its end of the connection says, and its buffers are  *)
(* what the call it is in needs.                                           *)
(***************************************************************************)
ServerOpen == closed["server"] = "open"

Orders == {<<Show, NL>>, <<Trade, NL>>}

ClientPlace ==
  /\ closed["client"] = "open" <=> client # "ended"
  /\ stopped => client = "ended"
  /\ client = "write" =>
       asked # <<>> /\ CString(buf) = Last(asked) /\ at < Len(Last(asked))
  /\ client = "read" => IF kind = "multiclient" THEN at < MAXLINE ELSE at < MAXLINE - 1
  /\ \A n \in DOMAIN asked : n < Len(asked) => asked[n] \notin Unended
  /\ kind = "multiclient" => \A n \in DOMAIN asked : asked[n] \in Orders

ServerPlace ==
  /\ ServerOpen <=> server \in {"readline", "writen"}
  /\ server = "readline" => out = <<>> /\ Len(line) < MAXLINE - 1
  /\ server = "writen" => line = <<>>
  /\ \A j \in DOMAIN line : line[j] # NL

PlaceInv == Types /\ ClientPlace /\ ServerPlace

(***************************************************************************)
(* The stream of requests.  w[n] is all that the first n pieces put into   *)
(* it.  What the server has not made a line of yet is in its line, its     *)
(* read buffer and the socket; behind the pieces it has heard it is the    *)
(* pieces up to the last one, of which m bytes are sent: those that the    *)
(* client's call of rio_writen has, all when it has returned, and any      *)
(* number when the client was killed in it.                                *)
(***************************************************************************)
Request == line \o srio \o socket["server"]

Wholes(w) ==
  /\ w \in [0..Len(asked) -> Seq(Nat)] /\ w[0] = <<>>
  /\ \A n \in 1..Len(asked) : w[n] = w[n - 1] \o asked[n]
  /\ \A i, n \in 0..Len(asked) : i <= n => \E x \in Seq(Nat) : w[n] = w[i] \o x

Sending(m) ==
  /\ m \in 0..Len(Last(asked))
  /\ client = "write" => m = at
  /\ client # "write" /\ ~stopped => m = Len(Last(asked))

Stream(w) ==
  /\ Wholes(w)
  /\ asked = <<>> => Request = <<>>
  /\ asked # <<>> => \E m \in Nat :
       /\ Sending(m)
       /\ w[Len(heard)] \o Request = w[Len(asked) - 1] \o SubSeq(Last(asked), 1, m)

StreamInv == ServerOpen => \E w : Stream(w)

HeardRight ==
  /\ Len(heard) <= Len(asked)
  /\ \A i \in DOMAIN heard :
       heard[i] = asked[i] \/ (stopped /\ i = Len(asked) /\ IsPrefix(heard[i], asked[i]))

(***************************************************************************)
(* A multiclient and its server are in one of these: nothing is under way, *)
(* a request is, or the rest of the answer is that buf lacks.              *)
(***************************************************************************)
Answer == crio \o socket["client"] \o out

Quiet == Len(heard) = Len(asked) /\ Answer = <<>>
Asking == Len(heard) = Len(asked) - 1 /\ Answer = <<>>
Answered(bytes) ==
  Len(heard) = Len(asked) /\ bytes \in Answers(Head(Last(asked)), Len(asked))

Turns ==
  /\ client = "next" => Quiet
  /\ client = "fputs" => Quiet /\ Answered(buf)
  /\ client = "write" => Asking
  /\ client = "read" => \/ Asking /\ at = 0
                        \/ Answered(SubSeq(buf, 1, at) \o Answer)
  /\ client = "ended" /\ ~stopped => Quiet /\ closed["client"] = "fin"

ShownRight ==
  \A n \in DOMAIN shown : shown[n] \in {CString(a) : a \in Answers(Head(asked[n]), n)}

MultiInv ==
  kind = "multiclient" =>
    /\ Len(shown) <= Len(asked)
    /\ client = "next" => Len(shown) = Len(asked)
    /\ client \in {"write", "read", "fputs"} => Len(shown) = Len(asked) - 1
    /\ ServerOpen => Turns /\ ShownRight

Inv == PlaceInv /\ StreamInv /\ HeardRight /\ MultiInv /\ OthersServed

-------------------------------------------------------------------------------
(***************************************************************************)
(* Sequences of bytes, and the least of some numbers.                      *)
(***************************************************************************)
LEMMA Least ==
  ASSUME NEW S \in SUBSET Nat, S # {}
  PROVE  Min(S) \in S /\ \A k \in S : Min(S) <= k
<1>1. PICK e \in S : \A k \in S : ~(<<k, e>> \in OpToRel(<, Nat))
  <2>1. IsWellFoundedOn(OpToRel(<, Nat), Nat)
    BY NatLessThanWellFounded
  <2> QED
    BY <2>1, WFMin
<1>2. \A k \in S : ~(k < e)
  BY <1>1 DEF OpToRel
<1>3. \A k \in S : e =< k
  BY <1>2
<1> QED
  BY <1>3 DEF Min

LEMMA LeastOfTwo ==
  ASSUME NEW a \in Nat, NEW b \in Nat
  PROVE  Min({a, b}) = IF a <= b THEN a ELSE b
<1>1. Min({a, b}) \in {a, b} /\ \A k \in {a, b} : Min({a, b}) <= k
  BY Least
<1> QED
  BY <1>1

LEMMA Assoc ==
  ASSUME NEW a \in Seq(Nat), NEW b \in Seq(Nat), NEW c \in Seq(Nat)
  PROVE  a \o b \in Seq(Nat) /\ (a \o b) \o c = a \o (b \o c)
<1>1. a \o b \in Seq(Nat)
  BY ConcatProperties
<1>2. (a \o b) \o c = a \o (b \o c)
  BY ConcatAssociative, SMTT(20)
<1> QED
  BY <1>1, <1>2

\* The same, named so that the provers see its shape only.
Cat(a, b) == a \o b
Bytes(s) == s \in Seq(Nat)

LEMMA CatAssoc ==
  \A a, b, c : Bytes(a) /\ Bytes(b) /\ Bytes(c) => Cat(Cat(a, b), c) = Cat(a, Cat(b, c))
BY Assoc DEF Cat, Bytes

LEMMA NoBytes ==
  ASSUME NEW s \in Seq(Nat)
  PROVE  Len(s) \in Nat /\ (s = <<>> <=> Len(s) = 0) /\ s \o <<>> = s /\ <<>> \o s = s
<1>1. Len(s) \in Nat /\ (s = <<>> <=> Len(s) = 0)
  BY EmptySeq, LenProperties
<1>2. s \o <<>> = s /\ <<>> \o s = s
  BY ConcatEmptySeq
<1> QED
  BY <1>1, <1>2

\* A sequence is its first bytes and then the others.
LEMMA Halves ==
  ASSUME NEW s \in Seq(Nat), NEW n \in 0..Len(s)
  PROVE  LET first == SubSeq(s, 1, n)
             rest  == SubSeq(s, n + 1, Len(s))
         IN  /\ first \in Seq(Nat) /\ rest \in Seq(Nat)
             /\ Len(first) = n /\ Len(rest) = Len(s) - n
             /\ s = first \o rest
<1> DEFINE first == SubSeq(s, 1, n)
           rest == SubSeq(s, n + 1, Len(s))
<1>1. Len(s) \in Nat /\ n \in Nat /\ n <= Len(s) /\ \A i \in 1..Len(s) : s[i] \in Nat
  BY ElementOfSeq, LenProperties
<1>2. first \in Seq(Nat) /\ Len(first) = n
  BY <1>1, SubSeqProperties
<1>3. rest \in Seq(Nat) /\ Len(rest) = Len(s) - n
  BY <1>1, SubSeqProperties
<1>4. first \o rest = SubSeq(s, 1, Len(s))
  <2>1. 1 \in 1..(Len(s) + 1) /\ n \in (1 - 1)..Len(s) /\ Len(s) \in n..Len(s)
    BY <1>1
  <2> QED
    BY <2>1, ConcatAdjacentSubSeq
<1>5. SubSeq(s, 1, Len(s)) = s
  BY SubSeqFull
<1> QED
  BY <1>2, <1>3, <1>4, <1>5

(***************************************************************************)
(* What rio_read returns comes before what it leaves in the read buffer    *)
(* and that before what it leaves in the socket; it returns something when *)
(* there is something.                                                     *)
(***************************************************************************)
Reads(r, rio, sock, n) ==
  /\ r.got \in Seq(Nat) /\ r.rio \in Seq(Nat) /\ r.sock \in Seq(Nat)
  /\ Len(r.rio) < RIO_BUFSIZE /\ Len(r.sock) <= Len(sock) /\ Len(r.got) <= n
  /\ r.got = <<>> <=> rio = <<>> /\ sock = <<>>
  /\ rio \o sock = r.got \o (r.rio \o r.sock)

LEMMA RioReadIs ==
  ASSUME NEW rio \in Seq(Nat), NEW sock \in Seq(Nat), Len(rio) < RIO_BUFSIZE,
         NEW n \in Nat \ {0}, NEW r, r = RioRead(rio, sock, n)
  PROVE  Reads(r, rio, sock, n)
<1> DEFINE m == Min({RIO_BUFSIZE, Len(sock)})
           held == IF rio = <<>> THEN SubSeq(sock, 1, m) ELSE rio
           left == IF rio = <<>> THEN SubSeq(sock, Len(held) + 1, Len(sock)) ELSE sock
           cnt == Min({n, Len(held)})
           got == SubSeq(held, 1, cnt)
           rest == SubSeq(held, cnt + 1, Len(held))
<1>1. RIO_BUFSIZE \in Nat \ {0} /\ Len(sock) \in Nat /\ Len(rio) \in Nat
  BY SizesAssumption
<1>2. m = IF RIO_BUFSIZE <= Len(sock) THEN RIO_BUFSIZE ELSE Len(sock)
  BY <1>1, LeastOfTwo
<1>3. m \in 0..Len(sock) /\ m <= RIO_BUFSIZE /\ (m = 0 <=> Len(sock) = 0)
  BY <1>1, <1>2
<1> HIDE DEF m
<1>4. /\ held \in Seq(Nat) /\ left \in Seq(Nat) /\ rio \o sock = held \o left
      /\ Len(left) <= Len(sock) /\ Len(held) <= RIO_BUFSIZE
      /\ held = <<>> <=> rio = <<>> /\ sock = <<>>
  <2>1. CASE rio = <<>>
    <3>1. /\ held \in Seq(Nat) /\ Len(held) = m /\ left \in Seq(Nat)
          /\ Len(left) = Len(sock) - m /\ sock = held \o left
      <4> DEFINE first == SubSeq(sock, 1, m)
                 others == SubSeq(sock, m + 1, Len(sock))
      <4>1. /\ first \in Seq(Nat) /\ others \in Seq(Nat)
            /\ Len(first) = m /\ Len(others) = Len(sock) - m /\ sock = first \o others
        BY <1>3, Halves
      <4>2. held = first
        BY <2>1
      <4>3. left = others
        BY <2>1, <4>1, <4>2
      <4> HIDE DEF first, others, held, left
      <4> QED
        BY <4>1, <4>2, <4>3
    <3>2. rio \o sock = sock
      BY <2>1, NoBytes
    <3>3. (held = <<>> <=> Len(held) = 0) /\ (sock = <<>> <=> Len(sock) = 0)
      BY <3>1, NoBytes
    <3> HIDE DEF held, left
    <3>4. Len(left) <= Len(sock) /\ Len(held) <= RIO_BUFSIZE
      BY <1>1, <1>3, <3>1
    <3>5. held = <<>> <=> sock = <<>>
      BY <1>3, <3>1, <3>3
    <3> QED
      BY <2>1, <3>1, <3>2, <3>4, <3>5, Zenon
  <2>2. CASE rio # <<>>
    <3>1. held = rio /\ left = sock
      BY <2>2
    <3> HIDE DEF held, left
    <3>2. Len(left) <= Len(sock) /\ Len(held) <= RIO_BUFSIZE
      BY <1>1, <3>1
    <3>3. rio \o sock = held \o left
      BY <3>1
    <3> QED
      BY <2>2, <3>1, <3>2, <3>3, Zenon
  <2> QED
    BY <2>1, <2>2
<1> HIDE DEF held, left
<1>5. Len(held) \in Nat
  BY <1>4
<1>6. cnt = IF n <= Len(held) THEN n ELSE Len(held)
  BY <1>5, LeastOfTwo
<1>7. cnt \in 0..Len(held) /\ cnt <= n /\ (cnt = 0 <=> Len(held) = 0)
  BY <1>5, <1>6
<1> HIDE DEF cnt
<1>8. /\ got \in Seq(Nat) /\ rest \in Seq(Nat) /\ Len(got) = cnt
      /\ Len(rest) = Len(held) - cnt /\ held = got \o rest
  BY <1>4, <1>7, Halves
<1> HIDE DEF got, rest
<1>9. Len(rest) < RIO_BUFSIZE
  BY <1>1, <1>4, <1>5, <1>7, <1>8
<1>10. got = <<>> <=> held = <<>>
  BY <1>4, <1>7, <1>8, NoBytes
<1>11. rio \o sock = got \o (rest \o left)
  <2>0. got \in Seq(Nat) /\ rest \in Seq(Nat) /\ left \in Seq(Nat)
    BY <1>4, <1>8
  <2>1. (got \o rest) \o left = got \o (rest \o left)
    BY <2>0, Assoc, SMTT(60)
  <2> QED
    BY <1>4, <1>8, <2>1
<1>12. RioRead(rio, sock, n) = [got |-> got, rio |-> rest, sock |-> left]
  BY DEF RioRead, m, held, left, cnt, got, rest
<1> QED
  <2>1. r.got = got /\ r.rio = rest /\ r.sock = left
    BY <1>12
  <2>2. Len(got) <= n
    BY <1>7, <1>8
  <2> QED
      BY <1>4, <1>8, <1>9, <1>10, <1>11, <2>1, <2>2 DEF Reads

-------------------------------------------------------------------------------
(***************************************************************************)
(* The pieces, the answers and the buffer.  Only the last byte of a piece  *)
(* may be a newline, and is one, unless the piece fills the buffer or ends *)
(* the input.                                                              *)
(***************************************************************************)
LEMMA PieceIs ==
  ASSUME NEW p \in Pieces
  PROVE  /\ p \in Seq(Nat) /\ p # <<>> /\ Len(p) \in 1..(MAXLINE - 1)
         /\ \A j \in DOMAIN p : p[j] # NUL /\ (p[j] = NL => j = Len(p))
         /\ p \in Unended => Len(p) = 1 /\ p = <<Trade>>
         /\ p \notin Unended => p[Len(p)] = NL \/ Len(p) = MAXLINE - 1
         /\ Head(p) \in {Show, Trade, Exit, Other}
<1>1. MAXLINE \in Nat /\ MAXLINE >= 5
  BY SizesAssumption
<1>2. CASE \E c \in {Show, Trade, Exit, Other} : p = <<c, NL>>
  <2>1. PICK c \in {Show, Trade, Exit, Other} : p = <<c, NL>>
    BY <1>2
  <2>2. c \in Nat /\ c # NUL /\ c # NL /\ NL \in Nat /\ NL # NUL
    BY DEF NUL, NL, Show, Trade, Exit, Other
  <2>3. p \in Seq(Nat) /\ Len(p) = 2 /\ p[1] = c /\ p[2] = NL /\ DOMAIN p = 1..2
    BY <2>1, <2>2
  <2>4. p \notin Unended
    BY <2>3 DEF Unended
  <2>5. Head(p) = c
    BY <2>1
  <2>6. \A j \in DOMAIN p : p[j] # NUL /\ (p[j] = NL => j = Len(p))
    BY <2>2, <2>3
  <2>7. Len(p) \in 1..(MAXLINE - 1) /\ p # <<>> /\ p[Len(p)] = NL
    BY <1>1, <2>3
  <2> QED
    BY <2>1, <2>3, <2>4, <2>5, <2>6, <2>7
<1>3. CASE p \in Unended
  <2>1. p = <<Trade>> /\ Trade \in Nat /\ Trade # NUL /\ Trade # NL
    BY <1>3 DEF NUL, NL, Trade, Unended
  <2>2. p \in Seq(Nat) /\ Len(p) = 1 /\ p[1] = Trade /\ DOMAIN p = 1..1 /\ Head(p) = Trade
    BY <2>1
  <2>3. \A j \in DOMAIN p : p[j] # NUL /\ (p[j] = NL => j = Len(p))
    BY <2>1, <2>2
  <2>4. Len(p) \in 1..(MAXLINE - 1) /\ p # <<>>
    <3>1. p # <<>>
      BY <2>1
    <3> QED
      BY <1>1, <2>2, <3>1
  <2> QED
    BY <1>3, <2>1, <2>2, <2>3, <2>4
<1>4. CASE p = [i \in 1..(MAXLINE - 1) |-> IF i = 1 THEN Trade ELSE Other]
  <2>1. p \in Seq(Nat) /\ Len(p) = MAXLINE - 1 /\ DOMAIN p = 1..(MAXLINE - 1)
    BY <1>1, <1>4 DEF Trade, Other
  <2>2. \A j \in DOMAIN p : p[j] # NUL /\ p[j] # NL
    BY <1>4, <2>1 DEF NUL, NL, Trade, Other
  <2>3. Head(p) = Trade /\ p # <<>>
    BY <1>1, <1>4, <2>1
  <2>4. p \notin Unended
    <3>1. Len(p) # 1
      BY <1>1, <2>1
    <3>2. Len(<<Trade>>) = 1
      OBVIOUS
    <3> QED
      BY <3>1, <3>2, Zenon DEF Unended
  <2> QED
    BY <1>1, <2>1, <2>2, <2>3, <2>4
<1> QED
  BY <1>2, <1>3, <1>4 DEF Pieces

LEMMA OrderIsPiece ==
  ASSUME NEW p \in Orders
  PROVE  /\ p \in Pieces /\ Head(p) \in {Show, Trade} /\ Len(p) = 2 /\ p[2] = NL
         /\ p \notin Unended
<1>1. PICK c \in {Show, Trade} : p = <<c, NL>>
  BY DEF Orders
<1>2. p \in Pieces /\ Head(p) \in {Show, Trade} /\ Len(p) = 2 /\ p[2] = NL
  BY <1>1 DEF Pieces
<1>3. p \notin Unended
  <2>1. p # <<Trade>>
    BY <1>1, <1>2
  <2> QED
    BY <2>1 DEF Unended
<1> QED
  BY <1>2, <1>3

LEMMA AnswersAre ==
  ASSUME NEW c, NEW n \in Nat, NEW a \in Answers(c, n)
  PROVE  a \in Seq(Nat) /\ Len(a) = MAXLINE
<1>1. MAXLINE \in Nat /\ MAXLINE >= 5
  BY SizesAssumption
<1> DEFINE text == IF c = Show THEN <<Text + n, NL, Text + n, NL, NUL>>
                   ELSE <<Text + n, NL, NUL>>
<1>2. text \in Seq(Nat) /\ Len(text) \in Nat /\ Len(text) <= 5
  BY DEF Text, NL, NUL
<1> HIDE DEF text
<1>3. PICK b \in {Behind, NL} : a = text \o [i \in 1..(MAXLINE - Len(text)) |-> b]
  BY DEF Answers, text
<1> DEFINE rest == [i \in 1..(MAXLINE - Len(text)) |-> b]
<1>4. rest \in Seq(Nat) /\ Len(rest) = MAXLINE - Len(text)
  BY <1>1, <1>2 DEF Behind, NL
<1> HIDE DEF rest
<1>5. a = text \o rest
  BY <1>3 DEF rest
<1> QED
  BY <1>1, <1>2, <1>4, <1>5, ConcatProperties

\* The string in a buffer is no longer than the buffer.
LEMMA StringIs ==
  ASSUME NEW b \in [1..MAXLINE -> Nat]
  PROVE  CString(b) \in Seq(Nat) /\ Len(CString(b)) <= MAXLINE
<1> DEFINE nul == {i \in DOMAIN b : b[i] = NUL}
<1>1. MAXLINE \in Nat /\ b \in Seq(Nat) /\ Len(b) = MAXLINE
  BY SizesAssumption
<1>2. ASSUME NEW n \in 0..MAXLINE PROVE SubSeq(b, 1, n) \in Seq(Nat) /\ Len(SubSeq(b, 1, n)) <= MAXLINE
  BY <1>1, <1>2, Halves
<1>3. CASE nul = {}
  BY <1>1, <1>2, <1>3 DEF CString
<1>4. CASE nul # {}
  <2>1. nul \in SUBSET Nat
    BY <1>1
  <2>2. Min(nul) \in nul
    BY <1>4, <2>1, Least
  <2>3. Min(nul) - 1 \in 0..MAXLINE
    BY <1>1, <2>2
  <2> QED
    BY <1>2, <1>4, <2>3 DEF CString
<1> QED
  BY <1>3, <1>4

\* Bytes copied into a buffer are there behind those that were.
LEMMA StoredIs ==
  ASSUME NEW b \in [1..MAXLINE -> Nat], NEW from \in 0..MAXLINE, NEW bytes \in Seq(Nat)
  PROVE  /\ Stored(b, from, bytes) \in [1..MAXLINE -> Nat]
         /\ from + Len(bytes) <= MAXLINE =>
              SubSeq(Stored(b, from, bytes), 1, from + Len(bytes)) = SubSeq(b, 1, from) \o bytes
<1> DEFINE c == Stored(b, from, bytes)
<1>1. MAXLINE \in Nat /\ b \in Seq(Nat) /\ Len(b) = MAXLINE /\ Len(bytes) \in Nat
  BY SizesAssumption, LenProperties
<1>2. c \in [1..MAXLINE -> Nat]
  BY <1>1 DEF Stored
<1>3. \A i \in 1..MAXLINE : c[i] = IF i - from \in 1..Len(bytes) THEN bytes[i - from] ELSE b[i]
  BY <1>1 DEF Stored
<1>4. c \in Seq(Nat) /\ Len(c) = MAXLINE
  BY <1>1, <1>2
<1> HIDE DEF c
<1>5. ASSUME from + Len(bytes) <= MAXLINE
      PROVE  SubSeq(c, 1, from + Len(bytes)) = SubSeq(b, 1, from) \o bytes
  <2> DEFINE left == SubSeq(c, 1, from + Len(bytes))
             first == SubSeq(b, 1, from)
  <2>1. /\ left \in Seq(Nat) /\ Len(left) = from + Len(bytes)
        /\ \A i \in 1..(from + Len(bytes)) : left[i] = c[i]
    BY <1>1, <1>4, <1>5, SubSeqProperties, ElementOfSeq
  <2>2. /\ first \in Seq(Nat) /\ Len(first) = from
        /\ \A i \in 1..from : first[i] = b[i]
    BY <1>1, SubSeqProperties, ElementOfSeq
  <2> HIDE DEF left, first
  <2>3. /\ first \o bytes \in Seq(Nat) /\ Len(first \o bytes) = from + Len(bytes)
        /\ \A i \in 1..(from + Len(bytes)) :
             (first \o bytes)[i] = IF i <= from THEN first[i] ELSE bytes[i - from]
    BY <2>2, ConcatProperties
  <2>4. ASSUME NEW i \in 1..(from + Len(bytes)) PROVE left[i] = (first \o bytes)[i]
    <3>1. CASE i <= from
      <4>1. c[i] = b[i]
        BY <1>1, <1>3, <1>5, <3>1
      <4> QED
        BY <2>1, <2>2, <2>3, <3>1, <4>1
    <3>2. CASE ~(i <= from)
      <4>1. c[i] = bytes[i - from]
        BY <1>1, <1>3, <1>5, <3>2
      <4> QED
        BY <2>1, <2>3, <3>2, <4>1
    <3> QED
      BY <3>1, <3>2
  <2>5. left = first \o bytes
    BY <2>1, <2>3, <2>4, SeqEqual
  <2> QED
    BY <2>5 DEF left, first
<1> QED
  BY <1>2, <1>5 DEF c

\* The string put into the buffer before a write is the piece.
LEMMA PutIs ==
  ASSUME NEW b \in [1..MAXLINE -> Nat], NEW p \in Pieces
  PROVE  LET c == Stored(b, 0, Append(p, NUL)) IN
         c \in [1..MAXLINE -> Nat] /\ CString(c) = p
<1> DEFINE c == Stored(b, 0, Append(p, NUL))
           nul == {i \in DOMAIN c : c[i] = NUL}
<1>1. MAXLINE \in Nat /\ p \in Seq(Nat) /\ Len(p) \in 1..(MAXLINE - 1)
  BY SizesAssumption, PieceIs
<1>2. /\ Append(p, NUL) \in Seq(Nat) /\ Len(Append(p, NUL)) = Len(p) + 1
      /\ \A i \in 1..Len(p) : Append(p, NUL)[i] = p[i]
      /\ Append(p, NUL)[Len(p) + 1] = NUL
  BY <1>1, AppendProperties DEF NUL
<1>3. c \in [1..MAXLINE -> Nat]
  <2>1. 0 \in 0..MAXLINE
    BY <1>1
  <2> QED
    BY <1>2, <2>1, StoredIs
<1>4. /\ \A i \in 1..Len(p) : c[i] = p[i]
      /\ c[Len(p) + 1] = NUL
  BY <1>1, <1>2 DEF Stored
<1> HIDE DEF c
<1>5. Len(p) + 1 \in nul /\ \A i \in nul : Len(p) + 1 <= i
  <2>1. \A i \in 1..Len(p) : c[i] # NUL
    BY <1>1, <1>4, PieceIs, LenProperties
  <2> QED
    BY <1>1, <1>3, <1>4, <2>1
<1>6. Min(nul) = Len(p) + 1
  <2>1. nul \in SUBSET Nat /\ nul # {}
    BY <1>1, <1>3, <1>5
  <2>2. Min(nul) \in nul /\ \A k \in nul : Min(nul) <= k
    BY <2>1, Least
  <2> HIDE DEF nul
  <2>3. Min(nul) \in Nat
    BY <2>1, <2>2
  <2> QED
    BY <1>1, <1>5, <2>2, <2>3
<1>7. CString(c) = SubSeq(c, 1, Len(p))
  <2>1. CString(c) = SubSeq(c, 1, IF nul = {} THEN Len(c) ELSE Min(nul) - 1)
    BY DEF CString
  <2> HIDE DEF nul
  <2>2. nul # {} /\ Min(nul) - 1 = Len(p)
    BY <1>1, <1>5, <1>6
  <2> QED
    BY <2>1, <2>2
<1>8. /\ SubSeq(c, 1, Len(p)) \in Seq(Nat) /\ Len(SubSeq(c, 1, Len(p))) = Len(p)
      /\ \A i \in 1..Len(p) : SubSeq(c, 1, Len(p))[i] = c[i]
  BY <1>1, <1>3, SubSeqProperties
<1>9. SubSeq(c, 1, Len(p)) = p
  BY <1>1, <1>4, <1>8, SeqEqual
<1> QED
  BY <1>3, <1>7, <1>9 DEF c

-------------------------------------------------------------------------------
(***************************************************************************)
(* The types.  Each side's own part outlives the steps of the other.       *)
(***************************************************************************)
LEMMA TypeFrames ==
  /\ ClientType /\ UNCHANGED <<kind, cvars>> => ClientType'
  /\ ServerType /\ UNCHANGED svars => ServerType'
  /\ SocketType /\ UNCHANGED <<socket, closed, stopped>> => SocketType'
<1>1. ClientType /\ UNCHANGED <<kind, cvars>> => ClientType'
  BY DEF ClientType, cvars
<1>2. ServerType /\ UNCHANGED svars => ServerType'
  BY DEF ServerType, svars
<1>3. SocketType /\ UNCHANGED <<socket, closed, stopped>> => SocketType'
  BY DEF SocketType
<1> QED
  BY <1>1, <1>2, <1>3

LEMMA Sizes ==
  /\ MAXLINE \in Nat /\ MAXLINE >= 5 /\ RIO_BUFSIZE \in Nat \ {0}
  /\ RequestRoom \in Nat /\ AnswerRoom \in Nat
BY SizesAssumption

LEMMA CloseType ==
  ASSUME SocketType, NEW side \in Sides, Close(side), UNCHANGED socket, stopped' \in BOOLEAN
  PROVE  /\ SocketType' /\ closed'[side] \in {"fin", "reset"}
         /\ \A other \in Sides \ {side} : closed'[other] = closed[other]
BY DEF SocketType, Close, Sides

\* The bytes a write takes, and the socket that has taken them.
Took(s, a, sock, k, room, part) ==
  /\ k \in Nat \ {0} /\ a + k <= Len(s)
  /\ part \in Seq(Nat) /\ Len(part) = k /\ \A i \in 1..k : part[i] = s[a + i]
  /\ sock \o part \in Seq(Nat) /\ Len(sock \o part) = Len(sock) + k
  /\ Len(sock) + k <= room

LEMMA TakenIs ==
  ASSUME NEW s \in Seq(Nat), NEW a \in 0..Len(s), NEW sock \in Seq(Nat), NEW room \in Nat,
         NEW k \in Taken(sock, Len(s) - a, room)
  PROVE  Took(s, a, sock, k, room, SubSeq(s, a + 1, a + k))
<1> DEFINE part == SubSeq(s, a + 1, a + k)
<1>1. Len(s) \in Nat /\ Len(sock) \in Nat /\ a \in Nat /\ a <= Len(s)
  BY LenProperties
<1>2. k \in 1..(Len(s) - a) /\ Len(sock) + k <= room
  BY DEF Taken
<1>3. k \in Nat \ {0} /\ a + k <= Len(s)
  BY <1>1, <1>2
<1>4. \A i \in (a + 1)..(a + k) : s[i] \in Nat
  <2>1. \A i \in 1..Len(s) : s[i] \in Nat
    BY ElementOfSeq
  <2>2. \A i \in (a + 1)..(a + k) : i \in 1..Len(s)
    BY <1>1, <1>3
  <2> QED
    BY <2>1, <2>2
<1>5. part \in Seq(Nat) /\ Len(part) = k /\ \A i \in 1..k : part[i] = s[a + i]
  <2>1. /\ part \in Seq(Nat)
        /\ Len(part) = IF a + 1 <= a + k THEN (a + k) - (a + 1) + 1 ELSE 0
        /\ \A i \in 1..((a + k) - (a + 1) + 1) : part[i] = s[(a + 1) + i - 1]
    BY <1>1, <1>3, <1>4, SubSeqProperties
  <2> HIDE DEF part
  <2>2. (a + k) - (a + 1) + 1 = k /\ a + 1 <= a + k /\ \A i \in 1..k : (a + 1) + i - 1 = a + i
    BY <1>1, <1>3
  <2> QED
    BY <2>1, <2>2
<1> HIDE DEF part
<1>6. sock \o part \in Seq(Nat) /\ Len(sock \o part) = Len(sock) + k
  BY <1>5, ConcatProperties
<1> QED
  BY <1>2, <1>3, <1>5, <1>6 DEF part, Took

\* The histories are numbered from 1.
LEMMA Lengths ==
  ASSUME PlaceInv
  PROVE  /\ Len(asked) \in Nat /\ DOMAIN asked = 1..Len(asked)
         /\ asked = <<>> <=> Len(asked) = 0
         /\ Len(heard) \in Nat /\ DOMAIN heard = 1..Len(heard)
         /\ Len(shown) \in Nat /\ DOMAIN shown = 1..Len(shown)
<1>1. asked \in Seq(Pieces) /\ heard \in Seq(Seq(Nat)) /\ shown \in Seq(Seq(Nat))
  BY DEF PlaceInv, Types, ClientType, ServerType
<1>2. Len(asked) \in Nat /\ DOMAIN asked = 1..Len(asked)
  BY <1>1, LenProperties
<1>3. asked = <<>> <=> Len(asked) = 0
  BY <1>1, EmptySeq
<1>4. Len(heard) \in Nat /\ DOMAIN heard = 1..Len(heard)
  BY <1>1, LenProperties
<1>5. Len(shown) \in Nat /\ DOMAIN shown = 1..Len(shown)
  BY <1>1, LenProperties
<1> QED
  BY <1>2, <1>3, <1>4, <1>5

(***************************************************************************)
(* What the client does.                                                   *)
(***************************************************************************)
LEMMA PutStep ==
  ASSUME PlaceInv, client = "next", NEW p \in Pieces, Put(p),
         asked # <<>> => Last(asked) \notin Unended, kind = "multiclient" => p \in Orders
  PROVE  PlaceInv'
<1>1. /\ buf' = Stored(buf, 0, Append(p, NUL)) /\ asked' = Append(asked, p)
      /\ client' = "write" /\ at' = 0
      /\ UNCHANGED <<kind, crio, shown, svars, socket, closed, stopped>>
  BY DEF Put
<1>2. buf' \in [1..MAXLINE -> Nat] /\ CString(buf') = p
  BY <1>1, PutIs DEF PlaceInv, Types, ClientType
<1>3. /\ asked' \in Seq(Pieces) /\ Len(asked') = Len(asked) + 1 /\ asked' # <<>>
      /\ \A n \in 1..Len(asked) : asked'[n] = asked[n]
      /\ asked'[Len(asked) + 1] = p /\ Len(asked) \in Nat
  <2>1. asked \in Seq(Pieces) /\ Len(asked) \in Nat
    BY LenProperties DEF PlaceInv, Types, ClientType
  <2> DEFINE more == Append(asked, p)
  <2>2. /\ more \in Seq(Pieces) /\ Len(more) = Len(asked) + 1
        /\ \A n \in 1..Len(asked) : more[n] = asked[n]
        /\ more[Len(asked) + 1] = p
    BY <2>1, AppendProperties
  <2> HIDE DEF more
  <2>3. more # <<>>
    BY <2>1, <2>2
  <2>4. asked' = more
    BY <1>1 DEF more
  <2> QED
    BY <2>1, <2>2, <2>3, <2>4, Zenon
<1>4. Last(asked') = p /\ Len(p) > 0
  BY <1>3, PieceIs DEF Last
<1>5. Types'
  <2>1. ClientType'
    BY <1>1, <1>2, <1>3, Sizes DEF PlaceInv, Types, ClientType
  <2> QED
    BY <1>1, <2>1, TypeFrames DEF PlaceInv, Types
<1>6. \A n \in DOMAIN asked' : n < Len(asked') => asked'[n] \notin Unended
  <2> SUFFICES ASSUME NEW n \in DOMAIN asked', n < Len(asked')
               PROVE  asked'[n] \notin Unended
    OBVIOUS
  <2>1. n \in 1..Len(asked) /\ DOMAIN asked = 1..Len(asked)
    BY <1>3, LenProperties DEF PlaceInv, Types, ClientType
  <2>2. asked[n] \notin Unended
    <3>1. CASE n = Len(asked)
      BY <2>1, <3>1 DEF Last
    <3>2. CASE n # Len(asked)
      BY <1>3, <2>1, <3>2 DEF PlaceInv, ClientPlace
    <3> QED
      BY <3>1, <3>2
  <2> QED
    BY <1>3, <2>1, <2>2
<1>7. kind' = "multiclient" => \A n \in DOMAIN asked' : asked'[n] \in Orders
  <2>1. DOMAIN asked = 1..Len(asked) /\ DOMAIN asked' = 1..(Len(asked) + 1)
    BY <1>3, LenProperties DEF PlaceInv, Types, ClientType
  <2>2. \A n \in 1..(Len(asked) + 1) : n \in 1..Len(asked) \/ n = Len(asked) + 1
    BY <1>3
  <2> QED
    BY <1>1, <1>3, <2>1, <2>2 DEF PlaceInv, ClientPlace
<1>8. ClientPlace'
  <2>1. closed'["client"] = "open" /\ ~stopped'
    BY <1>1 DEF PlaceInv, ClientPlace
  <2> QED
    BY <1>1, <1>2, <1>3, <1>4, <1>6, <1>7, <2>1 DEF ClientPlace
<1>9. ServerPlace'
  BY <1>1 DEF PlaceInv, ServerPlace, ServerOpen, svars
<1> QED
  BY <1>5, <1>8, <1>9 DEF PlaceInv

LEMMA ClientEnds ==
  ASSUME PlaceInv, client # "ended", client' = "ended", Close("client"), stopped' \in BOOLEAN,
         UNCHANGED <<kind, buf, at, crio, asked, shown, svars, socket>>
  PROVE  PlaceInv'
<1>1. /\ SocketType' /\ closed'["client"] # "open"
      /\ closed'["server"] = closed["server"]
  BY CloseType DEF PlaceInv, Types, Sides
<1>2. ClientType'
  BY DEF PlaceInv, Types, ClientType
<1>3. Types'
  BY <1>1, <1>2, TypeFrames DEF PlaceInv, Types
<1>4. ClientPlace'
  BY <1>1 DEF PlaceInv, ClientPlace
<1>5. ServerPlace'
  BY <1>1 DEF PlaceInv, ServerPlace, ServerOpen, svars
<1> QED
  BY <1>3, <1>4, <1>5 DEF PlaceInv

\* A turn of the client's rio_writen.
LEMMA ClientWritesIs ==
  ASSUME PlaceInv, ClientWrites
  PROVE  LET p == Last(asked) IN
         /\ client = "write" /\ asked # <<>> /\ p \in Pieces
         /\ UNCHANGED <<kind, buf, crio, asked, shown, svars, stopped>>
         /\ \E k \in 1..(Len(p) - at) :
              /\ at + k <= Len(p)
              /\ \/ at + k = Len(p) /\ at' = 0 /\ client' = "read"
                 \/ at + k < Len(p) /\ at' = at + k /\ client' = "write"
              /\ \/ /\ ServerOpen /\ UNCHANGED closed
                    /\ socket' = [socket EXCEPT !["server"] = @ \o SubSeq(p, at + 1, at + k)]
                    /\ Len(socket["server"]) + k <= RequestRoom
                 \/ /\ ~ServerOpen /\ UNCHANGED socket
                    /\ closed' = [closed EXCEPT !["server"] = "refused"]
<1> DEFINE p == Last(asked)
<1>1. client = "write" /\ asked # <<>> /\ CString(buf) = p /\ at < Len(p) /\ at \in Nat
  BY Sizes DEF ClientWrites, PlaceInv, ClientPlace, Types, ClientType
<1>2. p \in Pieces
  BY <1>1, LenProperties, ElementOfSeq DEF PlaceInv, Types, ClientType, Last
<1>3. p \in Seq(Nat) /\ Len(p) \in Nat /\ socket["server"] \in Seq(Nat)
  BY <1>2, PieceIs, LenProperties DEF PlaceInv, Types, SocketType, Sides
<1> HIDE DEF p
<1>4. PICK k \in Taken(socket["server"], Len(p) - at, RequestRoom) :
        /\ at' = IF at + k = Len(p) THEN 0 ELSE at + k
        /\ client' = IF at' = 0 THEN "read" ELSE "write"
        /\ IF closed["server"] = "open"
           THEN /\ socket' = [socket EXCEPT !["server"] = @ \o SubSeq(p, at + 1, at + k)]
                /\ UNCHANGED closed
           ELSE closed' = [closed EXCEPT !["server"] = "refused"] /\ UNCHANGED socket
  BY <1>1 DEF ClientWrites
<1>5. k \in Nat \ {0} /\ at + k <= Len(p) /\ Len(socket["server"]) + k <= RequestRoom
  <2>1. at \in 0..Len(p) /\ RequestRoom \in Nat
    BY <1>1, <1>3, Sizes
  <2>2. Took(p, at, socket["server"], k, RequestRoom, SubSeq(p, at + 1, at + k))
    BY <1>3, <2>1, TakenIs
  <2> QED
    BY <2>2 DEF Took
<1>6. k \in 1..(Len(p) - at) /\ (at + k = Len(p) \/ (at + k < Len(p) /\ at + k # 0))
  BY <1>1, <1>3, <1>5
<1>7. \/ at + k = Len(p) /\ at' = 0 /\ client' = "read"
      \/ at + k < Len(p) /\ at' = at + k /\ client' = "write"
  BY <1>4, <1>6
<1>8. UNCHANGED <<kind, buf, crio, asked, shown, svars, stopped>>
  BY DEF ClientWrites
<1>9. \/ /\ ServerOpen /\ UNCHANGED closed
         /\ socket' = [socket EXCEPT !["server"] = @ \o SubSeq(p, at + 1, at + k)]
         /\ Len(socket["server"]) + k <= RequestRoom
      \/ /\ ~ServerOpen /\ UNCHANGED socket
         /\ closed' = [closed EXCEPT !["server"] = "refused"]
  BY <1>4, <1>5 DEF ServerOpen
<1> QED
  BY <1>1, <1>2, <1>5, <1>6, <1>7, <1>8, <1>9 DEF p

LEMMA ClientWritesStep ==
  ASSUME PlaceInv, ClientWrites
  PROVE  PlaceInv'
<1> DEFINE p == Last(asked)
<1>1. /\ client = "write" /\ asked # <<>> /\ p \in Pieces
      /\ UNCHANGED <<kind, buf, crio, asked, shown, svars, stopped>>
  BY ClientWritesIs
<1>2. PICK k \in 1..(Len(p) - at) :
              /\ at + k <= Len(p)
              /\ \/ at + k = Len(p) /\ at' = 0 /\ client' = "read"
                 \/ at + k < Len(p) /\ at' = at + k /\ client' = "write"
              /\ \/ /\ ServerOpen /\ UNCHANGED closed
                    /\ socket' = [socket EXCEPT !["server"] = @ \o SubSeq(p, at + 1, at + k)]
                    /\ Len(socket["server"]) + k <= RequestRoom
                 \/ /\ ~ServerOpen /\ UNCHANGED socket
                    /\ closed' = [closed EXCEPT !["server"] = "refused"]
  BY ClientWritesIs
<1>3. /\ p \in Seq(Nat) /\ Len(p) \in 1..(MAXLINE - 1) /\ at \in 0..Len(p)
      /\ socket["server"] \in Seq(Nat) /\ MAXLINE \in Nat /\ MAXLINE >= 5
  <2>1. at < Len(p) /\ at \in Nat /\ socket["server"] \in Seq(Nat)
    BY <1>1, Sizes DEF PlaceInv, ClientPlace, Types, ClientType, SocketType, Sides
  <2> QED
    BY <1>1, <2>1, PieceIs, Sizes
<1>4. SocketType'
  <2>1. CASE socket' = [socket EXCEPT !["server"] = @ \o SubSeq(p, at + 1, at + k)]
             /\ Len(socket["server"]) + k <= RequestRoom /\ UNCHANGED closed
    <3>1. /\ socket["server"] \o SubSeq(p, at + 1, at + k) \in Seq(Nat)
          /\ Len(socket["server"] \o SubSeq(p, at + 1, at + k)) = Len(socket["server"]) + k
      <4>1. k \in Taken(socket["server"], Len(p) - at, RequestRoom)
        BY <2>1 DEF Taken
      <4>2. \A room \in Nat : \A q \in Taken(socket["server"], Len(p) - at, room) :
              /\ socket["server"] \o SubSeq(p, at + 1, at + q) \in Seq(Nat)
              /\ Len(socket["server"] \o SubSeq(p, at + 1, at + q)) = Len(socket["server"]) + q
        <5> SUFFICES ASSUME NEW room \in Nat, NEW q \in Taken(socket["server"], Len(p) - at, room)
                     PROVE  /\ socket["server"] \o SubSeq(p, at + 1, at + q) \in Seq(Nat)
                            /\ Len(socket["server"] \o SubSeq(p, at + 1, at + q))
                                 = Len(socket["server"]) + q
          OBVIOUS
        <5> HIDE DEF p
        <5>1. Took(p, at, socket["server"], q, room, SubSeq(p, at + 1, at + q))
          BY <1>3, TakenIs
        <5> QED
          BY <5>1 DEF Took
      <4> QED
        BY <4>1, <4>2, Sizes
    <3> QED
      BY <1>1, <2>1, <3>1 DEF PlaceInv, Types, SocketType, Sides
  <2>2. CASE UNCHANGED socket /\ closed' = [closed EXCEPT !["server"] = "refused"]
    BY <1>1, <2>2 DEF PlaceInv, Types, SocketType
  <2> QED
    BY <1>2, <2>1, <2>2
<1>5. ClientType'
  <2>1. at' \in 0..MAXLINE /\ client' \in {"read", "write"}
    BY <1>2, <1>3
  <2> QED
    BY <1>1, <2>1 DEF PlaceInv, Types, ClientType
<1>6. Types'
  BY <1>1, <1>4, <1>5, TypeFrames DEF PlaceInv, Types
<1>7. closed'["client"] = closed["client"] /\ (ServerOpen' <=> ServerOpen)
  BY <1>2 DEF PlaceInv, Types, SocketType, Sides, ServerOpen
<1>8. ClientPlace'
  <2>1. client' = "write" => at' < Len(p)
    BY <1>2
  <2>2. client' = "read" => at' = 0
    BY <1>2
  <2>3. client' \in {"read", "write"}
    BY <1>2
  <2>4. 0 < MAXLINE - 1 /\ 0 < MAXLINE
    BY <1>3
  <2> QED
    BY <1>1, <1>7, <2>1, <2>2, <2>3, <2>4 DEF PlaceInv, ClientPlace
<1>9. ServerPlace'
  BY <1>1, <1>7 DEF PlaceInv, ServerPlace, svars
<1> QED
  BY <1>6, <1>8, <1>9 DEF PlaceInv

(***************************************************************************)
(* A turn of a read of the client: some bytes of the answer come into buf. *)
(***************************************************************************)
LEMMA ClientReadsIs ==
  ASSUME PlaceInv, client = "read", NEW n \in Nat \ {0}, at + n <= MAXLINE,
         NEW r, r = RioRead(crio, socket["client"], n)
  PROVE  /\ r.got \in Seq(Nat) /\ Len(r.got) \in 0..n
         /\ r.rio \in Seq(Nat) /\ Len(r.rio) < RIO_BUFSIZE
         /\ r.sock \in Seq(Nat) /\ Len(r.sock) <= AnswerRoom
         /\ r.got = <<>> <=> crio = <<>> /\ socket["client"] = <<>>
         /\ crio \o socket["client"] = r.got \o (r.rio \o r.sock)
         /\ at + Len(r.got) <= MAXLINE
         /\ SubSeq(Stored(buf, at, r.got), 1, at + Len(r.got)) = SubSeq(buf, 1, at) \o r.got
         /\ Stored(buf, at, r.got) \in [1..MAXLINE -> Nat]
<1>1. /\ crio \in Seq(Nat) /\ Len(crio) < RIO_BUFSIZE /\ socket["client"] \in Seq(Nat)
      /\ Len(socket["client"]) <= AnswerRoom /\ at \in 0..MAXLINE /\ MAXLINE \in Nat
      /\ AnswerRoom \in Nat /\ Len(socket["client"]) \in Nat
      /\ buf \in [1..MAXLINE -> Nat]
  BY Sizes, LenProperties DEF PlaceInv, Types, ClientType, SocketType, Sides
<1>2. /\ r.got \in Seq(Nat) /\ r.rio \in Seq(Nat) /\ r.sock \in Seq(Nat)
      /\ Len(r.rio) < RIO_BUFSIZE /\ Len(r.sock) <= Len(socket["client"]) /\ Len(r.got) <= n
      /\ r.got = <<>> <=> crio = <<>> /\ socket["client"] = <<>>
      /\ crio \o socket["client"] = r.got \o (r.rio \o r.sock)
  <2>1. Reads(r, crio, socket["client"], n)
    BY <1>1, RioReadIs
  <2> QED
    BY <2>1 DEF Reads
<1>3. Len(r.got) \in Nat /\ Len(r.sock) \in Nat
  BY <1>2, LenProperties
<1>4. at + Len(r.got) <= MAXLINE /\ Len(r.got) \in 0..n /\ Len(r.sock) <= AnswerRoom
  <2>1. at \in Nat /\ Len(r.got) <= n
    BY <1>1, <1>2
  <2>2. at + Len(r.got) <= MAXLINE /\ Len(r.got) \in 0..n
    BY <1>1, <1>3, <2>1
  <2>3. Len(r.sock) <= AnswerRoom
    <3>1. Len(r.sock) <= Len(socket["client"])
      BY <1>2
    <3>2. Len(socket["client"]) <= AnswerRoom /\ Len(socket["client"]) \in Nat /\ AnswerRoom \in Nat
      BY <1>1, LenProperties
    <3> QED
      BY <1>3, <3>1, <3>2
  <2> QED
    BY <2>2, <2>3
<1>5. /\ Stored(buf, at, r.got) \in [1..MAXLINE -> Nat]
      /\ SubSeq(Stored(buf, at, r.got), 1, at + Len(r.got)) = SubSeq(buf, 1, at) \o r.got
  BY <1>1, <1>2, <1>4, StoredIs
<1> QED
  BY <1>2, <1>4, <1>5

\* Steps of the client that touch its end of the connection only.
LEMMA OwnStep ==
  ASSUME PlaceInv, ClientType', SocketType', UNCHANGED <<kind, asked, svars, closed, stopped>>,
         client \notin {"write", "ended"}, client' \notin {"write", "ended"},
         client' = "read" => IF kind = "multiclient" THEN at' < MAXLINE ELSE at' < MAXLINE - 1
  PROVE  PlaceInv'
<1>1. Types'
  BY TypeFrames DEF PlaceInv, Types
<1>2. ClientPlace'
  BY DEF PlaceInv, ClientPlace
<1>3. ServerPlace'
  BY DEF PlaceInv, ServerPlace, ServerOpen, svars
<1> QED
  BY <1>1, <1>2, <1>3 DEF PlaceInv

LEMMA SocketRead ==
  ASSUME SocketType, NEW side \in Sides, NEW sock \in Seq(Nat),
         Len(sock) <= IF side = "client" THEN AnswerRoom ELSE RequestRoom,
         socket' = [socket EXCEPT ![side] = sock],
         closed' \in [Sides -> {"open", "fin", "reset", "refused"}], stopped' \in BOOLEAN
  PROVE  SocketType' /\ socket'[side] = sock
                     /\ \A other \in Sides \ {side} : socket'[other] = socket[other]
BY DEF SocketType, Sides

\* What a turn of rio_readnb does to buf.
LEMMA ReadBufferIs ==
  ASSUME PlaceInv, ReadBuffer
  PROVE  /\ kind = "multiclient" /\ client = "read"
         /\ UNCHANGED <<kind, asked, shown, svars, closed, stopped>>
         /\ ClientType' /\ SocketType' /\ socket'["server"] = socket["server"]
         /\ \/ at' < MAXLINE /\ client' = "read"
            \/ at' = MAXLINE /\ client' = "fputs"
         /\ crio \o socket["client"] # <<>>
         /\ SubSeq(buf', 1, at') \o (crio' \o socket'["client"])
              = SubSeq(buf, 1, at) \o (crio \o socket["client"])
<1> DEFINE n == MAXLINE - at
           r == RioRead(crio, socket["client"], n)
<1>1. /\ client = "read" /\ kind = "multiclient" /\ r.got # <<>>
      /\ buf' = Stored(buf, at, r.got) /\ at' = at + Len(r.got)
      /\ client' = IF at' = MAXLINE THEN "fputs" ELSE "read"
      /\ crio' = r.rio /\ socket' = [socket EXCEPT !["client"] = r.sock]
      /\ UNCHANGED <<kind, asked, shown, svars, closed, stopped>>
  BY DEF ReadBuffer
<1>2. n \in Nat \ {0} /\ at + n <= MAXLINE /\ at \in 0..MAXLINE
  BY <1>1, Sizes DEF PlaceInv, ClientPlace, Types, ClientType
<1>3. /\ r.got \in Seq(Nat) /\ Len(r.got) \in 0..n
      /\ r.rio \in Seq(Nat) /\ Len(r.rio) < RIO_BUFSIZE
      /\ r.sock \in Seq(Nat) /\ Len(r.sock) <= AnswerRoom
      /\ r.got = <<>> <=> crio = <<>> /\ socket["client"] = <<>>
      /\ crio \o socket["client"] = r.got \o (r.rio \o r.sock)
      /\ at + Len(r.got) <= MAXLINE
      /\ SubSeq(Stored(buf, at, r.got), 1, at + Len(r.got)) = SubSeq(buf, 1, at) \o r.got
      /\ Stored(buf, at, r.got) \in [1..MAXLINE -> Nat]
  <2> HIDE DEF n
  <2> QED
    BY <1>1, <1>2, ClientReadsIs
<1> HIDE DEF r, n
<1>4. at' \in 0..MAXLINE /\ (at' < MAXLINE \/ at' = MAXLINE)
  <2> DEFINE k == Len(r.got)
  <2>1. k \in Nat /\ at' = at + k /\ at + k <= MAXLINE
    BY <1>1, <1>3, LenProperties
  <2> HIDE DEF k
  <2> QED
    BY <1>2, <2>1, Sizes
<1>5. ClientType'
  BY <1>1, <1>3, <1>4 DEF PlaceInv, Types, ClientType
<1>6. /\ SocketType' /\ socket'["client"] = r.sock
      /\ socket'["server"] = socket["server"]
  BY <1>1, <1>3, SocketRead DEF PlaceInv, Types, SocketType, Sides
<1>7. SubSeq(buf', 1, at') \o (crio' \o socket'["client"])
        = SubSeq(buf, 1, at) \o (crio \o socket["client"])
  <2> DEFINE had == SubSeq(buf, 1, at)
  <2>1. had \in Seq(Nat)
    BY <1>2, Sizes, Halves DEF PlaceInv, Types, ClientType
  <2> HIDE DEF had
  <2>2. r.rio \o r.sock \in Seq(Nat)
    BY <1>3, Assoc
  <2>3. (had \o r.got) \o (r.rio \o r.sock) = had \o (r.got \o (r.rio \o r.sock))
    <3> DEFINE y == r.rio \o r.sock
    <3>1. Bytes(had) /\ Bytes(r.got) /\ Bytes(y)
      BY <1>3, <2>1, <2>2 DEF Bytes
    <3> HIDE DEF y
    <3>2. Cat(Cat(had, r.got), y) = Cat(had, Cat(r.got, y))
      BY <3>1, CatAssoc
    <3> QED
      BY <3>2, Zenon DEF Cat, y
  <2>4. SubSeq(buf', 1, at') = had \o r.got
    BY <1>1, <1>3 DEF had
  <2> QED
    BY <1>1, <1>3, <1>6, <2>3, <2>4 DEF had
<1>8. crio \o socket["client"] # <<>>
  <2>1. crio \in Seq(Nat) /\ socket["client"] \in Seq(Nat)
    BY DEF PlaceInv, Types, ClientType, SocketType, Sides
  <2> QED
    BY <1>1, <1>3, <2>1, ConcatEqualIffEmpty
<1> QED
  BY <1>1, <1>4, <1>5, <1>6, <1>7, <1>8

LEMMA ReadByteStep ==
  ASSUME PlaceInv, ReadByte
  PROVE  PlaceInv' /\ socket'["server"] = socket["server"]
<1> DEFINE r == RioRead(crio, socket["client"], 1)
           bytes == SubSeq(buf, 1, at) \o r.got
<1>1. /\ client = "read" /\ kind = "stockclient" /\ r.got # <<>> /\ at' = at + 1
      /\ IF LineRead(bytes)
         THEN buf' = Stored(buf, at, Append(r.got, NUL)) /\ client' = "fputs"
         ELSE buf' = Stored(buf, at, r.got) /\ UNCHANGED client
      /\ crio' = r.rio /\ socket' = [socket EXCEPT !["client"] = r.sock]
      /\ UNCHANGED <<kind, asked, shown, svars, closed, stopped>>
  BY DEF ReadByte
<1>2. at \in 0..MAXLINE /\ at < MAXLINE - 1 /\ at + 1 <= MAXLINE /\ 1 \in Nat \ {0}
  BY <1>1, Sizes DEF PlaceInv, ClientPlace, Types, ClientType
<1>3. /\ r.got \in Seq(Nat) /\ Len(r.got) \in 0..1
      /\ r.rio \in Seq(Nat) /\ Len(r.rio) < RIO_BUFSIZE
      /\ r.sock \in Seq(Nat) /\ Len(r.sock) <= AnswerRoom
      /\ Stored(buf, at, r.got) \in [1..MAXLINE -> Nat]
  BY <1>1, <1>2, ClientReadsIs
<1> HIDE DEF r
<1>4. Len(r.got) = 1
  BY <1>1, <1>3, NoBytes
<1>5. Append(r.got, NUL) \in Seq(Nat)
  BY <1>3, AppendProperties DEF NUL
<1>6. Stored(buf, at, Append(r.got, NUL)) \in [1..MAXLINE -> Nat]
  BY <1>2, <1>5, StoredIs DEF PlaceInv, Types, ClientType
<1>7. Len(bytes) = at + 1
  <2> DEFINE had == SubSeq(buf, 1, at)
  <2>1. had \in Seq(Nat) /\ Len(had) = at
    BY <1>2, Sizes, Halves DEF PlaceInv, Types, ClientType
  <2> HIDE DEF had
  <2>2. Len(had \o r.got) = Len(had) + Len(r.got)
    BY <1>3, <2>1, ConcatProperties
  <2> QED
    BY <1>4, <2>1, <2>2 DEF had
<1> HIDE DEF bytes
<1>8. at' \in 0..MAXLINE /\ (client' = "read" => at' < MAXLINE - 1)
  <2>1. client' = "read" => Len(bytes) # MAXLINE - 1
    BY <1>1 DEF LineRead
  <2> QED
    BY <1>1, <1>2, <1>7, <2>1, Sizes
<1>9. ClientType'
  BY <1>1, <1>3, <1>6, <1>8 DEF PlaceInv, Types, ClientType
<1>10. SocketType' /\ socket'["server"] = socket["server"]
  BY <1>1, <1>3, SocketRead DEF PlaceInv, Types, SocketType, Sides
<1> QED
  BY <1>1, <1>8, <1>9, <1>10, OwnStep

LEMMA ClientStepsPlace ==
  ASSUME PlaceInv, ClientSteps \/ ClientStops
  PROVE  PlaceInv'
<1>1. CASE Order
  <2>1. PICK order \in {Show, Trade} : Put(<<order, NL>>)
    BY <1>1 DEF Order
  <2>2. asked # <<>> => Last(asked) \notin Unended
    <3>1. asked # <<>> => Len(asked) \in DOMAIN asked
      BY LenProperties, EmptySeq DEF PlaceInv, Types, ClientType
    <3> QED
      BY <1>1, <3>1, OrderIsPiece DEF PlaceInv, ClientPlace, Last, Order
  <2>3. <<order, NL>> \in Orders
    BY DEF Orders
  <2> QED
    BY <1>1, <2>1, <2>2, <2>3, OrderIsPiece, PutStep DEF Order
<1>2. CASE Fgets
  <2>1. PICK piece \in Pieces : Put(piece)
    BY <1>2 DEF Fgets
  <2> QED
    BY <1>2, <2>1, PutStep DEF Fgets
<1>3. CASE ClientCloses
  <2>1. stopped' \in BOOLEAN
    BY <1>3 DEF ClientCloses, PlaceInv, Types, SocketType
  <2> QED
    BY <1>3, <2>1, ClientEnds DEF ClientCloses
<1>4. CASE ClientWrites
  BY <1>4, ClientWritesStep
<1>5. CASE ClientBroken
  <2>1. stopped' \in BOOLEAN
    BY <1>5 DEF ClientBroken, PlaceInv, Types, SocketType
  <2> QED
    BY <1>5, <2>1, ClientEnds DEF ClientBroken
<1>6. CASE ReadBuffer
  BY <1>6, ReadBufferIs, OwnStep
<1>7. CASE ReadByte
  BY <1>7, ReadByteStep
<1>8. CASE ReadEnds
  <2>1. ASSUME at > 0 PROVE Stored(buf, at, <<NUL>>) \in [1..MAXLINE -> Nat]
    <3>1. <<NUL>> \in Seq(Nat)
      BY DEF NUL
    <3> QED
      BY <3>1, StoredIs DEF PlaceInv, Types, ClientType
  <2>2. ClientType'
    BY <1>8, <2>1 DEF ReadEnds, PlaceInv, Types, ClientType
  <2>3. SocketType'
    BY <1>8, TypeFrames DEF ReadEnds, PlaceInv, Types
  <2> QED
    BY <1>8, <2>2, <2>3, OwnStep DEF ReadEnds
<1>9. CASE Fputs
  <2>1. shown' \in Seq(Seq(Nat))
    BY <1>9, StringIs, AppendProperties DEF Fputs, PlaceInv, Types, ClientType
  <2>2. ClientType'
    BY <1>9, <2>1 DEF Fputs, PlaceInv, Types, ClientType
  <2>3. SocketType'
    BY <1>9, TypeFrames DEF Fputs, PlaceInv, Types
  <2> QED
    BY <1>9, <2>2, <2>3, OwnStep DEF Fputs
<1>10. CASE ClientStops
  BY <1>10, ClientEnds DEF ClientStops
<1> QED
  BY <1>1, <1>2, <1>3, <1>4, <1>5, <1>6, <1>7, <1>8, <1>9, <1>10 DEF ClientSteps

-------------------------------------------------------------------------------
(***************************************************************************)
(* What the server does with a line, and where it is after a turn.         *)
(***************************************************************************)
Obeyed(read) ==
  /\ heard' = Append(heard, read) /\ heard' \in Seq(Seq(Nat))
  /\ Len(heard') = Len(heard) + 1 /\ Len(heard) \in Nat
  /\ \A n \in 1..Len(heard) : heard'[n] = heard[n]
  /\ heard'[Len(heard) + 1] = read
  /\ line' = <<>> /\ out' \in Seq(Nat)
  /\ closed' \in [Sides -> {"open", "fin", "reset", "refused"}]
  /\ closed'["client"] = closed["client"]
  /\ \/ /\ Head(read) \in {Show, Trade} /\ server' = "writen" /\ closed' = closed
        /\ out' \in Answers(Head(read), Len(heard) + 1)
     \/ Head(read) = Exit /\ server' = "closed" /\ out' = out /\ closed'["server"] # "open"
     \/ Head(read) = Other /\ server' = "readline" /\ out' = out /\ closed' = closed

LEMMA ObeyIs ==
  ASSUME Types, NEW read \in Seq(Nat), Obey(read)
  PROVE  Obeyed(read)
<1>1. heard' = Append(heard, read) /\ line' = <<>>
  BY DEF Obey
<1>2. /\ heard' \in Seq(Seq(Nat)) /\ Len(heard') = Len(heard) + 1 /\ Len(heard) \in Nat
      /\ \A n \in 1..Len(heard) : heard'[n] = heard[n]
      /\ heard'[Len(heard) + 1] = read
  <2>1. heard \in Seq(Seq(Nat)) /\ Len(heard) \in Nat
    BY LenProperties DEF Types, ServerType
  <2> QED
    BY <1>1, <2>1, AppendProperties
<1>3. CASE /\ Head(read) \in {Show, Trade} /\ server' = "writen"
           /\ out' \in Answers(Head(read), Len(heard')) /\ UNCHANGED closed
  <2>1. Len(heard') = Len(heard) + 1 /\ Len(heard') \in Nat
    BY <1>2
  <2>2. out' \in Seq(Nat)
    BY <1>3, <2>1, AnswersAre
  <2>3. out' \in Answers(Head(read), Len(heard) + 1)
    BY <1>3, <2>1
  <2> QED
    BY <1>1, <1>2, <1>3, <2>2, <2>3 DEF Obeyed, Types, SocketType
<1>4. CASE /\ Head(read) = Exit /\ server' = "closed" /\ UNCHANGED out
           /\ closed' = [closed EXCEPT !["server"] =
                           IF socket'["server"] = <<>> THEN "fin" ELSE "reset"]
  BY <1>1, <1>2, <1>4 DEF Obeyed, Types, SocketType, ServerType, Sides
<1>5. CASE Head(read) = Other /\ server' = "readline" /\ UNCHANGED <<out, closed>>
  BY <1>1, <1>2, <1>5 DEF Obeyed, Types, SocketType, ServerType
<1> QED
  BY <1>3, <1>4, <1>5 DEF Obey

LEMMA ServerMoves ==
  ASSUME PlaceInv, ServerType', SocketType', UNCHANGED <<kind, cvars, stopped>>,
         closed'["client"] = "open" <=> closed["client"] = "open", ServerPlace'
  PROVE  PlaceInv'
<1>1. Types'
  BY TypeFrames DEF PlaceInv, Types
<1>2. ClientPlace'
  BY DEF PlaceInv, ClientPlace, cvars
<1> QED
  BY <1>1, <1>2 DEF PlaceInv

(***************************************************************************)
(* A turn of the server's rio_readlineb: a byte of the request comes to    *)
(* the line, and the line is obeyed, or goes on.                           *)
(***************************************************************************)
ServerRead ==
  /\ server = "readline" /\ UNCHANGED <<kind, cvars, stopped>>
  /\ srio' \in Seq(Nat) /\ Len(srio') < RIO_BUFSIZE
  /\ socket'["server"] \in Seq(Nat) /\ socket'["client"] = socket["client"]
  /\ \E b \in Nat :
       /\ \/ LineRead(Append(line, b)) /\ Obeyed(Append(line, b))
          \/ /\ ~LineRead(Append(line, b)) /\ line' = Append(line, b)
             /\ UNCHANGED <<server, out, heard, closed>>
       /\ Request = Append(line, b) \o (srio' \o socket'["server"])

LEMMA ServerReadsIs ==
  ASSUME PlaceInv, ServerReads
  PROVE  ServerRead /\ SocketType'
<1> DEFINE r == RioRead(srio, socket["server"], 1)
<1>1. /\ server = "readline" /\ r.got # <<>>
      /\ srio' = r.rio /\ socket' = [socket EXCEPT !["server"] = r.sock]
      /\ IF LineRead(line \o r.got) THEN Obey(line \o r.got)
         ELSE line' = line \o r.got /\ UNCHANGED <<server, out, heard, closed>>
      /\ UNCHANGED <<kind, cvars, stopped>>
  BY DEF ServerReads
<1>2. /\ srio \in Seq(Nat) /\ Len(srio) < RIO_BUFSIZE /\ socket["server"] \in Seq(Nat)
      /\ line \in Seq(Nat) /\ Len(socket["server"]) <= RequestRoom /\ RequestRoom \in Nat
  BY Sizes DEF PlaceInv, Types, ServerType, SocketType, Sides
<1>3. Reads(r, srio, socket["server"], 1)
  BY <1>2, RioReadIs
<1> HIDE DEF r
<1>4. /\ r.got \in Seq(Nat) /\ r.rio \in Seq(Nat) /\ r.sock \in Seq(Nat)
      /\ Len(r.rio) < RIO_BUFSIZE /\ Len(r.sock) <= Len(socket["server"])
      /\ srio \o socket["server"] = r.got \o (r.rio \o r.sock)
  BY <1>3 DEF Reads
<1>5. Len(r.got) = 1
  <2> DEFINE n == Len(r.got)
  <2>1. n <= 1
    BY <1>3 DEF Reads
  <2>2. n \in Nat /\ n # 0
    BY <1>1, <1>4, NoBytes
  <2> HIDE DEF n
  <2>3. n = 1
    BY <2>1, <2>2
  <2> QED
    BY <2>3 DEF n
<1>6. PICK b \in Nat : r.got = <<b>>
  <2> DEFINE b == r.got[1]
  <2>1. b \in Nat
    BY <1>4, <1>5, ElementOfSeq
  <2> HIDE DEF b
  <2>2. <<b>> \in Seq(Nat) /\ Len(<<b>>) = 1 /\ <<b>>[1] = b
    BY <2>1
  <2>3. \A i \in 1..Len(<<b>>) : r.got[i] = <<b>>[i]
    BY <2>2 DEF b
  <2>4. r.got = <<b>>
    BY <1>4, <1>5, <2>2, <2>3, SeqEqual
  <2> QED
    BY <2>1, <2>4
<1>7. line \o r.got = Append(line, b) /\ Append(line, b) \in Seq(Nat)
  BY <1>2, <1>6, AppendIsConcat, AppendProperties
<1>8. Request = Append(line, b) \o (r.rio \o r.sock)
  <2>1. Request = line \o (srio \o socket["server"])
    BY <1>2, Assoc DEF Request
  <2> DEFINE rest == r.rio \o r.sock
  <2>2. rest \in Seq(Nat)
    BY <1>4, Assoc
  <2> HIDE DEF rest
  <2>3. line \o (r.got \o rest) = (line \o r.got) \o rest
    <3>1. Bytes(line) /\ Bytes(r.got) /\ Bytes(rest)
      BY <1>2, <1>4, <2>2 DEF Bytes
    <3>2. Cat(Cat(line, r.got), rest) = Cat(line, Cat(r.got, rest))
      BY <3>1, CatAssoc
    <3> QED
      BY <3>2, Zenon DEF Cat
  <2> QED
    BY <1>4, <1>7, <2>1, <2>3 DEF rest
<1>9. LineRead(Append(line, b)) => Obeyed(Append(line, b))
  BY <1>1, <1>7, ObeyIs DEF PlaceInv
<1>10. Len(r.sock) <= RequestRoom
  BY <1>2, <1>4, LenProperties
<1>11. closed' \in [Sides -> {"open", "fin", "reset", "refused"}]
  BY <1>1, <1>7, <1>9 DEF Obeyed, PlaceInv, Types, SocketType
<1>12. /\ SocketType' /\ socket'["server"] = r.sock
       /\ socket'["client"] = socket["client"]
  BY <1>1, <1>4, <1>10, <1>11, SocketRead DEF PlaceInv, Types, SocketType, Sides
<1>13. \/ LineRead(Append(line, b)) /\ Obeyed(Append(line, b))
       \/ /\ ~LineRead(Append(line, b)) /\ line' = Append(line, b)
          /\ UNCHANGED <<server, out, heard, closed>>
  BY <1>1, <1>7, <1>9
<1> QED
  BY <1>1, <1>4, <1>8, <1>12, <1>13 DEF ServerRead

LEMMA LineReadIs ==
  ASSUME NEW l \in Seq(Nat), NEW b \in Nat
  PROVE  /\ LineRead(Append(l, b)) <=> b = NL \/ Len(l) + 1 = MAXLINE - 1
         /\ Append(l, b) \in Seq(Nat) /\ Len(Append(l, b)) = Len(l) + 1 /\ Len(l) \in Nat
         /\ \A j \in 1..Len(l) : Append(l, b)[j] = l[j]
         /\ Append(l, b)[Len(l) + 1] = b
<1>1. /\ Append(l, b) \in Seq(Nat) /\ Len(Append(l, b)) = Len(l) + 1 /\ Len(l) \in Nat
      /\ \A j \in 1..Len(l) : Append(l, b)[j] = l[j]
      /\ Append(l, b)[Len(l) + 1] = b
  BY AppendProperties, LenProperties
<1>2. Last(Append(l, b)) = b
  BY <1>1 DEF Last
<1> QED
  BY <1>1, <1>2 DEF LineRead

\* A line obeyed leaves the server where its connection says.
LEMMA ObeyedPlace ==
  ASSUME PlaceInv, server = "readline", NEW read, Obeyed(read),
         srio' \in Seq(Nat), Len(srio') < RIO_BUFSIZE
  PROVE  ServerType' /\ ServerPlace'
<1>1. out = <<>> /\ ServerOpen /\ closed["server"] = "open"
  BY DEF PlaceInv, ServerPlace, ServerOpen
<1>2. ServerType'
  <2>1. <<>> \in Seq(Nat)
    OBVIOUS
  <2> QED
    BY <2>1 DEF Obeyed, ServerType
<1>3. Len(<<>>) < MAXLINE - 1 /\ \A j \in DOMAIN <<>> : FALSE
  BY Sizes, EmptySeq
<1>4. server' = "readline" => out' = <<>>
  BY <1>1 DEF Obeyed
<1>5. closed'["server"] = "open" <=> server' \in {"readline", "writen"}
  BY <1>1 DEF Obeyed
<1>6. line' = <<>>
  BY DEF Obeyed
<1>7. ServerPlace'
  BY <1>3, <1>4, <1>5, <1>6 DEF ServerPlace, ServerOpen
<1> QED
  BY <1>2, <1>7

LEMMA ServerReadsStep ==
  ASSUME PlaceInv, ServerRead, SocketType'
  PROVE  PlaceInv'
<1>1. /\ server = "readline" /\ UNCHANGED <<kind, cvars, stopped>>
      /\ srio' \in Seq(Nat) /\ Len(srio') < RIO_BUFSIZE
  BY DEF ServerRead
<1>2. PICK b \in Nat :
       \/ LineRead(Append(line, b)) /\ Obeyed(Append(line, b))
       \/ /\ ~LineRead(Append(line, b)) /\ line' = Append(line, b)
          /\ UNCHANGED <<server, out, heard, closed>>
  BY DEF ServerRead
<1>3. line \in Seq(Nat)
  BY DEF PlaceInv, Types, ServerType
<1>4. CASE Obeyed(Append(line, b))
  <2>1. ServerType' /\ ServerPlace'
    BY <1>1, <1>4, ObeyedPlace
  <2> QED
    BY <1>1, <1>4, <2>1, ServerMoves DEF Obeyed
<1>5. CASE /\ ~LineRead(Append(line, b)) /\ line' = Append(line, b)
           /\ UNCHANGED <<server, out, heard, closed>>
  <2>1. /\ b # NL /\ Len(line) + 1 # MAXLINE - 1 /\ line' \in Seq(Nat)
        /\ Len(line') = Len(line) + 1 /\ Len(line) \in Nat
        /\ \A j \in 1..Len(line) : line'[j] = line[j]
        /\ line'[Len(line) + 1] = b
    BY <1>3, <1>5, LineReadIs
  <2>2. Len(line) < MAXLINE - 1 /\ DOMAIN line = 1..Len(line)
    BY <1>1, <1>3, LenProperties DEF PlaceInv, ServerPlace
  <2>3. Len(line') < MAXLINE - 1
    BY <2>1, <2>2, Sizes
  <2>4. \A j \in DOMAIN line' : line'[j] # NL
    <3> SUFFICES ASSUME NEW j \in DOMAIN line' PROVE line'[j] # NL
      OBVIOUS
    <3>1. j \in 1..Len(line) \/ j = Len(line) + 1
      BY <2>1, LenProperties
    <3> QED
      BY <2>1, <2>2, <3>1 DEF PlaceInv, ServerPlace
  <2>5. ServerType'
    BY <1>1, <1>5, <2>1 DEF PlaceInv, Types, ServerType
  <2>6. ServerPlace'
    BY <1>1, <1>5, <2>3, <2>4 DEF PlaceInv, ServerPlace, ServerOpen
  <2> QED
    BY <1>1, <1>5, <2>5, <2>6, ServerMoves
<1> QED
  BY <1>2, <1>4, <1>5

\* The server ends, or closes its end.
LEMMA ServerEnds ==
  ASSUME PlaceInv, Close("server"), UNCHANGED <<kind, cvars, line, out, srio, heard, socket, stopped>>,
         server' \in {"closed", "interrupted", "ended in an error"}, server \in {"readline", "writen"}
  PROVE  PlaceInv'
<1>1. /\ SocketType' /\ closed'["server"] # "open"
      /\ closed'["client"] = closed["client"]
  BY CloseType DEF PlaceInv, Types, SocketType, Sides
<1>2. ServerType'
  BY DEF PlaceInv, Types, ServerType
<1>3. ServerPlace'
  BY <1>1 DEF PlaceInv, ServerPlace, ServerOpen
<1> QED
  BY <1>1, <1>2, <1>3, ServerMoves

LEMMA ServerReadEndsIs ==
  ASSUME PlaceInv, ServerReadEnds
  PROVE  /\ server = "readline" /\ closed["client"] \in {"fin", "refused"}
         /\ UNCHANGED <<kind, cvars, stopped, srio, socket>>
         /\ srio = <<>> /\ socket["server"] = <<>> /\ Request = line
         /\ \/ line # <<>> /\ Obeyed(line)
            \/ line = <<>> /\ server' = "closed" /\ Close("server") /\ UNCHANGED <<line, out, heard>>
<1>1. /\ server = "readline" /\ srio = <<>> /\ socket["server"] = <<>>
      /\ closed["client"] \in {"fin", "refused"} /\ UNCHANGED <<kind, cvars, stopped>>
      /\ IF line # <<>>
         THEN UNCHANGED <<srio, socket>> /\ Obey(line)
         ELSE /\ server' = "closed" /\ Close("server")
              /\ UNCHANGED <<line, out, srio, heard, socket>>
  BY DEF ServerReadEnds, EndOfFile
<1>2. line \in Seq(Nat)
  BY DEF PlaceInv, Types, ServerType
<1>3. Request = line
  BY <1>1, <1>2, NoBytes DEF Request
<1> QED
  BY <1>1, <1>2, <1>3, ObeyIs DEF PlaceInv

\* A turn of the server's rio_writen.
LEMMA ServerWritesIs ==
  ASSUME PlaceInv, ServerWrites
  PROVE  /\ server = "writen" /\ UNCHANGED <<kind, cvars, line, srio, heard, stopped>>
         /\ out' \in Seq(Nat) /\ SocketType' /\ socket'["server"] = socket["server"]
         /\ closed'["server"] = closed["server"]
         /\ \/ out' = <<>> /\ server' = "readline"
            \/ out' # <<>> /\ server' = "writen"
         /\ \/ /\ closed["client"] = "open" /\ UNCHANGED closed
               /\ socket'["client"] \o out' = socket["client"] \o out
            \/ /\ closed["client"] = "fin" /\ closed'["client"] = "refused" /\ UNCHANGED socket
<1>1. server = "writen" /\ UNCHANGED <<kind, cvars, line, srio, heard, stopped>>
  BY DEF ServerWrites
<1>2. PICK k \in Taken(socket["client"], Len(out), AnswerRoom) :
       /\ closed["client"] \in {"open", "fin"}
       /\ out' = SubSeq(out, k + 1, Len(out))
       /\ server' = IF out' = <<>> THEN "readline" ELSE "writen"
       /\ IF closed["client"] = "open"
          THEN /\ socket' = [socket EXCEPT !["client"] = @ \o SubSeq(out, 1, k)]
               /\ UNCHANGED closed
          ELSE closed' = [closed EXCEPT !["client"] = "refused"] /\ UNCHANGED socket
  BY DEF ServerWrites
<1>3. /\ out \in Seq(Nat) /\ Len(out) \in Nat /\ socket["client"] \in Seq(Nat)
      /\ Len(socket["client"]) \in Nat /\ AnswerRoom \in Nat
  BY LenProperties, Sizes DEF PlaceInv, Types, ServerType, SocketType, Sides
<1>4. k \in 1..Len(out) /\ k \in 0..Len(out) /\ Len(socket["client"]) + k <= AnswerRoom
  BY <1>2, <1>3 DEF Taken
<1> DEFINE part == SubSeq(out, 1, k)
           sock == socket["client"] \o part
<1>5. /\ part \in Seq(Nat) /\ Len(part) = k /\ out' \in Seq(Nat) /\ out = part \o out'
  BY <1>2, <1>3, <1>4, Halves
<1> HIDE DEF part
<1>6. /\ sock \in Seq(Nat) /\ Len(sock) = Len(socket["client"]) + k
      /\ sock \o out' = socket["client"] \o out
  <2>1. sock \in Seq(Nat) /\ sock \o out' = socket["client"] \o (part \o out')
    BY <1>3, <1>5, Assoc
  <2>2. Len(sock) = Len(socket["client"]) + k
    BY <1>3, <1>5, ConcatProperties
  <2> QED
    BY <1>5, <2>1, <2>2
<1> HIDE DEF sock

<1>7. CASE closed["client"] = "open"
  <2>1. socket' = [socket EXCEPT !["client"] = sock] /\ closed' = closed
    BY <1>2, <1>7 DEF sock, part
  <2>2. Len(sock) <= AnswerRoom
    BY <1>4, <1>6
  <2>3. /\ SocketType' /\ socket'["client"] = sock
        /\ socket'["server"] = socket["server"]
    BY <1>1, <1>6, <2>1, <2>2, SocketRead DEF PlaceInv, Types, SocketType, Sides
  <2> QED
    BY <1>1, <1>2, <1>5, <1>6, <1>7, <2>1, <2>3
<1>8. CASE closed["client"] # "open"
  <2>1. /\ closed["client"] = "fin" /\ closed' = [closed EXCEPT !["client"] = "refused"]
        /\ UNCHANGED socket
    BY <1>2, <1>8
  <2>2. SocketType' /\ closed'["client"] = "refused" /\ closed'["server"] = closed["server"]
    BY <1>1, <2>1 DEF PlaceInv, Types, SocketType, Sides
  <2> QED
    BY <1>1, <1>2, <1>5, <2>1, <2>2
<1> QED
  BY <1>7, <1>8

\* It writes nothing when there is nothing to write.
LEMMA ServerHasOut ==
  ASSUME PlaceInv, ServerWrites
  PROVE  out # <<>>
<1>1. PICK k : k \in Taken(socket["client"], Len(out), AnswerRoom)
  BY DEF ServerWrites
<1>2. Len(out) # 0
  BY <1>1 DEF Taken
<1>3. out \in Seq(Nat)
  BY DEF PlaceInv, Types, ServerType
<1> QED
  BY <1>2, <1>3, NoBytes

LEMMA ServerStepsPlace ==
  ASSUME PlaceInv, ServerSteps \/ Interrupted
  PROVE  PlaceInv'
<1>1. CASE ServerReads
  BY <1>1, ServerReadsIs, ServerReadsStep
<1>2. CASE ServerReadEnds
  <2>1. CASE line = <<>>
    BY <1>2, <2>1, ServerReadEndsIs, ServerEnds
  <2>2. CASE line # <<>>
    <3>1. /\ Obeyed(line) /\ server = "readline" /\ UNCHANGED <<kind, cvars, stopped, srio, socket>>
      BY <1>2, <2>2, ServerReadEndsIs
    <3>2. srio' \in Seq(Nat) /\ Len(srio') < RIO_BUFSIZE
      BY <3>1 DEF PlaceInv, Types, ServerType
    <3>3. ServerType' /\ ServerPlace'
      BY <3>1, <3>2, ObeyedPlace
    <3>4. SocketType' /\ closed'["client"] = closed["client"]
      BY <3>1 DEF PlaceInv, Types, SocketType, Obeyed
    <3> QED
      BY <3>1, <3>3, <3>4, ServerMoves
  <2> QED
    BY <2>1, <2>2
<1>3. CASE ServerWrites
  <2>1. /\ server = "writen" /\ UNCHANGED <<kind, cvars, line, srio, heard, stopped>>
        /\ out' \in Seq(Nat) /\ SocketType' /\ closed'["server"] = closed["server"]
        /\ \/ out' = <<>> /\ server' = "readline"
           \/ out' # <<>> /\ server' = "writen"
        /\ (closed'["client"] = "open") <=> (closed["client"] = "open")
    <3>1. (closed'["client"] = "open") <=> (closed["client"] = "open")
      BY <1>3, ServerWritesIs
    <3> QED
      BY <1>3, <3>1, ServerWritesIs
  <2>2. ServerType'
    BY <2>1 DEF PlaceInv, Types, ServerType
  <2>3. line' = <<>> /\ Len(<<>>) < MAXLINE - 1
    BY <2>1, Sizes, EmptySeq DEF PlaceInv, ServerPlace
  <2>4. ServerPlace'
    BY <2>1, <2>3 DEF PlaceInv, ServerPlace, ServerOpen
  <2> QED
    BY <2>1, <2>2, <2>4, ServerMoves
<1>4. CASE ServerBroken
  <2>1. server \in {"readline", "writen"}
    BY <1>4 DEF ServerBroken
  <2> QED
    BY <1>4, <2>1, ServerEnds DEF ServerBroken
<1>5. CASE Interrupted
  BY <1>5, ServerEnds DEF Interrupted
<1> QED
  BY <1>1, <1>2, <1>3, <1>4, <1>5 DEF ServerSteps

-------------------------------------------------------------------------------
(***************************************************************************)
(* A line read ends where a piece does: both end at their only newline, or *)
(* one byte before the buffer is full.                                     *)
(***************************************************************************)
LEMMA Cancel ==
  ASSUME NEW a \in Seq(Nat), NEW b \in Seq(Nat), NEW c \in Seq(Nat), a \o b = a \o c
  PROVE  b = c
BY ConcatSimplifications

Terminated(s) ==
  /\ s \in Seq(Nat) /\ Len(s) \in 1..(MAXLINE - 1)
  /\ \A j \in 1..Len(s) : j < Len(s) => s[j] # NL
  /\ s[Len(s)] = NL \/ Len(s) = MAXLINE - 1

LEMMA PieceTerminated ==
  ASSUME NEW p \in Pieces, p \notin Unended
  PROVE  Terminated(p)
<1>1. p \in Seq(Nat) /\ Len(p) \in 1..(MAXLINE - 1) /\ DOMAIN p = 1..Len(p)
  BY PieceIs, LenProperties
<1>2. \A j \in 1..Len(p) : j < Len(p) => p[j] # NL
  <2>1. \A j \in 1..Len(p) : p[j] = NL => j = Len(p)
    BY <1>1, PieceIs
  <2>2. Len(p) \in Nat
    BY <1>1, LenProperties
  <2> QED
    BY <2>1, <2>2
<1>3. p[Len(p)] = NL \/ Len(p) = MAXLINE - 1
  BY PieceIs
<1> QED
  BY <1>1, <1>2, <1>3 DEF Terminated

LEMMA Aligned ==
  ASSUME NEW l \in Seq(Nat), NEW rest \in Seq(Nat), NEW p \in Seq(Nat), NEW x \in Seq(Nat),
         l \o rest = p \o x
  PROVE  \A i \in 1..Len(l) : i <= Len(p) => l[i] = p[i]
<1>1. Len(l) \in Nat /\ Len(rest) \in Nat /\ Len(p) \in Nat /\ Len(x) \in Nat
  BY LenProperties
<1>2. \A i \in 1..(Len(l) + Len(rest)) : i <= Len(l) => (l \o rest)[i] = l[i]
  BY ConcatProperties
<1>3. \A i \in 1..(Len(p) + Len(x)) : i <= Len(p) => (p \o x)[i] = p[i]
  BY ConcatProperties
<1> QED
  BY <1>1, <1>2, <1>3

LEMMA LineCut ==
  ASSUME NEW l, NEW rest \in Seq(Nat), NEW p, NEW x \in Seq(Nat),
         Terminated(l), Terminated(p), l \o rest = p \o x
  PROVE  l = p
<1>1. l \in Seq(Nat) /\ p \in Seq(Nat) /\ Len(l) \in 1..(MAXLINE - 1) /\ Len(p) \in 1..(MAXLINE - 1)
  BY DEF Terminated
<1>2. \A i \in 1..Len(l) : i <= Len(p) => l[i] = p[i]
  BY <1>1, Aligned
<1> DEFINE m == Len(l)
           n == Len(p)
<1>3. /\ m \in 1..(MAXLINE - 1) /\ n \in 1..(MAXLINE - 1)
      /\ \A j \in 1..m : j < m => l[j] # NL
      /\ \A j \in 1..n : j < n => p[j] # NL
      /\ l[m] = NL \/ m = MAXLINE - 1
      /\ p[n] = NL \/ n = MAXLINE - 1
      /\ \A i \in 1..m : i <= n => l[i] = p[i]
  BY <1>1, <1>2 DEF Terminated
<1> HIDE DEF m, n
<1>4. ~(m < n)
  <2> SUFFICES ASSUME m < n PROVE FALSE
    OBVIOUS
  <2>1. m \in 1..n /\ m # MAXLINE - 1 /\ m <= n
    BY <1>3, Sizes
  <2>2. l[m] = p[m] /\ l[m] = NL /\ p[m] # NL
    BY <1>3, <2>1
  <2> QED
    BY <2>2
<1>5. ~(n < m)
  <2> SUFFICES ASSUME n < m PROVE FALSE
    OBVIOUS
  <2>1. n \in 1..m /\ n # MAXLINE - 1 /\ n <= n
    BY <1>3, Sizes
  <2>2. l[n] = p[n] /\ p[n] = NL /\ l[n] # NL
    BY <1>3, <2>1
  <2> QED
    BY <2>2
<1>6. m = n
  BY <1>3, <1>4, <1>5, Sizes
<1>7. Len(l) = Len(p)
  BY <1>6 DEF m, n
<1>8. \A i \in 1..Len(l) : l[i] = p[i]
  BY <1>1, <1>2, <1>7, Sizes
<1> QED
  BY <1>1, <1>7, <1>8, SeqEqual

LEMMA PartCut ==
  ASSUME NEW p \in Pieces, NEW m \in 0..Len(p), NEW l, NEW rest \in Seq(Nat),
         Terminated(l), l \o rest = SubSeq(p, 1, m)
  PROVE  l = p /\ m = Len(p)
<1>1. p \in Seq(Nat) /\ Len(p) \in 1..(MAXLINE - 1) /\ MAXLINE \in Nat /\ MAXLINE >= 5
  BY PieceIs, Sizes
<1>2. l \in Seq(Nat) /\ Len(l) \in 1..(MAXLINE - 1) /\ Len(l) \in Nat /\ Len(rest) \in Nat
  BY LenProperties DEF Terminated
<1> DEFINE q == SubSeq(p, 1, m)
<1>3. q \in Seq(Nat) /\ Len(q) = m /\ p = q \o SubSeq(p, m + 1, Len(p)) /\ SubSeq(p, m + 1, Len(p)) \in Seq(Nat)
  BY <1>1, Halves
<1>4. \A i \in 1..m : q[i] = p[i]
  <2> DEFINE z == SubSeq(p, m + 1, Len(p))
  <2>1. q \in Seq(Nat) /\ z \in Seq(Nat) /\ p = q \o z
    BY <1>3
  <2> HIDE DEF q, z
  <2>2. m \in Nat /\ m <= Len(p) /\ Len(z) \in Nat
    BY <1>1, <2>1, LenProperties
  <2>3. \A i \in 1..(Len(q) + Len(z)) : (q \o z)[i] = IF i <= Len(q) THEN q[i] ELSE z[i - Len(q)]
    BY <2>1, ConcatProperties
  <2>4. Len(q) = m
    BY <1>3 DEF q
  <2> QED
    BY <2>1, <2>2, <2>3, <2>4
<1>5. Len(l) + Len(rest) = m /\ \A i \in 1..Len(l) : q[i] = l[i]
  <2>1. l \o rest = q
    OBVIOUS
  <2> HIDE DEF q
  <2>2. /\ Len(l \o rest) = Len(l) + Len(rest)
        /\ \A i \in 1..(Len(l) + Len(rest)) : i <= Len(l) => (l \o rest)[i] = l[i]
    BY <1>2, ConcatProperties
  <2>3. Len(q) = m
    BY <1>3 DEF q
  <2> QED
    BY <1>2, <2>1, <2>2, <2>3
<1> HIDE DEF q
<1>6. Len(l) <= m /\ m <= Len(p) /\ \A i \in 1..Len(l) : l[i] = p[i]
  BY <1>1, <1>2, <1>4, <1>5
<1>7. ~(Len(l) < Len(p))
  <2> SUFFICES ASSUME Len(l) < Len(p) PROVE FALSE
    OBVIOUS
  <2>1. p[Len(l)] # NL
    <3>1. \A j \in 1..Len(p) : p[j] = NL => j = Len(p)
      BY PieceIs, LenProperties
    <3> QED
      BY <1>1, <1>2, <3>1
  <2>2. l[Len(l)] = p[Len(l)]
    BY <1>2, <1>6
  <2>3. l[Len(l)] # NL /\ Len(l) # MAXLINE - 1
    BY <1>1, <1>2, <2>1, <2>2
  <2> QED
    BY <2>3 DEF Terminated
<1>8. Len(l) = Len(p) /\ m = Len(p)
  BY <1>1, <1>2, <1>6, <1>7
<1> QED
  BY <1>1, <1>2, <1>6, <1>8, SeqEqual

(***************************************************************************)
(* What the server has of the stream begins with the next piece, unless    *)
(* that is the last one and is not all there.                              *)
(***************************************************************************)
LEMMA WholesAre ==
  ASSUME PlaceInv, NEW w, Wholes(w), NEW n \in 1..Len(asked)
  PROVE  /\ w[n] \in Seq(Nat) /\ w[n - 1] \in Seq(Nat) /\ asked[n] \in Pieces
         /\ asked[n] \in Seq(Nat) /\ w[n] = w[n - 1] \o asked[n]
<1>1. asked \in Seq(Pieces) /\ Len(asked) \in Nat
  BY Lengths DEF PlaceInv, Types, ClientType
<1>2. asked[n] \in Pieces
  BY <1>1, ElementOfSeq
<1>3. n \in 0..Len(asked) /\ n - 1 \in 0..Len(asked)
  BY <1>1
<1> QED
  BY <1>2, <1>3, PieceIs DEF Wholes

NextPiece(l, rest) ==
  /\ Len(heard) < Len(asked)
  /\ \/ /\ Len(heard) + 1 < Len(asked)
        /\ \E x \in Seq(Nat) : l \o rest = asked[Len(heard) + 1] \o x
     \/ /\ Len(heard) + 1 = Len(asked)
        /\ \E m \in Nat : Sending(m) /\ l \o rest = SubSeq(asked[Len(heard) + 1], 1, m)

LEMMA StreamHears ==
  ASSUME PlaceInv, Len(heard) <= Len(asked), NEW w, Stream(w),
         NEW l \in Seq(Nat), NEW rest \in Seq(Nat), l # <<>>, Request = l \o rest
  PROVE  NextPiece(l, rest)
<1> DEFINE h == Len(heard)
           last == Len(asked)
<1>1. h \in Nat /\ last \in Nat /\ h <= last
  BY Lengths
<1>2. Request # <<>> /\ Request \in Seq(Nat) /\ Len(Request) \in Nat /\ Len(Request) # 0
  <2>1. Request \in Seq(Nat)
    BY Assoc
  <2>2. Request # <<>>
    BY ConcatEqualIffEmpty
  <2> QED
    BY <2>1, <2>2, NoBytes
<1>3. Wholes(w) /\ asked # <<>>
  BY <1>2 DEF Stream
<1>4. last # 0
  BY <1>3, EmptySeq DEF PlaceInv, Types, ClientType
<1>5. PICK m \in Nat : Sending(m) /\ w[h] \o Request = w[last - 1] \o SubSeq(Last(asked), 1, m)
  BY <1>3 DEF Stream
<1> DEFINE p == asked[last]
           part == SubSeq(p, 1, m)
<1>6. /\ w[last] \in Seq(Nat) /\ w[last - 1] \in Seq(Nat) /\ p \in Seq(Nat)
      /\ w[last] = w[last - 1] \o p
  <2>1. last \in 1..Len(asked)
    BY <1>1, <1>4
  <2> QED
    BY <1>3, <2>1, WholesAre
<1>7. m \in 0..Len(p) /\ part \in Seq(Nat) /\ Len(part) = m
  <2>1. m \in 0..Len(p)
    BY <1>5 DEF Sending, Last
  <2> QED
    BY <1>6, <2>1, Halves
<1>8. w[h] \o Request = w[last - 1] \o part
  BY <1>5 DEF Last
<1> HIDE DEF part, p
<1>9. CASE h = last
  <2>1. w[last] \o Request = w[last - 1] \o (p \o Request)
    <3>1. w[last - 1] \in Seq(Nat) /\ p \in Seq(Nat) /\ Request \in Seq(Nat)
      BY <1>2, <1>6
    <3>2. (w[last - 1] \o p) \o Request = w[last - 1] \o (p \o Request)
      <4>1. Bytes(w[last - 1]) /\ Bytes(p) /\ Bytes(Request)
        BY <3>1 DEF Bytes
      <4>2. Cat(Cat(w[last - 1], p), Request) = Cat(w[last - 1], Cat(p, Request))
        BY <4>1, CatAssoc
      <4> QED
        BY <4>2, Zenon DEF Cat
    <3> QED
      BY <1>6, <3>2
  <2>2. p \o Request = part
    <3>1. p \o Request \in Seq(Nat)
      BY <1>2, <1>6, Assoc
    <3> QED
      BY <1>6, <1>7, <1>8, <1>9, <2>1, <3>1, Cancel
  <2>3. Len(p \o Request) = Len(p) + Len(Request) /\ Len(p) \in Nat
    BY <1>2, <1>6, ConcatProperties, LenProperties
  <2> QED
    BY <1>2, <1>7, <2>2, <2>3
<1>10. CASE h = last - 1
  <2>1. Request = part
    BY <1>2, <1>6, <1>7, <1>8, <1>10, Cancel
  <2>2. h + 1 = last /\ h < last
    BY <1>1, <1>10
  <2>3. l \o rest = SubSeq(asked[h + 1], 1, m)
    BY <2>1, <2>2 DEF part, p
  <2> QED
    BY <1>5, <2>2, <2>3 DEF NextPiece
<1>11. CASE h + 1 < last
  <2> DEFINE q == asked[h + 1]
  <2>1. /\ w[h + 1] \in Seq(Nat) /\ w[h] \in Seq(Nat) /\ q \in Seq(Nat)
        /\ w[h + 1] = w[h] \o q
    <3>1. h + 1 \in 1..Len(asked) /\ (h + 1) - 1 = h
      BY <1>1, <1>11
    <3> QED
      BY <1>3, <3>1, WholesAre
  <2>2. PICK x \in Seq(Nat) : w[last - 1] = w[h + 1] \o x
    <3>1. h + 1 \in 0..Len(asked) /\ last - 1 \in 0..Len(asked) /\ h + 1 <= last - 1
      BY <1>1, <1>11
    <3> QED
      BY <1>3, <3>1 DEF Wholes
  <2> HIDE DEF q
  <2>3. x \o part \in Seq(Nat) /\ q \o (x \o part) \in Seq(Nat)
    BY <1>7, <2>1, Assoc
  <2>4. w[last - 1] \o part = w[h] \o (q \o (x \o part))
    <3>1. w[last - 1] \o part = w[h + 1] \o (x \o part)
      <4>1. w[h + 1] \in Seq(Nat) /\ x \in Seq(Nat) /\ part \in Seq(Nat)
        BY <1>7, <2>1, <2>2
      <4>2. (w[h + 1] \o x) \o part = w[h + 1] \o (x \o part)
        <5>1. Bytes(w[h + 1]) /\ Bytes(x) /\ Bytes(part)
          BY <4>1 DEF Bytes
        <5>2. Cat(Cat(w[h + 1], x), part) = Cat(w[h + 1], Cat(x, part))
          BY <5>1, CatAssoc
        <5> QED
          BY <5>2, Zenon DEF Cat
      <4> QED
        BY <2>2, <4>2
    <3> DEFINE y == x \o part
    <3> HIDE DEF y
    <3>2. (w[h] \o q) \o y = w[h] \o (q \o y)
      <4>1. w[h] \in Seq(Nat) /\ q \in Seq(Nat) /\ y \in Seq(Nat)
        BY <2>1, <2>3 DEF y
      <4>2. Bytes(w[h]) /\ Bytes(q) /\ Bytes(y)
        BY <4>1 DEF Bytes
      <4>3. Cat(Cat(w[h], q), y) = Cat(w[h], Cat(q, y))
        BY <4>2, CatAssoc
      <4> QED
        BY <4>3, Zenon DEF Cat
    <3>3. w[last - 1] \o part = w[h + 1] \o y
      BY <3>1 DEF y
    <3>4. w[last - 1] \o part = (w[h] \o q) \o y
      BY <2>1, <3>3, Zenon
    <3>5. w[last - 1] \o part = w[h] \o (q \o y)
      BY <3>2, <3>4, Zenon
    <3> QED
      BY <3>5 DEF y
  <2>5. Request = q \o (x \o part)
    <3> DEFINE y == q \o (x \o part)
    <3>1. y \in Seq(Nat) /\ w[h] \in Seq(Nat) /\ Request \in Seq(Nat)
      BY <1>2, <2>1, <2>3
    <3>2. w[h] \o Request = w[h] \o y
      BY <1>8, <2>4
    <3> HIDE DEF y
    <3>3. Request = y
      BY <3>1, <3>2, Cancel
    <3> QED
      BY <3>3 DEF y
  <2>6. l \o rest = asked[h + 1] \o (x \o part) /\ x \o part \in Seq(Nat)
    BY <2>3, <2>5 DEF q
  <2>7. h < last
    BY <1>1, <1>11
  <2> QED
    BY <1>11, <2>6, <2>7 DEF NextPiece
<1> QED
  BY <1>1, <1>9, <1>10, <1>11

(***************************************************************************)
(* When the server has heard the next piece, what is left of the request   *)
(* goes on behind it.                                                      *)
(***************************************************************************)
LEMMA StreamHeard ==
  ASSUME PlaceInv, NEW w, Stream(w), NEW rest \in Seq(Nat),
         Len(heard) < Len(asked), Request = asked[Len(heard) + 1] \o rest,
         Request' = rest, Len(heard') = Len(heard) + 1,
         UNCHANGED <<client, asked, at, stopped>>
  PROVE  Stream(w)'
<1> DEFINE h == Len(heard)
           p == asked[h + 1]
<1>1. h \in Nat /\ h + 1 \in 1..Len(asked) /\ (h + 1) - 1 = h /\ asked # <<>>
  <2>1. Len(heard) \in Nat /\ Len(asked) \in Nat /\ (asked = <<>> => Len(asked) = 0)
    BY Lengths
  <2> QED
    BY <2>1
<1>2. /\ w[h + 1] \in Seq(Nat) /\ w[h] \in Seq(Nat) /\ p \in Seq(Nat)
      /\ w[h + 1] = w[h] \o p
  BY <1>1, WholesAre DEF Stream
<1>3. w[h + 1] \o rest = w[h] \o Request
  <2>1. w[h] \in Seq(Nat) /\ p \in Seq(Nat) /\ rest \in Seq(Nat)
    BY <1>2
  <2> HIDE DEF p
  <2>2. (w[h] \o p) \o rest = w[h] \o (p \o rest)
    <3>1. Bytes(w[h]) /\ Bytes(p) /\ Bytes(rest)
      BY <2>1 DEF Bytes
    <3>2. Cat(Cat(w[h], p), rest) = Cat(w[h], Cat(p, rest))
      BY <3>1, CatAssoc
    <3> QED
      BY <3>2, Zenon DEF Cat
  <2>3. w[h + 1] = w[h] \o p /\ Request = p \o rest
    BY <1>2 DEF p
  <2> QED
    BY <2>2, <2>3
<1> HIDE DEF p
<1>4. PICK m \in Nat : Sending(m) /\ w[h] \o Request = w[Len(asked) - 1] \o SubSeq(Last(asked), 1, m)
  BY <1>1 DEF Stream
<1>5. Sending(m)'
  BY <1>4 DEF Sending
<1>6. Wholes(w)'
  BY DEF Stream, Wholes
<1>7. w[Len(heard')] \o Request' = w[Len(asked') - 1] \o SubSeq(Last(asked'), 1, m)
  BY <1>3, <1>4
<1> QED
  BY <1>1, <1>5, <1>6, <1>7 DEF Stream

(***************************************************************************)
(* What the client does to the stream: a piece begun, and a turn of its    *)
(* rio_writen.                                                             *)
(***************************************************************************)
LEMMA StreamKept ==
  ASSUME NEW w, Stream(w), Request' = Request, UNCHANGED <<asked, heard>>,
         \A m \in Nat : Sending(m) => Sending(m)'
  PROVE  Stream(w)'
<1>1. Wholes(w)' /\ (asked' = <<>> => Request' = <<>>)
  BY DEF Stream, Wholes
<1>2. ASSUME asked' # <<>>
      PROVE  \E m \in Nat : Sending(m)' /\ w[Len(heard')] \o Request'
                 = w[Len(asked') - 1] \o SubSeq(Last(asked'), 1, m)
  <2>1. PICK m \in Nat : Sending(m) /\ w[Len(heard)] \o Request
                 = w[Len(asked) - 1] \o SubSeq(Last(asked), 1, m)
    BY <1>2 DEF Stream
  <2>2. Sending(m)'
    BY <2>1
  <2> QED
    BY <2>1, <2>2
<1> QED
  BY <1>1, <1>2 DEF Stream

LEMMA AllIsThere ==
  ASSUME PlaceInv, HeardRight, client = "next", NEW w, Stream(w)
  PROVE  w[Len(heard)] \o Request = w[Len(asked)]
<1>1. Len(asked) \in Nat /\ Len(heard) \in Nat /\ ~stopped /\ Len(heard) <= Len(asked)
  BY Lengths DEF PlaceInv, ClientPlace, HeardRight
<1>2. CASE asked = <<>>
  <2>1. Len(asked) = 0 /\ Request = <<>>
    BY <1>2 DEF Stream
  <2>2. w[0] = <<>> /\ <<>> \o <<>> = <<>>
    BY DEF Stream, Wholes
  <2> QED
    BY <1>1, <2>1, <2>2
<1>3. CASE asked # <<>>
  <2>1. Len(asked) \in 1..Len(asked)
    BY <1>1, <1>3, EmptySeq DEF PlaceInv, Types, ClientType
  <2>2. /\ asked[Len(asked)] \in Seq(Nat)
        /\ w[Len(asked)] = w[Len(asked) - 1] \o asked[Len(asked)]
    BY <2>1, WholesAre DEF Stream
  <2>3. PICK m \in Nat : Sending(m) /\ w[Len(heard)] \o Request
                 = w[Len(asked) - 1] \o SubSeq(Last(asked), 1, m)
    BY <1>3 DEF Stream
  <2>4. m = Len(asked[Len(asked)])
    BY <1>1, <2>3 DEF Sending, Last
  <2>5. SubSeq(asked[Len(asked)], 1, m) = asked[Len(asked)]
    BY <2>2, <2>4, SubSeqFull
  <2> QED
    BY <2>2, <2>3, <2>5 DEF Last
<1> QED
  BY <1>2, <1>3

LEMMA StreamPut ==
  ASSUME PlaceInv, PlaceInv', HeardRight, client = "next", NEW p \in Pieces, Put(p), NEW w, Stream(w)
  PROVE  \E v : Stream(v)'
<1> DEFINE last == Len(asked)
<1>0. PICK v : v = [n \in 0..(last + 1) |-> IF n <= last THEN w[n] ELSE w[last] \o p]
  OBVIOUS
<1>1. /\ asked' = Append(asked, p) /\ client' = "write" /\ at' = 0
      /\ UNCHANGED <<svars, socket, stopped>>
  BY DEF Put
<1>2. /\ last \in Nat /\ Len(asked') = last + 1 /\ asked' # <<>>
      /\ \A n \in 1..last : asked'[n] = asked[n]
      /\ asked'[last + 1] = p /\ Last(asked') = p
  <2>1. asked \in Seq(Pieces)
    BY DEF PlaceInv, Types, ClientType
  <2>2. /\ Len(asked') = last + 1 /\ asked' # <<>>
        /\ \A n \in 1..last : asked'[n] = asked[n]
        /\ asked'[last + 1] = p
    BY <1>1, <2>1, AppendProperties
  <2>3. Last(asked') = p
    BY <2>2 DEF Last
  <2> QED
    BY <2>2, <2>3, Lengths
<1>3. p \in Seq(Nat) /\ Len(p) \in Nat
  BY PieceIs
<1>4. /\ w \in [0..last -> Seq(Nat)] /\ w[0] = <<>> /\ w[last] \in Seq(Nat)
      /\ \A n \in 1..last : w[n] = w[n - 1] \o asked[n]
      /\ \A i, n \in 0..last : i <= n => \E x \in Seq(Nat) : w[n] = w[i] \o x
  <2>1. Wholes(w)
    BY DEF Stream
  <2>2. last \in 0..last
    BY <1>2
  <2>3. w \in [0..last -> Seq(Nat)] /\ w[0] = <<>>
    BY <2>1 DEF Wholes
  <2>4. \A n \in 1..last : w[n] = w[n - 1] \o asked[n]
    BY <2>1, Zenon DEF Wholes
  <2>5. \A i, n \in 0..last : i <= n => \E x \in Seq(Nat) : w[n] = w[i] \o x
    BY <2>1, Zenon DEF Wholes
  <2>6. w[last] \in Seq(Nat)
    BY <2>2, <2>3
  <2> QED
    BY <2>3, <2>4, <2>5, <2>6
<1>5. w[last] \o p \in Seq(Nat)
  BY <1>3, <1>4, Assoc
<1>6. /\ v \in [0..(last + 1) -> Seq(Nat)] /\ v[last + 1] = w[last] \o p
      /\ \A n \in 0..last : v[n] = w[n]
  <2> DEFINE z == w[last] \o p
  <2>1. z \in Seq(Nat)
    BY <1>5
  <2> HIDE DEF z
  <2>2. v = [n \in 0..(last + 1) |-> IF n <= last THEN w[n] ELSE z]
    BY <1>0 DEF z
  <2>3. \A n \in 0..(last + 1) : n <= last => n \in 0..last
    BY <1>2
  <2>4. \A n \in 0..last : n \in 0..(last + 1) /\ n <= last
    BY <1>2
  <2>5. last + 1 \in 0..(last + 1) /\ ~(last + 1 <= last)
    BY <1>2
  <2>6. v \in [0..(last + 1) -> Seq(Nat)]
    BY <1>4, <2>1, <2>2, <2>3
  <2>7. v[last + 1] = z /\ \A n \in 0..last : v[n] = w[n]
    BY <2>2, <2>4, <2>5
  <2> QED
    BY <2>6, <2>7 DEF z
<1>7. \A n \in 1..(last + 1) : v[n] = v[n - 1] \o asked'[n]
  <2> SUFFICES ASSUME NEW n \in 1..(last + 1) PROVE v[n] = v[n - 1] \o asked'[n]
    OBVIOUS
  <2>1. CASE n = last + 1
    <3>1. n - 1 = last /\ last \in 0..last
      BY <1>2, <2>1
    <3>2. v[n] = w[last] \o p /\ v[n - 1] = w[last] /\ asked'[n] = p
      BY <1>2, <1>6, <2>1, <3>1
    <3> QED
      BY <3>2
  <2>2. CASE n # last + 1
    <3>1. n \in 1..last /\ n \in 0..last /\ n - 1 \in 0..last
      BY <1>2, <2>2
    <3> QED
      BY <1>2, <1>4, <1>6, <3>1
  <2> QED
    BY <2>1, <2>2
<1>8. \A i, n \in 0..(last + 1) : i <= n => \E x \in Seq(Nat) : v[n] = v[i] \o x
  <2> SUFFICES ASSUME NEW i \in 0..(last + 1), NEW n \in 0..(last + 1), i <= n
               PROVE  \E x \in Seq(Nat) : v[n] = v[i] \o x
    OBVIOUS
  <2>1. CASE n \in 0..last
    <3>1. i \in 0..last
      BY <1>2, <2>1
    <3> QED
      BY <1>4, <1>6, <2>1, <3>1
  <2>2. CASE n = last + 1 /\ i = last + 1
    <3>1. v[n] = v[i] \o <<>> /\ <<>> \in Seq(Nat)
      BY <1>5, <1>6, <2>2, NoBytes
    <3> QED
      BY <3>1
  <2>3. CASE n = last + 1 /\ i \in 0..last
    <3>1. last \in 0..last /\ i <= last
      BY <1>2, <2>3
    <3>2. PICK x \in Seq(Nat) : w[last] = w[i] \o x
      BY <1>4, <2>3, <3>1
    <3>3. w[i] \in Seq(Nat)
      BY <1>4, <2>3
    <3>4. (w[i] \o x) \o p = w[i] \o (x \o p) /\ x \o p \in Seq(Nat)
      BY <1>3, <3>2, <3>3, Assoc
    <3>5. v[n] = v[i] \o (x \o p)
      BY <1>6, <2>3, <3>2, <3>4
    <3> QED
      BY <3>4, <3>5, Zenon
  <2>4. n \in 0..last \/ (n = last + 1 /\ (i = last + 1 \/ i \in 0..last))
    BY <1>2
  <2> QED
    BY <2>1, <2>2, <2>3, <2>4, Zenon
<1>9. Wholes(v)'
  <2>1. v[0] = <<>>
    BY <1>2, <1>4, <1>6
  <2>2. Len(asked') = last + 1
    BY <1>2
  <2>3. v \in [0..Len(asked') -> Seq(Nat)]
    BY <1>6, <2>2
  <2>4. \A n \in 1..Len(asked') : v[n] = v[n - 1] \o asked'[n]
    BY <1>7, <2>2
  <2>5. \A i, n \in 0..Len(asked') : i <= n => \E x \in Seq(Nat) : v[n] = v[i] \o x
    BY <1>8, <2>2
  <2> QED
    BY <2>1, <2>3, <2>4, <2>5, Zenon DEF Wholes
<1>10. Sending(0)'
  BY <1>1, <1>2, <1>3 DEF Sending
<1>11. v[Len(heard')] \o Request' = v[Len(asked') - 1] \o SubSeq(Last(asked'), 1, 0)
  <2>1. Request' = Request /\ heard' = heard
    BY <1>1 DEF Request, svars
  <2>2. w[Len(heard)] \o Request = w[last]
    BY AllIsThere
  <2>3. SubSeq(p, 1, 0) = <<>>
    <3>1. 0 \in 0..Len(p)
      BY <1>3
    <3>2. SubSeq(p, 1, 0) \in Seq(Nat) /\ Len(SubSeq(p, 1, 0)) = 0
      BY <1>3, <3>1, Halves
    <3> QED
      BY <3>2, NoBytes
  <2>4. Len(heard) \in 0..last /\ last \in 0..last /\ Len(asked') - 1 = last
    BY <1>2, Lengths DEF HeardRight
  <2>5. w[last] \o <<>> = w[last]
    BY <1>4, NoBytes
  <2> QED
    BY <1>2, <1>6, <2>1, <2>2, <2>3, <2>4, <2>5
<1>12. Stream(v)'
  <2>1. asked' # <<>> /\ 0 \in Nat
    BY <1>2
  <2> QED
    BY <1>9, <1>10, <1>11, <2>1, Zenon DEF Stream
<1> QED
  BY <1>12

LEMMA StreamWrites ==
  ASSUME PlaceInv, PlaceInv', ClientWrites, ServerOpen, HeardRight, NEW w, Stream(w)
  PROVE  Stream(w)'
<1> DEFINE p == Last(asked)
<1>1. /\ client = "write" /\ asked # <<>> /\ p \in Pieces
      /\ UNCHANGED <<kind, buf, crio, asked, shown, svars, stopped>>
  BY ClientWritesIs
<1>2. PICK k \in 1..(Len(p) - at) :
              /\ at + k <= Len(p)
              /\ \/ at + k = Len(p) /\ at' = 0 /\ client' = "read"
                 \/ at + k < Len(p) /\ at' = at + k /\ client' = "write"
              /\ socket' = [socket EXCEPT !["server"] = @ \o SubSeq(p, at + 1, at + k)]
              /\ Len(socket["server"]) + k <= RequestRoom
  BY ClientWritesIs
<1>3. /\ p \in Seq(Nat) /\ Len(p) \in Nat /\ at \in 0..Len(p) /\ ~stopped
      /\ line \in Seq(Nat) /\ srio \in Seq(Nat) /\ socket["server"] \in Seq(Nat)
      /\ Len(asked) \in Nat /\ Len(asked) # 0 /\ Len(heard) \in Nat /\ Len(heard) <= Len(asked)
  <2>1. p \in Seq(Nat) /\ Len(p) \in Nat
    BY <1>1, PieceIs
  <2>2. at < Len(p) /\ at \in Nat /\ ~stopped
    BY <1>1, Sizes DEF PlaceInv, ClientPlace, Types, ClientType
  <2>3. Len(asked) \in Nat /\ Len(asked) # 0 /\ Len(heard) \in Nat /\ Len(heard) <= Len(asked)
    BY <1>1, Lengths DEF HeardRight
  <2>4. line \in Seq(Nat) /\ srio \in Seq(Nat) /\ socket["server"] \in Seq(Nat)
    BY DEF PlaceInv, Types, ServerType, SocketType, Sides
  <2>5. at \in 0..Len(p)
    BY <2>1, <2>2
  <2> QED
    BY <2>1, <2>2, <2>3, <2>4, <2>5
<1> HIDE DEF p
<1> DEFINE part == SubSeq(p, at + 1, at + k)
           done == SubSeq(p, 1, at)
<1>4. part \in Seq(Nat) /\ done \in Seq(Nat) /\ done \o part = SubSeq(p, 1, at + k)
  <2>1. k \in Taken(socket["server"], Len(p) - at, RequestRoom)
    BY <1>2 DEF Taken
  <2>2. part \in Seq(Nat)
    <3>1. Took(p, at, socket["server"], k, RequestRoom, part)
      BY <1>3, <2>1, TakenIs, Sizes
    <3> QED
      BY <3>1 DEF Took
  <2>3. done \in Seq(Nat)
    BY <1>3, Halves
  <2>4. 1 \in 1..(Len(p) + 1) /\ at \in (1 - 1)..Len(p) /\ at + k \in at..Len(p)
    BY <1>2, <1>3
  <2> QED
    BY <1>3, <2>2, <2>3, <2>4, ConcatAdjacentSubSeq
<1>5. socket'["server"] = socket["server"] \o part
  BY <1>2 DEF PlaceInv, Types, SocketType, Sides
<1> HIDE DEF part, done
<1>6. Request' = Request \o part /\ Request \in Seq(Nat)
  <2> DEFINE first == line \o srio
  <2>1. first \in Seq(Nat)
    BY <1>3, Assoc
  <2>2. Request = first \o socket["server"] /\ Request' = first \o (socket["server"] \o part)
    BY <1>1, <1>5 DEF Request, svars
  <2> HIDE DEF first
  <2>3. first \in Seq(Nat) /\ socket["server"] \in Seq(Nat) /\ part \in Seq(Nat)
    BY <1>3, <1>4, <2>1
  <2>4. (first \o socket["server"]) \o part = first \o (socket["server"] \o part)
    <3>1. Bytes(first) /\ Bytes(socket["server"]) /\ Bytes(part)
      BY <2>3 DEF Bytes
    <3>2. Cat(Cat(first, socket["server"]), part) = Cat(first, Cat(socket["server"], part))
      BY <3>1, CatAssoc
    <3> QED
      BY <3>2, Zenon DEF Cat
  <2>5. first \o socket["server"] \in Seq(Nat)
    BY <2>3, ConcatProperties
  <2> QED
    BY <2>2, <2>4, <2>5
<1>7. PICK m \in Nat : Sending(m) /\ w[Len(heard)] \o Request = w[Len(asked) - 1] \o SubSeq(p, 1, m)
  BY <1>1 DEF Stream, p
<1>8. m = at
  BY <1>1, <1>7 DEF Sending
<1>sent. PICK sent \in Nat : sent = at + k
  BY <1>2, <1>3
<1>9. w[Len(heard)] \in Seq(Nat) /\ w[Len(asked) - 1] \in Seq(Nat)
  <2>1. Len(heard) \in 0..Len(asked) /\ Len(asked) - 1 \in 0..Len(asked)
    BY <1>3
  <2> QED
    BY <2>1 DEF Stream, Wholes
<1>10. w[Len(heard)] \o Request' = w[Len(asked) - 1] \o SubSeq(p, 1, at + k)
  <2>1. w[Len(heard)] \o (Request \o part) = (w[Len(heard)] \o Request) \o part
    <3>1. Bytes(w[Len(heard)]) /\ Bytes(Request) /\ Bytes(part)
      BY <1>4, <1>6, <1>9 DEF Bytes
    <3>2. Cat(w[Len(heard)], Cat(Request, part)) = Cat(Cat(w[Len(heard)], Request), part)
      BY <3>1, CatAssoc
    <3> QED
      BY <3>2, Zenon DEF Cat
  <2>2. w[Len(asked) - 1] \o (done \o part) = (w[Len(asked) - 1] \o done) \o part
    <3>1. Bytes(w[Len(asked) - 1]) /\ Bytes(done) /\ Bytes(part)
      BY <1>4, <1>9 DEF Bytes
    <3>2. Cat(w[Len(asked) - 1], Cat(done, part)) = Cat(Cat(w[Len(asked) - 1], done), part)
      BY <3>1, CatAssoc
    <3> QED
      BY <3>2, Zenon DEF Cat
  <2>3. w[Len(heard)] \o Request = w[Len(asked) - 1] \o done
    BY <1>7, <1>8 DEF done
  <2> QED
    BY <1>4, <1>6, <2>1, <2>2, <2>3
<1>11. Sending(sent)'
  <2>1. sent \in 0..Len(p) /\ p = Last(asked')
    BY <1>1, <1>2, <1>3, <1>sent DEF p
  <2>2. client' = "write" => sent = at'
    BY <1>2, <1>sent
  <2>3. client' # "write" => sent = Len(p)
    BY <1>2, <1>sent
  <2>4. sent \in 0..Len(Last(asked'))
    BY <2>1
  <2>5. client' # "write" => sent = Len(Last(asked'))
    BY <2>1, <2>3
  <2> QED
    BY <2>2, <2>4, <2>5, Zenon DEF Sending
<1>12. Wholes(w)' /\ asked' # <<>>
  BY <1>1 DEF Stream, Wholes
<1>13. heard' = heard /\ asked' = asked
  BY <1>1 DEF svars
<1>14. w[Len(heard')] \o Request' = w[Len(asked') - 1] \o SubSeq(Last(asked'), 1, sent)
  BY <1>sent, <1>10, <1>13 DEF p
<1> QED
  BY <1>11, <1>12, <1>14, Zenon DEF Stream

(***************************************************************************)
(* What the server hears.                                                  *)
(***************************************************************************)
LEMMA HearsLine ==
  ASSUME PlaceInv, HeardRight, NEW w, Stream(w), server = "readline",
         NEW b \in Nat, NEW rest \in Seq(Nat), Request = Append(line, b) \o rest,
         LineRead(Append(line, b))
  PROVE  /\ Len(heard) < Len(asked) /\ Append(line, b) = asked[Len(heard) + 1]
         /\ client = "write" => Len(heard) + 1 < Len(asked)
<1> DEFINE l == Append(line, b)
           h == Len(heard)
<1>1. line \in Seq(Nat) /\ Len(line) < MAXLINE - 1 /\ DOMAIN line = 1..Len(line)
  BY LenProperties DEF PlaceInv, ServerPlace, Types, ServerType
<1>2. /\ b = NL \/ Len(line) + 1 = MAXLINE - 1
      /\ l \in Seq(Nat) /\ Len(l) = Len(line) + 1 /\ Len(line) \in Nat
      /\ \A j \in 1..Len(line) : l[j] = line[j]
      /\ l[Len(line) + 1] = b
  BY <1>1, LineReadIs
<1> HIDE DEF l
<1>3. Terminated(l)
  <2>1. Len(l) \in 1..(MAXLINE - 1) /\ (l[Len(l)] = NL \/ Len(l) = MAXLINE - 1)
    BY <1>1, <1>2, Sizes
  <2>2. \A j \in 1..Len(l) : j < Len(l) => l[j] # NL
    <3> SUFFICES ASSUME NEW j \in 1..Len(l), j < Len(l) PROVE l[j] # NL
      OBVIOUS
    <3>1. j \in 1..Len(line)
      BY <1>2
    <3>2. line[j] # NL
      BY <1>1, <3>1 DEF PlaceInv, ServerPlace
    <3> QED
      BY <1>2, <3>1, <3>2
  <2> QED
    BY <1>2, <2>1, <2>2 DEF Terminated
<1>4. NextPiece(l, rest)
  <2>1. l # <<>>
    BY <1>2, NoBytes
  <2>2. Len(heard) <= Len(asked) /\ Request = l \o rest
    BY DEF HeardRight, l
  <2> QED
    BY <1>2, <2>1, <2>2, StreamHears
<1>5. Len(heard) < Len(asked) /\ h + 1 \in 1..Len(asked) /\ h + 1 \in DOMAIN asked
  <2>1. Len(asked) \in Nat /\ h \in Nat /\ DOMAIN asked = 1..Len(asked)
    BY Lengths
  <2>2. h < Len(asked)
    BY <1>4 DEF NextPiece
  <2> QED
    BY <2>1, <2>2
<1>6. asked[h + 1] \in Pieces
  BY <1>5, WholesAre DEF Stream
<1>7. CASE h + 1 < Len(asked) /\ \E x \in Seq(Nat) : l \o rest = asked[h + 1] \o x
  <2>1. PICK x \in Seq(Nat) : l \o rest = asked[h + 1] \o x
    BY <1>7
  <2>2. asked[h + 1] \notin Unended
    BY <1>5, <1>7 DEF PlaceInv, ClientPlace
  <2>3. Terminated(asked[h + 1])
    BY <1>6, <2>2, PieceTerminated
  <2>4. l = asked[h + 1]
    BY <1>3, <2>1, <2>3, LineCut
  <2> QED
    BY <1>5, <1>7, <2>4 DEF l
<1>8. CASE h + 1 = Len(asked) /\ \E m \in Nat : Sending(m) /\ l \o rest = SubSeq(asked[h + 1], 1, m)
  <2>1. PICK m \in Nat : Sending(m) /\ l \o rest = SubSeq(asked[h + 1], 1, m)
    BY <1>8
  <2>2. Last(asked) = asked[h + 1] /\ m \in 0..Len(asked[h + 1])
    BY <1>8, <2>1 DEF Last, Sending
  <2>3. l = asked[h + 1] /\ m = Len(asked[h + 1])
    BY <1>3, <1>6, <2>1, <2>2, PartCut
  <2>4. client # "write"
    <3> SUFFICES ASSUME client = "write" PROVE FALSE
      OBVIOUS
    <3>1. m = at /\ at < Len(asked[h + 1])
      BY <2>1, <2>2 DEF Sending, PlaceInv, ClientPlace
    <3>2. at \in Nat
      BY Sizes DEF PlaceInv, Types, ClientType
    <3> QED
      BY <2>3, <3>1, <3>2
  <2> QED
    BY <1>5, <2>3, <2>4 DEF l
<1> QED
  BY <1>4, <1>7, <1>8 DEF NextPiece

\* At the end of the input: the last piece, or the part of it that was sent.
LEMMA HearsEnd ==
  ASSUME PlaceInv, HeardRight, NEW w, Stream(w), server = "readline",
         client = "ended", Request = line, line # <<>>
  PROVE  /\ Len(heard) + 1 = Len(asked) /\ IsPrefix(line, asked[Len(asked)])
         /\ ~stopped => line = asked[Len(asked)]
<1> DEFINE h == Len(heard)
<1>1. /\ line \in Seq(Nat) /\ Len(line) < MAXLINE - 1 /\ DOMAIN line = 1..Len(line)
      /\ Len(line) \in Nat /\ line \o <<>> = line
  BY LenProperties, NoBytes DEF PlaceInv, ServerPlace, Types, ServerType
<1>2. NextPiece(line, <<>>)
  <2>1. Len(heard) <= Len(asked) /\ Request = line \o <<>> /\ <<>> \in Seq(Nat)
    BY <1>1 DEF HeardRight
  <2> QED
    BY <1>1, <2>1, StreamHears
<1>3. Len(heard) < Len(asked) /\ h + 1 \in 1..Len(asked) /\ h + 1 \in DOMAIN asked
  <2>1. Len(asked) \in Nat /\ h \in Nat /\ DOMAIN asked = 1..Len(asked)
    BY Lengths
  <2>2. h < Len(asked)
    BY <1>2 DEF NextPiece
  <2> QED
    BY <2>1, <2>2
<1>4. asked[h + 1] \in Pieces
  BY <1>3, WholesAre DEF Stream
<1>5. CASE h + 1 < Len(asked) /\ \E x \in Seq(Nat) : line \o <<>> = asked[h + 1] \o x
  <2> DEFINE p == asked[h + 1]
  <2>1. PICK x \in Seq(Nat) : line = p \o x
    BY <1>1, <1>5
  <2>2. p \notin Unended
    BY <1>3, <1>5 DEF PlaceInv, ClientPlace
  <2>3. Terminated(p)
    BY <1>4, <2>2, PieceTerminated
  <2> HIDE DEF p
  <2>4. /\ p \in Seq(Nat) /\ Len(p) \in 1..(MAXLINE - 1) /\ Len(x) \in Nat
        /\ p[Len(p)] = NL \/ Len(p) = MAXLINE - 1
    BY <2>3, LenProperties DEF Terminated
  <2>5. Len(line) = Len(p) + Len(x) /\ line[Len(p)] = p[Len(p)]
    BY <2>1, <2>4, ConcatProperties
  <2>6. Len(p) \in 1..Len(line) /\ Len(p) # MAXLINE - 1
    BY <1>1, <2>4, <2>5, Sizes
  <2>7. line[Len(p)] # NL
    BY <1>1, <2>6 DEF PlaceInv, ServerPlace
  <2> QED
    BY <2>4, <2>5, <2>6, <2>7
<1>6. CASE h + 1 = Len(asked) /\ \E m \in Nat : Sending(m) /\ line \o <<>> = SubSeq(asked[h + 1], 1, m)
  <2> DEFINE p == asked[Len(asked)]
  <2>1. PICK m \in Nat : Sending(m) /\ line = SubSeq(p, 1, m)
    BY <1>1, <1>6
  <2>2. Last(asked) = p /\ m \in 0..Len(p) /\ p \in Seq(Nat)
    BY <1>4, <1>6, <2>1, PieceIs DEF Last, Sending
  <2> HIDE DEF p
  <2>3. Len(line) = m /\ Len(p) \in Nat
    BY <2>1, <2>2, Halves, LenProperties
  <2>4. IsPrefix(line, p)
    <3>1. SubSeq(line, 1, Len(line)) = line
      BY <1>1, SubSeqFull
    <3>2. Len(line) <= Len(p)
      BY <2>2, <2>3
    <3> QED
      BY <2>1, <2>3, <3>1, <3>2 DEF IsPrefix
  <2>5. ASSUME ~stopped PROVE line = p
    <3>1. m = Len(p)
      BY <2>1, <2>2, <2>5 DEF Sending
    <3> QED
      BY <2>1, <2>2, <3>1, SubSeqFull
  <2> QED
    BY <1>6, <2>4, <2>5 DEF p
<1> QED
  BY <1>2, <1>5, <1>6 DEF NextPiece

(***************************************************************************)
(* The steps of both sides and the stream.                                 *)
(***************************************************************************)
LEMMA OtherSteps ==
  ASSUME StreamInv, HeardRight, UNCHANGED <<asked, svars>>,
         ServerOpen' => ServerOpen, socket'["server"] = socket["server"],
         client' # "write", stopped' \/ (client # "write" /\ ~stopped /\ ~stopped')
  PROVE  StreamInv' /\ HeardRight'
<1>1. Request' = Request /\ heard' = heard /\ asked' = asked
  BY DEF svars, Request
<1>2. StreamInv'
  <2> SUFFICES ASSUME ServerOpen' PROVE \E w : Stream(w)'
    BY DEF StreamInv
  <2>1. PICK w : Stream(w)
    BY DEF StreamInv
  <2>2. \A m \in Nat : Sending(m) => Sending(m)'
    BY <1>1 DEF Sending
  <2> QED
    BY <1>1, <2>1, <2>2, StreamKept
<1>3. HeardRight'
  BY <1>1 DEF HeardRight
<1> QED
  BY <1>2, <1>3

LEMMA PutStream ==
  ASSUME PlaceInv, PlaceInv', HeardRight, StreamInv, client = "next", NEW p \in Pieces, Put(p)
  PROVE  StreamInv' /\ HeardRight'
<1>1. /\ asked' = Append(asked, p) /\ UNCHANGED <<svars, closed, stopped>>
      /\ ~stopped
  BY DEF Put, PlaceInv, ClientPlace
<1>2. StreamInv'
  <2> SUFFICES ASSUME ServerOpen' PROVE \E w : Stream(w)'
    BY DEF StreamInv
  <2>1. ServerOpen
    BY <1>1 DEF ServerOpen
  <2>2. PICK w : Stream(w)
    BY <2>1 DEF StreamInv
  <2> QED
    BY <2>2, StreamPut
<1>3. HeardRight'
  <2>1. /\ Len(asked) \in Nat /\ Len(asked') = Len(asked) + 1 /\ Len(heard) \in Nat
        /\ DOMAIN heard = 1..Len(heard) /\ heard' = heard
        /\ \A n \in 1..Len(asked) : asked'[n] = asked[n]
    <3>1. asked \in Seq(Pieces)
      BY DEF PlaceInv, Types, ClientType
    <3>2. /\ Len(asked') = Len(asked) + 1
          /\ \A n \in 1..Len(asked) : asked'[n] = asked[n]
      BY <1>1, <3>1, AppendProperties
    <3>3. heard' = heard
      BY <1>1 DEF svars
    <3> QED
      BY <3>2, <3>3, Lengths
  <2>2. Len(heard') <= Len(asked')
    BY <2>1 DEF HeardRight
  <2>3. \A i \in DOMAIN heard' : heard'[i] = asked'[i]
    BY <1>1, <2>1 DEF HeardRight
  <2> QED
    BY <2>2, <2>3 DEF HeardRight
<1> QED
  BY <1>2, <1>3

LEMMA ClientStream ==
  ASSUME PlaceInv, PlaceInv', StreamInv, HeardRight, ClientSteps \/ ClientStops
  PROVE  StreamInv' /\ HeardRight'
<1>1. CASE Order
  <2>1. PICK order \in {Show, Trade} : Put(<<order, NL>>)
    BY <1>1 DEF Order
  <2>2. <<order, NL>> \in Pieces
    BY DEF Pieces
  <2> QED
    BY <1>1, <2>1, <2>2, PutStream DEF Order
<1>2. CASE Fgets
  BY <1>2, PutStream DEF Fgets
<1>3. CASE ClientCloses
  BY <1>3, OtherSteps DEF ClientCloses, Close, ServerOpen, PlaceInv, Types, SocketType, Sides, ClientPlace
<1>4. CASE ClientWrites
  <2>1. /\ UNCHANGED <<kind, buf, crio, asked, shown, svars, stopped>>
        /\ \/ ServerOpen
           \/ closed' = [closed EXCEPT !["server"] = "refused"]
    BY <1>4, ClientWritesIs
  <2>2. HeardRight'
    BY <2>1 DEF HeardRight, svars
  <2>3. StreamInv'
    <3>1. CASE ServerOpen
      <4>1. PICK w : Stream(w)
        BY <3>1 DEF StreamInv
      <4>2. Stream(w)'
        BY <1>4, <3>1, <4>1, StreamWrites
      <4> QED
        BY <4>2 DEF StreamInv
    <3>2. CASE closed' = [closed EXCEPT !["server"] = "refused"]
      BY <3>2 DEF StreamInv, ServerOpen, PlaceInv, Types, SocketType, Sides
    <3> QED
      BY <2>1, <3>1, <3>2
  <2> QED
    BY <2>2, <2>3
<1>5. CASE ClientBroken
  <2>1. ~ServerOpen' /\ heard' = heard /\ asked' = asked /\ stopped' = stopped
    <3>1. closed["server"] \in {"reset", "refused"} /\ Close("client")
      BY <1>5 DEF ClientBroken, ReadFails
    <3> QED
      BY <1>5, <3>1 DEF ClientBroken, Close, ServerOpen, svars, PlaceInv, Types, SocketType, Sides
  <2> QED
    BY <2>1 DEF StreamInv, HeardRight
<1>6. CASE ReadBuffer
  <2>1. /\ client = "read" /\ client' \in {"read", "fputs"} /\ socket'["server"] = socket["server"]
        /\ UNCHANGED <<asked, svars, closed, stopped>>
    BY <1>6, ReadBufferIs
  <2> QED
    BY <2>1, OtherSteps DEF ServerOpen, PlaceInv, ClientPlace
<1>7. CASE ReadByte
  <2>1. /\ client = "read" /\ client' \in {"read", "fputs"} /\ socket'["server"] = socket["server"]
        /\ UNCHANGED <<asked, svars, closed, stopped>>
    BY <1>7, ReadByteStep DEF ReadByte
  <2> QED
    BY <2>1, OtherSteps DEF ServerOpen, PlaceInv, ClientPlace
<1>8. CASE ReadEnds
  BY <1>8, OtherSteps DEF ReadEnds, ServerOpen, PlaceInv, ClientPlace
<1>9. CASE Fputs
  BY <1>9, OtherSteps DEF Fputs, ServerOpen, PlaceInv, ClientPlace
<1>10. CASE ClientStops
  BY <1>10, OtherSteps DEF ClientStops, Close, ServerOpen, PlaceInv, Types, SocketType, Sides
<1> QED
  BY <1>1, <1>2, <1>3, <1>4, <1>5, <1>6, <1>7, <1>8, <1>9, <1>10 DEF ClientSteps

LEMMA HeardMore ==
  ASSUME PlaceInv, HeardRight, NEW read, Obeyed(read), UNCHANGED <<asked, stopped>>,
         Len(heard) < Len(asked),
         \/ read = asked[Len(heard) + 1]
         \/ stopped /\ Len(heard) + 1 = Len(asked) /\ IsPrefix(read, asked[Len(heard) + 1])
  PROVE  HeardRight'
<1>1. /\ Len(heard') = Len(heard) + 1 /\ Len(heard) \in Nat /\ Len(asked) \in Nat
      /\ \A n \in 1..Len(heard) : heard'[n] = heard[n]
      /\ heard'[Len(heard) + 1] = read
      /\ DOMAIN heard = 1..Len(heard) /\ DOMAIN heard' = 1..(Len(heard) + 1)
  <2>1. heard \in Seq(Seq(Nat)) /\ heard' \in Seq(Seq(Nat)) /\ asked \in Seq(Pieces)
    BY DEF Obeyed, PlaceInv, Types, ClientType, ServerType
  <2> QED
    BY <2>1, LenProperties DEF Obeyed
<1>2. ASSUME NEW i \in DOMAIN heard'
      PROVE  heard'[i] = asked[i] \/ (stopped /\ i = Len(asked) /\ IsPrefix(heard'[i], asked[i]))
  <2>1. CASE i \in 1..Len(heard)
    BY <1>1, <2>1 DEF HeardRight
  <2>2. CASE i = Len(heard) + 1
    BY <1>1, <2>2
  <2> QED
    BY <1>1, <1>2, <2>1, <2>2
<1>3. Len(heard') <= Len(asked)
  BY <1>1
<1> QED
  BY <1>2, <1>3 DEF HeardRight

LEMMA ServerStream ==
  ASSUME PlaceInv, PlaceInv', StreamInv, HeardRight, ServerSteps \/ Interrupted
  PROVE  StreamInv' /\ HeardRight'
<1>1. CASE ServerReads
  <2>1. ServerRead
    BY <1>1, ServerReadsIs
  <2>2. /\ server = "readline" /\ UNCHANGED <<kind, cvars, stopped>>
        /\ srio' \in Seq(Nat) /\ socket'["server"] \in Seq(Nat)
    BY <2>1 DEF ServerRead
  <2>3. PICK b \in Nat :
       /\ \/ LineRead(Append(line, b)) /\ Obeyed(Append(line, b))
          \/ /\ ~LineRead(Append(line, b)) /\ line' = Append(line, b)
             /\ UNCHANGED <<server, out, heard, closed>>
       /\ Request = Append(line, b) \o (srio' \o socket'["server"])
    BY <2>1 DEF ServerRead
  <2> DEFINE rest == srio' \o socket'["server"]
             l == Append(line, b)
  <2>4. rest \in Seq(Nat)
    BY <2>2, Assoc
  <2>5. l \in Seq(Nat)
    BY LineReadIs DEF PlaceInv, Types, ServerType
  <2>6. PICK w : Stream(w)
    BY <2>2 DEF StreamInv, PlaceInv, ServerPlace
  <2>7. UNCHANGED <<client, asked, at, stopped>>
    BY <2>2 DEF cvars
  <2>8. CASE LineRead(l) /\ Obeyed(l)
    <3>1. Len(heard) < Len(asked) /\ l = asked[Len(heard) + 1]
      BY <2>2, <2>3, <2>4, <2>6, <2>8, HearsLine
    <3>2. HeardRight'
      BY <2>7, <2>8, <3>1, HeardMore
    <3>3. Request' = rest
      <4>1. line' = <<>> /\ Request' = (line' \o srio') \o socket'["server"]
        BY <2>8 DEF Obeyed, Request
      <4>2. <<>> \o srio' = srio'
        BY <2>2, NoBytes
      <4> QED
        BY <4>1, <4>2
    <3>4. Len(heard') = Len(heard) + 1
      BY <2>8 DEF Obeyed
    <3>5. Request = asked[Len(heard) + 1] \o rest
      BY <2>3, <3>1
    <3>6. Stream(w)'
      <4> HIDE DEF rest, l
      <4> QED
        BY <2>4, <2>6, <2>7, <3>1, <3>3, <3>4, <3>5, StreamHeard
    <3> QED
      BY <3>2, <3>6 DEF StreamInv
  <2>9. CASE ~LineRead(l) /\ line' = l /\ UNCHANGED <<server, out, heard, closed>>
    <3>1. Request' = Request
      <4>1. Request' = (l \o srio') \o socket'["server"]
        BY <2>9 DEF Request
      <4> HIDE DEF l
      <4>2. (l \o srio') \o socket'["server"] = l \o (srio' \o socket'["server"])
        BY <2>2, <2>5, Assoc
      <4> QED
        BY <2>3, <4>1, <4>2 DEF l
    <3>2. \A m \in Nat : Sending(m) => Sending(m)'
      BY <2>7 DEF Sending
    <3>3. Stream(w)'
      BY <2>6, <2>7, <2>9, <3>1, <3>2, StreamKept
    <3>4. HeardRight'
      BY <2>7, <2>9 DEF HeardRight
    <3> QED
      BY <3>3, <3>4 DEF StreamInv
  <2> QED
    BY <2>3, <2>8, <2>9
<1>2. CASE ServerReadEnds
  <2>1. /\ server = "readline" /\ closed["client"] \in {"fin", "refused"}
        /\ UNCHANGED <<kind, cvars, stopped, srio, socket>>
        /\ srio = <<>> /\ socket["server"] = <<>> /\ Request = line
    BY <1>2, ServerReadEndsIs
  <2>2. CASE line = <<>>
    <3>1. Close("server") /\ UNCHANGED <<line, out, heard>>
      BY <1>2, <2>2, ServerReadEndsIs
    <3>2. ~ServerOpen'
      BY <3>1 DEF Close, ServerOpen, PlaceInv, Types, SocketType, Sides
    <3>3. HeardRight'
      BY <2>1, <3>1 DEF HeardRight, cvars
    <3> QED
      BY <3>2, <3>3 DEF StreamInv
  <2>3. CASE line # <<>>
    <3>1. Obeyed(line)
      BY <1>2, <2>3, ServerReadEndsIs
    <3>2. PICK w : Stream(w)
      BY <2>1 DEF StreamInv, PlaceInv, ServerPlace
    <3>3. client = "ended"
      BY <2>1 DEF PlaceInv, ClientPlace
    <3>4. /\ Len(heard) + 1 = Len(asked) /\ IsPrefix(line, asked[Len(asked)])
          /\ ~stopped => line = asked[Len(asked)]
      BY <2>1, <2>3, <3>2, <3>3, HearsEnd
    <3>5. UNCHANGED <<client, asked, at, stopped>>
      BY <2>1 DEF cvars
    <3>6. Len(heard) \in Nat /\ Len(asked) \in Nat /\ Len(heard) < Len(asked)
      BY <3>4, Lengths
    <3>7. HeardRight'
      <4>1. \/ line = asked[Len(heard) + 1]
            \/ stopped /\ Len(heard) + 1 = Len(asked) /\ IsPrefix(line, asked[Len(heard) + 1])
        BY <3>4
      <4> QED
        BY <3>1, <3>5, <3>6, <4>1, HeardMore
    <3>8. Request' = <<>> /\ Len(heard') = Len(asked)
      <4>1. line' = <<>> /\ srio' = <<>> /\ socket'["server"] = <<>>
        BY <2>1, <3>1 DEF Obeyed
      <4>2. Request' = <<>>
        BY <4>1 DEF Request
      <4> QED
        BY <3>1, <3>4, <4>2 DEF Obeyed
    <3>9. /\ w[Len(asked)] \in Seq(Nat) /\ asked[Len(asked)] \in Seq(Nat)
          /\ w[Len(asked)] = w[Len(asked) - 1] \o asked[Len(asked)]
      <4>1. Len(asked) \in 1..Len(asked)
        BY <3>6
      <4> QED
        BY <3>2, <4>1, WholesAre DEF Stream
    <3>0. PICK m : m = Len(asked[Len(asked)])
      OBVIOUS
    <3>10. m \in Nat /\ SubSeq(asked[Len(asked)], 1, m) = asked[Len(asked)]
      BY <3>9, <3>0, LenProperties, SubSeqFull
    <3>11. w[Len(heard')] \o Request' = w[Len(asked') - 1] \o SubSeq(Last(asked'), 1, m)
      <4>1. w[Len(asked)] \o <<>> = w[Len(asked)]
        BY <3>9, NoBytes
      <4> QED
        BY <3>5, <3>8, <3>9, <3>10, <4>1 DEF Last
    <3>12. Sending(m)'
      BY <3>3, <3>5, <3>10, <3>0 DEF Sending, Last
    <3>13. Wholes(w)'
      BY <3>2, <3>5 DEF Stream, Wholes
    <3>14. Stream(w)'
      <4>1. m \in Nat /\ (asked' = <<>> => Request' = <<>>)
        BY <3>8, <3>10
      <4> QED
        BY <3>11, <3>12, <3>13, <4>1, Zenon DEF Stream
    <3> QED
      BY <3>7, <3>14 DEF StreamInv
  <2> QED
    BY <2>2, <2>3
<1>3. CASE ServerWrites
  <2>1. /\ server = "writen" /\ UNCHANGED <<kind, cvars, line, srio, heard, stopped>>
        /\ socket'["server"] = socket["server"] /\ closed'["server"] = closed["server"]
    BY <1>3, ServerWritesIs
  <2>2. Request' = Request /\ UNCHANGED <<asked, heard, client, at, stopped>>
    BY <2>1 DEF Request, cvars
  <2>3. PICK w : Stream(w)
    BY <2>1 DEF StreamInv, PlaceInv, ServerPlace
  <2>4. \A m \in Nat : Sending(m) => Sending(m)'
    BY <2>2 DEF Sending
  <2>5. Stream(w)'
    BY <2>2, <2>3, <2>4, StreamKept
  <2>6. HeardRight'
    BY <2>2 DEF HeardRight
  <2> QED
    BY <2>5, <2>6 DEF StreamInv
<1>4. CASE ServerBroken \/ Interrupted
  <2>1. Close("server") /\ UNCHANGED <<heard, cvars, stopped>>
    BY <1>4 DEF ServerBroken, Interrupted
  <2>2. ~ServerOpen'
    BY <2>1 DEF Close, ServerOpen, PlaceInv, Types, SocketType, Sides
  <2>3. HeardRight'
    BY <2>1 DEF HeardRight, cvars
  <2> QED
    BY <2>2, <2>3 DEF StreamInv
<1> QED
  BY <1>1, <1>2, <1>3, <1>4 DEF ServerSteps

-------------------------------------------------------------------------------
(***************************************************************************)
(* A multiclient and its server take turns.                                *)
(***************************************************************************)
LEMMA ShownKept ==
  ASSUME PlaceInv, ShownRight, Len(shown) <= Len(asked), shown' = shown,
         \A n \in 1..Len(asked) : asked'[n] = asked[n]
  PROVE  ShownRight'
<1>1. DOMAIN shown = 1..Len(shown) /\ Len(shown) \in Nat /\ Len(asked) \in Nat
  BY Lengths
<1>2. \A n \in DOMAIN shown : n \in 1..Len(asked)
  BY <1>1
<1> QED
  BY <1>2 DEF ShownRight

LEMMA TurnsKept ==
  ASSUME Turns, UNCHANGED <<cvars, heard, stopped>>, Answer' = Answer,
         closed'["client"] = closed["client"]
  PROVE  Turns'
<1>1. UNCHANGED <<client, buf, at, asked, heard, stopped>>
  BY DEF cvars
<1>2. (Quiet' <=> Quiet) /\ (Asking' <=> Asking)
  BY <1>1 DEF Quiet, Asking
<1>3. Answered(buf) => Answered(buf)'
  BY <1>1 DEF Answered
<1>4. Answered(SubSeq(buf, 1, at) \o Answer) => Answered(SubSeq(buf, 1, at) \o Answer)'
  BY <1>1 DEF Answered
<1> QED
  BY <1>1, <1>2, <1>3, <1>4 DEF Turns

\* Nothing is under way: no part of an answer is anywhere.
LEMMA AnswerIsEmpty ==
  ASSUME PlaceInv
  PROVE  /\ Answer \in Seq(Nat) /\ Answer = crio \o (socket["client"] \o out)
         /\ Answer = <<>> <=> crio = <<>> /\ socket["client"] = <<>> /\ out = <<>>
<1>1. crio \in Seq(Nat) /\ socket["client"] \in Seq(Nat) /\ out \in Seq(Nat)
  BY DEF PlaceInv, Types, ClientType, ServerType, SocketType, Sides
<1>2. Answer = crio \o (socket["client"] \o out) /\ socket["client"] \o out \in Seq(Nat)
  <2>1. Bytes(crio) /\ Bytes(socket["client"]) /\ Bytes(out)
    BY <1>1 DEF Bytes
  <2>2. Cat(Cat(crio, socket["client"]), out) = Cat(crio, Cat(socket["client"], out))
    BY <2>1, CatAssoc
  <2>3. socket["client"] \o out \in Seq(Nat)
    BY <1>1, ConcatProperties
  <2> QED
    BY <2>2, <2>3, Zenon DEF Answer, Cat
<1>3. Answer \in Seq(Nat)
  BY <1>1, <1>2, Assoc
<1>4. Answer = <<>> <=> crio = <<>> /\ socket["client"] \o out = <<>>
  <2> DEFINE y == socket["client"] \o out
  <2>1. y \in Seq(Nat)
    BY <1>2
  <2> HIDE DEF y
  <2>2. crio \o y = <<>> <=> crio = <<>> /\ y = <<>>
    BY <1>1, <2>1, ConcatEqualIffEmpty
  <2> QED
    BY <1>2, <2>2 DEF y
<1>5. socket["client"] \o out = <<>> <=> socket["client"] = <<>> /\ out = <<>>
  BY <1>1, ConcatEqualIffEmpty
<1> QED
  BY <1>2, <1>3, <1>4, <1>5

LEMMA OrderPut ==
  ASSUME PlaceInv, MultiInv, kind = "multiclient", client = "next", NEW p, Put(p)
  PROVE  MultiInv'
<1>1. /\ asked' = Append(asked, p) /\ client' = "write"
      /\ UNCHANGED <<kind, crio, shown, svars, socket, closed, stopped>>
  BY DEF Put
<1>2. /\ Len(asked) \in Nat /\ Len(asked') = Len(asked) + 1 /\ Len(shown) = Len(asked)
      /\ \A n \in 1..Len(asked) : asked'[n] = asked[n]
  <2>1. /\ Len(asked) \in Nat /\ Len(asked') = Len(asked) + 1
        /\ \A n \in 1..Len(asked) : asked'[n] = asked[n]
    BY <1>1, LenProperties DEF PlaceInv, Types, ClientType
  <2> QED
    BY <2>1 DEF MultiInv
<1>3. ASSUME ServerOpen' PROVE Turns' /\ ShownRight'
  <2>1. Quiet /\ ShownRight
    BY <1>1, <1>3 DEF MultiInv, Turns, ServerOpen
  <2>2. Asking'
    BY <1>1, <1>2, <2>1 DEF Quiet, Asking, Answer, svars
  <2>3. ShownRight'
    BY <1>1, <1>2, <2>1, ShownKept
  <2> QED
    BY <1>1, <2>2, <2>3 DEF Turns
<1>4. Len(shown') = Len(asked') - 1 /\ Len(shown') <= Len(asked')
  BY <1>1, <1>2
<1> QED
  BY <1>1, <1>3, <1>4 DEF MultiInv

LEMMA OrderSent ==
  ASSUME PlaceInv, MultiInv, kind = "multiclient", ClientWrites
  PROVE  MultiInv'
<1>1. /\ client = "write" /\ UNCHANGED <<kind, crio, asked, shown, svars, stopped>>
      /\ \/ client' = "read" /\ at' = 0
         \/ client' = "write"
      /\ \/ ServerOpen /\ UNCHANGED closed /\ socket'["client"] = socket["client"]
         \/ closed' = [closed EXCEPT !["server"] = "refused"]
  <2>1. socket \in [Sides -> Seq(Nat)]
    BY DEF PlaceInv, Types, SocketType
  <2>2. PICK k \in 1..(Len(Last(asked)) - at) :
              /\ \/ at' = 0 /\ client' = "read"
                 \/ client' = "write"
              /\ \/ /\ ServerOpen /\ UNCHANGED closed
                    /\ socket' = [socket EXCEPT !["server"] = @ \o SubSeq(Last(asked), at + 1, at + k)]
                 \/ /\ ~ServerOpen /\ UNCHANGED socket
                    /\ closed' = [closed EXCEPT !["server"] = "refused"]
    BY ClientWritesIs
  <2>3. client = "write" /\ UNCHANGED <<kind, crio, asked, shown, svars, stopped>>
    BY ClientWritesIs
  <2>4. \/ ServerOpen /\ UNCHANGED closed /\ socket'["client"] = socket["client"]
        \/ closed' = [closed EXCEPT !["server"] = "refused"]
    BY <2>1, <2>2 DEF Sides
  <2> QED
    BY <2>2, <2>3, <2>4
<1>2. ASSUME ServerOpen' PROVE Turns' /\ ShownRight'
  <2>1. ServerOpen /\ UNCHANGED closed /\ socket'["client"] = socket["client"]
    BY <1>1, <1>2 DEF ServerOpen, PlaceInv, Types, SocketType, Sides
  <2>2. Asking /\ ShownRight
    BY <1>1, <2>1 DEF MultiInv, Turns
  <2>3. Asking'
    BY <1>1, <2>1, <2>2 DEF Asking, Answer, svars
  <2>4. ShownRight'
    BY <1>1, <2>2 DEF ShownRight
  <2> QED
    BY <1>1, <2>3, <2>4 DEF Turns
<1> QED
  BY <1>1, <1>2 DEF MultiInv

\* A turn of rio_readnb moves a part of the answer into buf, or the last part.
LEMMA AnswerRead ==
  ASSUME PlaceInv, PlaceInv', MultiInv, ReadBuffer
  PROVE  MultiInv'
<1>1. /\ kind = "multiclient" /\ client = "read"
      /\ UNCHANGED <<kind, asked, shown, svars, closed, stopped>>
      /\ \/ at' < MAXLINE /\ client' = "read"
         \/ at' = MAXLINE /\ client' = "fputs"
      /\ crio \o socket["client"] # <<>>
      /\ SubSeq(buf', 1, at') \o (crio' \o socket'["client"])
           = SubSeq(buf, 1, at) \o (crio \o socket["client"])
  BY ReadBufferIs
<1>2. ASSUME ServerOpen' PROVE Turns' /\ ShownRight'
  <2>1. Turns /\ ShownRight
    BY <1>1, <1>2 DEF MultiInv, ServerOpen
  <2>2. ShownRight'
    BY <1>1, <2>1 DEF ShownRight
  <2> DEFINE had == SubSeq(buf, 1, at)
             has == SubSeq(buf', 1, at')
             was == crio \o socket["client"]
             is == crio' \o socket'["client"]
  <2>3. /\ had \in Seq(Nat) /\ has \in Seq(Nat) /\ Len(has) = at' /\ at' \in Nat
        /\ was \in Seq(Nat) /\ is \in Seq(Nat) /\ out \in Seq(Nat) /\ out' = out
    <3>1. had \in Seq(Nat)
      BY Sizes, Halves DEF PlaceInv, Types, ClientType
    <3>2. has \in Seq(Nat) /\ Len(has) = at' /\ at' \in Nat
      <4>1. buf' \in Seq(Nat) /\ at' \in 0..Len(buf') /\ at' \in Nat
        <5>1. ClientType'
          BY DEF PlaceInv, Types
        <5> QED
          BY <5>1, Sizes DEF ClientType
      <4> QED
        BY <4>1, Halves
    <3>3. /\ crio \in Seq(Nat) /\ socket["client"] \in Seq(Nat) /\ out \in Seq(Nat)
          /\ crio' \in Seq(Nat) /\ socket'["client"] \in Seq(Nat)
      BY DEF PlaceInv, Types, ClientType, ServerType, SocketType, Sides
    <3>4. was \in Seq(Nat) /\ is \in Seq(Nat)
      BY <3>3, Assoc
    <3> QED
      BY <1>1, <3>1, <3>2, <3>3, <3>4 DEF svars
  <2>4. Answer = was \o out /\ Answer' = is \o out
    BY <2>3 DEF Answer
  <2>5. was # <<>> /\ has \o is = had \o was
    BY <1>1
  <2> HIDE DEF had, has, was, is
  <2>6. Answer # <<>>
    BY <2>3, <2>4, <2>5, ConcatEqualIffEmpty
  <2>7. Answered(had \o Answer)
    BY <1>1, <2>1, <2>6 DEF Turns, Asking, had
  <2>8. has \o Answer' = had \o Answer
    <3>0. /\ had \in Seq(Nat) /\ has \in Seq(Nat) /\ was \in Seq(Nat) /\ is \in Seq(Nat)
          /\ out \in Seq(Nat)
      BY <2>3
    <3>1. (has \o is) \o out = has \o (is \o out)
      <4>1. Bytes(has) /\ Bytes(is) /\ Bytes(out)
        BY <3>0 DEF Bytes
      <4>2. Cat(Cat(has, is), out) = Cat(has, Cat(is, out))
        BY <4>1, CatAssoc
      <4> QED
        BY <4>2, Zenon DEF Cat
    <3>2. (had \o was) \o out = had \o (was \o out)
      <4>1. Bytes(had) /\ Bytes(was) /\ Bytes(out)
        BY <3>0 DEF Bytes
      <4>2. Cat(Cat(had, was), out) = Cat(had, Cat(was, out))
        BY <4>1, CatAssoc
      <4> QED
        BY <4>2, Zenon DEF Cat
    <3> QED
      BY <2>4, <2>5, <3>1, <3>2
  <2>9. Answered(SubSeq(buf, 1, at) \o Answer)'
    <3>1. heard' = heard /\ asked' = asked
      BY <1>1 DEF svars
    <3>2. SubSeq(buf', 1, at') \o Answer' = had \o Answer
      BY <2>8 DEF has
    <3> QED
      BY <2>7, <3>1, <3>2 DEF Answered
  <2>10. CASE client' = "read"
    BY <2>2, <2>9, <2>10 DEF Turns
  <2>11. CASE at' = MAXLINE /\ client' = "fputs"
    <3>1. has \o Answer' \in Answers(Head(Last(asked')), Len(asked')) /\ Len(heard') = Len(asked')
      BY <2>9 DEF Answered, has
    <3>2. Len(has \o Answer') = MAXLINE
      <4>1. Len(asked') \in Nat
        BY Lengths
      <4> QED
        BY <3>1, <4>1, AnswersAre
    <3>3. Answer' \in Seq(Nat)
      BY <2>3, <2>4, Assoc
    <3>4. Answer' = <<>>
      <4> DEFINE n == Len(Answer')
      <4>1. Len(has \o Answer') = Len(has) + n
        BY <2>3, <3>3, ConcatProperties
      <4>2. n \in Nat
        BY <3>3, LenProperties
      <4> HIDE DEF n
      <4>3. n = 0
        BY <2>3, <2>11, <3>2, <4>1, <4>2
      <4> QED
        BY <3>3, <4>3, NoBytes DEF n
    <3>5. has = buf'
      <4>1. buf' \in Seq(Nat) /\ Len(buf') = MAXLINE
        <5>1. buf' \in [1..MAXLINE -> Nat] /\ MAXLINE \in Nat
          BY Sizes DEF PlaceInv, Types, ClientType
        <5> HIDE DEF has
        <5> QED
          BY <5>1
      <4> QED
        BY <2>11, <4>1, SubSeqFull DEF has
    <3>6. has \o Answer' = buf'
      BY <2>3, <3>4, <3>5, NoBytes
    <3>7. Quiet' /\ Answered(buf)'
      BY <3>1, <3>4, <3>6 DEF Quiet, Answered
    <3> QED
      BY <2>2, <2>11, <3>7 DEF Turns
  <2> QED
    BY <1>1, <2>10, <2>11
<1> QED
  BY <1>1, <1>2 DEF MultiInv

LEMMA AnswerShown ==
  ASSUME PlaceInv, MultiInv, Fputs
  PROVE  MultiInv'
<1> SUFFICES ASSUME kind = "multiclient" PROVE MultiInv'
  BY DEF Fputs, MultiInv
<1>1. /\ client = "fputs" /\ shown' = Append(shown, CString(buf)) /\ client' = "next"
      /\ UNCHANGED <<kind, buf, at, crio, asked, svars, socket, closed, stopped>>
  BY DEF Fputs
<1>2. /\ Len(shown) \in Nat /\ Len(shown') = Len(shown) + 1 /\ Len(shown) = Len(asked) - 1
      /\ \A n \in 1..Len(shown) : shown'[n] = shown[n]
      /\ shown'[Len(shown) + 1] = CString(buf)
      /\ DOMAIN shown = 1..Len(shown) /\ DOMAIN shown' = 1..(Len(shown) + 1)
      /\ Len(asked) \in Nat
  <2>1. shown \in Seq(Seq(Nat)) /\ CString(buf) \in Seq(Nat) /\ Len(asked) \in Nat
    BY StringIs, LenProperties DEF PlaceInv, Types, ClientType
  <2>2. Len(shown) = Len(asked) - 1
    BY <1>1 DEF MultiInv
  <2> QED
    BY <1>1, <2>1, <2>2, AppendProperties, LenProperties
<1>3. ASSUME ServerOpen' PROVE Turns' /\ ShownRight'
  <2>1. Turns /\ ShownRight
    BY <1>1, <1>3 DEF MultiInv, ServerOpen
  <2>2. Quiet'
    BY <1>1, <2>1 DEF Turns, Quiet, Answer, svars
  <2>3. Answered(buf)
    BY <1>1, <2>1 DEF Turns
  <2>4. ASSUME NEW n \in DOMAIN shown'
        PROVE  shown'[n] \in {CString(a) : a \in Answers(Head(asked'[n]), n)}
    <3>1. CASE n \in 1..Len(shown)
      BY <1>1, <1>2, <2>1, <3>1 DEF ShownRight
    <3>2. CASE n = Len(shown) + 1
      <4>1. n = Len(asked)
        BY <1>2, <3>2
      <4>2. buf \in Answers(Head(asked[n]), n)
        BY <2>3, <4>1 DEF Answered, Last
      <4> QED
        BY <1>1, <1>2, <3>2, <4>2
    <3> QED
      BY <1>2, <2>4, <3>1, <3>2
  <2> QED
    BY <1>1, <2>2, <2>4 DEF Turns, ShownRight
<1>4. Len(shown') = Len(asked')
  BY <1>1, <1>2
<1> QED
  BY <1>1, <1>2, <1>3, <1>4 DEF MultiInv

LEMMA ClientTurns ==
  ASSUME PlaceInv, PlaceInv', MultiInv, ClientSteps \/ ClientStops
  PROVE  MultiInv'
<1>1. CASE Order
  BY <1>1, OrderPut DEF Order
<1>2. CASE Fgets
  BY <1>2 DEF Fgets, Put, MultiInv
<1>3. CASE ClientCloses
  <2> SUFFICES ASSUME kind = "multiclient" PROVE MultiInv'
    BY <1>3 DEF ClientCloses, MultiInv
  <2>1. /\ client = "next" /\ client' = "ended" /\ Close("client")
        /\ UNCHANGED <<crio, asked, shown, svars, socket, stopped, kind>>
    BY <1>3 DEF ClientCloses
  <2>2. ASSUME ServerOpen' PROVE Turns' /\ ShownRight'
    <3>1. ServerOpen
      BY <2>1, <2>2 DEF Close, ServerOpen, PlaceInv, Types, SocketType, Sides
    <3>2. Quiet /\ ShownRight
      BY <2>1, <3>1 DEF MultiInv, Turns
    <3>3. socket["client"] = <<>>
      BY <3>2, AnswerIsEmpty DEF Quiet
    <3>4. closed'["client"] = "fin"
      BY <2>1, <3>3 DEF Close, PlaceInv, Types, SocketType, Sides
    <3>5. Quiet' /\ ShownRight'
      BY <2>1, <3>2 DEF Quiet, ShownRight, Answer, svars
    <3> QED
      BY <2>1, <3>4, <3>5 DEF Turns
  <2> QED
    BY <2>1, <2>2 DEF MultiInv
<1>4. CASE ClientWrites
  <2>1. kind' = kind
    BY <1>4 DEF ClientWrites
  <2> QED
    BY <1>4, <2>1, OrderSent DEF MultiInv
<1>5. CASE ClientBroken
  <2>1. closed["server"] \in {"reset", "refused"} /\ Close("client")
    BY <1>5 DEF ClientBroken, ReadFails
  <2>2. ~ServerOpen'
    BY <2>1 DEF Close, ServerOpen, PlaceInv, Types, SocketType, Sides
  <2> QED
    BY <1>5, <2>2 DEF ClientBroken, MultiInv
<1>6. CASE ReadBuffer
  BY <1>6, AnswerRead
<1>7. CASE ReadByte
  BY <1>7 DEF ReadByte, MultiInv
<1>8. CASE ReadEnds
  <2>1. ~ServerOpen'
    BY <1>8 DEF ReadEnds, EndOfFile, ServerOpen
  <2> QED
    BY <1>8, <2>1 DEF ReadEnds, MultiInv
<1>9. CASE Fputs
  BY <1>9, AnswerShown
<1>10. CASE ClientStops
  <2>1. /\ client' = "ended" /\ stopped' /\ Close("client")
        /\ UNCHANGED <<kind, asked, shown, svars>>
    BY <1>10 DEF ClientStops
  <2>2. ServerOpen' => ServerOpen
    BY <2>1 DEF Close, ServerOpen, PlaceInv, Types, SocketType, Sides
  <2>3. Turns'
    BY <2>1 DEF Turns
  <2>4. ShownRight => ShownRight'
    BY <2>1 DEF ShownRight
  <2> QED
    BY <2>1, <2>2, <2>3, <2>4 DEF MultiInv
<1> QED
  BY <1>1, <1>2, <1>3, <1>4, <1>5, <1>6, <1>7, <1>8, <1>9, <1>10 DEF ClientSteps

\* The server may hear an order only while the client waits for its answer,
\* or when the client was killed.
LEMMA WhenItHears ==
  ASSUME Turns, PlaceInv, Len(heard) < Len(asked), client = "write" => Len(heard) + 1 < Len(asked)
  PROVE  \/ client = "read" /\ Asking /\ at = 0
         \/ client = "ended" /\ stopped
<1>1. Len(heard) \in Nat /\ Len(asked) \in Nat
  BY Lengths
<1>2. ~Quiet
  BY <1>1 DEF Quiet
<1>3. client # "write"
  BY <1>1 DEF Turns, Asking
<1>4. ~Answered(SubSeq(buf, 1, at) \o Answer)
  BY <1>1 DEF Answered
<1> QED
  BY <1>2, <1>3, <1>4 DEF Turns, PlaceInv, Types, ClientType

LEMMA OrderHeard ==
  ASSUME PlaceInv, PlaceInv', StreamInv, HeardRight, MultiInv, ServerReads, kind = "multiclient"
  PROVE  MultiInv'
<1>1. ServerRead
  BY ServerReadsIs
<1>2. /\ server = "readline" /\ UNCHANGED <<kind, cvars, stopped>>
      /\ srio' \in Seq(Nat) /\ socket'["server"] \in Seq(Nat)
      /\ socket'["client"] = socket["client"]
  BY <1>1 DEF ServerRead
<1>3. PICK b \in Nat :
       /\ \/ LineRead(Append(line, b)) /\ Obeyed(Append(line, b))
          \/ /\ ~LineRead(Append(line, b)) /\ line' = Append(line, b)
             /\ UNCHANGED <<server, out, heard, closed>>
       /\ Request = Append(line, b) \o (srio' \o socket'["server"])
  BY <1>1 DEF ServerRead
<1> DEFINE l == Append(line, b)
<1>4. ServerOpen /\ Turns /\ ShownRight
  BY <1>2 DEF MultiInv, PlaceInv, ServerPlace
<1>5. ShownRight' /\ UNCHANGED <<client, asked, shown, crio, buf, at>>
  BY <1>2, <1>4 DEF ShownRight, cvars
<1>6. CASE ~LineRead(l) /\ UNCHANGED <<server, out, heard, closed>>
  <2>1. Answer' = Answer
    BY <1>2, <1>5, <1>6 DEF Answer
  <2>2. Turns'
    BY <1>2, <1>4, <1>6, <2>1, TurnsKept
  <2> QED
    BY <1>2, <1>5, <2>2 DEF MultiInv
<1>7. CASE LineRead(l) /\ Obeyed(l)
  <2>1. PICK w : Stream(w)
    BY <1>4 DEF StreamInv
  <2>2. /\ Len(heard) < Len(asked) /\ l = asked[Len(heard) + 1]
        /\ client = "write" => Len(heard) + 1 < Len(asked)
    <3>1. srio' \o socket'["server"] \in Seq(Nat)
      BY <1>2, Assoc
    <3> QED
      BY <1>2, <1>3, <1>7, <2>1, <3>1, HearsLine
  <2>3. CASE client = "ended" /\ stopped
    <3>1. Turns'
      BY <1>2, <1>5, <2>3 DEF Turns
    <3> QED
      BY <1>2, <1>5, <3>1 DEF MultiInv
  <2>4. CASE client = "read" /\ Asking /\ at = 0
    <3>1. Len(heard) + 1 = Len(asked) /\ Len(heard) \in Nat /\ Len(asked) \in Nat
      BY <2>4, Lengths DEF Asking
    <3>2. l = Last(asked) /\ Len(asked) \in DOMAIN asked
      <4>1. DOMAIN asked = 1..Len(asked)
        BY Lengths
      <4>2. Len(asked) \in 1..Len(asked)
        BY <3>1
      <4> QED
        BY <2>2, <3>1, <4>1, <4>2 DEF Last
    <3>3. Head(l) \in {Show, Trade}
      <4>1. asked[Len(asked)] \in Orders
        BY <1>2, <3>2 DEF PlaceInv, ClientPlace
      <4> QED
        BY <3>2, <4>1, OrderIsPiece DEF Last
    <3>4. out' \in Answers(Head(l), Len(asked)) /\ Len(heard') = Len(asked) /\ out' \in Seq(Nat)
      BY <1>7, <3>1, <3>3 DEF Obeyed, Show, Trade, Exit, Other
    <3>5. crio = <<>> /\ socket["client"] = <<>>
      BY <2>4, AnswerIsEmpty DEF Asking
    <3>6. Answer' = out'
      <4>1. Answer' = (crio' \o socket'["client"]) \o out'
        BY DEF Answer
      <4>2. <<>> \o <<>> = <<>> /\ <<>> \o out' = out'
        BY <3>4, NoBytes
      <4> QED
        BY <1>2, <1>5, <3>5, <4>1, <4>2
    <3>7. SubSeq(buf', 1, at') \o Answer' = out'
      <4>1. at' = 0
        BY <1>5, <2>4
      <4>2. SubSeq(buf', 1, at') = <<>>
        BY <4>1, SubSeqEmpty
      <4> QED
        BY <3>4, <3>6, <4>2, NoBytes
    <3>8. Answered(SubSeq(buf, 1, at) \o Answer)'
      BY <1>5, <3>2, <3>4, <3>7 DEF Answered
    <3>9. Turns'
      BY <1>5, <2>4, <3>8 DEF Turns
    <3> QED
      BY <1>2, <1>5, <3>9 DEF MultiInv
  <2> QED
    BY <1>4, <2>2, <2>3, <2>4, WhenItHears
<1> QED
  BY <1>3, <1>6, <1>7

LEMMA ServerTurns ==
  ASSUME PlaceInv, PlaceInv', StreamInv, HeardRight, MultiInv, ServerSteps \/ Interrupted
  PROVE  MultiInv'
<1> SUFFICES ASSUME kind = "multiclient" PROVE MultiInv'
  BY DEF MultiInv, ServerSteps, ServerReads, ServerReadEnds, ServerWrites, ServerBroken, Interrupted
<1>1. CASE ServerReads
  BY <1>1, OrderHeard
<1>2. CASE ServerReadEnds
  <2>1. /\ server = "readline" /\ closed["client"] \in {"fin", "refused"}
        /\ UNCHANGED <<kind, cvars, stopped, srio, socket>> /\ Request = line
    BY <1>2, ServerReadEndsIs
  <2>2. ServerOpen /\ Turns /\ ShownRight /\ client = "ended"
    BY <2>1 DEF MultiInv, PlaceInv, ClientPlace, ServerPlace
  <2>3. CASE line = <<>>
    <3>1. Close("server")
      BY <1>2, <2>3, ServerReadEndsIs
    <3>2. ~ServerOpen'
      BY <3>1 DEF Close, ServerOpen, PlaceInv, Types, SocketType, Sides
    <3> QED
      BY <2>1, <3>2 DEF MultiInv, cvars
  <2>4. CASE line # <<>>
    <3>1. PICK w : Stream(w)
      BY <2>2 DEF StreamInv
    <3>2. Len(heard) + 1 = Len(asked)
      BY <2>1, <2>2, <2>4, <3>1, HearsEnd
    <3>3. Len(heard) \in Nat /\ Len(asked) \in Nat
      BY Lengths
    <3>4. stopped
      BY <2>2, <3>2, <3>3, WhenItHears
    <3>5. Turns' /\ ShownRight'
      BY <2>1, <2>2, <3>4 DEF Turns, ShownRight, cvars
    <3> QED
      BY <2>1, <2>2, <3>5 DEF MultiInv, cvars
  <2> QED
    BY <2>3, <2>4
<1>3. CASE ServerWrites
  <2>1. /\ server = "writen" /\ UNCHANGED <<kind, cvars, line, srio, heard, stopped>>
        /\ out' \in Seq(Nat) /\ out # <<>>
        /\ \/ /\ closed["client"] = "open" /\ UNCHANGED closed
              /\ socket'["client"] \o out' = socket["client"] \o out
           \/ closed["client"] = "fin"
    BY <1>3, ServerWritesIs, ServerHasOut
  <2>2. ServerOpen /\ Turns /\ ShownRight
    BY <2>1 DEF MultiInv, PlaceInv, ServerPlace
  <2>3. ShownRight'
    BY <2>1, <2>2 DEF ShownRight, cvars
  <2>4. Turns'
    <3>1. CASE UNCHANGED closed /\ socket'["client"] \o out' = socket["client"] \o out
      <4>1. Answer = crio \o (socket["client"] \o out)
        BY AnswerIsEmpty
      <4>2. Answer' = crio' \o (socket'["client"] \o out')
        <5>1. crio' \in Seq(Nat) /\ socket'["client"] \in Seq(Nat) /\ out' \in Seq(Nat)
          BY DEF PlaceInv, Types, ClientType, ServerType, SocketType, Sides
        <5>2. Bytes(crio') /\ Bytes(socket'["client"]) /\ Bytes(out')
          BY <5>1 DEF Bytes
        <5>3. Cat(Cat(crio', socket'["client"]), out') = Cat(crio', Cat(socket'["client"], out'))
          BY <5>2, CatAssoc
        <5> QED
          BY <5>3 DEF Answer, Cat
      <4>3. Answer' = Answer
        BY <2>1, <3>1, <4>1, <4>2 DEF cvars
      <4> QED
        BY <2>1, <2>2, <3>1, <4>3, TurnsKept
    <3>2. CASE closed["client"] = "fin"
      <4>1. client = "ended" /\ client' = "ended" /\ stopped' = stopped
        BY <2>1, <3>2 DEF PlaceInv, ClientPlace, cvars
      <4>2. stopped
        BY <2>1, <2>2, <4>1, AnswerIsEmpty DEF Turns, Quiet
      <4> QED
        BY <4>1, <4>2 DEF Turns
    <3> QED
      BY <2>1, <3>1, <3>2
  <2> QED
    BY <2>1, <2>2, <2>3, <2>4 DEF MultiInv, cvars
<1>4. CASE ServerBroken \/ Interrupted
  <2>1. Close("server") /\ UNCHANGED <<kind, cvars>>
    BY <1>4 DEF ServerBroken, Interrupted
  <2>2. ~ServerOpen'
    BY <2>1 DEF Close, ServerOpen, PlaceInv, Types, SocketType, Sides
  <2> QED
    BY <2>1, <2>2 DEF MultiInv, cvars
<1> QED
  BY <1>1, <1>2, <1>3, <1>4 DEF ServerSteps

-------------------------------------------------------------------------------
(***************************************************************************)
(* The process ends in an error only after a client that left something    *)
(* unread: a multiclient that is not killed closes when it has read all.   *)
(***************************************************************************)
Failed == server = "ended in an error"

LEMMA FailedIs ==
  /\ OthersServed <=> (Failed => /\ client = "ended" /\ (stopped \/ kind = "stockclient")
                                 /\ closed["client"] \in {"reset", "refused"})
  /\ Failed => server \notin {"readline", "writen", "closed", "interrupted"}
BY Zenon DEF OthersServed, Failed

LEMMA ClientServed ==
  ASSUME PlaceInv, OthersServed, ClientSteps \/ ClientStops
  PROVE  OthersServed'
<1>1. client # "ended"
  BY DEF ClientSteps, Order, Fgets, ClientCloses, ClientWrites, ClientBroken, ReadBuffer,
         ReadByte, ReadEnds, Fputs, ClientStops
<1>2. ~Failed
  BY <1>1, FailedIs
<1>3. server' = server
  BY DEF ClientSteps, Order, Fgets, Put, ClientCloses, ClientWrites, ClientBroken, ReadBuffer,
         ReadByte, ReadEnds, Fputs, ClientStops, svars
<1> QED
  BY <1>2, <1>3, Zenon DEF Failed, OthersServed

LEMMA ServerServed ==
  ASSUME PlaceInv, MultiInv, OthersServed, ServerSteps \/ Interrupted
  PROVE  OthersServed'
<1>1. CASE ServerBroken
  <2>1. /\ closed["client"] \in {"reset", "refused"} /\ server \in {"readline", "writen"}
        /\ Close("server") /\ UNCHANGED <<kind, cvars, stopped>>
    BY <1>1, Zenon DEF ServerBroken, ReadFails
  <2>2. client = "ended" /\ kind \in {"multiclient", "stockclient"} /\ ServerOpen
    BY <2>1 DEF PlaceInv, ClientPlace, ServerPlace, Types, ClientType
  <2>3. stopped \/ kind = "stockclient"
    BY <2>1, <2>2 DEF MultiInv, Turns
  <2>4. closed'["client"] = closed["client"]
    BY <2>1 DEF Close, PlaceInv, Types, SocketType, Sides
  <2>5. client' = "ended" /\ (stopped' \/ kind' = "stockclient")
        /\ closed'["client"] \in {"reset", "refused"}
    BY <2>1, <2>2, <2>3, <2>4 DEF cvars
  <2> QED
    BY <2>5, Zenon DEF OthersServed
<1>2. CASE ServerReads \/ ServerReadEnds
  <2>1. server = "readline"
    BY <1>2 DEF ServerReads, ServerReadEnds
  <2>2. server' \in {"readline", "writen", "closed"}
    BY <1>2, <2>1 DEF ServerReads, ServerReadEnds, Obey
  <2> QED
    BY <2>2, Zenon DEF OthersServed
<1>3. CASE ServerWrites
  <2>1. server' \in {"readline", "writen"}
    BY <1>3 DEF ServerWrites
  <2> QED
    BY <2>1, Zenon DEF OthersServed
<1>4. CASE Interrupted
  <2>1. server' = "interrupted"
    BY <1>4 DEF Interrupted
  <2> QED
    BY <2>1, Zenon DEF OthersServed
<1> QED
  BY <1>1, <1>2, <1>3, <1>4 DEF ServerSteps

-------------------------------------------------------------------------------
(***************************************************************************)
(* The theorems.                                                           *)
(***************************************************************************)
LEMMA InitInv ==
  ASSUME Init
  PROVE  Inv
<1>1. /\ kind \in {"multiclient", "stockclient"} /\ client = "next" /\ at = 0
      /\ buf = [i \in 1..MAXLINE |-> Behind]
      /\ server = "readline" /\ line = <<>> /\ out = <<>> /\ crio = <<>> /\ srio = <<>>
      /\ socket = [s \in Sides |-> <<>>] /\ closed = [s \in Sides |-> "open"]
      /\ stopped = FALSE /\ asked = <<>> /\ heard = <<>> /\ shown = <<>>
  BY DEF Init
<1>2. /\ Len(<<>>) = 0 /\ DOMAIN <<>> = {} /\ <<>> \in Seq(Nat) /\ <<>> \in Seq(Pieces)
      /\ <<>> \in Seq(Seq(Nat)) /\ <<>> \o <<>> = <<>>
  OBVIOUS
<1>3. PlaceInv
  <2>1. ClientType
    BY <1>1, <1>2, Sizes DEF ClientType, Behind
  <2>2. ServerType
    <3>1. server \in {"readline", "writen", "closed", "interrupted", "ended in an error"}
      BY <1>1, Zenon
    <3> QED
      BY <1>1, <1>2, <3>1, Sizes DEF ServerType
  <2>3. SocketType
    <3>1. socket \in [Sides -> Seq(Nat)] /\ socket["client"] = <<>> /\ socket["server"] = <<>>
      BY <1>1, <1>2 DEF Sides
    <3>2. Len(<<>>) <= AnswerRoom /\ Len(<<>>) <= RequestRoom
      BY <1>2, Sizes
    <3>3. closed \in [Sides -> {"open", "fin", "reset", "refused"}] /\ stopped \in BOOLEAN
      BY <1>1
    <3> QED
      BY <3>1, <3>2, <3>3 DEF SocketType
  <2>4. ClientPlace
    BY <1>1, <1>2 DEF ClientPlace, Sides
  <2>5. ServerPlace
    BY <1>1, <1>2, Sizes DEF ServerPlace, ServerOpen, Sides
  <2> QED
    BY <2>1, <2>2, <2>3, <2>4, <2>5 DEF PlaceInv, Types
<1>4. StreamInv
  <2>1. PICK w : w = [n \in 0..0 |-> <<>>]
    OBVIOUS
  <2>2. Request = <<>>
    BY <1>1, <1>2 DEF Request, Sides
  <2>3. Wholes(w)
    <3>1. w \in [0..Len(asked) -> Seq(Nat)] /\ w[0] = <<>>
      BY <1>1, <1>2, <2>1
    <3>2. \A n \in 1..Len(asked) : w[n] = w[n - 1] \o asked[n]
      BY <1>1, <1>2
    <3>3. \A i, n \in 0..Len(asked) : i <= n => \E x \in Seq(Nat) : w[n] = w[i] \o x
      <4>1. w[0] = w[0] \o <<>>
        BY <1>2, <3>1
      <4>2. \A i \in 0..Len(asked) : i = 0
        BY <1>1, <1>2
      <4> QED
        BY <1>2, <4>1, <4>2
    <3> QED
      BY <3>1, <3>2, <3>3, Zenon DEF Wholes
  <2>4. Stream(w)
    BY <1>1, <2>2, <2>3 DEF Stream
  <2> QED
    BY <2>4 DEF StreamInv
<1>5. HeardRight
  BY <1>1, <1>2 DEF HeardRight
<1>6. MultiInv
  <2>1. Answer = <<>>
    BY <1>1, <1>2 DEF Answer, Sides
  <2>2. Quiet
    BY <1>1, <2>1 DEF Quiet
  <2>3. Turns /\ ShownRight
    BY <1>1, <1>2, <2>2 DEF Turns, ShownRight
  <2> QED
    BY <1>1, <1>2, <2>3 DEF MultiInv
<1>7. OthersServed
  BY <1>1, Zenon DEF OthersServed
<1> QED
  BY <1>3, <1>4, <1>5, <1>6, <1>7 DEF Inv

LEMMA Stutter ==
  ASSUME Inv, UNCHANGED vars
  PROVE  Inv'
<1>1. UNCHANGED <<kind, client, buf, at, crio, asked, shown, server, line, out, srio, heard,
                  socket, closed, stopped>>
  BY DEF vars, cvars, svars
<1>2. PlaceInv'
  <2>1. Types'
    BY <1>1, TypeFrames DEF Inv, PlaceInv, Types, cvars, svars
  <2>2. ClientPlace'
    BY <1>1 DEF Inv, PlaceInv, ClientPlace
  <2>3. ServerPlace'
    BY <1>1 DEF Inv, PlaceInv, ServerPlace, ServerOpen
  <2> QED
    BY <2>1, <2>2, <2>3 DEF PlaceInv
<1>3. StreamInv'
  <2> SUFFICES ASSUME ServerOpen' PROVE \E w : Stream(w)'
    BY DEF StreamInv
  <2>1. PICK w : Stream(w)
    BY <1>1 DEF Inv, StreamInv, ServerOpen
  <2>2. \A m \in Nat : Sending(m) => Sending(m)'
    BY <1>1 DEF Sending
  <2>3. Request' = Request
    BY <1>1 DEF Request
  <2> QED
    BY <1>1, <2>1, <2>2, <2>3, StreamKept
<1>4. HeardRight'
  BY <1>1 DEF Inv, HeardRight
<1>5. MultiInv'
  <2>1. Answer' = Answer
    BY <1>1 DEF Answer
  <2>2. Turns => Turns'
    BY <1>1, <2>1, TurnsKept DEF cvars
  <2>3. ShownRight => ShownRight'
    BY <1>1 DEF ShownRight
  <2> QED
    BY <1>1, <2>2, <2>3 DEF Inv, MultiInv, ServerOpen
<1>6. OthersServed'
  BY <1>1, Zenon DEF Inv, OthersServed
<1> QED
  BY <1>2, <1>3, <1>4, <1>5, <1>6 DEF Inv

\* The invariant holds from the start, through every step of either side.
THEOREM Invariance == FairSpec => []Inv
<1>1. Init => Inv
  BY InitInv
<1>2. Inv /\ [Next]_vars => Inv'
  <2> SUFFICES ASSUME Inv, [Next]_vars PROVE Inv'
    OBVIOUS
  <2>0. PlaceInv /\ StreamInv /\ HeardRight /\ MultiInv /\ OthersServed
    BY DEF Inv
  <2>1. CASE ClientSteps \/ ClientStops
    <3>1. PlaceInv'
      BY <2>0, <2>1, ClientStepsPlace
    <3>2. StreamInv' /\ HeardRight'
      BY <2>0, <2>1, <3>1, ClientStream
    <3>3. MultiInv'
      BY <2>0, <2>1, <3>1, ClientTurns
    <3>4. OthersServed'
      BY <2>0, <2>1, ClientServed
    <3> QED
      BY <3>1, <3>2, <3>3, <3>4 DEF Inv
  <2>2. CASE ServerSteps \/ Interrupted
    <3>1. PlaceInv'
      BY <2>0, <2>2, ServerStepsPlace
    <3>2. StreamInv' /\ HeardRight'
      BY <2>0, <2>2, <3>1, ServerStream
    <3>3. MultiInv'
      BY <2>0, <2>2, <3>1, ServerTurns
    <3>4. OthersServed'
      BY <2>0, <2>2, ServerServed
    <3> QED
      BY <3>1, <3>2, <3>3, <3>4 DEF Inv
  <2>3. CASE UNCHANGED vars
    BY <2>3, Stutter
  <2> QED
    BY <2>1, <2>2, <2>3 DEF Next
<1> QED
  BY <1>1, <1>2, PTL DEF FairSpec

\* The lines the server reads are the pieces the client sent, in order, each
\* whole, and the buffers keep their sizes.
THEOREM LinesAreWhole == FairSpec => []LinesAsSent
<1>1. Inv => LinesAsSent
  <2> SUFFICES ASSUME Inv PROVE LinesAsSent
    OBVIOUS
  <2>1. PlaceInv /\ HeardRight
    BY DEF Inv
  <2>2. buf \in [1..MAXLINE -> Nat] /\ MAXLINE \in Nat
    BY <2>1, Sizes DEF PlaceInv, Types, ClientType
  <2>3. Len(buf) = MAXLINE
    BY <2>2
  <2>4. /\ client \in {"next", "write", "read", "fputs", "ended"} /\ at \in 0..MAXLINE
        /\ Len(crio) < RIO_BUFSIZE
    BY <2>1 DEF PlaceInv, Types, ClientType
  <2>5. /\ server \in {"readline", "writen", "closed", "interrupted", "ended in an error"}
        /\ Len(srio) < RIO_BUFSIZE
    BY <2>1, Zenon DEF PlaceInv, Types, ServerType
  <2>6. /\ Len(socket["client"]) <= AnswerRoom /\ Len(socket["server"]) <= RequestRoom
        /\ \A s \in Sides : closed[s] \in {"open", "fin", "reset", "refused"}
    BY <2>1 DEF PlaceInv, Types, SocketType
  <2>7. TypeOK
    BY <2>3, <2>4, <2>5, <2>6, Zenon DEF TypeOK
  <2> QED
    BY <2>1, <2>7, Zenon DEF HeardRight, LinesAsSent
<1> QED
  BY <1>1, Invariance, PTL

\* No client ends the process for the others by what it sends, and a
\* multiclient that is left alone not by leaving either.
THEOREM OthersStayServed == FairSpec => []OthersServed
<1>1. Inv => OthersServed
  BY DEF Inv
<1> QED
  BY <1>1, Invariance, PTL

\* What a multiclient prints after its n-th order is the whole answer to that
\* order, as long as the server's end is open.
THEOREM MulticlientInStep == FairSpec => [](kind = "multiclient" => InStep)
<1>1. Inv => (kind = "multiclient" => InStep)
  BY DEF Inv, MultiInv, ShownRight, ServerOpen, InStep
<1> QED
  BY <1>1, Invariance, PTL

===============================================================================
