---------------------------- MODULE StockExchange ----------------------------
(***************************************************************************)
(* What a stock server promises its clients and its operator, whatever its *)
(* threads or its event loop do to keep the promise:                       *)
(*                                                                         *)
(*  - an order to buy or to sell is decided once, in one step, against the *)
(*    ledger of that moment, and the client is told that decision;         *)
(*  - stock.txt is only touched when nobody is connected, and a complete   *)
(*    stock.txt is the ledger of such a moment.                            *)
(***************************************************************************)
EXTENDS Integers

CONSTANTS
  Clients,    \* the connections there may be
  Items,      \* the ids of the stocks
  Orders,     \* the orders clients send: records [cmd, id, count]
  InitLedger, \* the stocks the server starts with
  Torn        \* what an incomplete stock.txt is read as

VARIABLES
  ledger,     \* how many of each item are left
  session,    \* what is going on with each client
  book        \* what stock.txt says: a ledger, or Torn

vars == <<ledger, session, book>>

Out  == [at |-> "out"]
Idle == [at |-> "idle"]
Asked(order)         == [at |-> "asked", order |-> order]
Told(order, verdict) == [at |-> "told", order |-> order, verdict |-> verdict]

Init ==
  /\ ledger = InitLedger /\ book = InitLedger
  /\ session = [c \in Clients |-> Out]

Connect(c) ==
  /\ session[c] = Out
  /\ session' = [session EXCEPT ![c] = Idle]
  /\ UNCHANGED <<ledger, book>>

Ask(c, order) ==
  /\ session[c] = Idle
  /\ session' = [session EXCEPT ![c] = Asked(order)]
  /\ UNCHANGED <<ledger, book>>

Verdict(order) ==
  IF order.id \notin Items THEN "invalid"
  ELSE IF order.cmd = "buy" /\ ledger[order.id] < order.count THEN "short"
  ELSE "success"

Change(order) == IF order.cmd = "buy" THEN - order.count ELSE order.count

Decide(c, order) ==
  /\ session[c] = Asked(order)
  /\ session' = [session EXCEPT ![c] = Told(order, Verdict(order))]
  /\ ledger' = IF Verdict(order) = "success"
               THEN [ledger EXCEPT ![order.id] = @ + Change(order)]
               ELSE ledger
  /\ UNCHANGED book

Answer(c) ==
  /\ session[c].at = "told"
  /\ session' = [session EXCEPT ![c] = Idle]
  /\ UNCHANGED <<ledger, book>>

Leave(c) ==
  /\ session[c] = Idle
  /\ session' = [session EXCEPT ![c] = Out]
  /\ UNCHANGED <<ledger, book>>

NobodyIn == \A c \in Clients : session[c] = Out

Write ==
  /\ NobodyIn
  /\ book' \in {Torn, ledger}
  /\ UNCHANGED <<ledger, session>>

Next ==
  \/ Write
  \/ \E c \in Clients :
       \/ Connect(c) \/ Answer(c) \/ Leave(c)
       \/ \E order \in Orders : Ask(c, order) \/ Decide(c, order)

Spec == Init /\ [][Next]_vars
==============================================================================
