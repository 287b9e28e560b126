--------------------------- MODULE MatchingEngine ---------------------------
(***************************************************************************)
(* The backend's order books and the worker that takes their trades to     *)
(* settlement (src/backend/src/engine).  addOrder runs to its end without  *)
(* awaiting anything, so it is one step; the worker's interval timer is    *)
(* another actor that empties the same list of trades.  What the worker    *)
(* does with a batch is a stub that only logs it, in a try block that      *)
(* cannot throw, so its catch block is not reached and not modelled.       *)
(***************************************************************************)
EXTENDS Integers, SequencesExt, ShareUnits

CONSTANTS
  Contracts,        \* contract ids orders are placed under
  LimitPrices,      \* limit prices of orders
  OrderAmounts,     \* amounts of orders
  Timestamps,       \* o.timestamp is the caller's: equal or late ones occur
  MaxOrders         \* bound on the orders submitted

ASSUME MatchAssumption ==
  /\ LimitPrices \subseteq Nat
  /\ OrderAmounts \subseteq Nat \ {0}
  /\ Timestamps \subseteq Nat
  /\ MaxOrders \in Nat

VARIABLES
  books,            \* this.books: resting orders per contract and side
  trades,           \* this.trades: trades nobody has taken yet
  worker,           \* whether the worker's interval timer is set
  submitted,        \* history: the orders as they were submitted, by id
  settled           \* history: the trades handed over, in order

matchVars == <<books, trades, worker, submitted, settled>>

Sides == {"buy", "sell"}
Order == [id : 1..MaxOrders, contract : Contracts, side : Sides,
          price : LimitPrices, amount : Nat, timestamp : Timestamps]
Trade == [contract : Contracts, maker : 1..MaxOrders, taker : 1..MaxOrders,
          price : LimitPrices, amount : Nat]

Opposite(side) == IF side = "buy" THEN "sell" ELSE "buy"

MatchInit ==
  /\ books = [c \in Contracts |-> [s \in Sides |-> <<>>]]
  /\ trades = <<>>
  /\ worker = FALSE
  /\ submitted = <<>>
  /\ settled = <<>>

-----------------------------------------------------------------------------
(* Mutant of Crosses: equal prices do not trade. *)
CrossesStrictly(o, best) ==
  IF o.side = "buy" THEN o.price > best.price ELSE o.price < best.price

Crosses(o, best) ==
  IF o.side = "buy" THEN o.price >= best.price ELSE o.price <= best.price

(* Mutant of Precedes: the time of an order is not compared. *)
PrecedesByPrice(a, b) ==
  IF a.side = "buy" THEN a.price >= b.price ELSE a.price <= b.price

(* The comparison of the sort; equal orders keep their places, as          *)
(* Array.prototype.sort is stable.                                         *)
Precedes(a, b) ==
  \/ IF a.side = "buy" THEN a.price > b.price ELSE a.price < b.price
  \/ a.price = b.price /\ a.timestamp <= b.timestamp

(* Mutant of MatchBest: a maker is taken away though only partly filled. *)
MatchBestWhole(o, done) ==
  LET best == Head(done.book)
      n == IF done.rest < best.amount THEN done.rest ELSE best.amount
  IN  IF done.rest = 0 \/ ~Crosses(o, best) THEN done
      ELSE [rest |-> done.rest - n, book |-> Tail(done.book),
            trades |-> Append(done.trades,
              [contract |-> o.contract, maker |-> best.id,
               taker |-> o.id, price |-> best.price, amount |-> n])]

(* One iteration of the loop of addOrder: it ends the loop, or trades with *)
(* the best order and takes it away, wholly or partly.                     *)
MatchBest(o, done) ==
  LET best == Head(done.book)
      n == IF done.rest < best.amount THEN done.rest ELSE best.amount
  IN  IF done.rest = 0 \/ ~Crosses(o, best) THEN done
      ELSE [rest |-> done.rest - n,
            book |-> IF n = best.amount THEN Tail(done.book)
                     ELSE [done.book EXCEPT ![1].amount = @ - n],
            trades |-> Append(done.trades,
              [contract |-> o.contract, maker |-> best.id,
               taker |-> o.id, price |-> best.price, amount |-> n])]

(* The loop of addOrder against the orders resting on the other side: no   *)
(* iteration is without effect before the last.                            *)
Matched(o, resting) ==
  LET walk[i \in 0..Len(resting)] ==
        IF i = 0 THEN [rest |-> o.amount, book |-> resting, trades |-> <<>>]
        ELSE MatchBest(o, walk[i - 1])
  IN  walk[Len(resting)]

(* push, then sort: the side was sorted before.                            *)
Inserted(o, resting) ==
  LET ahead == Cardinality({i \in 1..Len(resting) : Precedes(resting[i], o)})
  IN  InsertAt(resting, ahead + 1, o)

AddOrder(o) ==
  LET m == Matched(o, books[o.contract][Opposite(o.side)])
      left == [o EXCEPT !.amount = m.rest]
  IN  /\ books' = [books EXCEPT
           ![o.contract][Opposite(o.side)] = m.book,
           ![o.contract][o.side] = IF m.rest > 0 THEN Inserted(left, @) ELSE @]
      /\ trades' = trades \o m.trades
      /\ submitted' = Append(submitted, o)
      /\ UNCHANGED <<worker, settled>>

SubmitOrder ==
  /\ Len(submitted) < MaxOrders
  /\ \E c \in Contracts, s \in Sides, p \in LimitPrices, n \in OrderAmounts,
        t \in Timestamps :
       AddOrder([id |-> Len(submitted) + 1, contract |-> c, side |-> s,
                 price |-> p, amount |-> n, timestamp |-> t])

StartWorker == worker' = TRUE
               /\ UNCHANGED <<books, trades, submitted, settled>>

StopWorker == worker' = FALSE
              /\ UNCHANGED <<books, trades, submitted, settled>>

(* One tick of the interval: getPendingTrades empties the list, and the    *)
(* batch is handed over.                                                   *)
SettleBatch ==
  /\ worker /\ trades # <<>>
  /\ trades' = <<>>
  /\ settled' = settled \o trades
  /\ UNCHANGED <<books, worker, submitted>>

MatchNext ==
  \/ SubmitOrder
  \/ StartWorker
  \/ StopWorker
  \/ SettleBatch

MatchSpec == MatchInit /\ [][MatchNext]_matchVars

-----------------------------------------------------------------------------
MatchTypeOK ==
  /\ books \in [Contracts -> [Sides -> Seq(Order)]]
  /\ trades \in Seq(Trade) /\ settled \in Seq(Trade)
  /\ worker \in BOOLEAN
  /\ submitted \in Seq(Order) /\ Len(submitted) <= MaxOrders

(* The amounts of order id in a sequence of trades, and at rest in a book. *)
TradedAmount(id, log) ==
  Total([i \in DOMAIN log |->
           IF id \in {log[i].maker, log[i].taker} THEN log[i].amount ELSE 0])
AtRest(id, book) ==
  Total([i \in DOMAIN book |-> IF book[i].id = id THEN book[i].amount ELSE 0])
RestingAmount(id) == AtRest(id, books[submitted[id].contract][submitted[id].side])

(* Every share of every order is at rest in its book or in exactly one     *)
(* trade, taken by the worker or not: partial fills over several orders    *)
(* and price levels, from either side, lose and double none (addOrder and  *)
(* settle share the list of trades).                                       *)
OrdersConserved ==
  \A id \in 1..Len(submitted) :
    submitted[id].amount =
      RestingAmount(id) + TradedAmount(id, trades) + TradedAmount(id, settled)

(* No book is left with a bid that reaches an ask: the loop of addOrder    *)
(* stops only when nothing more can trade.                                 *)
BooksUncrossed ==
  \A c \in Contracts : \A i \in 1..Len(books[c]["buy"]), j \in 1..Len(books[c]["sell"]) :
    books[c]["buy"][i].price < books[c]["sell"][j].price

(* a has priority over b: better price, or the same price and earlier by   *)
(* the callers' clocks, or by arrival when these agree.                    *)
Outranks(a, b) ==
  \/ IF a.side = "buy" THEN a.price > b.price ELSE a.price < b.price
  \/ /\ a.price = b.price
     /\ \/ a.timestamp < b.timestamp
        \/ a.timestamp = b.timestamp /\ a.id < b.id

(* Price-time priority (the sort of addOrder): a new trade never leaves on *)
(* the maker's side an order with priority over the maker.                 *)
PriceTimePriority ==
  [][\A i \in Len(trades) + 1 .. Len(trades') :
       LET t == trades'[i]
           maker == submitted'[t.maker]
       IN  \A j \in 1..Len(books'[t.contract][maker.side]) :
             ~Outranks(submitted'[books'[t.contract][maker.side][j].id], maker)]_matchVars
=============================================================================
