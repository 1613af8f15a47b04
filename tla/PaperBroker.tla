------------------------------ MODULE PaperBroker ------------------------------
(***************************************************************************)
(* The paper account behind CoinbaseBrokerAdapter                          *)
(* (qtrader/execution/brokers/coinbase.py) without a shared simulation     *)
(* engine: submit_order sleeps for the simulated latency and then fills,   *)
(* every fill starts a task that copies the account to Redis, and          *)
(* get_paper_balance copies Redis back into the account.                   *)
(*                                                                         *)
(* A command sent to Redis is served some time after it was sent and on    *)
(* its own connection, so commands of two tasks may be served in any order.*)
(* Prices are integers: the unit is fine enough for every average entry    *)
(* price of the checked instances to be a whole number.                    *)
(***************************************************************************)
EXTENDS Amounts, FiniteSets, Functions

CONSTANTS
  Order,            \* orders submitted, each once: id, asset, side, qty, type, price
  Quote,            \* quotes the market may show: bid, ask; 0 is "no quote"
  FirstQuote,       \* asset -> quote before the first ticker
  Reader,           \* calls of get_paper_balance()
  SlippageDivisor,  \* 10000 / paper_slippage_bps
  FeePercent,       \* 100 * performance_fee_rate
  InitialBalance,
  UseRedis,         \* a Redis client is configured
  MaxSubmissions,   \* bound: how many of the orders are submitted
  MaxEvents,        \* bound: ticker updates, cancels, resets and restarts together
  Absent            \* no such key or field in Redis

Asset == {o.asset : o \in Order}

ASSUME BrokerAssumption ==
  /\ IsFiniteSet(Order)
  /\ SlippageDivisor \in Nat \ {0} /\ FeePercent \in Nat
  /\ InitialBalance \in Nat /\ MaxSubmissions \in Nat /\ MaxEvents \in Nat
  /\ UseRedis \in BOOLEAN
  /\ \A o \in Order : o.side \in {"BUY", "SELL"} /\ o.qty \in Nat \ {0}
                      /\ o.type \in {"MARKET", "LIMIT"} /\ o.price \in Nat
  /\ \A q \in Quote : q.bid \in Nat /\ q.ask \in Nat
  /\ FirstQuote \in [Asset -> Quote]
  /\ Absent \notin Int

VARIABLES
  account,    \* paper_account: cash, positions, averages, realized, fees, streaks
  quotes,     \* _quotes
  book,       \* keys of paper_account.orders
  submission, \* state of each submit_order() call
  redis,      \* paper_cash and the hash paper_positions
  sync,       \* the _sync_paper_to_redis task of each fill
  balance,    \* state of each get_paper_balance() call
  fills,      \* history: the fills, with price
  resets,     \* history: reset_paper_account() was called
  overwritten,\* history: a balance read or a restart changed the account
  events      \* ticker updates, cancels, resets and restarts so far

vars == <<account, quotes, book, submission, redis, sync, balance,
          fills, resets, overwritten, events>>

NewAccount ==
  [cash |-> InitialBalance, pos |-> [s \in Asset |-> 0], avg |-> [s \in Asset |-> 0],
   realized |-> 0, commissions |-> 0, winStreak |-> 0, lossStreak |-> 0]

Init ==
  /\ account = NewAccount
  /\ quotes = FirstQuote
  /\ book = {}
  /\ submission = [o \in Order |-> "new"]
  /\ redis = [cash |-> Absent, pos |-> [s \in Asset |-> Absent]]
  /\ sync = [o \in Order |-> [pc |-> "none", value |-> 0]]
  /\ balance = [r \in Reader |-> [pc |-> "idle", cash |-> Absent, pos |-> redis.pos]]
  /\ fills = {}
  /\ resets = FALSE
  /\ overwritten = FALSE
  /\ events = 0

-----------------------------------------------------------------------------
FirstNonZero(a, b) == IF a # 0 THEN a ELSE b

(* The side of the quote an order trades against. *)
Touch(o) == IF o.side = "BUY" THEN quotes[o.asset].ask ELSE quotes[o.asset].bid

(* Mutant: a limit sell fills above the bid only. *)
CrossedWrong(o) == Touch(o) > 0 /\ o.price >= Touch(o)

Crossed(o) ==
  /\ Touch(o) > 0
  /\ Sign(o.side) * o.price >= Sign(o.side) * Touch(o)

Fillable(o) == o.type = "LIMIT" /\ o.price # 0 => Crossed(o)

(* Market orders pay slippage; a limit order fills at the quote; an order   *)
(* without a price fills at the middle of the quote, or at zero.            *)
FillPrice(o) ==
  IF o.type = "MARKET"
  THEN LET base == FirstNonZero(Touch(o), o.price)
       IN  base + Sign(o.side) * (base \div SlippageDivisor)
  ELSE IF o.price # 0 THEN Touch(o)
  ELSE IF quotes[o.asset].bid > 0 /\ quotes[o.asset].ask > 0
       THEN (quotes[o.asset].bid + quotes[o.asset].ask) \div 2
       ELSE 0

Increases(a, o) == Sign(o.side) * a.pos[o.asset] >= 0
ClosingQty(a, o) ==
  IF o.qty < Abs(a.pos[o.asset]) THEN o.qty ELSE Abs(a.pos[o.asset])
GrossProfit(a, o, price) ==
  Sign(o.side) * (a.avg[o.asset] - price) * ClosingQty(a, o)

(* Mutant: a flipped position keeps the old average. *)
UpdatePositionKeepsAverage(a, o, price) ==
  LET s == o.asset
      sgn == Sign(o.side)
      new == a.pos[s] + sgn * o.qty
      moved == [a EXCEPT !.pos[s] = new]
      realized == [moved EXCEPT !.realized =
                     @ + IF a.avg[s] > 0 THEN GrossProfit(a, o, price) ELSE 0]
  IN IF Increases(a, o)
     THEN [moved EXCEPT !.avg[s] = (@ * Abs(a.pos[s]) + price * o.qty) \div Abs(new),
                        !.cash = @ - sgn * price * o.qty]
     ELSE IF new = 0 THEN [realized EXCEPT !.avg[s] = 0]
     ELSE IF sgn * new > 0
          THEN [realized EXCEPT !.cash = @ - sgn * price * Abs(new)]
          ELSE [realized EXCEPT !.cash = @ - sgn * price * o.qty]

(* PaperAccount.update_position: opening trades move the average and pay    *)
(* cash; closing trades realize profit, pay cash when some of the position *)
(* stays open, and on a flip pay for the newly opened part only.            *)
UpdatePosition(a, o, price) ==
  LET s == o.asset
      sgn == Sign(o.side)
      new == a.pos[s] + sgn * o.qty
      moved == [a EXCEPT !.pos[s] = new]
      realized == [moved EXCEPT !.realized =
                     @ + IF a.avg[s] > 0 THEN GrossProfit(a, o, price) ELSE 0]
  IN IF Increases(a, o)
     THEN [moved EXCEPT !.avg[s] = (@ * Abs(a.pos[s]) + price * o.qty) \div Abs(new),
                        !.cash = @ - sgn * price * o.qty]
     ELSE IF new = 0 THEN [realized EXCEPT !.avg[s] = 0]
     ELSE IF sgn * new > 0
          THEN [realized EXCEPT !.avg[s] = price, !.cash = @ - sgn * price * Abs(new)]
          ELSE [realized EXCEPT !.cash = @ - sgn * price * o.qty]

(* Mutant: the two streaks share a counter that goes down on a loss. *)
RecordLossBelowZero(a) == [a EXCEPT !.winStreak = @ - 1, !.lossStreak = 0]

(* AdaptiveConfig.record_win and record_loss. *)
RecordWin(a) == [a EXCEPT !.winStreak = @ + 1, !.lossStreak = 0]
RecordLoss(a) == [a EXCEPT !.lossStreak = @ + 1, !.winStreak = 0]

(* An exit with a gross profit pays the performance fee and is a win.       *)
Settle(a, o, price) ==
  LET profit == GrossProfit(a, o, price)
  IN IF Increases(a, o) THEN a
     ELSE IF profit > 0
          THEN [RecordWin(a) EXCEPT !.commissions = @ + (profit * FeePercent) \div 100]
          ELSE RecordLoss(a)

-----------------------------------------------------------------------------
UpdateQuote(s, q) ==
  /\ events < MaxEvents
  /\ quotes' = [quotes EXCEPT ![s] = q]
  /\ events' = events + 1
  /\ UNCHANGED <<account, book, submission, redis, sync, balance,
                 fills, resets, overwritten>>

(* submit_order() up to the sleep that stands for the network latency. *)
SubmitBegin(o) ==
  /\ submission[o] = "new"
  /\ Cardinality({p \in Order : submission[p] # "new"}) < MaxSubmissions
  /\ submission' = [submission EXCEPT ![o] = "sleeping"]
  /\ book' = book \cup {o}
  /\ UNCHANGED <<account, quotes, redis, sync, balance, fills, resets,
                 overwritten, events>>

(* _simulate_fill(): everything up to the return of submit_order() runs     *)
(* without an await; the copy to Redis is a task of its own.                *)
Fill(o) ==
  /\ submission[o] = "sleeping"
  /\ Fillable(o)
  /\ submission' = [submission EXCEPT ![o] = "returned"]
  /\ account' = UpdatePosition(Settle(account, o, FillPrice(o)), o, FillPrice(o))
  /\ fills' = fills \cup {[order |-> o, price |-> FillPrice(o)]}
  /\ sync' = [sync EXCEPT ![o].pc = IF UseRedis THEN "created" ELSE "none"]
  /\ UNCHANGED <<quotes, book, redis, balance, resets, overwritten, events>>

(* A limit order that is not crossed returns and is never looked at again. *)
NotFilled(o) ==
  /\ submission[o] = "sleeping"
  /\ ~Fillable(o)
  /\ submission' = [submission EXCEPT ![o] = "returned"]
  /\ UNCHANGED <<account, quotes, book, redis, sync, balance, fills,
                 resets, overwritten, events>>

(* cancel_order() forgets the order and answers True in simulate mode. *)
Cancel(o) ==
  /\ events < MaxEvents
  /\ events' = events + 1
  /\ o \in book
  /\ book' = book \ {o}
  /\ UNCHANGED <<account, quotes, submission, redis, sync, balance, fills,
                 resets, overwritten>>

(* reset_paper_account(): a new account; Redis is left alone. *)
Reset ==
  /\ events < MaxEvents
  /\ events' = events + 1
  /\ account' = NewAccount
  /\ book' = {}
  /\ fills' = {}
  /\ resets' = TRUE
  /\ UNCHANGED <<quotes, submission, redis, sync, balance, overwritten>>

-----------------------------------------------------------------------------
(* _sync_paper_to_redis(): SET of the cash as it is when the task starts,   *)
(* then HSET of the position as it is when SET has been answered.           *)

SyncSendCash(o) ==
  /\ sync[o].pc = "created"
  /\ sync' = [sync EXCEPT ![o] = [pc |-> "set", value |-> account.cash]]
  /\ UNCHANGED <<account, quotes, book, submission, redis, balance,
                 fills, resets, overwritten, events>>

SyncSetServed(o) ==
  /\ sync[o].pc \in {"set", "last set"}
  /\ redis' = [redis EXCEPT !.cash = sync[o].value]
  /\ sync' = [sync EXCEPT ![o] = [pc |-> IF @.pc = "set" THEN "answered" ELSE "done", value |-> 0]]
  /\ UNCHANGED <<account, quotes, book, submission, balance, fills,
                 resets, overwritten, events>>

SyncSendPosition(o) ==
  /\ sync[o].pc = "answered"
  /\ sync' = [sync EXCEPT ![o] = [pc |-> "hset", value |-> account.pos[o.asset]]]
  /\ UNCHANGED <<account, quotes, book, submission, redis, balance,
                 fills, resets, overwritten, events>>

(* Mutant: the position is added to what the hash holds. *)
SyncAddsPosition(o) ==
  /\ sync[o].pc = "hset"
  /\ redis' = [redis EXCEPT !.pos[o.asset] =
                IF @ = Absent THEN sync[o].value ELSE @ + sync[o].value]
  /\ sync' = [sync EXCEPT ![o] = [pc |-> "done", value |-> 0]]
  /\ UNCHANGED <<account, quotes, book, submission, balance, fills,
                 resets, overwritten, events>>

SyncHsetServed(o) ==
  /\ sync[o].pc = "hset"
  /\ redis' = [redis EXCEPT !.pos[o.asset] = sync[o].value]
  /\ sync' = [sync EXCEPT ![o] = [pc |-> "done", value |-> 0]]
  /\ UNCHANGED <<account, quotes, book, submission, balance, fills,
                 resets, overwritten, events>>

(* A Redis error ends the task silently, before the command was served or   *)
(* after it was, when the answer is lost.                                   *)
SyncFails(o) ==
  /\ sync[o].pc \in {"set", "last set", "answered", "hset"}
  /\ sync' = [sync EXCEPT ![o] = [pc |-> "done", value |-> 0]]
  /\ UNCHANGED <<account, quotes, book, submission, redis, balance,
                 fills, resets, overwritten, events>>

-----------------------------------------------------------------------------
(* get_paper_balance(): GET the cash, take it over, HGETALL the positions,  *)
(* replace all of them; each value is what the server had when it answered. *)

NoAnswer == [pc |-> "done", cash |-> Absent, pos |-> [s \in Asset |-> Absent]]

BalanceCashServed(r) ==
  /\ UseRedis
  /\ balance[r].pc = "idle"
  /\ balance' = [balance EXCEPT ![r].pc = "cash", ![r].cash = redis.cash]
  /\ UNCHANGED <<account, quotes, book, submission, redis, sync,
                 fills, resets, overwritten, events>>

BalanceTakesCash(r) ==
  /\ balance[r].pc = "cash"
  /\ balance' = [balance EXCEPT ![r].pc = "positions", ![r].cash = Absent]
  /\ account' = IF balance[r].cash = Absent THEN account
                ELSE [account EXCEPT !.cash = balance[r].cash]
  /\ overwritten' = (overwritten \/ account' # account)
  /\ UNCHANGED <<quotes, book, submission, redis, sync, fills, resets, events>>

BalancePositionsServed(r) ==
  /\ balance[r].pc = "positions"
  /\ balance' = [balance EXCEPT ![r].pc = "replace", ![r].pos = redis.pos]
  /\ UNCHANGED <<account, quotes, book, submission, redis, sync,
                 fills, resets, overwritten, events>>

BalanceTakesPositions(r) ==
  /\ balance[r].pc = "replace"
  /\ balance' = [balance EXCEPT ![r] = NoAnswer]
  /\ account' =
       IF \A s \in Asset : balance[r].pos[s] = Absent THEN account
       ELSE [account EXCEPT !.pos =
               [s \in Asset |-> IF balance[r].pos[s] = Absent THEN 0 ELSE balance[r].pos[s]]]
  /\ overwritten' = (overwritten \/ account' # account)
  /\ UNCHANGED <<quotes, book, submission, redis, sync, fills, resets, events>>

-----------------------------------------------------------------------------
(* The process dies and another one makes an adapter.  Its account is new,  *)
(* without the averages, which are never copied; sleeping orders and the    *)
(* tasks are gone, but a command that was sent may still be served, a SET   *)
(* then without the HSET that would have followed.                          *)
Restart ==
  /\ UseRedis
  /\ events < MaxEvents
  /\ events' = events + 1
  /\ account' = NewAccount
  /\ quotes' = FirstQuote
  /\ book' = {}
  /\ submission' = [o \in Order |-> IF submission[o] = "sleeping" THEN "returned" ELSE submission[o]]
  /\ sync' = [o \in Order |->
       CASE sync[o].pc \in {"created", "answered"} -> [sync[o] EXCEPT !.pc = "done"]
         [] sync[o].pc = "set" -> [sync[o] EXCEPT !.pc = "last set"]
         [] OTHER -> sync[o]]
  /\ balance' = [r \in Reader |-> IF balance[r].pc = "idle" THEN balance[r] ELSE NoAnswer]
  /\ overwritten' = TRUE
  /\ UNCHANGED <<redis, fills, resets>>

-----------------------------------------------------------------------------
SyncStep(o) ==
  \/ SyncSendCash(o) \/ SyncSetServed(o)
  \/ SyncSendPosition(o) \/ SyncHsetServed(o) \/ SyncFails(o)

BalanceStep(r) ==
  \/ BalanceCashServed(r) \/ BalanceTakesCash(r)
  \/ BalancePositionsServed(r) \/ BalanceTakesPositions(r)

Next ==
  \/ \E s \in Asset, q \in Quote : UpdateQuote(s, q)
  \/ \E o \in Order : SubmitBegin(o) \/ Fill(o) \/ NotFilled(o) \/ Cancel(o) \/ SyncStep(o)
  \/ \E r \in Reader : BalanceStep(r)
  \/ Reset \/ Restart

Spec == Init /\ [][Next]_vars

-----------------------------------------------------------------------------
Account == [cash : Int, pos : [Asset -> Int], avg : [Asset -> Nat], realized : Int,
            commissions : Nat, winStreak : Nat, lossStreak : Nat]
Stored == Int \cup {Absent}
SyncPc == {"none", "created", "set", "last set", "answered", "hset", "done"}
BalancePc == {"idle", "cash", "positions", "replace", "done"}

(* Type invariant of the paper account and its tasks. *)
TypeOK ==
  /\ account \in Account
  /\ quotes \in [Asset -> Quote]
  /\ book \subseteq Order
  /\ submission \in [Order -> {"new", "sleeping", "returned"}]
  /\ redis \in [cash : Stored, pos : [Asset -> Stored]]
  /\ sync \in [Order -> [pc : SyncPc, value : Int]]
  /\ balance \in [Reader -> [pc : BalancePc, cash : Stored, pos : [Asset -> Stored]]]
  /\ fills \subseteq [order : Order, price : Nat]
  /\ resets \in BOOLEAN /\ overwritten \in BOOLEAN
  /\ events \in 0 .. MaxEvents

Spent(f) == Sign(f.order.side) * f.price * f.order.qty
Moved(f) == Sign(f.order.side) * f.order.qty
FillsOf(s) == {f \in fills : f.order.asset = s}
IsSumOfFills(s, qty) ==
  \E F \in SUBSET FillsOf(s) : qty = SumFunction([f \in F |-> Moved(f)])

(* update_position, coinbase.py:78: over any sequence of fills, through     *)
(* additions, partial and full closes and flips of long and short, realized *)
(* profit plus what the fills cost at their prices is the entry cost of     *)
(* what is still held, until a balance read or a restart replaces the       *)
(* account by an older copy.  The account's cash has no part in it: a close *)
(* to exactly zero leaves the cash alone (:98-100, :121-123).               *)
PnLIdentity ==
  ~overwritten =>
    account.realized + SumFunction([f \in fills |-> Spent(f)])
      = SumFunction([s \in Asset |-> account.avg[s] * account.pos[s]])

(* A limit order never fills beyond its limit, whatever the quote did       *)
(* while submit_order() slept (coinbase.py:332-340).                        *)
LimitHonoured ==
  \A f \in fills : f.order.type = "LIMIT" /\ f.order.price # 0 =>
    Sign(f.order.side) * f.price <= Sign(f.order.side) * f.order.price

(* With any interleaving of fills, copies to Redis, failures of Redis,      *)
(* restarts and balance reads, a position is the sum of some of the fills:  *)
(* a stale copy can lose fills but never counts one twice, as long as       *)
(* nobody resets the account (a reset leaves the copy in Redis, which then  *)
(* comes back).                                                             *)
NoFillCountedTwice ==
  ~resets => \A s \in Asset : IsSumOfFills(s, account.pos[s])
=============================================================================
