-------------------------------- MODULE Backtest -------------------------------
(***************************************************************************)
(* run_simulation_1d() of rust_core/src/simulator.rs with what it is made   *)
(* of: MatchingEngine::match_orders, RiskEngine::check_order,               *)
(* Position::add_fill and Account::equity.  One symbol, one bar after       *)
(* another; a bar is Bar, a FillOrder per order that match_orders returned, *)
(* and Decide.  Only market orders are made.                                *)
(*                                                                          *)
(* Money and quantities are integers: f64 division is rounded down.         *)
(***************************************************************************)
EXTENDS Integers

CONSTANTS
  InitialCapital,
  Latency,          \* latency_ms
  FeeRate,          \* fee_rate, in thousandths
  SlippageBps,
  MaxPositionUsd,
  MaxDrawdown,      \* max_drawdown_pct, in percent
  Price,            \* closes
  Gap,              \* distances between timestamps
  MaxBars           \* length of the arrays

ASSUME BacktestAssumption ==
  /\ InitialCapital \in Nat \ {0} /\ Latency \in Nat
  /\ FeeRate \in Nat /\ SlippageBps \in 0 .. 10000
  /\ MaxPositionUsd \in Nat /\ MaxDrawdown \in 0 .. 99
  /\ Price \subseteq Nat \ {0} /\ Gap \subseteq Nat
  /\ MaxBars \in Nat

Side == {"Buy", "Sell"}
Flat == [qty |-> 0, avg |-> 0]

VARIABLES
  phase,       \* "bar": between two bars; "match": the fills of a bar; "decide"
  bars,        \* i
  ts, price,   \* of the bar
  open,        \* open_orders
  nextId,      \* order_id_counter
  cash,        \* account.cash
  position,    \* of the symbol; Flat when the account has none yet
  peak,        \* peak_equity
  checkedAt,   \* history: the price at which the last accepted order was checked
  low, high    \* history: lowest and highest fill since the position was opened

vars == <<phase, bars, ts, price, open, nextId, cash, position, peak, checkedAt, low, high>>

Init ==
  /\ phase = "bar" /\ bars = 0 /\ ts = 0 /\ price \in Price
  /\ open = {} /\ nextId = 0
  /\ cash = InitialCapital /\ position = Flat /\ peak = InitialCapital
  /\ checkedAt = 0 /\ low = 0 /\ high = 0

Abs(n) == IF n < 0 THEN -n ELSE n
Sign(n) == IF n > 0 THEN 1 ELSE IF n < 0 THEN -1 ELSE 0
Lower(m, n) == IF m < n THEN m ELSE n
Higher(m, n) == IF m > n THEN m ELSE n
Signed(side, q) == IF side = "Buy" THEN q ELSE -q

-----------------------------------------------------------------------------
(* matching.rs *)

Due(o) == ts >= o.timestamp + Latency

ExecPrice(side, p) ==
  (p * (10000 + Signed(side, SlippageBps))) \div 10000

Commission(p, q) == (p * q * FeeRate) \div 1000

(* oms.rs *)

Opens(pos, delta) == pos.qty = 0 \/ Sign(pos.qty) = Sign(delta)
Flips(pos, delta) == Sign(pos.qty + delta) # Sign(pos.qty)

(* Mutant: a fill that turns the position round keeps the average. *)
AddFillKeeps(pos, side, q, p) ==
  LET delta == Signed(side, q)
      newQty == pos.qty + delta
  IN [qty |-> newQty,
      avg |-> CASE newQty = 0 -> 0
                [] newQty # 0 /\ Opens(pos, delta) ->
                     (Abs(pos.qty) * pos.avg + q * p) \div Abs(newQty)
                [] OTHER -> pos.avg]

(* Mutant: the size of a short position counts with its sign. *)
AddFillSigned(pos, side, q, p) ==
  LET delta == Signed(side, q)
      newQty == pos.qty + delta
  IN [qty |-> newQty,
      avg |-> CASE newQty = 0 -> 0
                [] newQty # 0 /\ Opens(pos, delta) ->
                     (pos.qty * pos.avg + q * p) \div Abs(newQty)
                [] newQty # 0 /\ ~Opens(pos, delta) /\ Flips(pos, delta) -> p
                [] OTHER -> pos.avg]

(* Position::add_fill(). *)
AddFill(pos, side, q, p) ==
  LET delta == Signed(side, q)
      newQty == pos.qty + delta
  IN [qty |-> newQty,
      avg |-> CASE newQty = 0 -> 0
                [] newQty # 0 /\ Opens(pos, delta) ->
                     (Abs(pos.qty) * pos.avg + q * p) \div Abs(newQty)
                [] newQty # 0 /\ ~Opens(pos, delta) /\ Flips(pos, delta) -> p
                [] OTHER -> pos.avg]

(* Account::equity(): the average cancels out. *)
Equity(money, pos, p) ==
  money + pos.qty * pos.avg + pos.qty * (p - pos.avg)

(* risk.rs *)

DrawdownOk(equity, top) ==
  top > 0 => (top - equity) * 100 <= MaxDrawdown * top

(* RiskEngine::check_order(). *)
CheckOrder(side, q, equity, top) ==
  /\ DrawdownOk(equity, top)
  /\ Abs(position.qty + Signed(side, q)) * price <= MaxPositionUsd

-----------------------------------------------------------------------------

(* The next row of the three arrays. *)
Bar(p, gap) ==
  /\ phase = "bar" /\ bars < MaxBars
  /\ ts' = ts + gap /\ price' = p /\ bars' = bars + 1
  /\ phase' = "match"
  /\ UNCHANGED <<open, nextId, cash, position, peak, checkedAt, low, high>>

(* One of the fills that match_orders() returned is booked. *)
FillOrder(o) ==
  /\ phase = "match" /\ o \in open /\ Due(o)
  /\ LET p == ExecPrice(o.side, price)
         delta == Signed(o.side, o.qty)
         fresh == position.qty = 0 \/ (~Opens(position, delta) /\ Flips(position, delta))
     IN /\ cash' = cash - Commission(p, o.qty) - delta * p
        /\ position' = AddFill(position, o.side, o.qty, p)
        /\ low' = IF fresh THEN p ELSE IF Opens(position, delta) THEN Lower(low, p) ELSE low
        /\ high' = IF fresh THEN p ELSE IF Opens(position, delta) THEN Higher(high, p) ELSE high
  /\ open' = open \ {o}
  /\ UNCHANGED <<phase, bars, ts, price, nextId, peak, checkedAt>>

Matched ==
  /\ phase = "match" /\ \A o \in open : ~Due(o)
  /\ phase' = "decide"
  /\ UNCHANGED <<bars, ts, price, open, nextId, cash, position, peak, checkedAt, low, high>>

(* Mutant: a second order is made while one is under way. *)
MayTradeAlways == TRUE

MayTrade == open = {}

(* The equity is recorded and the signal sized, checked and turned into an  *)
(* order; sig is 1, -1 or 0.                                                *)
Decide(sig) ==
  /\ phase = "decide"
  /\ LET equity == Equity(cash, position, price)
         top == Higher(peak, equity)
         side == IF sig > 0 THEN "Buy" ELSE "Sell"
         q == equity \div (10 * price)
         signalled == sig # 0 /\ MayTrade
         accepted == signalled /\ CheckOrder(side, q, equity, top)
     IN /\ peak' = top
        /\ nextId' = IF signalled THEN nextId + 1 ELSE nextId
        /\ open' = IF accepted
                   THEN open \cup {[id |-> nextId + 1, side |-> side, qty |-> q, timestamp |-> ts]}
                   ELSE open
        /\ checkedAt' = IF accepted THEN price ELSE checkedAt
  /\ phase' = "bar"
  /\ UNCHANGED <<bars, ts, price, cash, position, low, high>>

Next ==
  \/ \E p \in Price, gap \in Gap : Bar(p, gap)
  \/ \E o \in open : FillOrder(o)
  \/ Matched
  \/ \E sig \in {-1, 0, 1} : Decide(sig)

Spec == Init /\ [][Next]_vars

-----------------------------------------------------------------------------

(* Quantities are never negative although they are a share of the equity:   *)
(* the drawdown check stands before the order.  Averages are prices.        *)
TypeOK ==
  /\ phase \in {"bar", "match", "decide"} /\ bars \in Nat
  /\ ts \in Nat /\ price \in Price
  /\ open \subseteq [id : Nat, side : Side, qty : Nat, timestamp : Nat]
  /\ nextId \in Nat
  /\ cash \in Int /\ peak \in Nat
  /\ position \in [qty : Int, avg : Nat]
  /\ {checkedAt, low, high} \subseteq Nat

(* An order is checked at one price and filled at a later one, against the  *)
(* position of the moment; all the same no position is ever larger than     *)
(* the limit allowed at the price of the check that let it grow.            *)
ExposureChecked ==
  open = {} => Abs(position.qty) * checkedAt <= MaxPositionUsd

(* Through additions, partial closes and flips the average price of a       *)
(* position lies between the fills it was built from.                       *)
AverageAmongFills ==
  position.qty # 0 => low <= position.avg /\ position.avg <= high
================================================================================
