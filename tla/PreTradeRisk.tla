----------------------------- MODULE PreTradeRisk ------------------------------
(***************************************************************************)
(* PreTradeRiskValidator of qtrader/execution/pre_trade_risk.py.  Nothing  *)
(* is assumed of its callers: an order of any symbol is validated at any   *)
(* time, several coroutines of one symbol included, and the setters report *)
(* anything or, as in TradingSystem, are never called.  What becomes of an *)
(* approved order, the exits that TradingSystem submits without asking,    *)
(* telemetry, and the total exposure that update_portfolio_value() sums up *)
(* and nothing reads, are left out.                                        *)
(***************************************************************************)
EXTENDS Integers, FiniteSets, Sequences

CONSTANTS
  Symbol,
  Quantity,           \* order quantities
  Price,              \* limit prices, and mid prices that are reported
  MaxQuantity,        \* max_order_quantity
  MaxNotional,        \* max_order_notional
  MaxPosition,        \* max_position_per_symbol
  MaxDeviation,       \* max_price_deviation_pct
  MaxConcentration,   \* max_concentration_pct
  PerSecond,          \* max_orders_per_second
  PerMinute,          \* max_orders_per_minute
  Second, Minute,     \* the lengths of the two windows, in ticks
  MaxStamps,          \* maxlen of _order_timestamps
  Position,           \* positions that are reported
  Value,              \* portfolio values that are reported
  MaxTime, MaxAttempts

ASSUME PreTradeAssumption ==
  /\ Quantity \subseteq Nat \ {0} /\ Price \subseteq Nat \ {0} /\ Value \subseteq Nat
  /\ Position \subseteq Int
  /\ {MaxQuantity, MaxNotional, MaxPosition} \subseteq Nat
  /\ {MaxDeviation, MaxConcentration, PerSecond, PerMinute} \subseteq Nat
  /\ Second \in Nat \ {0} /\ Minute \in Nat \ {0}
  /\ MaxStamps \in Nat /\ PerSecond < MaxStamps /\ PerMinute < MaxStamps
  /\ MaxTime \in Nat /\ MaxAttempts \in Nat

Side == {"BUY", "SELL"}
NoPrice == 0            \* a market order, or a symbol without a mid price

VARIABLES
  now,        \* time.time()
  stamps,     \* times of the validations so far; the deque holds the last MaxStamps
  approved,   \* history: which of them were approved
  limited,    \* history: which of them a rate limit refused
  view,       \* _positions
  mids,       \* _mid_prices
  value,      \* _portfolio_value
  killed      \* _kill_switch_active

vars == <<now, stamps, approved, limited, view, mids, value, killed>>

Init ==
  /\ now = 0 /\ stamps = <<>> /\ approved = {} /\ limited = {}
  /\ view = [s \in Symbol |-> 0]
  /\ mids = [s \in Symbol |-> NoPrice]
  /\ value = 0 /\ killed = FALSE

Abs(n) == IF n < 0 THEN -n ELSE n
Signed(side, q) == IF side = "BUY" THEN q ELSE -q

-----------------------------------------------------------------------------
(* The checks of validate_order(), in its order.                            *)

OrderPrice(s, price) == IF price # NoPrice THEN price ELSE mids[s]

QuantityOk(q) == q <= MaxQuantity

NotionalOk(s, q, price) == q * OrderPrice(s, price) <= MaxNotional

DeviationOk(s, price) ==
  price # NoPrice /\ mids[s] > 0 =>
    Abs(price - mids[s]) * 100 <= MaxDeviation * mids[s]

PositionOk(s, delta) == Abs(view[s] + delta) <= MaxPosition

ConcentrationOk(s, delta, price) ==
  value > 0 =>
    Abs(view[s] + delta) * OrderPrice(s, price) * 100 <= MaxConcentration * value

(* Mutant: the new stamp is not counted. *)
RecentBefore(at, window) ==
  Cardinality({i \in 1 .. Len(at) - 1 : i > Len(at) - MaxStamps /\ now - at[i] < window})

(* Mutant: a stamp leaves the deque only, never a window. *)
RecentForever(at, window) ==
  Cardinality({i \in 1 .. Len(at) : i > Len(at) - MaxStamps})

(* How many of the stamps the deque holds are younger than a window.        *)
Recent(at, window) ==
  Cardinality({i \in 1 .. Len(at) : i > Len(at) - MaxStamps /\ now - at[i] < window})

RateOk(at) == Recent(at, Second) <= PerSecond /\ Recent(at, Minute) <= PerMinute

(* Mutant: the stamp is not kept. *)
StampedNot == stamps

Stamped == Append(stamps, now)

(* The stamp is taken whatever the other checks say, but not under the kill *)
(* switch, which refuses the order and leaves everything as it is.          *)
Validate(s, side, q, price) ==
  /\ ~killed
  /\ Len(stamps) < MaxAttempts
  /\ LET delta == Signed(side, q)
         at == Stamped
         ok == /\ QuantityOk(q) /\ NotionalOk(s, q, price) /\ DeviationOk(s, price)
               /\ PositionOk(s, delta) /\ ConcentrationOk(s, delta, price) /\ RateOk(at)
     IN /\ stamps' = at
        /\ approved' = IF ok THEN approved \cup {Len(at)} ELSE approved
        /\ limited' = IF RateOk(at) THEN limited ELSE limited \cup {Len(at)}
  /\ UNCHANGED <<now, view, mids, value, killed>>

UpdatePosition(s, n) ==
  /\ n # view[s]
  /\ view' = [view EXCEPT ![s] = n]
  /\ UNCHANGED <<now, stamps, approved, limited, mids, value, killed>>

UpdateMidPrice(s, p) ==
  /\ p # mids[s]
  /\ mids' = [mids EXCEPT ![s] = p]
  /\ UNCHANGED <<now, stamps, approved, limited, view, value, killed>>

UpdatePortfolioValue(v) ==
  /\ v # value
  /\ value' = v
  /\ UNCHANGED <<now, stamps, approved, limited, view, mids, killed>>

SetKillSwitchActive ==
  /\ killed' = ~killed
  /\ UNCHANGED <<now, stamps, approved, limited, view, mids, value>>

Tick ==
  /\ now < MaxTime
  /\ now' = now + 1
  /\ UNCHANGED <<stamps, approved, limited, view, mids, value, killed>>

Next ==
  \/ \E s \in Symbol : \/ \E n \in Position : UpdatePosition(s, n)
                       \/ \E p \in Price : UpdateMidPrice(s, p)
                       \/ \E side \in Side, q \in Quantity, price \in Price \cup {NoPrice} :
                            Validate(s, side, q, price)
  \/ \E v \in Value : UpdatePortfolioValue(v)
  \/ SetKillSwitchActive
  \/ Tick

Spec == Init /\ [][Next]_vars

-----------------------------------------------------------------------------
(* Type invariant. *)
TypeOK ==
  /\ now \in 0 .. MaxTime
  /\ stamps \in Seq(0 .. MaxTime) /\ Len(stamps) <= MaxAttempts
  /\ approved \subseteq 1 .. Len(stamps) /\ limited \subseteq 1 .. Len(stamps)
  /\ view \in [Symbol -> Int] /\ mids \in [Symbol -> Price \cup {NoPrice}]
  /\ value \in Value \cup {0} /\ killed \in BOOLEAN

(* pre_trade_risk.py:7, "Order rate limits": in no window are more orders   *)
(* approved than the limit, although the deque forgets old stamps           *)
(* (pre_trade_risk.py:73, 194-212).                                         *)
ApprovedWithin(i, window) ==
  {j \in approved : j <= i /\ stamps[i] - stamps[j] < window}
RateLimited ==
  \A i \in approved : /\ Cardinality(ApprovedWithin(i, Second)) <= PerSecond
                      /\ Cardinality(ApprovedWithin(i, Minute)) <= PerMinute

(* The converse: a rate limit refuses an order only when more than the      *)
(* limit were validated, for whatever symbol and with whatever result,      *)
(* within the window that ends with it.  So the gate opens again after a    *)
(* pause, however many orders were refused before it                        *)
(* (pre_trade_risk.py:195-212).                                             *)
ValidatedWithin(i, window) ==
  {j \in 1 .. i : stamps[i] - stamps[j] < window}
RefusedForCause ==
  \A i \in limited : \/ Cardinality(ValidatedWithin(i, Second)) > PerSecond
                     \/ Cardinality(ValidatedWithin(i, Minute)) > PerMinute
================================================================================
