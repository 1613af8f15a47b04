------------------------------ MODULE PaperEngine ------------------------------
(***************************************************************************)
(* PaperTradingEngine (qtrader/execution/paper_engine.py, paper_mixins.py):*)
(* the simulation loop that opens and closes managed lots on one symbol,   *)
(* and simulate_fill(), through which the broker adapter fills orders of   *)
(* the live pipeline against the same lots.                                *)
(*                                                                         *)
(* The loop awaits only between ticks, so a whole tick is one action.  A   *)
(* lot is an object that the lists of open and of managed positions share; *)
(* the model keeps the objects by id.  Both lists are always in the order  *)
(* of creation (a new lot goes to the end or replaces all others), so the  *)
(* set of its ids stands for a list and its minimum for the head.          *)
(* Entry quantity and slippage are choices: the code draws strength and    *)
(* slippage at random.  Money is in thousandths of the unit of prices, so  *)
(* that a fee is a whole number.                                           *)
(***************************************************************************)
EXTENDS Adaptive, Sequences, FiniteSetsExt, Functions

CONSTANTS
  Price,              \* prices the market may show
  FirstPrice,
  Strength,           \* signal strengths, in percent
  ReversalThreshold,  \* REVERSAL_THRESHOLD, in percent
  Quantity,           \* sizes of an entry
  Slip,               \* slippage of an entry, in price units
  StartingCapital,
  TakerFee,           \* in thousandths
  PerformanceFee,     \* in percent
  MinTradeNotional,
  MaxConcurrent,      \* max_concurrent_positions
  ExternalOrder,      \* orders the broker passes to simulate_fill: side, qty, price
  MaxLots, MaxFills   \* bounds: lots ever created, external fills

Side == {"BUY", "SELL"}

ASSUME EngineAssumption ==
  /\ FirstPrice \in Price /\ Price \subseteq Nat \ {0}
  /\ Strength \subseteq Nat /\ ReversalThreshold \in Nat
  /\ Quantity \subseteq Nat \ {0} /\ Slip \subseteq Nat
  /\ TakerFee \in Nat /\ PerformanceFee \in 0 .. 100
  /\ StartingCapital \in Nat /\ MinTradeNotional \in Nat
  /\ ExternalOrder \subseteq [side : Side, qty : Nat \ {0}, price : Nat]
  /\ MaxLots \in Nat /\ MaxFills \in Nat

NoSignal == [action |-> "HOLD", strength |-> 0]
Signal == [action : Side, strength : Strength]
NoTrade == [closed |-> 0, triggered |-> 0, reason |-> "none", price |-> 0]

VARIABLES
  engine,    \* the engine object: see NewEngine
  running,   \* the task of run_continuous() is alive
  filled     \* history: number of orders the broker adapter had filled

engineVars == <<engine, running, filled>>

NewEngine ==
  [cash |-> StartingCapital, commissions |-> 0, perfFees |-> 0, price |-> FirstPrice,
   peak |-> StartingCapital, streak |-> NoStreak,
   lots |-> <<>>,       \* every lot object created so far
   open |-> {},         \* _open_positions: ids of lots
   managed |-> {},      \* _managed_positions
   netPnl |-> 0,        \* sum of the pnl of closed_trades the loop recorded
   last |-> NoTrade]    \* the last trade the loop closed

EngineInit ==
  /\ engine = NewEngine
  /\ running = FALSE
  /\ filled = 0

-----------------------------------------------------------------------------
Worth(qty, price) == 1000 * (qty * price)
Fee(qty, price) == TakerFee * (qty * price)

(* `equity`: only lots with a negative quantity are valued as shorts. *)
LotValue(e, lot) ==
  IF lot.qty > 0 THEN Worth(lot.qty, e.price)
  ELSE Worth(Abs(lot.qty), lot.avg + (lot.avg - e.price))
MarketValue(e) == SumFunction([i \in e.open |-> LotValue(e, e.lots[i])])
Equity(e) == e.cash + MarketValue(e)

(* A new lot with its stop loss and take profit. *)
LotAt(e, side, qty, price, unitFee) ==
  [side |-> side, qty |-> qty, avg |-> price, unitFee |-> unitFee,
   stopLoss |-> (price * (1000 - Sign(side) * StopLossPct(e.streak))) \div 1000,
   takeProfit |-> (price * (1000 + Sign(side) * TakeProfitPct(e.streak))) \div 1000]

NextId(e) == Len(e.lots) + 1

(* Why the loop would close a lot at the current price. *)
ExitReason(e, lot) ==
  IF Sign(lot.side) * e.price <= Sign(lot.side) * lot.stopLoss THEN "STOP_LOSS"
  ELSE IF Sign(lot.side) * e.price >= Sign(lot.side) * lot.takeProfit THEN "TAKE_PROFIT"
  ELSE "none"

(* Mutant: the fee is charged on the whole profit. *)
PerfFeeOnGross(e, gross, before) ==
  IF gross > 0 THEN (gross * PerformanceFee) \div 100 ELSE 0

(* The performance fee is due on profit above the highest equity so far.    *)
PerfFee(e, gross, before) ==
  IF gross > 0 /\ before > e.peak
  THEN Least((gross * PerformanceFee) \div 100, ((before - e.peak) * PerformanceFee) \div 100)
  ELSE 0

(* What closing a lot at the current price earns, gives back to the cash    *)
(* before the performance fee, is charged for, and yields after all fees.   *)
GrossPnl(e, lot) == Sign(lot.side) * Worth(lot.qty, e.price - lot.avg)
Returned(e, lot) == Worth(lot.qty, lot.avg) + GrossPnl(e, lot) - Fee(lot.qty, e.price)
ExitPerfFee(e, lot) == PerfFee(e, GrossPnl(e, lot), e.cash + Returned(e, lot))
NetPnl(e, lot) ==
  GrossPnl(e, lot) - (lot.unitFee * lot.qty + Fee(lot.qty, e.price) + ExitPerfFee(e, lot))

(* _close_managed_position: closes the oldest managed lot, whichever lot    *)
(* (triggered) made the loop call it.                                      *)
Close(e, triggered, reason) ==
  LET id == Min(e.managed)
      lot == e.lots[id]
      closed == [e EXCEPT
        !.cash = @ + Returned(e, lot) - ExitPerfFee(e, lot),
        !.commissions = @ + Fee(lot.qty, e.price) + ExitPerfFee(e, lot),
        !.perfFees = @ + ExitPerfFee(e, lot),
        !.netPnl = @ + NetPnl(e, lot),
        !.managed = @ \ {id},
        !.open = @ \ {id},
        !.streak = IF NetPnl(e, lot) > 0 THEN Won(@) ELSE Lost(@),
        !.last = [closed |-> id, triggered |-> triggered, reason |-> reason, price |-> e.price]]
  IN [closed EXCEPT !.peak = Greatest(@, Equity(closed))]

(* _check_exit_conditions and _check_dynamic_exit: the first managed lot    *)
(* that asks for an exit causes one close.                                  *)
CheckExit(e) ==
  LET hits == {i \in e.managed : ExitReason(e, e.lots[i]) # "none"}
  IN IF hits = {} THEN e ELSE Close(e, Min(hits), ExitReason(e, e.lots[Min(hits)]))

(* Mutant: only the strongest reversals close a lot. *)
ReversesStrongly(lot, signal) ==
  /\ signal # NoSignal
  /\ lot.side # signal.action
  /\ signal.strength >= 2 * ReversalThreshold

Reverses(lot, signal) ==
  /\ signal # NoSignal
  /\ lot.side # signal.action
  /\ signal.strength >= ReversalThreshold

DynamicExit(e, signal) ==
  LET hits == {i \in e.managed : Reverses(e.lots[i], signal)}
  IN IF hits = {} THEN e ELSE Close(e, Min(hits), "DYNAMIC_EXIT")

(* An entry is allowed when nothing is managed or something of the other    *)
(* side is; max_concurrent_positions is compared with the number of symbols *)
MayEnter(e, signal) ==
  /\ signal # NoSignal
  /\ (IF e.managed = {} THEN 0 ELSE 1) < MaxConcurrent
  /\ \/ e.managed = {}
     \/ \E i \in e.managed : e.lots[i].side # signal.action

(* A buyer pays the slippage, a seller gets less. *)
EntryPrice(e, side, slip) == e.price + Sign(side) * slip

(* Mutant: the entry fee is counted but not paid. *)
OpenWithoutFee(e, side, qty, slip) ==
  LET price == EntryPrice(e, side, slip)
  IN [e EXCEPT !.cash = @ - Worth(qty, price),
               !.commissions = @ + Fee(qty, price),
               !.lots = Append(@, LotAt(e, side, qty, price, Fee(1, price))),
               !.open = @ \cup {NextId(e)},
               !.managed = @ \cup {NextId(e)}]

(* _open_managed_position pays notional and fee out of the cash, for long   *)
(* and short lots alike.                                                    *)
Open(e, side, qty, slip) ==
  LET price == EntryPrice(e, side, slip)
  IN [e EXCEPT !.cash = @ - (Worth(qty, price) + Fee(qty, price)),
               !.commissions = @ + Fee(qty, price),
               !.lots = Append(@, LotAt(e, side, qty, price, Fee(1, price))),
               !.open = @ \cup {NextId(e)},
               !.managed = @ \cup {NextId(e)}]

(* Sizes the current cash and streak allow at the price of the entry.       *)
Affordable(e, qty, slip) ==
  /\ Worth(qty, e.price + slip) * 1000 <= e.cash * PositionSizePct(e.streak)
  /\ Worth(qty, e.price - slip) >= MinTradeNotional

-----------------------------------------------------------------------------
(* start_simulation() and stop_simulation() of api/router.py. *)
Start ==
  /\ ~running
  /\ running' = TRUE
  /\ UNCHANGED <<engine, filled>>

Stop ==
  /\ running
  /\ running' = FALSE
  /\ UNCHANGED <<engine, filled>>

(* /sim/reset stops the loop first.  The price stays: it follows the market *)
ResetEngine ==
  /\ ~running
  /\ engine' = [NewEngine EXCEPT !.price = engine.price]
  /\ UNCHANGED <<running, filled>>

(* One tick of the loop: price exits, the reversal exit of the signal, then *)
(* an entry, which the minimum size or an injected error may prevent.       *)
Tick(signal, enter, qty, slip) ==
  /\ running
  /\ LET exited == CheckExit(engine)
         reversed == DynamicExit(exited, signal)
     IN \/ /\ enter
           /\ MayEnter(reversed, signal)
           /\ Affordable(reversed, qty, slip)
           /\ Len(reversed.lots) < MaxLots
           /\ engine' = Open(reversed, signal.action, qty, slip)
        \/ /\ ~enter
           /\ engine' = reversed
  /\ UNCHANGED <<running, filled>>

(* handle_market_event *)
MarketEvent(p) ==
  /\ p # engine.price
  /\ engine' = [engine EXCEPT !.price = p]
  /\ UNCHANGED <<running, filled>>

-----------------------------------------------------------------------------
(* simulate_fill and _record_trade, called by the broker adapter. *)

AddToFirst(e, o) ==
  LET id == Min(e.open)
      lot == e.lots[id]
      new == lot.qty + Sign(o.side) * o.qty
  IN [e EXCEPT !.lots[id].qty = new,
               !.lots[id].avg = (Abs(lot.qty) * lot.avg + o.qty * o.price) \div Abs(new),
               !.lots[id].unitFee = (Abs(lot.qty) * lot.unitFee) \div Abs(new)]

(* Quantity of all open lots together. *)
Held(e) == SumFunction([i \in e.open |-> e.lots[i].qty])

(* Mutant: what remains is stored with the sign of the order. *)
CloseWithOrderSign(e, o) ==
  LET rest == Abs(Held(e)) - Least(Abs(Held(e)), o.qty)
      id == Min(e.open)
  IN IF rest = 0 THEN [e EXCEPT !.open = @ \ {id}]
     ELSE [e EXCEPT !.lots[id].qty = Sign(o.side) * rest]

(* Against the sum of all lots; the first lot takes what remains of it, and *)
(* a flip replaces the list.  The loop's list of managed lots is not touched*)
CloseAgainstLots(e, o) ==
  LET held == Held(e)
      closing == Least(Abs(held), o.qty)
      rest == Abs(held) - closing
      id == Min(e.open)
      reduced ==
        IF rest = 0 THEN [e EXCEPT !.open = @ \ {id}]
        ELSE [e EXCEPT !.lots[id].qty = IF held > 0 THEN rest ELSE -rest]
  IN IF o.qty > closing
     THEN [reduced EXCEPT !.lots = Append(@, LotAt(e, o.side, o.qty - closing, o.price, 0)),
                          !.open = {NextId(e)}]
     ELSE reduced

RecordTrade(e, o) ==
  IF e.open = {}
  THEN [e EXCEPT !.lots = Append(@, LotAt(e, o.side, o.qty, o.price, 0)),
                 !.open = {NextId(e)}]
  ELSE LET first == e.lots[Min(e.open)]
       IN IF (first.qty > 0 /\ o.side = "BUY") \/ (first.qty < 0 /\ o.side = "SELL")
          THEN AddToFirst(e, o)
          ELSE CloseAgainstLots(e, o)

SimulateFill(o) ==
  /\ filled < MaxFills
  /\ Len(engine.lots) < MaxLots
  /\ engine' = RecordTrade(engine, o)
  /\ filled' = filled + 1
  /\ UNCHANGED running

-----------------------------------------------------------------------------
EngineNext ==
  \/ Start \/ Stop \/ ResetEngine
  \/ \E signal \in Signal, qty \in Quantity, slip \in Slip : Tick(signal, TRUE, qty, slip)
  \/ \E signal \in Signal \cup {NoSignal} : Tick(signal, FALSE, 0, 0)
  \/ \E p \in Price : MarketEvent(p)
  \/ \E o \in ExternalOrder : SimulateFill(o)

EngineSpec == EngineInit /\ [][EngineNext]_engineVars

-----------------------------------------------------------------------------
LotIds(e) == DOMAIN e.lots

Lot == [side : Side, qty : Nat \ {0}, avg : Nat, unitFee : Nat, stopLoss : Int, takeProfit : Int]
Trade == [closed : Nat, triggered : Nat, price : Nat,
          reason : {"none", "STOP_LOSS", "TAKE_PROFIT", "DYNAMIC_EXIT"}]
Engine ==
  [cash : Int, commissions : Nat, perfFees : Nat, price : Price, peak : Nat,
   streak : [wins : Nat, losses : Nat], lots : Seq(Lot), open : SUBSET Nat,
   managed : SUBSET Nat, netPnl : Int, last : Trade]

(* Type invariant of the engine; no lot ever gets a negative quantity, so   *)
(* the branches of the code that value shorts by their sign are never taken.*)
EngineTypeOK ==
  /\ engine \in Engine
  /\ engine.open \subseteq LotIds(engine) /\ engine.managed \subseteq LotIds(engine)
  /\ running \in BOOLEAN
  /\ filled \in 0 .. MaxFills

(* `realized_pnl`: what the equity gained, less the open lots' gross gain.  *)
EntryValue(e) == SumFunction([i \in e.open |-> Worth(Abs(e.lots[i].qty), e.lots[i].avg)])
RealizedPnl(e) == (Equity(e) - StartingCapital) - (MarketValue(e) - EntryValue(e))

(* What the entries of the managed lots have cost in fees. *)
EntryFees(e) == SumFunction([i \in e.managed |-> e.lots[i].unitFee * e.lots[i].qty])

(* paper_engine.py:152: over any sequence of entries, exits, price moves,   *)
(* stops and resets, until the broker adapter fills an order on the same    *)
(* lots, the reported realized profit is the sum of the closed trades' net  *)
(* profit less the entry fees of the open lots.                             *)
LedgerBalances == filled = 0 => RealizedPnl(engine) = engine.netPnl - EntryFees(engine)

(* _close_managed_position always closes the oldest lot (paper_mixins.py:   *)
(* 305); it is the lot whose stop, target or reversal caused the close.     *)
(* Needs every reversal to close a lot before the entry that follows it.    *)
ClosesTriggeredLot == engine.last.closed = engine.last.triggered

(* The performance fee is charged on profit above the highest equity only   *)
(* (paper_mixins.py:322-327): losses are recovered before it is due again,  *)
(* so all fees together are bounded by the growth of the peak.              *)
HighWaterMark ==
  engine.perfFees * (100 - PerformanceFee)
    <= PerformanceFee * (engine.peak - StartingCapital)
================================================================================
