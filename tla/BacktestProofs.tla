------------------------------ MODULE BacktestProofs ----------------------------
(***************************************************************************)
(* Proofs about the backtest of the Rust core, for every capital, latency,  *)
(* fee, slippage and limit and every series of prices: TypeOK, the exposure *)
(* that was checked, and averages among the fills; and about the TWAP, for  *)
(* every duration, number of slices and order of calls.                     *)
(***************************************************************************)
EXTENDS Backtest, Twap, FiniteSetTheorems, TLAPS

(* Arithmetic with products and integer division. *)

LEMMA ProductNat ==
  ASSUME NEW m \in Nat, NEW n \in Nat
  PROVE  m * n \in Nat
OBVIOUS

LEMMA ProductMonotone ==
  ASSUME NEW n \in Nat, NEW a \in Int, NEW b \in Int, a <= b
  PROVE  n * a <= n * b
<1>1. n * (b - a) \in Nat
  BY ProductNat, b - a \in Nat
<1>2. n * (b - a) = n * b - n * a
  OBVIOUS
<1> QED
  BY <1>1, <1>2

LEMMA QuotientBounds ==
  ASSUME NEW x \in Int, NEW m \in Nat \ {0}
  PROVE  /\ x \div m \in Int
         /\ m * (x \div m) <= x
         /\ x < m * (x \div m) + m
OBVIOUS

(* A quotient lies where its numerator says. *)
LEMMA QuotientBetween ==
  ASSUME NEW x \in Int, NEW m \in Nat \ {0}, NEW l \in Int, NEW h \in Int,
         m * l <= x, x <= m * h
  PROVE  l <= x \div m /\ x \div m <= h
<1> DEFINE r == x \div m
<1>1. r \in Int /\ m * r <= x /\ x < m * r + m
  BY QuotientBounds
<1> HIDE DEF r
<1>2. l <= r
  <2>1. SUFFICES ASSUME r + 1 <= l PROVE FALSE
    BY <1>1
  <2>2. m * (r + 1) <= m * l
    BY <1>1, <2>1, ProductMonotone
  <2>3. m * (r + 1) = m * r + m
    BY <1>1
  <2> QED
    BY <1>1, <2>2, <2>3
<1>3. r <= h
  <2>1. SUFFICES ASSUME h + 1 <= r PROVE FALSE
    BY <1>1
  <2>2. m * (h + 1) <= m * r
    BY <1>1, <2>1, ProductMonotone
  <2>3. m * (h + 1) = m * h + m
    OBVIOUS
  <2> QED
    BY <1>1, <2>2, <2>3
<1> QED
  BY <1>2, <1>3 DEF r

LEMMA QuotientNat ==
  ASSUME NEW x \in Nat, NEW m \in Nat \ {0}
  PROVE  x \div m \in Nat
OBVIOUS

(* The average of two prices with weights lies between them. *)
LEMMA WeightedAverage ==
  ASSUME NEW n \in Nat, NEW q \in Nat, n + q # 0,
         NEW a \in Nat, NEW p \in Nat, NEW l \in Nat, NEW h \in Nat,
         l <= a, l <= p, a <= h, p <= h
  PROVE  /\ (n * a + q * p) \div (n + q) \in Nat
         /\ l <= (n * a + q * p) \div (n + q)
         /\ (n * a + q * p) \div (n + q) <= h
<1> DEFINE x == n * a + q * p
<1>1. n * a \in Nat /\ q * p \in Nat /\ n + q \in Nat \ {0}
  BY ProductNat
<1>2. (n + q) * l = n * l + q * l /\ (n + q) * h = n * h + q * h
  OBVIOUS
<1>3. n * l <= n * a /\ q * l <= q * p /\ n * a <= n * h /\ q * p <= q * h
  BY ProductMonotone
<1>4. n * l \in Int /\ q * l \in Int /\ n * h \in Int /\ q * h \in Int
  OBVIOUS
<1>5. x \in Nat /\ (n + q) * l <= x /\ x <= (n + q) * h
  BY <1>1, <1>2, <1>3, <1>4
<1> HIDE DEF x
<1>6. x \div (n + q) \in Nat
  BY <1>1, <1>5, QuotientNat
<1>7. l <= x \div (n + q) /\ x \div (n + q) <= h
  BY <1>1, <1>5, QuotientBetween
<1> QED
  BY <1>6, <1>7 DEF x

-----------------------------------------------------------------------------
(* The operators of the module. *)

LEMMA SignedInt ==
  ASSUME NEW side \in Side, NEW q \in Nat
  PROVE  Signed(side, q) \in Int /\ Abs(Signed(side, q)) = q
BY DEF Signed, Side, Abs

LEMMA ExecPriceNat ==
  ASSUME NEW side \in Side, NEW p \in Nat
  PROVE  ExecPrice(side, p) \in Nat
<1>1. SlippageBps \in 0 .. 10000
  BY BacktestAssumption DEF BacktestAssumption
<1>2. 10000 + Signed(side, SlippageBps) \in Nat
  BY <1>1 DEF Signed, Side
<1>3. p * (10000 + Signed(side, SlippageBps)) \in Nat
  BY <1>2, ProductNat
<1> QED
  BY <1>3, QuotientNat DEF ExecPrice

(* What a fill does to the average: in each of the four cases of add_fill() *)
(* it is a price, and it stays between any bounds of the old average and    *)
(* the price of the fill.                                                   *)
Position == [qty : Int, avg : Nat]

LEMMA AddFillAdds ==
  ASSUME NEW pos \in Position, NEW side \in Side, NEW q \in Nat, NEW p \in Nat
  PROVE  AddFill(pos, side, q, p).qty = pos.qty + Signed(side, q)
BY DEF AddFill

LEMMA AddFillOpens ==
  ASSUME NEW pos \in Position, NEW side \in Side, NEW q \in Nat, NEW p \in Nat,
         NEW l \in Nat, NEW h \in Nat,
         pos.qty # 0 => l <= pos.avg /\ pos.avg <= h, l <= p, p <= h,
         pos.qty + Signed(side, q) # 0, Opens(pos, Signed(side, q))
  PROVE  LET a == AddFill(pos, side, q, p).avg IN a \in Nat /\ l <= a /\ a <= h
<1> DEFINE d == Signed(side, q)
           n == Abs(pos.qty)
<1>1. pos.qty \in Int /\ pos.avg \in Nat
  BY DEF Position
<1>2. d \in Int /\ Abs(d) = q
  BY SignedInt
<1>3. n \in Nat /\ (n = 0 <=> pos.qty = 0)
  BY <1>1 DEF Abs
<1>4. Abs(pos.qty + d) = n + q
  BY <1>1, <1>2 DEF Opens, Sign, Abs
<1>5. n + q # 0
  BY <1>1, <1>2, <1>4 DEF Abs
<1>6. AddFill(pos, side, q, p).avg = (n * pos.avg + q * p) \div (n + q)
  BY <1>4 DEF AddFill
<1> HIDE DEF n, d
<1>7. CASE pos.qty = 0
  <2>1. n = 0 /\ n * pos.avg = 0 /\ n * p = 0
    BY <1>1, <1>3, <1>7
  <2>2. (n * pos.avg + q * p) \div (n + q) = (n * p + q * p) \div (n + q)
    BY <2>1
  <2> QED
    BY <1>3, <1>5, <1>6, <2>2, WeightedAverage
<1>8. CASE pos.qty # 0
  BY <1>1, <1>3, <1>5, <1>6, <1>8, WeightedAverage
<1> QED
  BY <1>7, <1>8

LEMMA AddFillType ==
  ASSUME NEW pos \in Position, NEW side \in Side, NEW q \in Nat, NEW p \in Nat
  PROVE  AddFill(pos, side, q, p) \in Position
<1> DEFINE d == Signed(side, q)
           h == IF pos.avg < p THEN p ELSE pos.avg
<1>1. pos.qty \in Int /\ pos.avg \in Nat /\ d \in Int
  BY SignedInt DEF Position
<1>2. AddFill(pos, side, q, p).avg \in Nat
  <2>1. CASE pos.qty + d # 0 /\ Opens(pos, d)
    <3>1. 0 <= pos.avg /\ pos.avg <= h /\ 0 <= p /\ p <= h /\ h \in Nat
      BY <1>1
    <3> HIDE DEF h
    <3> QED
      BY <2>1, <3>1, AddFillOpens
  <2>2. CASE ~(pos.qty + d # 0 /\ Opens(pos, d))
    BY <1>1, <2>2 DEF AddFill
  <2> QED
    BY <2>1, <2>2
<1> QED
  BY <1>1, <1>2 DEF AddFill, Position

(* A drawdown within its limit leaves some equity. *)
LEMMA EquityPositive ==
  ASSUME NEW equity \in Int, NEW top \in Nat \ {0}, DrawdownOk(equity, top)
  PROVE  equity \in Nat
<1>1. MaxDrawdown \in 0 .. 99
  BY BacktestAssumption DEF BacktestAssumption
<1>2. (top - equity) * 100 <= MaxDrawdown * top
  BY DEF DrawdownOk
<1>3. top * MaxDrawdown <= top * 99
  BY <1>1, ProductMonotone
<1>4. top * MaxDrawdown = MaxDrawdown * top /\ MaxDrawdown * top \in Int
  BY <1>1
<1> QED
  BY <1>2, <1>3, <1>4

-----------------------------------------------------------------------------
(* The invariant. *)

AtMostOneOpen == \A o1, o2 \in open : o1 = o2

(* The position that the open order leads to was checked. *)
OpenChecked ==
  \A o \in open : Abs(position.qty + Signed(o.side, o.qty)) * checkedAt <= MaxPositionUsd

Inv ==
  /\ TypeOK
  /\ peak > 0
  /\ AtMostOneOpen
  /\ ExposureChecked
  /\ OpenChecked
  /\ AverageAmongFills

LEMMA InvInit == Init => Inv
BY BacktestAssumption
   DEF BacktestAssumption, Init, Inv, TypeOK, AtMostOneOpen, ExposureChecked,
       OpenChecked, AverageAmongFills, Flat, Abs, Side

LEMMA BarKeeps ==
  ASSUME Inv, NEW p \in Price, NEW gap \in Gap, Bar(p, gap)
  PROVE  Inv'
<1>1. Gap \subseteq Nat
  BY BacktestAssumption DEF BacktestAssumption
<1>2. TypeOK'
  BY <1>1 DEF Inv, TypeOK, Bar
<1> QED
  BY <1>2 DEF Inv, Bar, AtMostOneOpen, ExposureChecked, OpenChecked, AverageAmongFills

LEMMA MatchedKeeps == Inv /\ Matched => Inv'
BY DEF Inv, TypeOK, Matched, AtMostOneOpen, ExposureChecked, OpenChecked, AverageAmongFills

(* The fill: one order was open and none is left, so that what was checked  *)
(* for it holds for the position.                                           *)
LEMMA FillKeeps ==
  ASSUME Inv, NEW o \in open, FillOrder(o)
  PROVE  Inv'
<1> DEFINE p == ExecPrice(o.side, price)
           d == Signed(o.side, o.qty)
<1>1. /\ o.side \in Side /\ o.qty \in Nat /\ price \in Nat
      /\ position \in Position /\ position.qty \in Int /\ position.avg \in Nat
      /\ cash \in Int /\ low \in Nat /\ high \in Nat
  BY BacktestAssumption DEF Inv, TypeOK, BacktestAssumption, Position
<1>2. p \in Nat
  BY <1>1, ExecPriceNat
<1>3. d \in Int
  BY <1>1, SignedInt
<1>4. position' = AddFill(position, o.side, o.qty, p) /\ position' \in Position
  BY <1>1, <1>2, AddFillType DEF FillOrder
<1>5. position'.qty = position.qty + d
  BY <1>1, <1>2, <1>4, AddFillAdds
<1>6. open' = {}
  BY DEF FillOrder, Inv, AtMostOneOpen
<1>7. TypeOK'
  <2>1. Commission(p, o.qty) \in Int
    <3>1. FeeRate \in Nat
      BY BacktestAssumption DEF BacktestAssumption
    <3>2. p * o.qty * FeeRate \in Nat
      BY <1>1, <1>2, <3>1, ProductNat
    <3> QED
      BY <3>2, QuotientNat DEF Commission
  <2>2. d * p \in Int
    BY <1>2, <1>3
  <2>3. cash' = cash - Commission(p, o.qty) - d * p
    BY DEF FillOrder
  <2>4. cash' \in Int
    BY <1>1, <2>1, <2>2, <2>3
  <2>5. low' \in Nat /\ high' \in Nat
    <3> HIDE DEF p, d
    <3>1. low' \in {p, low, Lower(low, p)} /\ high' \in {p, high, Higher(high, p)}
      BY DEF FillOrder, p, d
    <3> QED
      BY <1>1, <1>2, <3>1 DEF Lower, Higher
  <2> QED
    BY <1>4, <1>6, <2>4, <2>5 DEF FillOrder, TypeOK, Inv, Position
<1>8. ExposureChecked'
  <2>1. Abs(position.qty + d) * checkedAt <= MaxPositionUsd
    BY DEF Inv, OpenChecked
  <2>2. checkedAt' = checkedAt
    BY DEF FillOrder
  <2> QED
    BY <1>5, <2>1, <2>2 DEF ExposureChecked
<1>9. AverageAmongFills'
  <2>1. SUFFICES ASSUME position'.qty # 0
                 PROVE  low' <= position'.avg /\ position'.avg <= high'
    BY DEF AverageAmongFills
  <2>2. position.qty # 0 => low <= position.avg /\ position.avg <= high
    BY DEF Inv, AverageAmongFills
  <2>3. position.qty + d # 0
    BY <1>5, <2>1
  <2>4. CASE Opens(position, d) /\ position.qty = 0
    <3>1. low' = p /\ high' = p
      BY <2>4 DEF FillOrder
    <3>2. p <= p
      BY <1>2
    <3>3. p <= AddFill(position, o.side, o.qty, p).avg /\ AddFill(position, o.side, o.qty, p).avg <= p
      <4> HIDE DEF p
      <4> QED
        BY <1>1, <1>2, <2>3, <2>4, <3>2, AddFillOpens
    <3> QED
      BY <1>4, <3>1, <3>3
  <2>5. CASE Opens(position, d) /\ position.qty # 0
    <3>1. low' = Lower(low, p) /\ high' = Higher(high, p)
      BY <2>5 DEF FillOrder
    <3>2. /\ Lower(low, p) \in Nat /\ Higher(high, p) \in Nat
          /\ Lower(low, p) <= p /\ p <= Higher(high, p)
          /\ Lower(low, p) <= position.avg /\ position.avg <= Higher(high, p)
      <4> HIDE DEF p
      <4> QED
        BY <1>1, <1>2, <2>2, <2>5 DEF Lower, Higher
    <3>3. /\ Lower(low, p) <= AddFill(position, o.side, o.qty, p).avg
          /\ AddFill(position, o.side, o.qty, p).avg <= Higher(high, p)
      <4> HIDE DEF p
      <4> QED
        BY <1>1, <1>2, <2>3, <2>5, <3>2, AddFillOpens
    <3> QED
      BY <1>4, <3>1, <3>3
  <2>6. CASE ~Opens(position, d) /\ Flips(position, d)
    <3>1. low' = p /\ high' = p
      BY <2>6 DEF FillOrder
    <3>2. position'.avg = p
      BY <1>4, <2>3, <2>6 DEF AddFill
    <3> QED
      BY <1>2, <3>1, <3>2
  <2>7. CASE ~Opens(position, d) /\ ~Flips(position, d)
    <3>1. position.qty # 0
      BY <2>7 DEF Opens
    <3>2. low' = low /\ high' = high
      BY <2>7, <3>1 DEF FillOrder
    <3>3. position'.avg = position.avg
      BY <1>4, <2>3, <2>7 DEF AddFill
    <3> QED
      BY <2>2, <3>1, <3>2, <3>3
  <2> QED
    BY <2>4, <2>5, <2>6, <2>7
<1>10. (peak > 0)'
  BY DEF Inv, FillOrder
<1> QED
  BY <1>6, <1>7, <1>8, <1>9, <1>10 DEF Inv, AtMostOneOpen, OpenChecked

(* The decision.  An order is made only while none is open, after the       *)
(* drawdown check has shown that there is equity to take a share of.        *)
LEMMA DecideKeeps ==
  ASSUME Inv, NEW sig \in {-1, 0, 1}, Decide(sig)
  PROVE  Inv'
<1> DEFINE equity == Equity(cash, position, price)
           top == Higher(peak, equity)
           side == IF sig > 0 THEN "Buy" ELSE "Sell"
           q == equity \div (10 * price)
           signalled == sig # 0 /\ MayTrade
           accepted == signalled /\ CheckOrder(side, q, equity, top)
           new == [id |-> nextId + 1, side |-> side, qty |-> q, timestamp |-> ts]
<1>1. /\ price \in Nat \ {0} /\ peak \in Nat \ {0} /\ cash \in Int /\ nextId \in Nat
      /\ ts \in Nat /\ position.qty \in Int /\ position.avg \in Nat /\ checkedAt \in Nat
  BY BacktestAssumption DEF Inv, TypeOK, BacktestAssumption
<1>2. equity \in Int
  BY <1>1 DEF Equity
<1>3. /\ peak' = top
      /\ nextId' = IF signalled THEN nextId + 1 ELSE nextId
      /\ open' = IF accepted THEN open \cup {new} ELSE open
      /\ checkedAt' = IF accepted THEN price ELSE checkedAt
      /\ phase' = "bar"
      /\ UNCHANGED <<bars, ts, price, cash, position, low, high>>
  BY DEF Decide
<1>4. top \in Nat \ {0}
  <2> HIDE DEF equity
  <2> QED
    BY <1>1, <1>2 DEF Higher
<1>5. ASSUME accepted PROVE q \in Nat
  <2>1. DrawdownOk(equity, top)
    BY <1>5 DEF CheckOrder
  <2> HIDE DEF equity, top
  <2>2. equity \in Nat
    BY <1>2, <1>4, <2>1, EquityPositive
  <2>3. 10 * price \in Nat \ {0}
    BY <1>1
  <2> QED
    BY <2>2, <2>3, QuotientNat
<1>6. side \in Side
  BY DEF Side
<1>7. accepted => open = {}
  BY DEF MayTrade
<1>8. accepted => Abs(position.qty + Signed(side, q)) * price <= MaxPositionUsd
  BY DEF CheckOrder
<1> HIDE DEF equity, top, side, q, signalled, accepted
<1>9. CASE accepted
  <2>1. open' = {new} /\ checkedAt' = price
    BY <1>3, <1>7, <1>9
  <2>2. new \in [id : Nat, side : Side, qty : Nat, timestamp : Nat]
    BY <1>1, <1>5, <1>6, <1>9
  <2>3. TypeOK'
    <3>1. nextId' \in Nat
      BY <1>1, <1>3
    <3> HIDE DEF new
    <3> QED
      BY <1>1, <1>3, <1>4, <2>1, <2>2, <3>1 DEF Inv, TypeOK
  <2>4. OpenChecked'
    BY <1>3, <1>8, <1>9, <2>1 DEF OpenChecked
  <2>5. AtMostOneOpen' /\ ExposureChecked'
    BY <2>1 DEF AtMostOneOpen, ExposureChecked
  <2>6. AverageAmongFills'
    BY <1>3 DEF Inv, AverageAmongFills
  <2> QED
    BY <1>3, <1>4, <2>3, <2>4, <2>5, <2>6 DEF Inv
<1>10. CASE ~accepted
  <2>1. open' = open /\ checkedAt' = checkedAt
    BY <1>3, <1>10
  <2>2. TypeOK'
    <3>1. nextId' \in Nat
      BY <1>1, <1>3
    <3> QED
      BY <1>1, <1>3, <1>4, <2>1, <3>1 DEF Inv, TypeOK
  <2>3. AtMostOneOpen' /\ ExposureChecked' /\ OpenChecked' /\ AverageAmongFills'
    BY <1>3, <2>1 DEF Inv, AtMostOneOpen, ExposureChecked, OpenChecked, AverageAmongFills
  <2> QED
    BY <1>3, <1>4, <2>2, <2>3 DEF Inv
<1> QED
  BY <1>9, <1>10

LEMMA InvStep == Inv /\ [Next]_vars => Inv'
<1> SUFFICES ASSUME Inv, [Next]_vars PROVE Inv'
  OBVIOUS
<1>1. ASSUME NEW p \in Price, NEW gap \in Gap, Bar(p, gap) PROVE Inv'
  BY <1>1, BarKeeps
<1>2. ASSUME NEW o \in open, FillOrder(o) PROVE Inv'
  BY <1>2, FillKeeps
<1>3. CASE Matched
  BY <1>3, MatchedKeeps
<1>4. ASSUME NEW sig \in {-1, 0, 1}, Decide(sig) PROVE Inv'
  BY <1>4, DecideKeeps
<1>5. CASE UNCHANGED vars
  BY <1>5 DEF Inv, TypeOK, AtMostOneOpen, ExposureChecked, OpenChecked, AverageAmongFills, vars
<1> QED
  BY <1>1, <1>2, <1>3, <1>4, <1>5 DEF Next

LEMMA Invariance == Spec => []Inv
BY InvInit, InvStep, PTL DEF Spec

-----------------------------------------------------------------------------

(* Every variable keeps its type: no order for a negative quantity is ever  *)
(* made of a negative equity, and no average is negative.                   *)
THEOREM BacktestTypeOK == Spec => []TypeOK
<1>1. Inv => TypeOK
  BY DEF Inv
<1> QED
  BY <1>1, Invariance, PTL

(* No position outgrows the limit at the price it was checked at, for every *)
(* latency and every series of prices between check and fill.               *)
THEOREM PositionsWereChecked == Spec => []ExposureChecked
<1>1. Inv => ExposureChecked
  BY DEF Inv
<1> QED
  BY <1>1, Invariance, PTL

(* The average price lies between the fills the position was built from.    *)
THEOREM AveragesAmongFills == Spec => []AverageAmongFills
<1>1. Inv => AverageAmongFills
  BY DEF Inv
<1> QED
  BY <1>1, Invariance, PTL

-----------------------------------------------------------------------------
(* The slicing algorithm. *)

(* The slices due at t, for calls that are not before the start. *)
SlicesDue(t) == (t - startTs) \div Interval
NoneEarly == Interval > 0 /\ \A t \in seen : t >= startTs

(* What was handed out since the last reset is a run of consecutive ids,    *)
(* whatever the calls were; calls that are not early also keep the count    *)
(* between what is due at some call and what is due at all of them.         *)
TwapInv ==
  /\ startTs \in Nat /\ lastId \in Nat /\ slicesExecuted \in 0 .. SliceCount
  /\ seen \subseteq Stamp
  /\ emitted = (lastId - slicesExecuted + 1) .. lastId
  /\ NoneEarly =>
       /\ \A t \in seen : slicesExecuted >= Smaller(SlicesDue(t), SliceCount)
       /\ slicesExecuted > 0 => \E t \in seen : SlicesDue(t) >= slicesExecuted

LEMMA IntervalNat == Interval \in Nat
BY TwapAssumption, QuotientNat DEF TwapAssumption, Interval

(* In time the cast to usize changes nothing. *)
LEMMA InTime ==
  ASSUME startTs \in Nat, Interval > 0, NEW t \in Nat, t >= startTs, t < Wide
  PROVE  /\ SlicesDue(t) \in Nat
         /\ AsUsize(Elapsed(t)) = SlicesDue(t)
<1> DEFINE x == t - startTs
<1>1. x \in Nat /\ x < Wide /\ Interval \in Nat \ {0}
  BY IntervalNat DEF Wide
<1>2. Interval * 0 <= x
  BY <1>1
<1>3. x <= Interval * x
  BY <1>1, ProductMonotone, x * 1 <= x * Interval
<1>4. 0 <= SlicesDue(t) /\ SlicesDue(t) <= x
  BY <1>1, <1>2, <1>3, QuotientBetween DEF SlicesDue
<1>5. SlicesDue(t) \in Nat
  BY <1>1, <1>4, QuotientBounds DEF SlicesDue
<1>6. Elapsed(t) = SlicesDue(t)
  BY DEF Elapsed, SlicesDue
<1> QED
  BY <1>1, <1>4, <1>5, <1>6 DEF AsUsize, Wide

(* Early or late, the cast leaves a count. *)
LEMMA UsizeNat ==
  ASSUME startTs \in Nat, Interval > 0, NEW t \in Nat
  PROVE  AsUsize(Elapsed(t)) \in Nat
<1>1. Interval \in Nat \ {0}
  BY IntervalNat
<1>2. (t - startTs) \div Interval \in Int /\ (startTs - t) \div Interval \in Int
  BY <1>1, QuotientBounds
<1>3. Elapsed(t) \in Int
  BY <1>2 DEF Elapsed
<1> QED
  BY <1>3 DEF AsUsize, Wide

LEMMA TwapInvInit == TwapInit => TwapInv
<1> SUFFICES ASSUME TwapInit PROVE TwapInv
  OBVIOUS
<1> QED
  BY TwapAssumption DEF TwapInit, TwapInv, TwapAssumption

LEMMA TwapGenerate ==
  ASSUME TwapInv, NEW t \in Stamp, GenerateSlices(t), \A u \in Stamp : u < Wide
  PROVE  TwapInv'
<1>1. /\ startTs \in Nat /\ startTs' = startTs /\ t \in Nat /\ t < Wide
      /\ lastId \in Nat /\ slicesExecuted \in 0 .. SliceCount /\ SliceCount \in Nat \ {0}
  BY TwapAssumption DEF TwapInv, TwapAssumption, GenerateSlices
<1>2. PICK n : /\ n = IF slicesExecuted >= SliceCount \/ Interval <= 0 THEN 0 ELSE ToExecute(t)
               /\ slicesExecuted' = slicesExecuted + n
               /\ lastId' = lastId + n
               /\ emitted' = emitted \cup (lastId + 1 .. lastId + n)
               /\ seen' = seen \cup {t}
  BY DEF GenerateSlices
<1>3. n \in Nat /\ slicesExecuted + n <= SliceCount
  <2>1. CASE slicesExecuted >= SliceCount \/ Interval <= 0
    BY <1>1, <1>2, <2>1
  <2>2. CASE ~(slicesExecuted >= SliceCount \/ Interval <= 0)
    <3>1. AsUsize(Elapsed(t)) \in Nat
      BY <1>1, <2>2, IntervalNat, UsizeNat
    <3> QED
      BY <1>1, <1>2, <2>2, <3>1 DEF ToExecute, Smaller
  <2> QED
    BY <2>1, <2>2
<1>4. emitted' = (lastId' - slicesExecuted' + 1) .. lastId'
  <2>1. emitted = (lastId - slicesExecuted + 1) .. lastId
    BY DEF TwapInv
  <2> DEFINE first == lastId - slicesExecuted + 1
  <2>2. first \in Int /\ first <= lastId + 1 /\ first = lastId' - slicesExecuted' + 1
    BY <1>1, <1>2, <1>3
  <2>3. emitted' = (first .. lastId) \cup (lastId + 1 .. lastId + n)
    BY <1>2, <2>1
  <2> HIDE DEF first
  <2>4. emitted' = first .. (lastId + n)
    BY <1>1, <1>3, <2>2, <2>3
  <2> QED
    BY <1>2, <2>2, <2>4
<1>5. ASSUME NoneEarly'
      PROVE  /\ \A u \in seen' : slicesExecuted' >= Smaller(SlicesDue(u), SliceCount)
             /\ slicesExecuted' > 0 => \E u \in seen' : SlicesDue(u) >= slicesExecuted'
  <2>1. NoneEarly /\ t >= startTs /\ Interval > 0
    BY <1>1, <1>2, <1>5 DEF NoneEarly, Interval
  <2>2. /\ \A u \in seen : slicesExecuted >= Smaller(SlicesDue(u), SliceCount)
        /\ slicesExecuted > 0 => \E u \in seen : SlicesDue(u) >= slicesExecuted
    BY <2>1 DEF TwapInv
  <2>3. SlicesDue(t) \in Nat /\ AsUsize(Elapsed(t)) = SlicesDue(t)
    BY <1>1, <2>1, InTime
  <2>4. n = IF slicesExecuted >= SliceCount THEN 0
            ELSE IF Smaller(SlicesDue(t), SliceCount) > slicesExecuted
                 THEN Smaller(SlicesDue(t), SliceCount) - slicesExecuted ELSE 0
    BY <1>1, <1>2, <2>1, <2>3, IntervalNat DEF ToExecute
  <2>5. slicesExecuted' >= Smaller(SlicesDue(t), SliceCount)
    BY <1>1, <1>2, <2>3, <2>4 DEF Smaller
  <2>6. \A u \in seen : Smaller(SlicesDue(u), SliceCount) \in Int
    <3> TAKE u \in seen
    <3>1. u \in Nat /\ u < Wide /\ u >= startTs
      BY <2>1, TwapAssumption DEF TwapInv, TwapAssumption, NoneEarly
    <3>2. SlicesDue(u) \in Nat
      BY <1>1, <2>1, <3>1, InTime
    <3> QED
      BY <1>1, <3>2 DEF Smaller
  <2>7. \A u \in seen : slicesExecuted' >= Smaller(SlicesDue(u), SliceCount)
    BY <1>1, <1>2, <1>3, <2>2, <2>6
  <2>8. slicesExecuted' > 0 => \E u \in seen' : SlicesDue(u) >= slicesExecuted'
    <3>1. CASE n = 0
      BY <1>1, <1>2, <2>2, <3>1
    <3>2. CASE n # 0
      BY <1>1, <1>2, <2>3, <2>4, <3>2 DEF Smaller
    <3> QED
      BY <3>1, <3>2
  <2> QED
    BY <1>2, <2>5, <2>7, <2>8
<1>6. NoneEarly' =>
        /\ \A u \in seen' : slicesExecuted' >= Smaller(SlicesDue(u)', SliceCount)
        /\ slicesExecuted' > 0 => \E u \in seen' : SlicesDue(u)' >= slicesExecuted'
  BY <1>1, <1>5 DEF SlicesDue, Interval
<1>7. seen' \subseteq Stamp
  BY <1>2 DEF TwapInv
<1>8. startTs' \in Nat /\ lastId' \in Nat /\ slicesExecuted' \in 0 .. SliceCount
  BY <1>1, <1>2, <1>3
<1> QED
  BY <1>4, <1>6, <1>7, <1>8 DEF TwapInv, Smaller

LEMMA TwapReset ==
  ASSUME TwapInv, NEW t \in Start, NEW id \in FirstId, Reset(t, id)
  PROVE  TwapInv'
<1>1. /\ startTs' \in Nat /\ slicesExecuted' = 0 /\ lastId' \in Nat
      /\ emitted' = {} /\ seen' = {}
  BY TwapAssumption DEF Reset, TwapInv, TwapAssumption
<1>2. (lastId' - slicesExecuted' + 1) .. lastId' = {}
  <2>1. \A n \in Nat : (n - 0 + 1) .. n = {}
    OBVIOUS
  <2> QED
    BY <1>1, <2>1
<1>3. slicesExecuted' \in 0 .. SliceCount
  BY <1>1, TwapAssumption DEF TwapAssumption
<1>4. ~(slicesExecuted' > 0) /\ \A u \in seen' : FALSE
  BY <1>1
<1> QED
  BY <1>1, <1>2, <1>3, <1>4 DEF TwapInv

(* Calls in any order, repeated or with a clock that runs back, never hand  *)
(* out a slice twice, too early or too late (algo.rs:40-75), as long as     *)
(* the milliseconds fit the integer they are cast to.                       *)
THEOREM TwapKeepsSchedule == (\A t \in Stamp : t < Wide) /\ TwapSpec => []TwapOnSchedule
<1> SUFFICES ASSUME \A t \in Stamp : t < Wide PROVE TwapSpec => []TwapOnSchedule
  OBVIOUS
<1>1. ASSUME TwapInv, [TwapNext]_twapVars PROVE TwapInv'
  <2>1. CASE \E t \in Stamp : GenerateSlices(t)
    BY <1>1, <2>1, TwapGenerate
  <2>2. CASE \E t \in Start, id \in FirstId : Reset(t, id)
    BY <1>1, <2>2, TwapReset
  <2>3. CASE UNCHANGED twapVars
    BY <1>1, <2>3 DEF twapVars, TwapInv, NoneEarly, SlicesDue, Interval, Smaller
  <2> QED
    BY <1>1, <2>1, <2>2, <2>3 DEF TwapNext
<1>2. ASSUME TwapInv PROVE TwapOnSchedule
  <2>1. Cardinality(emitted) = slicesExecuted
    <3>1. lastId - slicesExecuted + 1 \in Int /\ lastId \in Int /\ slicesExecuted \in Nat
      BY <1>2 DEF TwapInv
    <3> QED
      BY <1>2, <3>1, FS_Interval DEF TwapInv
  <2> QED
    BY <1>2, <2>1, TwapAssumption DEF TwapInv, TwapOnSchedule, NoneEarly, SlicesDue, TwapAssumption
<1> QED
  BY <1>1, <1>2, TwapInvInit, PTL DEF TwapSpec
================================================================================
