------------------------------ MODULE PaperProofs ------------------------------
(***************************************************************************)
(* Theorems about the two paper accounts, PaperEngine and PaperBroker:     *)
(* their types, the books of the engine and of the broker's account, what  *)
(* the engine may charge, which lot a close closes, and that no copy of    *)
(* the broker's account counts a fill twice.                               *)
(***************************************************************************)
EXTENDS PaperEngine, PaperBroker, FiniteSetTheorems, SequenceTheorems, TLAPS

-----------------------------------------------------------------------------
(* Sums over finite sets.  The definition of a sum picks its elements in an *)
(* order of its own; these lemmas take them in any order.                   *)

(* A family of sets that holds a set as soon as it holds its proper subsets *)
(* holds every finite set.                                                  *)
LEMMA SubsetInduction ==
  ASSUME NEW S, IsFiniteSet(S), NEW C,
         \A T \in SUBSET S : (\A U \in SUBSET T : U # T => U \in C) => T \in C
  PROVE  S \in C
<1> DEFINE Bad == {T \in SUBSET S : T \notin C}
<1>1. SUFFICES ASSUME Bad # {} PROVE FALSE
  OBVIOUS
<1>2. Bad \subseteq FiniteSubsetsOf(S)
  BY FS_FiniteSubsetsOfFinite
<1>3. PICK T \in Bad : \A U \in Bad : ~(<<U, T>> \in StrictSubsetOrdering(S))
  <2> HIDE DEF Bad
  <2> QED
    BY <1>1, <1>2, FS_StrictSubsetOrderingWellFounded, WFMin
<1>4. ASSUME NEW U \in SUBSET T, U # T PROVE U \in C
  <2>1. <<U, T>> \in StrictSubsetOrdering(S)
    <3>1. <<U, T>> \in (SUBSET S) \X (SUBSET S)
      BY <1>3
    <3> QED
      BY <1>4, <3>1 DEF StrictSubsetOrdering
  <2> QED
    BY <1>3, <2>1
<1> QED
  BY <1>3, <1>4

(* The element that the sum takes first.                                    *)
Pick(s) == CHOOSE x \in s : TRUE

(* The table of partial sums that the definition of the sum builds.         *)
Table(f, S, g) ==
  g = [s \in SUBSET S |-> IF s = {} THEN 0 ELSE f[Pick(s)] + g[s \ {Pick(s)}]]

(* The sum is the last row of its table.                                    *)
LEMMA SumIsTable ==
  ASSUME NEW f, NEW S
  PROVE  SumFunctionOnSet(f, S) = (CHOOSE g : Table(f, S, g))[S]
BY DEF SumFunctionOnSet, FoldFunctionOnSet, MapThenFoldSet, Table, Pick

(* The row of the empty set is zero, any other one element and the row      *)
(* without it.                                                              *)
LEMMA TableRow ==
  ASSUME NEW f, NEW S, NEW g, Table(f, S, g), NEW s \in SUBSET S
  PROVE  /\ s = {} => g[s] = 0
         /\ s # {} => g[s] = f[Pick(s)] + g[s \ {Pick(s)}]
<1> DEFINE row(t) == IF t = {} THEN 0 ELSE f[Pick(t)] + g[t \ {Pick(t)}]
<1>1. g = [t \in SUBSET S |-> row(t)]
  BY DEF Table
<1>2. g[s] = row(s)
  <2> HIDE DEF row
  <2> QED
    BY <1>1
<1> QED
  BY <1>2

(* CHOOSE picks a member of a set that has one.                             *)
LEMMA PickMember == ASSUME NEW s, s # {} PROVE Pick(s) \in s
BY DEF Pick

(* Two tables of the same sums are the same.                                *)
LEMMA TablesAgree ==
  ASSUME NEW f, NEW A, NEW B, NEW g, NEW h, Table(f, A, g), Table(f, B, h),
         NEW W, W \subseteq A, W \subseteq B, IsFiniteSet(W)
  PROVE  g[W] = h[W]
<1> DEFINE C == {T \in SUBSET W : g[T] = h[T]}
<1>1. ASSUME NEW T \in SUBSET W, \A U \in SUBSET T : U # T => U \in C
      PROVE  T \in C
  <2>1. CASE T = {}
    BY <2>1, TableRow
  <2>2. CASE T # {}
    <3> DEFINE u == T \ {Pick(T)}
    <3>1. g[u] = h[u]
      BY <1>1, <2>2, PickMember
    <3>2. g[T] = f[Pick(T)] + g[u] /\ h[T] = f[Pick(T)] + h[u]
      BY <2>2, TableRow
    <3> QED
      BY <3>1, <3>2
  <2> QED
    BY <2>1, <2>2
<1>2. W \in C
  <2> HIDE DEF C
  <2> QED
    BY <1>1, SubsetInduction
<1> QED
  BY <1>2

(* Every finite set has a table, so the recursive definition defines one.   *)
LEMMA TableExists ==
  ASSUME NEW f, NEW S, IsFiniteSet(S)
  PROVE  \E g : Table(f, S, g)
<1> DEFINE C == {T \in SUBSET S : \E g : Table(f, T, g)}
<1>1. ASSUME NEW T \in SUBSET S, \A U \in SUBSET T : U # T => U \in C
      PROVE  T \in C
  <2> DEFINE sum(U) == (CHOOSE g : Table(f, U, g))[U]
             h == [s \in SUBSET T |-> IF s = {} THEN 0
                                      ELSE f[Pick(s)] + sum(s \ {Pick(s)})]
  <2>1. \A U \in SUBSET T : U # T => Table(f, U, CHOOSE g : Table(f, U, g))
    BY <1>1
  <2>2. \A U \in SUBSET T : IsFiniteSet(U)
    BY FS_Subset
  <2>3. ASSUME NEW U \in SUBSET T, U # T PROVE sum(U) = h[U]
    <3>1. CASE U = {}
      <4> DEFINE gu == CHOOSE g : Table(f, U, g)
      <4>1. Table(f, U, gu)
        BY <2>1, <2>3
      <4>2. gu[U] = 0
        <5> HIDE DEF gu
        <5> QED
          BY <3>1, <4>1, TableRow
      <4> QED
        BY <3>1, <4>2
    <3>2. CASE U # {}
      <4> DEFINE v == U \ {Pick(U)}
                 gu == CHOOSE g : Table(f, U, g)
                 gv == CHOOSE g : Table(f, v, g)
      <4>1. v \in SUBSET U /\ v # T /\ v \in SUBSET T
        BY <3>2, PickMember
      <4>2. Table(f, U, gu) /\ Table(f, v, gv)
        BY <2>1, <2>3, <4>1
      <4>3. gu[v] = gv[v]
        <5> HIDE DEF gu, gv, v
        <5> QED
          BY <2>2, <4>1, <4>2, TablesAgree
      <4>4. gu[U] = f[Pick(U)] + gu[v]
        <5> HIDE DEF gu
        <5> QED
          BY <3>2, <4>2, TableRow
      <4>5. h[U] = f[Pick(U)] + gv[v]
        BY <3>2
      <4>6. sum(U) = gu[U]
        OBVIOUS
      <4> HIDE DEF gu, gv, sum, h
      <4> QED
        BY <4>3, <4>4, <4>5, <4>6
    <3> QED
      BY <3>1, <3>2
  <2>4. ASSUME NEW s \in SUBSET T, s # {}
        PROVE  sum(s \ {Pick(s)}) = h[s \ {Pick(s)}]
    <3>1. s \ {Pick(s)} \in SUBSET T /\ s \ {Pick(s)} # T
      BY <2>4, PickMember
    <3> HIDE DEF sum, h
    <3> QED
      BY <2>3, <3>1
  <2>5. Table(f, T, h)
    <3> DEFINE hsum(s) == IF s = {} THEN 0 ELSE f[Pick(s)] + sum(s \ {Pick(s)})
               row(s) == IF s = {} THEN 0 ELSE f[Pick(s)] + h[s \ {Pick(s)}]
    <3>1. \A s \in SUBSET T : hsum(s) = row(s)
      <4> HIDE DEF sum, h
      <4> QED
        BY <2>4
    <3>2. h = [s \in SUBSET T |-> hsum(s)]
      OBVIOUS
    <3>3. h = [s \in SUBSET T |-> row(s)]
      <4> HIDE DEF h, hsum, row
      <4> QED
        BY <3>1, <3>2
    <3> HIDE DEF h
    <3> QED
      BY <3>3 DEF Table
  <2> QED
    BY <2>5
<1>2. S \in C
  <2> HIDE DEF C
  <2> QED
    BY <1>1, SubsetInduction
<1> QED
  BY <1>2

(* The sum over a finite set, one element at a time.                        *)
LEMMA SumUnfold ==
  ASSUME NEW f, NEW S, IsFiniteSet(S)
  PROVE  /\ S = {} => SumFunctionOnSet(f, S) = 0
         /\ S # {} => SumFunctionOnSet(f, S) = f[Pick(S)] + SumFunctionOnSet(f, S \ {Pick(S)})
<1> DEFINE table(U) == CHOOSE g : Table(f, U, g)
<1>1. \A U \in SUBSET S : Table(f, U, table(U)) /\ SumFunctionOnSet(f, U) = table(U)[U]
  BY FS_Subset, TableExists, SumIsTable
<1>2. CASE S = {}
  <2>1. S \in SUBSET S
    OBVIOUS
  <2> HIDE DEF table
  <2>2. Table(f, S, table(S))
    BY <1>1, <2>1
  <2>3. table(S)[S] = 0
    <3> DEFINE g == table(S)
    <3>1. Table(f, S, g)
      BY <2>2
    <3> HIDE DEF g
    <3>2. g[S] = 0
      BY <1>2, <2>1, <3>1, TableRow
    <3> QED
      BY <3>2 DEF g
  <2> QED
    BY <1>1, <1>2, <2>1, <2>3
<1>3. CASE S # {}
  <2> DEFINE u == S \ {Pick(S)}
  <2>1. u \in SUBSET S /\ IsFiniteSet(u)
    BY FS_Subset
  <2> HIDE DEF table
  <2>2. table(S)[u] = table(u)[u]
    BY <1>1, <2>1, TablesAgree
  <2>3. table(S)[S] = f[Pick(S)] + table(S)[u]
    BY <1>1, <1>3, TableRow
  <2> QED
    BY <1>1, <1>3, <2>1, <2>2, <2>3
<1> QED
  BY <1>2, <1>3

(* A sum of integers is an integer, one of naturals a natural.              *)
LEMMA SumType ==
  ASSUME NEW S, IsFiniteSet(S), NEW f, \A x \in S : f[x] \in Int
  PROVE  /\ SumFunctionOnSet(f, S) \in Int
         /\ (\A x \in S : f[x] >= 0) => SumFunctionOnSet(f, S) >= 0
<1> DEFINE sum(T) == SumFunctionOnSet(f, T)
           C == {T \in SUBSET S : /\ sum(T) \in Int
                                  /\ (\A x \in S : f[x] >= 0) => sum(T) >= 0}
<1>1. ASSUME NEW T \in SUBSET S, \A U \in SUBSET T : U # T => U \in C
      PROVE  T \in C
  <2>1. IsFiniteSet(T)
    BY FS_Subset
  <2>2. CASE T = {}
    <3>1. sum(T) = 0
      BY <2>1, <2>2, SumUnfold
    <3> HIDE DEF sum
    <3> QED
      BY <3>1
  <2>3. CASE T # {}
    <3> DEFINE u == T \ {Pick(T)}
    <3>1. Pick(T) \in T /\ f[Pick(T)] \in Int
      BY <2>3, PickMember
    <3>2. u \in C
      BY <1>1, <3>1
    <3>3. sum(T) = f[Pick(T)] + sum(u)
      BY <2>1, <2>3, SumUnfold
    <3> HIDE DEF sum
    <3> QED
      BY <3>1, <3>2, <3>3
  <2> QED
    BY <2>2, <2>3
<1>2. S \in C
  <2> HIDE DEF C
  <2> QED
    BY <1>1, SubsetInduction
<1> QED
  BY <1>2

(* Any element may be taken out first.                                      *)
LEMMA SumRemove ==
  ASSUME NEW S, IsFiniteSet(S), NEW f, \A x \in S : f[x] \in Int, NEW z \in S
  PROVE  SumFunctionOnSet(f, S) = f[z] + SumFunctionOnSet(f, S \ {z})
<1> DEFINE sum(T) == SumFunctionOnSet(f, T)
           C == {T \in SUBSET S : \A x \in T : sum(T) = f[x] + sum(T \ {x})}
<1>0. \A T \in SUBSET S : IsFiniteSet(T) /\ sum(T) \in Int
  BY FS_Subset, SumType
<1>1. ASSUME NEW T \in SUBSET S, \A U \in SUBSET T : U # T => U \in C,
             NEW x \in T
      PROVE  sum(T) = f[x] + sum(T \ {x})
  <2> DEFINE p == Pick(T)
  <2>1. p \in T /\ sum(T) = f[p] + sum(T \ {p})
    BY <1>0, PickMember, SumUnfold
  <2>2. CASE x = p
    BY <2>1, <2>2
  <2>3. CASE x # p
    <3>1. T \ {p} \in C /\ T \ {x} \in C
      BY <1>1, <2>1
    <3>2. sum(T \ {p}) = f[x] + sum((T \ {p}) \ {x})
      BY <2>3, <3>1
    <3>3. sum(T \ {x}) = f[p] + sum((T \ {x}) \ {p})
      BY <2>1, <2>3, <3>1
    <3>4. (T \ {p}) \ {x} = (T \ {x}) \ {p}
      OBVIOUS
    <3>5. f[p] \in Int /\ f[x] \in Int /\ sum((T \ {p}) \ {x}) \in Int
      BY <1>0, <2>1
    <3> DEFINE w == (T \ {p}) \ {x}
    <3>6. /\ sum(T) = f[p] + sum(T \ {p}) /\ sum(T \ {p}) = f[x] + sum(w)
          /\ sum(T \ {x}) = f[p] + sum(w)
          /\ f[p] \in Int /\ f[x] \in Int /\ sum(w) \in Int
      BY <2>1, <3>2, <3>3, <3>4, <3>5
    <3> HIDE DEF sum, p, w
    <3> QED
      BY <3>6
  <2> QED
    BY <2>2, <2>3
<1>2. S \in C
  <2>1. \A T \in SUBSET S : (\A U \in SUBSET T : U # T => U \in C) => T \in C
    BY <1>1
  <2> HIDE DEF C
  <2> QED
    BY <2>1, SubsetInduction
<1> QED
  BY <1>2

(* One more element adds its value.                                         *)
LEMMA SumAdd ==
  ASSUME NEW S, IsFiniteSet(S), NEW z, z \notin S, NEW f,
         \A x \in S \cup {z} : f[x] \in Int
  PROVE  SumFunctionOnSet(f, S \cup {z}) = f[z] + SumFunctionOnSet(f, S)
<1>1. IsFiniteSet(S \cup {z}) /\ (S \cup {z}) \ {z} = S
  BY FS_AddElement
<1> QED
  BY <1>1, SumRemove

(* Functions that agree on a set have the same sum over it.                 *)
LEMMA SumAgree ==
  ASSUME NEW S, IsFiniteSet(S), NEW f, NEW g, \A x \in S : f[x] = g[x]
  PROVE  SumFunctionOnSet(f, S) = SumFunctionOnSet(g, S)
<1> DEFINE C == {T \in SUBSET S : SumFunctionOnSet(f, T) = SumFunctionOnSet(g, T)}
<1>1. ASSUME NEW T \in SUBSET S, \A U \in SUBSET T : U # T => U \in C
      PROVE  T \in C
  <2>1. IsFiniteSet(T)
    BY FS_Subset
  <2>2. CASE T = {}
    BY <2>1, <2>2, SumUnfold
  <2>3. CASE T # {}
    <3> DEFINE u == T \ {Pick(T)}
    <3>1. Pick(T) \in T /\ f[Pick(T)] = g[Pick(T)]
      BY <2>3, PickMember
    <3>2. u \in C
      BY <1>1, <3>1
    <3> QED
      BY <2>1, <2>3, <3>1, <3>2, SumUnfold
  <2> QED
    BY <2>2, <2>3
<1>2. S \in C
  <2> HIDE DEF C
  <2> QED
    BY <1>1, SubsetInduction
<1> QED
  BY <1>2

-----------------------------------------------------------------------------
(* Numbers.                                                                 *)

(* Products of integers are integers.                                       *)
LEMMA IntProduct == \A a, b \in Int : a * b \in Int
OBVIOUS

(* Products of naturals are naturals.                                       *)
LEMMA NatProduct == \A a, b \in Nat : a * b \in Nat
OBVIOUS

(* Quotients of naturals are naturals.                                      *)
LEMMA QuotientOf == \A a, b \in Nat : b > 0 => a \div b \in Nat
OBVIOUS

(* A sign is one or minus one.                                              *)
LEMMA SignType == \A side : Sign(side) \in Int /\ Sign(side) \in {1, -1}
BY DEF Sign

-----------------------------------------------------------------------------
(* The paper engine.                                                        *)

(* The worth of a lot is an amount.                                         *)
LEMMA WorthInt ==
  ASSUME NEW qty \in Int, NEW price \in Int
  PROVE  Worth(qty, price) \in Int /\ Fee(qty, price) \in Int
<1> DEFINE p == qty * price
<1>1. p \in Int
  BY IntProduct
<1>2. Worth(qty, price) = 1000 * p /\ Fee(qty, price) = TakerFee * p
  BY DEF Worth, Fee
<1>3. TakerFee \in Int
  BY EngineAssumption
<1> HIDE DEF p
<1> QED
  BY <1>1, <1>2, <1>3, IntProduct

(* The worth of a quantity that is not negative is not negative.            *)
LEMMA WorthNat ==
  ASSUME NEW qty \in Nat, NEW price \in Nat
  PROVE  Worth(qty, price) \in Nat /\ Fee(qty, price) \in Nat
<1> DEFINE p == qty * price
<1>1. p \in Nat
  BY NatProduct
<1>2. Worth(qty, price) = 1000 * p /\ Fee(qty, price) = TakerFee * p
  BY DEF Worth, Fee
<1>3. TakerFee \in Nat
  BY EngineAssumption
<1> HIDE DEF p
<1> QED
  BY <1>1, <1>2, <1>3, NatProduct

(* The adaptive parameters are amounts, whatever the streak.                *)
LEMMA AdaptiveType ==
  ASSUME NEW k \in [wins : Nat, losses : Nat]
  PROVE  StopLossPct(k) \in Int /\ TakeProfitPct(k) \in Int
<1>1. k.wins \in Nat /\ k.losses \in Nat
  OBVIOUS
<1>2. Least(k.losses, MaxWindows) \in Int /\ Least(k.wins, 4) \in Int
  BY <1>1, AdaptiveAssumption DEF Least
<1>3. LossAdjustment(k) \in Int /\ WinAdjustment(k) \in Int
  BY <1>2, AdaptiveAssumption, IntProduct DEF LossAdjustment, WinAdjustment
<1> QED
  BY <1>3, AdaptiveAssumption DEF StopLossPct, TakeProfitPct, Least, Greatest

(* The lot of an id that is known is a lot.                                 *)
LEMMA LotAtType ==
  ASSUME NEW e \in Engine, NEW side \in Side, NEW qty \in Nat \ {0}, NEW price \in Nat,
         NEW unitFee \in Nat
  PROVE  LotAt(e, side, qty, price, unitFee) \in Lot
<1> DEFINE sl == price * (1000 - Sign(side) * StopLossPct(e.streak))
           tp == price * (1000 + Sign(side) * TakeProfitPct(e.streak))
<1>1. e.streak \in [wins : Nat, losses : Nat]
  BY DEF Engine
<1>2. StopLossPct(e.streak) \in Int /\ TakeProfitPct(e.streak) \in Int
  BY <1>1, AdaptiveType
<1>3. Sign(side) * StopLossPct(e.streak) \in Int /\ Sign(side) * TakeProfitPct(e.streak) \in Int
  BY <1>2, SignType, IntProduct
<1>4. sl \in Int /\ tp \in Int
  BY <1>3, IntProduct
<1>5. LotAt(e, side, qty, price, unitFee)
        = [side |-> side, qty |-> qty, avg |-> price, unitFee |-> unitFee,
           stopLoss |-> sl \div 1000, takeProfit |-> tp \div 1000]
  BY DEF LotAt
<1> HIDE DEF sl, tp
<1>6. sl \div 1000 \in Int /\ tp \div 1000 \in Int
  BY <1>4
<1> QED
  BY <1>5, <1>6 DEF Lot

(* The head of a list of ids is one of them.                                *)
LEMMA MinMember ==
  ASSUME NEW S, S \subseteq Nat, S # {}
  PROVE  Min(S) \in S /\ \A i \in S : Min(S) <= i
<1>1. PICK x \in S : \A y \in S : ~(<<y, x>> \in OpToRel(<, Nat))
  BY NatLessThanWellFounded, WFMin
<1>2. ASSUME NEW y \in S, ~(x <= y) PROVE FALSE
  <2>1. y < x /\ <<y, x>> \in Nat \X Nat
    BY <1>2
  <2>2. <<y, x>> \in OpToRel(<, Nat)
    BY <2>1 DEF OpToRel
  <2> QED
    BY <1>1, <2>2
<1> QED
  BY <1>1, <1>2 DEF Min

(* Lots are known by the ids of all that were created.                      *)
Known(e) == e \in Engine /\ e.open \subseteq LotIds(e) /\ e.managed \subseteq LotIds(e)

(* The ids are the positions in the sequence of lots, finitely many, each   *)
(* of a lot.                                                                *)
LEMMA LotIdsAre ==
  ASSUME NEW e \in Engine
  PROVE  /\ LotIds(e) = 1 .. Len(e.lots) /\ Len(e.lots) \in Nat
         /\ \A i \in LotIds(e) : e.lots[i] \in Lot
         /\ IsFiniteSet(LotIds(e))
<1>1. e.lots \in Seq(Lot)
  BY DEF Engine
<1>2. DOMAIN e.lots = 1 .. Len(e.lots) /\ Len(e.lots) \in Nat
  BY <1>1
<1>3. IsFiniteSet(1 .. Len(e.lots))
  BY <1>2, FS_Interval
<1> QED
  BY <1>1, <1>2, <1>3 DEF LotIds

(* The oldest managed lot is a lot that is known.                           *)
LEMMA OldestManaged ==
  ASSUME NEW e, Known(e), e.managed # {}
  PROVE  Min(e.managed) \in e.managed /\ e.lots[Min(e.managed)] \in Lot /\ Min(e.managed) \in Nat
<1>1. e.managed \subseteq Nat
  BY DEF Known, Engine
<1> QED
  BY <1>1, MinMember, LotIdsAre DEF Known

(* The value of a lot at a price is an amount.                              *)
LEMMA LotValueType ==
  ASSUME NEW e \in Engine, NEW lot \in Lot
  PROVE  LotValue(e, lot) \in Nat
<1>1. lot.qty \in Nat /\ lot.qty > 0
  BY DEF Lot
<1>2. e.price \in Nat
  BY EngineAssumption DEF Engine
<1> QED
  BY <1>1, <1>2, WorthNat DEF LotValue

(* The open lots are worth something.                                       *)
LEMMA MarketValueType ==
  ASSUME NEW e \in Engine, e.open \subseteq LotIds(e)
  PROVE  MarketValue(e) \in Int /\ MarketValue(e) >= 0 /\ Equity(e) \in Int
<1> DEFINE f == [i \in e.open |-> LotValue(e, e.lots[i])]
<1>1. IsFiniteSet(e.open)
  BY LotIdsAre, FS_Subset
<1>2. \A i \in e.open : f[i] \in Int /\ f[i] >= 0
  BY LotIdsAre, LotValueType
<1>3. DOMAIN f = e.open
  OBVIOUS
<1>4. MarketValue(e) = SumFunctionOnSet(f, e.open)
  BY <1>3 DEF MarketValue, SumFunction
<1> HIDE DEF f
<1>5. MarketValue(e) \in Int /\ MarketValue(e) >= 0
  BY <1>1, <1>2, <1>4, SumType
<1>6. e.cash \in Int
  BY DEF Engine
<1> QED
  BY <1>5, <1>6 DEF Equity

(* Percentages of naturals are naturals.                                    *)
LEMMA QuotientNat == \A a \in Nat : a \div 100 \in Nat
OBVIOUS

(* The performance fee is an amount that is not negative.                   *)
LEMMA PerfFeeType ==
  ASSUME NEW e \in Engine, NEW gross \in Int, NEW before \in Int
  PROVE  PerfFee(e, gross, before) \in Nat
<1>1. e.peak \in Nat /\ PerformanceFee \in Nat
  BY EngineAssumption DEF Engine
<1>2. CASE gross > 0 /\ before > e.peak
  <2>1. gross * PerformanceFee \in Nat /\ (before - e.peak) * PerformanceFee \in Nat
    <3>1. gross \in Nat /\ before - e.peak \in Nat
      BY <1>1, <1>2
    <3> QED
      BY <1>1, <3>1, NatProduct
  <2>2. (gross * PerformanceFee) \div 100 \in Nat /\ ((before - e.peak) * PerformanceFee) \div 100 \in Nat
    BY <2>1, QuotientNat
  <2> QED
    BY <1>2, <2>2 DEF PerfFee, Least
<1>3. CASE ~(gross > 0 /\ before > e.peak)
  BY <1>3 DEF PerfFee
<1> QED
  BY <1>2, <1>3

(* Amounts of a close.                                                      *)
LEMMA CloseAmounts ==
  ASSUME NEW e \in Engine, NEW lot \in Lot
  PROVE  /\ GrossPnl(e, lot) \in Int /\ Returned(e, lot) \in Int
         /\ ExitPerfFee(e, lot) \in Nat /\ Fee(lot.qty, e.price) \in Nat
         /\ lot.unitFee * lot.qty \in Nat /\ NetPnl(e, lot) \in Int
<1>1. /\ lot.qty \in Nat /\ lot.avg \in Nat /\ lot.unitFee \in Nat
      /\ e.price \in Nat /\ e.cash \in Int
  BY EngineAssumption DEF Lot, Engine
<1>2. Worth(lot.qty, e.price - lot.avg) \in Int
  <2>1. lot.qty \in Int /\ e.price - lot.avg \in Int
    BY <1>1
  <2> QED
    BY <2>1, WorthInt
<1>3. GrossPnl(e, lot) \in Int
  BY <1>2, SignType, IntProduct DEF GrossPnl
<1>4. Fee(lot.qty, e.price) \in Nat /\ Worth(lot.qty, lot.avg) \in Nat
  BY <1>1, WorthNat
<1>5. Returned(e, lot) \in Int
  BY <1>3, <1>4 DEF Returned
<1>6. e.cash + Returned(e, lot) \in Int
  BY <1>1, <1>5
<1>7. ExitPerfFee(e, lot) \in Nat
  BY <1>3, <1>6, PerfFeeType DEF ExitPerfFee
<1>8. lot.unitFee * lot.qty \in Nat
  BY <1>1, NatProduct
<1>9. NetPnl(e, lot) \in Int
  <2> DEFINE u == lot.unitFee * lot.qty
  <2>1. NetPnl(e, lot) = GrossPnl(e, lot) - (u + Fee(lot.qty, e.price) + ExitPerfFee(e, lot))
    BY DEF NetPnl
  <2>2. u \in Nat
    BY <1>8
  <2> HIDE DEF u
  <2> QED
    BY <1>3, <1>4, <1>7, <2>1, <2>2
<1> QED
  BY <1>3, <1>4, <1>5, <1>7, <1>8, <1>9

(* The lot that a close closes, and what e has become, c, once it is closed *)
(* because of lot t.                                                        *)
Oldest(e) == e.lots[Min(e.managed)]

ClosedFrom(e, c, t) ==
  /\ c.cash = e.cash + Returned(e, Oldest(e)) - ExitPerfFee(e, Oldest(e))
  /\ c.perfFees = e.perfFees + ExitPerfFee(e, Oldest(e))
  /\ c.netPnl = e.netPnl + NetPnl(e, Oldest(e))
  /\ c.managed = e.managed \ {Min(e.managed)} /\ c.open = e.open \ {Min(e.managed)}
  /\ c.last.closed = Min(e.managed) /\ c.last.triggered = t
  /\ c.lots = e.lots
  /\ c.peak = Greatest(e.peak, c.cash + MarketValue(c))

(* What closing does to the fields of the engine.                           *)
LEMMA CloseFields ==
  ASSUME NEW e, Known(e), e.managed # {}, NEW t, NEW r
  PROVE  ClosedFrom(e, Close(e, t, r), t)
<1> DEFINE id == Min(e.managed)
           lot == e.lots[id]
           closed == [e EXCEPT
             !.cash = e.cash + Returned(e, lot) - ExitPerfFee(e, lot),
             !.commissions = e.commissions + Fee(lot.qty, e.price) + ExitPerfFee(e, lot),
             !.perfFees = e.perfFees + ExitPerfFee(e, lot),
             !.netPnl = e.netPnl + NetPnl(e, lot),
             !.managed = e.managed \ {id},
             !.open = e.open \ {id},
             !.streak = IF NetPnl(e, lot) > 0 THEN Won(e.streak) ELSE Lost(e.streak),
             !.last = [closed |-> id, triggered |-> t, reason |-> r, price |-> e.price]]
           c == [closed EXCEPT !.peak = Greatest(e.peak, Equity(closed))]
<1>1. Close(e, t, r) = c
  BY DEF Close, Known, Engine
<1>2. DOMAIN e = {"cash", "commissions", "perfFees", "price", "peak", "streak", "lots", "open",
                  "managed", "netPnl", "last"}
  BY DEF Known, Engine
<1> HIDE DEF id, lot
<1>3. Equity(closed) = closed.cash + MarketValue(closed)
  BY DEF Equity
<1>4. MarketValue(c) = MarketValue(closed)
  BY <1>2 DEF MarketValue, LotValue
<1> QED
  BY <1>1, <1>2, <1>3, <1>4 DEF id, lot, ClosedFrom, Oldest

(* Why a lot may be closed.                                                 *)
Reason == {"none", "STOP_LOSS", "TAKE_PROFIT", "DYNAMIC_EXIT"}

(* Closing the oldest lot leaves an engine whose lots are known.            *)
LEMMA CloseKnown ==
  ASSUME NEW e, Known(e), e.managed # {}, NEW t \in Nat, NEW r \in Reason
  PROVE  Known(Close(e, t, r))
<1> DEFINE id == Min(e.managed)
           lot == e.lots[id]
           closed == [e EXCEPT
             !.cash = e.cash + Returned(e, lot) - ExitPerfFee(e, lot),
             !.commissions = e.commissions + Fee(lot.qty, e.price) + ExitPerfFee(e, lot),
             !.perfFees = e.perfFees + ExitPerfFee(e, lot),
             !.netPnl = e.netPnl + NetPnl(e, lot),
             !.managed = e.managed \ {id},
             !.open = e.open \ {id},
             !.streak = IF NetPnl(e, lot) > 0 THEN Won(e.streak) ELSE Lost(e.streak),
             !.last = [closed |-> id, triggered |-> t, reason |-> r, price |-> e.price]]
           c == [closed EXCEPT !.peak = Greatest(e.peak, Equity(closed))]
<1>1. Close(e, t, r) = c
  BY DEF Close, Known, Engine
<1>2. e \in Engine /\ id \in Nat /\ lot \in Lot
  BY OldestManaged DEF Known
<1>3. e.price \in Nat
  BY <1>2, EngineAssumption DEF Engine
<1> HIDE DEF id, lot
<1>4. closed \in Engine
  <2>1. /\ e.cash + Returned(e, lot) - ExitPerfFee(e, lot) \in Int
        /\ e.commissions + Fee(lot.qty, e.price) + ExitPerfFee(e, lot) \in Nat
        /\ e.perfFees + ExitPerfFee(e, lot) \in Nat
        /\ e.netPnl + NetPnl(e, lot) \in Int
    <3>1. /\ Returned(e, lot) \in Int /\ ExitPerfFee(e, lot) \in Nat
          /\ Fee(lot.qty, e.price) \in Nat /\ NetPnl(e, lot) \in Int
      BY <1>2, CloseAmounts
    <3>2. e.cash \in Int /\ e.commissions \in Nat /\ e.perfFees \in Nat /\ e.netPnl \in Int
      BY <1>2 DEF Engine
    <3> QED
      BY <3>1, <3>2
  <2>2. (IF NetPnl(e, lot) > 0 THEN Won(e.streak) ELSE Lost(e.streak))
          \in [wins : Nat, losses : Nat]
    BY <1>2 DEF Won, Lost, Engine
  <2>3. [closed |-> id, triggered |-> t, reason |-> r, price |-> e.price] \in Trade
    BY <1>2, <1>3 DEF Trade, Reason
  <2>4. e.managed \ {id} \in SUBSET Nat /\ e.open \ {id} \in SUBSET Nat
    BY <1>2 DEF Engine
  <2> QED
    BY <1>2, <2>1, <2>2, <2>3, <2>4 DEF Engine
<1>5. closed.open \subseteq LotIds(closed) /\ closed.managed \subseteq LotIds(closed)
  BY <1>2 DEF Known, Engine, LotIds
<1> HIDE DEF closed
<1>6. Equity(closed) \in Int /\ e.peak \in Nat
  BY <1>2, <1>4, <1>5, MarketValueType DEF Engine
<1>7. Greatest(e.peak, Equity(closed)) \in Nat
  BY <1>6 DEF Greatest
<1>8. c \in Engine
  BY <1>4, <1>7 DEF Engine
<1>9. c.open = closed.open /\ c.managed = closed.managed /\ c.lots = closed.lots
  BY <1>4 DEF Engine
<1> HIDE DEF c
<1> QED
  BY <1>1, <1>5, <1>8, <1>9 DEF Known, LotIds

(* The two exits of a tick: nothing, or a close.                            *)
LEMMA ExitOrNothing ==
  ASSUME NEW e, Known(e), NEW signal
  PROVE  /\ \/ CheckExit(e) = e
            \/ e.managed # {} /\ \E t \in e.managed, r \in Reason : CheckExit(e) = Close(e, t, r)
         /\ \/ DynamicExit(e, signal) = e /\ \A i \in e.managed : ~Reverses(e.lots[i], signal)
            \/ e.managed # {} /\ \E t \in e.managed : DynamicExit(e, signal) = Close(e, t, "DYNAMIC_EXIT")
<1>0. e.managed \subseteq Nat
  BY DEF Known, Engine
<1>1. \/ CheckExit(e) = e
      \/ e.managed # {} /\ \E t \in e.managed, r \in Reason : CheckExit(e) = Close(e, t, r)
  <2> DEFINE hits == {i \in e.managed : ExitReason(e, e.lots[i]) # "none"}
  <2>1. CASE hits = {}
    BY <2>1 DEF CheckExit
  <2>2. CASE hits # {}
    <3>1. Min(hits) \in hits
      BY <1>0, <2>2, MinMember
    <3>2. ExitReason(e, e.lots[Min(hits)]) \in Reason
      BY DEF ExitReason, Reason
    <3>3. CheckExit(e) = Close(e, Min(hits), ExitReason(e, e.lots[Min(hits)]))
      BY <2>2 DEF CheckExit
    <3> QED
      BY <3>1, <3>2, <3>3
  <2> QED
    BY <2>1, <2>2
<1>2. \/ DynamicExit(e, signal) = e /\ \A i \in e.managed : ~Reverses(e.lots[i], signal)
      \/ e.managed # {} /\ \E t \in e.managed : DynamicExit(e, signal) = Close(e, t, "DYNAMIC_EXIT")
  <2> DEFINE hits == {i \in e.managed : Reverses(e.lots[i], signal)}
  <2>1. CASE hits = {}
    BY <2>1 DEF DynamicExit
  <2>2. CASE hits # {}
    <3>1. Min(hits) \in hits
      BY <1>0, <2>2, MinMember
    <3>3. DynamicExit(e, signal) = Close(e, Min(hits), "DYNAMIC_EXIT")
      BY <2>2 DEF DynamicExit
    <3> QED
      BY <3>1, <3>3
  <2> QED
    BY <2>1, <2>2
<1> QED
  BY <1>1, <1>2

(* So does the part of a tick that may close lots.                          *)
LEMMA ExitsKnown ==
  ASSUME NEW e, Known(e), NEW signal
  PROVE  Known(CheckExit(e)) /\ Known(DynamicExit(e, signal))
<1>1. e.managed \subseteq Nat
  BY DEF Known, Engine
<1> QED
  BY <1>1, ExitOrNothing, CloseKnown DEF Reason

(* The price of an entry is a price.                                        *)
LEMMA EntryPriceType ==
  ASSUME NEW e \in Engine, NEW side \in Side, NEW qty \in Quantity, NEW slip \in Slip,
         Affordable(e, qty, slip)
  PROVE  EntryPrice(e, side, slip) \in Nat
<1>1. e.price \in Nat /\ qty \in Nat /\ qty > 0 /\ slip \in Nat /\ MinTradeNotional \in Nat
  <2>1. e.price \in Price
    BY DEF Engine
  <2>2. qty \in Nat \ {0} /\ slip \in Nat /\ MinTradeNotional \in Nat
    BY EngineAssumption
  <2>3. e.price \in Nat
    BY <2>1, EngineAssumption
  <2> QED
    BY <2>2, <2>3
<1>2. e.price - slip >= 0
  <2> SUFFICES ASSUME e.price - slip < 0 PROVE FALSE
    BY <1>1
  <2>1. qty * (e.price - slip) >= 0
    <3> DEFINE p == qty * (e.price - slip)
    <3>1. p \in Int
      BY <1>1, IntProduct
    <3>2. 1000 * p >= MinTradeNotional
      BY DEF Affordable, Worth
    <3> HIDE DEF p
    <3>3. p >= 0
      BY <1>1, <3>1, <3>2
    <3> QED
      BY <3>3 DEF p
  <2>2. \A a, b \in Int : a > 0 /\ b < 0 => a * b < 0
    OBVIOUS
  <2>3. e.price - slip \in Int /\ qty \in Int
    BY <1>1
  <2> QED
    BY <1>1, <2>1, <2>2, <2>3
<1> QED
  BY <1>1, <1>2 DEF EntryPrice, Sign, Side

(* A new lot gets the next id.                                              *)
LEMMA AppendLot ==
  ASSUME NEW s \in Seq(Lot), NEW lot \in Lot
  PROVE  /\ Append(s, lot) \in Seq(Lot) /\ Len(s) \in Nat
         /\ DOMAIN Append(s, lot) = DOMAIN s \cup {Len(s) + 1}
         /\ DOMAIN s = 1 .. Len(s)
         /\ Append(s, lot)[Len(s) + 1] = lot
         /\ \A i \in DOMAIN s : Append(s, lot)[i] = s[i]
<1>1. Len(s) \in Nat /\ DOMAIN s = 1 .. Len(s)
  OBVIOUS
<1>2. Append(s, lot) \in Seq(Lot) /\ DOMAIN Append(s, lot) = 1 .. Len(s) + 1
  OBVIOUS
<1>3. 1 .. Len(s) + 1 = 1 .. Len(s) \cup {Len(s) + 1}
  BY <1>1
<1> QED
  BY <1>1, <1>2, <1>3

(* The engine o that an entry at a price makes of e.                        *)
EnteredFrom(e, o, side, qty, price) ==
  /\ o.cash = e.cash - (Worth(qty, price) + Fee(qty, price))
  /\ o.lots = Append(e.lots, LotAt(e, side, qty, price, Fee(1, price)))
  /\ o.open = e.open \cup {NextId(e)} /\ o.managed = e.managed \cup {NextId(e)}
  /\ o.netPnl = e.netPnl /\ o.peak = e.peak /\ o.perfFees = e.perfFees
  /\ o.last = e.last

(* What an entry does to the fields of the engine.                          *)
LEMMA OpenFields ==
  ASSUME NEW e, Known(e), NEW side \in Side, NEW qty \in Nat \ {0}, NEW slip \in Nat,
         EntryPrice(e, side, slip) \in Nat
  PROVE  /\ Known(Open(e, side, qty, slip))
         /\ EnteredFrom(e, Open(e, side, qty, slip), side, qty, EntryPrice(e, side, slip))
<1> DEFINE price == EntryPrice(e, side, slip)
           lot == LotAt(e, side, qty, price, Fee(1, price))
           o == Open(e, side, qty, slip)
<1>1. e \in Engine /\ e.lots \in Seq(Lot)
  BY DEF Known, Engine
<1>2. Worth(qty, price) \in Nat /\ Fee(qty, price) \in Nat /\ Fee(1, price) \in Nat
  BY WorthNat
<1>3. lot \in Lot
  BY <1>1, <1>2, LotAtType
<1>4. o = [e EXCEPT !.cash = e.cash - (Worth(qty, price) + Fee(qty, price)),
                    !.commissions = e.commissions + Fee(qty, price),
                    !.lots = Append(e.lots, lot),
                    !.open = e.open \cup {NextId(e)},
                    !.managed = e.managed \cup {NextId(e)}]
  BY <1>1 DEF Open, Engine
<1>5. NextId(e) \in Nat
  BY <1>1 DEF NextId
<1> HIDE DEF lot, o, price
<1>6. o \in Engine
  <2>1. e.cash - (Worth(qty, price) + Fee(qty, price)) \in Int
        /\ e.commissions + Fee(qty, price) \in Nat
    BY <1>1, <1>2 DEF Engine
  <2>2. Append(e.lots, lot) \in Seq(Lot)
    BY <1>1, <1>3, AppendLot
  <2>3. e.open \cup {NextId(e)} \in SUBSET Nat /\ e.managed \cup {NextId(e)} \in SUBSET Nat
    BY <1>1, <1>5 DEF Engine
  <2> QED
    BY <1>1, <1>4, <2>1, <2>2, <2>3 DEF Engine
<1>7. DOMAIN Append(e.lots, lot) = DOMAIN e.lots \cup {NextId(e)}
  BY <1>1, <1>3, AppendLot DEF NextId
<1>8. /\ o.cash = e.cash - (Worth(qty, price) + Fee(qty, price))
      /\ o.lots = Append(e.lots, lot)
      /\ o.open = e.open \cup {NextId(e)} /\ o.managed = e.managed \cup {NextId(e)}
      /\ o.netPnl = e.netPnl /\ o.peak = e.peak /\ o.perfFees = e.perfFees
      /\ o.last = e.last /\ o.price = e.price
  BY <1>1, <1>4 DEF Engine
<1>9. Known(o)
  BY <1>6, <1>7, <1>8 DEF Known, LotIds
<1> QED
  BY <1>8, <1>9 DEF lot, o, price, EnteredFrom

(* Together the open lots hold a positive quantity.                         *)
LEMMA HeldType ==
  ASSUME NEW e \in Engine, e.open \subseteq LotIds(e), e.open # {}
  PROVE  Held(e) \in Nat /\ Held(e) > 0
<1> DEFINE f == [i \in e.open |-> e.lots[i].qty]
           id == Min(e.open)
           others == SumFunctionOnSet(f, e.open \ {id})
<1>1. IsFiniteSet(e.open) /\ IsFiniteSet(e.open \ {id})
  BY LotIdsAre, FS_Subset
<1>2. e.open \subseteq Nat
  BY DEF Engine
<1>3. \A i \in e.open : f[i] \in Int /\ f[i] > 0
  BY LotIdsAre DEF Lot
<1>4. DOMAIN f = e.open
  OBVIOUS
<1>5. Held(e) = SumFunctionOnSet(f, e.open)
  BY <1>4 DEF Held, SumFunction
<1>6. id \in e.open
  BY <1>2, MinMember
<1> HIDE DEF f, id
<1>7. others \in Int /\ others >= 0
  BY <1>1, <1>3, SumType
<1>8. SumFunctionOnSet(f, e.open) = f[id] + others
  BY <1>1, <1>3, <1>6, SumRemove
<1> HIDE DEF others
<1> QED
  BY <1>3, <1>5, <1>6, <1>7, <1>8

(* A lot may be replaced by another lot.                                    *)
LEMMA ReplaceLot ==
  ASSUME NEW e, Known(e), NEW id \in LotIds(e), NEW lot \in Lot
  PROVE  LET r == [e EXCEPT !.lots = [e.lots EXCEPT ![id] = lot]]
         IN /\ Known(r) /\ Len(r.lots) = Len(e.lots)
            /\ r.cash = e.cash /\ r.perfFees = e.perfFees /\ r.peak = e.peak /\ r.last = e.last
            /\ r.managed = e.managed /\ r.open = e.open
<1> DEFINE lots == [e.lots EXCEPT ![id] = lot]
           r == [e EXCEPT !.lots = lots]
<1>1. e \in Engine /\ e.lots \in Seq(Lot) /\ e.open \subseteq LotIds(e) /\ e.managed \subseteq LotIds(e)
  BY DEF Known, Engine
<1>2. lots \in Seq(Lot) /\ DOMAIN lots = DOMAIN e.lots /\ Len(lots) = Len(e.lots)
  <2>1. id \in 1 .. Len(e.lots)
    BY <1>1, LotIdsAre
  <2> QED
    BY <1>1, <2>1, ExceptSeq
<1> HIDE DEF lots
<1>3. r \in Engine /\ r.lots = lots
  BY <1>1, <1>2 DEF Engine
<1>4. /\ r.cash = e.cash /\ r.perfFees = e.perfFees /\ r.peak = e.peak /\ r.last = e.last
      /\ r.managed = e.managed /\ r.open = e.open
  BY <1>1 DEF Engine
<1> HIDE DEF r
<1>5. Known(r)
  BY <1>1, <1>2, <1>3, <1>4 DEF Known, LotIds
<1> QED
  BY <1>2, <1>3, <1>4, <1>5 DEF r, lots

(* What a fill of the broker leaves alone.                                  *)
SameMoney(e, r) ==
  /\ r.cash = e.cash /\ r.perfFees = e.perfFees /\ r.peak = e.peak /\ r.last = e.last
  /\ r.managed = e.managed

(* A fill that adds to the first lot leaves the lots known.                 *)
LEMMA AddToFirstKnown ==
  ASSUME NEW e, Known(e), e.open # {}, NEW o \in [side : {"BUY"}, qty : Nat \ {0}, price : Nat]
  PROVE  Known(AddToFirst(e, o)) /\ SameMoney(e, AddToFirst(e, o))
<1> DEFINE id == Min(e.open)
           lot == e.lots[id]
           new == lot.qty + Sign(o.side) * o.qty
           avg == (Abs(lot.qty) * lot.avg + o.qty * o.price) \div Abs(new)
           fee == (Abs(lot.qty) * lot.unitFee) \div Abs(new)
           newLot == [lot EXCEPT !.qty = new, !.avg = avg, !.unitFee = fee]
<1>1. e \in Engine /\ e.open \subseteq Nat /\ e.open \subseteq LotIds(e)
  BY DEF Known, Engine
<1>2. id \in LotIds(e) /\ lot \in Lot
  BY <1>1, MinMember, LotIdsAre
<1>3. /\ lot.qty \in Nat /\ lot.qty > 0 /\ lot.avg \in Nat /\ lot.unitFee \in Nat
      /\ o.qty \in Nat /\ o.qty > 0 /\ o.price \in Nat /\ Sign(o.side) = 1
  BY <1>2 DEF Lot, Sign
<1>4. new \in Nat /\ new > 0 /\ Abs(new) = new /\ Abs(lot.qty) = lot.qty
  BY <1>3 DEF Abs
<1>5. lot.qty * lot.avg \in Nat /\ o.qty * o.price \in Nat /\ lot.qty * lot.unitFee \in Nat
  BY <1>3, NatProduct
<1>6. avg \in Nat /\ fee \in Nat
  <2> DEFINE a == lot.qty * lot.avg
             b == o.qty * o.price
             u == lot.qty * lot.unitFee
  <2>1. avg = (a + b) \div new /\ fee = u \div new
    BY <1>4
  <2>2. a + b \in Nat /\ u \in Nat
    <3> HIDE DEF new
    <3>1. a \in Nat /\ b \in Nat /\ u \in Nat
      BY <1>5
    <3> HIDE DEF a, b, u
    <3> QED
      BY <3>1
  <2> HIDE DEF a, b, u, avg, fee, new
  <2> QED
    BY <1>4, <2>1, <2>2, QuotientOf
<1>7. AddToFirst(e, o) = [e EXCEPT !.lots = [e.lots EXCEPT ![id] = newLot]]
  <2>1. e.lots[id] \in Lot
    BY <1>2
  <2> HIDE DEF avg, fee, new
  <2>2. AddToFirst(e, o) = [e EXCEPT !.lots[id].qty = new, !.lots[id].avg = avg, !.lots[id].unitFee = fee]
    BY DEF AddToFirst, avg, fee, new
  <2> HIDE DEF id
  <2>3. id \in DOMAIN e.lots
    BY <1>2 DEF LotIds
  <2> DEFINE lots == e.lots
  <2>4. [lots EXCEPT ![id].qty = new, ![id].avg = avg, ![id].unitFee = fee] = [lots EXCEPT ![id] = newLot]
    <3>1. lots[id] \in Lot
      BY <2>1
    <3>2. [lots[id] EXCEPT !.qty = new, !.avg = avg, !.unitFee = fee] = newLot
      BY DEF newLot, lot
    <3> HIDE DEF lots, newLot
    <3> QED
      BY <2>3, <3>2
  <2>5. [e EXCEPT !.lots[id].qty = new, !.lots[id].avg = avg, !.lots[id].unitFee = fee]
          = [e EXCEPT !.lots = [lots EXCEPT ![id].qty = new, ![id].avg = avg, ![id].unitFee = fee]]
    <3> DEFINE e1 == [e EXCEPT !.lots = [lots EXCEPT ![id].qty = new]]
               e2 == [e EXCEPT !.lots = [lots EXCEPT ![id].qty = new, ![id].avg = avg]]
    <3>1. [e EXCEPT !.lots[id].qty = new] = e1
      OBVIOUS
    <3>2. \A x, y : [[e EXCEPT !.lots = x] EXCEPT !.lots = y] = [e EXCEPT !.lots = y]
      BY <1>1 DEF Engine
    <3>3. [e1 EXCEPT !.lots[id].avg = avg] = e2
      <4>1. e1.lots = [lots EXCEPT ![id].qty = new]
        BY <1>1 DEF Engine
      <4> DEFINE l == [lots EXCEPT ![id].qty = new, ![id].avg = avg]
      <4>2. [e1 EXCEPT !.lots[id].avg = avg] = [e1 EXCEPT !.lots = l]
        <5> HIDE DEF e1
        <5> QED
          BY <4>1
      <4> HIDE DEF l
      <4>3. [e1 EXCEPT !.lots = l] = [e EXCEPT !.lots = l]
        BY <3>2
      <4> QED
        BY <4>2, <4>3 DEF l
    <3>4. [e2 EXCEPT !.lots[id].unitFee = fee]
            = [e EXCEPT !.lots = [lots EXCEPT ![id].qty = new, ![id].avg = avg, ![id].unitFee = fee]]
      <4>1. e2.lots = [lots EXCEPT ![id].qty = new, ![id].avg = avg]
        BY <1>1 DEF Engine
      <4> DEFINE l == [lots EXCEPT ![id].qty = new, ![id].avg = avg, ![id].unitFee = fee]
      <4>2. [e2 EXCEPT !.lots[id].unitFee = fee] = [e2 EXCEPT !.lots = l]
        <5> HIDE DEF e2
        <5> QED
          BY <4>1
      <4> HIDE DEF l
      <4>3. [e2 EXCEPT !.lots = l] = [e EXCEPT !.lots = l]
        BY <3>2
      <4> QED
        BY <4>2, <4>3 DEF l
    <3> HIDE DEF e1, e2
    <3> QED
      BY <3>1, <3>3, <3>4
  <2> QED
    BY <2>2, <2>4, <2>5
<1>8. newLot \in Lot
  <2>1. lot \in Lot /\ new \in Nat \ {0} /\ avg \in Nat /\ fee \in Nat
    BY <1>2, <1>4, <1>6
  <2> HIDE DEF avg, fee, new, lot
  <2> QED
    BY <2>1 DEF Lot
<1> HIDE DEF newLot, id
<1> QED
  BY <1>2, <1>7, <1>8, ReplaceLot DEF SameMoney

(* A fill that opens a lot leaves the lots known.                           *)
LEMMA NewOpenLot ==
  ASSUME NEW e, Known(e), NEW side \in Side, NEW qty \in Nat \ {0}, NEW price \in Nat, NEW e0,
         e0.streak = e.streak, NEW n, n = Len(e.lots) + 1
  PROVE  LET r == [e EXCEPT !.lots = Append(e.lots, LotAt(e0, side, qty, price, 0)),
                            !.open = {n}]
         IN Known(r) /\ SameMoney(e, r)
<1> DEFINE lot == LotAt(e0, side, qty, price, 0)
           r == [e EXCEPT !.lots = Append(e.lots, lot), !.open = {n}]
<1>1. /\ e \in Engine /\ e.lots \in Seq(Lot) /\ e.managed \subseteq LotIds(e)
  BY DEF Known, Engine
<1>2. lot \in Lot
  <2>1. lot = LotAt(e, side, qty, price, 0)
    BY DEF LotAt
  <2> QED
    BY <1>1, <2>1, LotAtType
<1> HIDE DEF lot
<1>3. /\ Append(e.lots, lot) \in Seq(Lot) /\ DOMAIN Append(e.lots, lot) = DOMAIN e.lots \cup {n}
      /\ n \in Nat
  BY <1>1, <1>2, AppendLot
<1>4. r \in Engine
  BY <1>1, <1>3 DEF Engine
<1>5. /\ r.lots = Append(e.lots, lot) /\ r.open = {n} /\ SameMoney(e, r)
  BY <1>1 DEF Engine, SameMoney
<1> HIDE DEF r
<1>6. Known(r)
  BY <1>1, <1>3, <1>4, <1>5 DEF Known, LotIds, SameMoney
<1> QED
  BY <1>5, <1>6 DEF r, lot

(* A fill against the open lots leaves the lots known.                      *)
LEMMA CloseAgainstKnown ==
  ASSUME NEW e, Known(e), e.open # {}, NEW o \in [side : Side, qty : Nat \ {0}, price : Nat]
  PROVE  Known(CloseAgainstLots(e, o)) /\ SameMoney(e, CloseAgainstLots(e, o))
<1> DEFINE held == Held(e)
           closing == Least(Abs(held), o.qty)
           rest == Abs(held) - closing
           id == Min(e.open)
           newLot == [e.lots[id] EXCEPT !.qty = IF held > 0 THEN rest ELSE -rest]
           reduced == IF rest = 0 THEN [e EXCEPT !.open = @ \ {id}]
                      ELSE [e EXCEPT !.lots[id].qty = IF held > 0 THEN rest ELSE -rest]
<1>1. e \in Engine /\ e.open \subseteq Nat /\ e.open \subseteq LotIds(e) /\ e.lots \in Seq(Lot)
  BY DEF Known, Engine
<1>2. id \in LotIds(e) /\ e.lots[id] \in Lot
  BY <1>1, MinMember, LotIdsAre
<1>3. held \in Nat /\ held > 0 /\ closing \in Nat /\ rest \in Nat /\ o.qty \in Nat
  <2>1. Held(e) \in Nat /\ Held(e) > 0
    BY <1>1, HeldType
  <2> QED
    BY <2>1 DEF Least, Abs
<1>4. /\ Known(reduced) /\ SameMoney(e, reduced) /\ Len(reduced.lots) = Len(e.lots)
      /\ reduced.streak = e.streak
  <2> HIDE DEF held, rest, id
  <2>1. CASE rest = 0
    <3> DEFINE r == [e EXCEPT !.open = e.open \ {id}]
    <3>1. reduced = r
      BY <1>1, <2>1 DEF Engine
    <3>2. r \in Engine
      BY <1>1 DEF Engine
    <3>3. r.open = e.open \ {id} /\ SameMoney(e, r) /\ r.lots = e.lots /\ r.streak = e.streak
      BY <1>1 DEF Engine, SameMoney
    <3> HIDE DEF r
    <3>4. Known(r)
      BY <1>1, <3>2, <3>3 DEF Known, LotIds, SameMoney
    <3> QED
      BY <3>1, <3>3, <3>4
  <2>2. CASE rest # 0
    <3> DEFINE r == [e EXCEPT !.lots = [e.lots EXCEPT ![id] = newLot]]
    <3>0. id \in DOMAIN e.lots
      BY <1>2 DEF LotIds
    <3>1. reduced = r
      BY <1>1, <1>2, <2>2, <3>0 DEF Engine, Lot
    <3>2. newLot \in Lot
      BY <1>2, <1>3, <2>2 DEF Lot
    <3>3. r.streak = e.streak
      BY <1>1 DEF Engine
    <3> HIDE DEF newLot
    <3>4. /\ Known(r) /\ Len(r.lots) = Len(e.lots)
          /\ r.cash = e.cash /\ r.perfFees = e.perfFees /\ r.peak = e.peak /\ r.last = e.last
          /\ r.managed = e.managed
      BY <1>2, <3>2, ReplaceLot
    <3> HIDE DEF r, reduced
    <3> QED
      BY <3>1, <3>3, <3>4 DEF SameMoney
  <2> QED
    BY <2>1, <2>2
<1>5. CloseAgainstLots(e, o) =
        IF o.qty > closing
        THEN [reduced EXCEPT !.lots = Append(@, LotAt(e, o.side, o.qty - closing, o.price, 0)),
                             !.open = {NextId(e)}]
        ELSE reduced
  BY DEF CloseAgainstLots
<1> HIDE DEF reduced, closing, rest, held
<1>6. CASE o.qty > closing
  <2> DEFINE qty == o.qty - closing
             r == [reduced EXCEPT !.lots = Append(reduced.lots, LotAt(e, o.side, qty, o.price, 0)),
                                  !.open = {NextId(e)}]
  <2>1. CloseAgainstLots(e, o) = r
    BY <1>4, <1>5, <1>6 DEF Known, Engine
  <2>2. qty \in Nat \ {0} /\ o.side \in Side /\ o.price \in Nat
    BY <1>3, <1>6
  <2>3. NextId(e) = Len(reduced.lots) + 1 /\ e.streak = reduced.streak
    BY <1>4 DEF NextId
  <2> HIDE DEF qty
  <2>4. Known(r) /\ SameMoney(reduced, r)
    BY <1>4, <2>2, <2>3, NewOpenLot
  <2> HIDE DEF r
  <2> QED
    BY <1>4, <2>1, <2>4 DEF SameMoney
<1>7. CASE ~(o.qty > closing)
  BY <1>4, <1>5, <1>7
<1> QED
  BY <1>6, <1>7

(* Whatever the broker adapter fills, the lots stay known.                  *)
LEMMA RecordTradeKnown ==
  ASSUME NEW e, Known(e), NEW o \in ExternalOrder
  PROVE  Known(RecordTrade(e, o)) /\ SameMoney(e, RecordTrade(e, o))
<1>0. o \in [side : Side, qty : Nat \ {0}, price : Nat]
  BY EngineAssumption
<1>1. CASE e.open = {}
  <2> DEFINE r == [e EXCEPT !.lots = Append(e.lots, LotAt(e, o.side, o.qty, o.price, 0)),
                            !.open = {NextId(e)}]
  <2>1. RecordTrade(e, o) = r
    BY <1>1 DEF RecordTrade, Known, Engine
  <2>2. Known(r) /\ SameMoney(e, r)
    <3>1. NextId(e) = Len(e.lots) + 1
      BY DEF NextId
    <3>2. o.side \in Side /\ o.qty \in Nat \ {0} /\ o.price \in Nat
      BY <1>0
    <3> QED
      BY <3>1, <3>2, NewOpenLot
  <2> QED
    BY <2>1, <2>2
<1>2. CASE e.open # {}
  <2> DEFINE first == e.lots[Min(e.open)]
  <2>1. first.qty > 0 /\ ~(first.qty < 0)
    <3>1. e \in Engine /\ e.open \subseteq Nat /\ e.open \subseteq LotIds(e)
      BY DEF Known, Engine
    <3>2. first \in Lot
      BY <1>2, <3>1, MinMember, LotIdsAre
    <3> QED
      BY <3>2 DEF Lot
  <2>2. CASE o.side = "BUY"
    <3>1. RecordTrade(e, o) = AddToFirst(e, o)
      BY <1>2, <2>1, <2>2 DEF RecordTrade
    <3>2. o \in [side : {"BUY"}, qty : Nat \ {0}, price : Nat]
      BY <1>0, <2>2
    <3> QED
      BY <1>2, <3>1, <3>2, AddToFirstKnown
  <2>3. CASE o.side # "BUY"
    <3>1. RecordTrade(e, o) = CloseAgainstLots(e, o)
      BY <1>2, <2>1, <2>3 DEF RecordTrade
    <3> QED
      BY <1>0, <1>2, <3>1, CloseAgainstKnown
  <2> QED
    BY <2>2, <2>3
<1> QED
  BY <1>1, <1>2

-----------------------------------------------------------------------------
(* A new engine, and a reset one, has no lots.                              *)
LEMMA NewEngineKnown ==
  ASSUME NEW p \in Price
  PROVE  LET e == [NewEngine EXCEPT !.price = p]
         IN /\ Known(e) /\ e.open = {} /\ e.managed = {} /\ e.cash = StartingCapital
            /\ e.peak = StartingCapital /\ e.perfFees = 0 /\ e.netPnl = 0 /\ e.last = NoTrade
<1> DEFINE e == [NewEngine EXCEPT !.price = p]
<1>1. e = [cash |-> StartingCapital, commissions |-> 0, perfFees |-> 0, price |-> p,
           peak |-> StartingCapital, streak |-> NoStreak, lots |-> <<>>, open |-> {},
           managed |-> {}, netPnl |-> 0, last |-> NoTrade]
  <2> DEFINE noLots == <<>>
             fresh(price, streak, last) ==
               [cash |-> StartingCapital, commissions |-> 0, perfFees |-> 0, price |-> price,
                peak |-> StartingCapital, streak |-> streak, lots |-> noLots, open |-> {},
                managed |-> {}, netPnl |-> 0, last |-> last]
  <2>1. NewEngine = fresh(FirstPrice, NoStreak, NoTrade)
    BY DEF NewEngine
  <2>2. ASSUME NEW a, NEW b, NEW c PROVE [fresh(a, b, c) EXCEPT !.price = p] = fresh(p, b, c)
    <3> HIDE DEF noLots
    <3> QED
      OBVIOUS
  <2> HIDE DEF fresh
  <2>3. e = fresh(p, NoStreak, NoTrade)
    BY <2>1, <2>2
  <2> QED
    BY <2>3 DEF fresh
<1>2. StartingCapital \in Nat
  BY EngineAssumption
<1>3. NoTrade \in Trade /\ NoStreak \in [wins : Nat, losses : Nat] /\ <<>> \in Seq(Lot)
  <2>1. <<>> \in Seq(Lot)
    OBVIOUS
  <2>2. NoTrade \in Trade
    BY DEF NoTrade, Trade
  <2>3. NoStreak \in [wins : Nat, losses : Nat]
    BY DEF NoStreak
  <2> QED
    BY <2>1, <2>2, <2>3
<1>4. e \in Engine
  <2>1. \A lots \in Seq(Lot), streak \in [wins : Nat, losses : Nat], last \in Trade :
          [cash |-> StartingCapital, commissions |-> 0, perfFees |-> 0, price |-> p,
           peak |-> StartingCapital, streak |-> streak, lots |-> lots, open |-> {},
           managed |-> {}, netPnl |-> 0, last |-> last] \in Engine
    BY <1>2 DEF Engine
  <2> HIDE DEF e
  <2> QED
    BY <1>1, <1>3, <2>1
<1>5. /\ e.open = {} /\ e.managed = {} /\ e.cash = StartingCapital
      /\ e.peak = StartingCapital /\ e.perfFees = 0 /\ e.netPnl = 0 /\ e.last = NoTrade
  BY <1>1
<1> HIDE DEF e
<1>6. Known(e)
  BY <1>4, <1>5 DEF Known
<1> QED
  BY <1>5, <1>6 DEF e

(* The first engine is a new one.                                           *)
LEMMA InitIsNew ==
  ASSUME EngineInit
  PROVE  engine = [NewEngine EXCEPT !.price = FirstPrice] /\ FirstPrice \in Price
<1>1. FirstPrice \in Price
  BY EngineAssumption
<1>2. NewEngine = [NewEngine EXCEPT !.price = NewEngine.price] /\ NewEngine.price = FirstPrice
  BY DEF NewEngine
<1> QED
  BY <1>1, <1>2 DEF EngineInit

(* The state changes of the engine, by what they do to its record.          *)
LEMMA TickResult ==
  ASSUME Known(engine), EngineNext
  PROVE  \/ engine' = engine
         \/ engine' = [NewEngine EXCEPT !.price = engine.price]
         \/ \E p \in Price : engine' = [engine EXCEPT !.price = p]
         \/ \E signal \in Signal \cup {NoSignal} : engine' = DynamicExit(CheckExit(engine), signal)
         \/ \E signal \in Signal, qty \in Quantity, slip \in Slip :
              LET left == DynamicExit(CheckExit(engine), signal)
              IN /\ MayEnter(left, signal) /\ Affordable(left, qty, slip)
                 /\ engine' = Open(left, signal.action, qty, slip)
         \/ \E o \in ExternalOrder : engine' = RecordTrade(engine, o) /\ filled' = filled + 1
BY DEF EngineNext, Start, Stop, ResetEngine, Tick, MarketEvent, SimulateFill

(* A signal to enter has a side and a strength.                             *)
LEMMA SignalTypes ==
  ASSUME NEW signal \in Signal
  PROVE  signal.action \in Side /\ signal.strength \in Strength
BY DEF Signal

(* An entry of the loop, with what it starts from and what it leaves.       *)
LEMMA EntryFields ==
  ASSUME NEW e, Known(e), NEW signal \in Signal, NEW qty \in Quantity, NEW slip \in Slip,
         Affordable(e, qty, slip)
  PROVE  /\ Known(Open(e, signal.action, qty, slip))
         /\ EntryPrice(e, signal.action, slip) \in Nat /\ qty \in Nat \ {0}
         /\ EnteredFrom(e, Open(e, signal.action, qty, slip), signal.action, qty,
                        EntryPrice(e, signal.action, slip))
<1>1. e \in Engine /\ signal.action \in Side /\ qty \in Nat \ {0} /\ slip \in Nat
  BY SignalTypes, EngineAssumption DEF Known
<1>2. EntryPrice(e, signal.action, slip) \in Nat
  BY <1>1, EntryPriceType
<1> QED
  BY <1>1, <1>2, OpenFields

(* A price alone changes nothing else.                                      *)
LEMMA PriceOnly ==
  ASSUME NEW e, Known(e), NEW p \in Price
  PROVE  LET r == [e EXCEPT !.price = p]
         IN /\ Known(r)
            /\ r.cash = e.cash /\ r.perfFees = e.perfFees /\ r.peak = e.peak /\ r.last = e.last
            /\ r.managed = e.managed /\ r.open = e.open /\ r.lots = e.lots /\ r.netPnl = e.netPnl
<1> DEFINE r == [e EXCEPT !.price = p]
<1>1. r \in Engine
  BY DEF Known, Engine
<1>2. /\ r.cash = e.cash /\ r.perfFees = e.perfFees /\ r.peak = e.peak /\ r.last = e.last
      /\ r.managed = e.managed /\ r.open = e.open /\ r.lots = e.lots /\ r.netPnl = e.netPnl
  BY DEF Known, Engine
<1> HIDE DEF r
<1>3. Known(r)
  BY <1>1, <1>2 DEF Known, LotIds
<1> QED
  BY <1>2, <1>3 DEF r

(* Every step leaves an engine whose lots are known.                        *)
LEMMA StepKnown ==
  ASSUME Known(engine), EngineNext
  PROVE  Known(engine')
<1>0. engine.price \in Price
  BY DEF Known, Engine
<1>1. CASE engine' = engine
  BY <1>1
<1>2. CASE engine' = [NewEngine EXCEPT !.price = engine.price]
  BY <1>0, <1>2, NewEngineKnown
<1>3. CASE \E p \in Price : engine' = [engine EXCEPT !.price = p]
  BY <1>3, PriceOnly
<1>4. ASSUME NEW signal PROVE Known(DynamicExit(CheckExit(engine), signal))
  BY ExitsKnown
<1>5. CASE \E signal \in Signal \cup {NoSignal} :
             engine' = DynamicExit(CheckExit(engine), signal)
  BY <1>4, <1>5
<1>6. CASE \E signal \in Signal, qty \in Quantity, slip \in Slip :
             LET left == DynamicExit(CheckExit(engine), signal)
             IN /\ MayEnter(left, signal) /\ Affordable(left, qty, slip)
                /\ engine' = Open(left, signal.action, qty, slip)
  BY <1>4, <1>6, EntryFields
<1>7. CASE \E o \in ExternalOrder : engine' = RecordTrade(engine, o) /\ filled' = filled + 1
  BY <1>7, RecordTradeKnown
<1> QED
  BY <1>1, <1>2, <1>3, <1>5, <1>6, <1>7, TickResult

(* The engine's record keeps its type, in particular no lot ever has a      *)
(* negative quantity, and every id in the two lists is the id of a lot.     *)
THEOREM EngineKeepsTypes == EngineSpec => []EngineTypeOK
<1>1. EngineInit => EngineTypeOK
  <2> SUFFICES ASSUME EngineInit PROVE EngineTypeOK
    OBVIOUS
  <2>1. Known(engine)
    BY InitIsNew, NewEngineKnown
  <2>2. running \in BOOLEAN /\ filled \in 0 .. MaxFills
    <3>1. MaxFills \in Nat
      BY EngineAssumption
    <3>2. running = FALSE /\ filled = 0
      BY DEF EngineInit
    <3>3. 0 \in 0 .. MaxFills
      BY <3>1
    <3> QED
      BY <3>2, <3>3
  <2> QED
    BY <2>1, <2>2 DEF EngineTypeOK, Known
<1>2. EngineTypeOK /\ [EngineNext]_engineVars => EngineTypeOK'
  <2> SUFFICES ASSUME EngineTypeOK, [EngineNext]_engineVars PROVE EngineTypeOK'
    OBVIOUS
  <2>1. CASE UNCHANGED engineVars
    BY <2>1 DEF EngineTypeOK, engineVars
  <2>2. CASE EngineNext
    <3>1. Known(engine')
      BY <2>2, StepKnown DEF EngineTypeOK, Known
    <3>2. running' \in BOOLEAN /\ filled' \in 0 .. MaxFills
      <4>1. running \in BOOLEAN /\ filled \in 0 .. MaxFills /\ MaxFills \in Nat
        BY EngineAssumption DEF EngineTypeOK
      <4>2. running' \in BOOLEAN
        BY <2>2, <4>1 DEF EngineNext, Start, Stop, ResetEngine, Tick, MarketEvent, SimulateFill
      <4>3. filled' = filled \/ (filled < MaxFills /\ filled' = filled + 1)
        BY <2>2 DEF EngineNext, Start, Stop, ResetEngine, Tick, MarketEvent, SimulateFill
      <4> QED
        BY <4>1, <4>2, <4>3
    <3> QED
      BY <3>1, <3>2 DEF EngineTypeOK, Known, LotIds
  <2> QED
    BY <2>1, <2>2
<1> QED
  BY <1>1, <1>2, PTL DEF EngineSpec

-----------------------------------------------------------------------------
(* What the fees may be at most: a close charges the percentage of what the *)
(* equity grew beyond its peak, and takes the fee itself out of the equity. *)
FeesEarned(e) ==
  e.perfFees * (100 - PerformanceFee) <= PerformanceFee * (e.peak - StartingCapital)

(* At most the rounded hundredth part: hundred of them are at most the      *)
(* whole.                                                                   *)
LEMMA HundredParts ==
  ASSUME NEW f \in Nat, NEW n \in Nat, f <= n \div 100
  PROVE  100 * f <= n
<1> DEFINE d == n \div 100
<1>1. d \in Nat /\ 100 * d <= n
  OBVIOUS
<1> HIDE DEF d
<1> QED
  BY <1>1 DEF d

(* A fee is charged only on what the equity was above the peak, and is at   *)
(* most its percentage.                                                     *)
LEMMA FeeOfGain ==
  ASSUME NEW e \in Engine, NEW gross \in Int, NEW before \in Int
  PROVE  \/ PerfFee(e, gross, before) = 0
         \/ /\ before > e.peak
            /\ 100 * PerfFee(e, gross, before) <= (before - e.peak) * PerformanceFee
<1>1. e.peak \in Nat /\ PerformanceFee \in Nat
  BY EngineAssumption DEF Engine
<1>2. CASE gross > 0 /\ before > e.peak
  <2> DEFINE n == (before - e.peak) * PerformanceFee
             g == gross * PerformanceFee
             fee == PerfFee(e, gross, before)
  <2>1. n \in Nat /\ g \in Nat
    <3>1. gross \in Nat /\ before - e.peak \in Nat
      BY <1>1, <1>2
    <3> QED
      BY <1>1, <3>1, NatProduct
  <2>2. fee = Least(g \div 100, n \div 100)
    BY <1>2 DEF PerfFee
  <2>3. fee \in Nat
    BY PerfFeeType
  <2> HIDE DEF n, g, fee
  <2>4. fee <= n \div 100
    <3>1. g \div 100 \in Nat /\ n \div 100 \in Nat
      BY <2>1, QuotientNat
    <3> QED
      BY <2>2, <3>1 DEF Least
  <2>5. 100 * fee <= n
    BY <2>1, <2>3, <2>4, HundredParts
  <2> QED
    BY <1>2, <2>5 DEF n, fee
<1>3. CASE ~(gross > 0 /\ before > e.peak)
  BY <1>3 DEF PerfFee
<1> QED
  BY <1>2, <1>3

(* The growth of the peak bounds the fee and what was earned before.        *)
LEMMA GrowthArithmetic ==
  ASSUME NEW F \in Nat, F <= 100, NEW fees \in Nat, NEW fee \in Nat, NEW start \in Int,
         NEW peak \in Int, NEW before \in Int, NEW new \in Int,
         fees * (100 - F) <= F * (peak - start), new >= peak,
         fee = 0 \/ (100 * fee <= (before - peak) * F /\ new >= before - fee)
  PROVE  (fees + fee) * (100 - F) <= F * (new - start)
<1> DEFINE A == F * (before - peak)
           B == F * (peak - start)
           C == F * fee
           D == fees * (100 - F)
<1>1. D <= B /\ D \in Int /\ B \in Int /\ C \in Int /\ A \in Int
  <2>1. before - peak \in Int /\ peak - start \in Int /\ 100 - F \in Int
    OBVIOUS
  <2> QED
    BY <2>1, IntProduct
<1>2. CASE fee = 0
  <2>1. F * (new - start) = B + F * (new - peak)
    OBVIOUS
  <2>2. F * (new - peak) \in Nat
    <3>1. new - peak \in Nat
      OBVIOUS
    <3> QED
      BY <3>1, NatProduct
  <2>3. (fees + fee) * (100 - F) = D
    BY <1>2
  <2> DEFINE E == F * (new - peak)
  <2>4. F * (new - start) = B + E /\ E \in Nat
    BY <2>1, <2>2
  <2> HIDE DEF B, D, E
  <2>5. D <= B + E
    BY <1>1, <2>4
  <2> QED
    BY <2>3, <2>4, <2>5
<1>3. CASE 100 * fee <= (before - peak) * F /\ new >= before - fee
  <2> DEFINE E == F * (new - (before - fee))
  <2>1. E \in Nat
    <3>1. new - (before - fee) \in Nat
      BY <1>3
    <3> QED
      BY <3>1, NatProduct
  <2>2. F * (new - start) = E + A + B - C
    OBVIOUS
  <2>3. (fees + fee) * (100 - F) = D + 100 * fee - C
    OBVIOUS
  <2>4. 100 * fee <= A
    BY <1>3
  <2> HIDE DEF A, B, C, D, E
  <2>5. D + 100 * fee - C <= E + A + B - C
    BY <1>1, <2>1, <2>4
  <2> QED
    BY <2>2, <2>3, <2>5
<1> QED
  BY <1>2, <1>3

(* A close leaves the fees within this bound.                               *)
LEMMA CloseEarned ==
  ASSUME NEW e, Known(e), e.managed # {}, FeesEarned(e), NEW t \in Nat, NEW r \in Reason
  PROVE  FeesEarned(Close(e, t, r))
<1> DEFINE lot == e.lots[Min(e.managed)]
           c == Close(e, t, r)
           fee == ExitPerfFee(e, lot)
           before == e.cash + Returned(e, lot)
<1>1. e \in Engine /\ lot \in Lot
  BY OldestManaged DEF Known
<1>2. /\ c.cash = e.cash + Returned(e, lot) - fee /\ c.perfFees = e.perfFees + fee
      /\ c.peak = Greatest(e.peak, c.cash + MarketValue(c))
  <2>1. ClosedFrom(e, c, t)
    BY CloseFields
  <2> HIDE DEF c
  <2> QED
    BY <2>1 DEF ClosedFrom, Oldest
<1>3. Known(c)
  BY CloseKnown
<1>4. /\ e.cash \in Int /\ Returned(e, lot) \in Int /\ fee \in Nat /\ e.perfFees \in Nat
      /\ e.peak \in Nat /\ StartingCapital \in Nat /\ PerformanceFee \in Nat /\ PerformanceFee <= 100
      /\ GrossPnl(e, lot) \in Int
  <2>1. /\ Returned(e, lot) \in Int /\ fee \in Nat /\ GrossPnl(e, lot) \in Int
    BY <1>1, CloseAmounts
  <2>2. e.cash \in Int /\ e.perfFees \in Nat /\ e.peak \in Nat
    BY <1>1 DEF Engine
  <2>3. StartingCapital \in Nat /\ PerformanceFee \in Nat /\ PerformanceFee <= 100
    BY EngineAssumption
  <2> HIDE DEF fee, lot
  <2> QED
    BY <2>1, <2>2, <2>3
<1>5. MarketValue(c) \in Int /\ MarketValue(c) >= 0
  BY <1>3, MarketValueType DEF Known
<1>6. before \in Int
  BY <1>4
<1>7. \/ fee = 0
      \/ before > e.peak /\ 100 * fee <= (before - e.peak) * PerformanceFee
  <2>1. fee = PerfFee(e, GrossPnl(e, lot), before)
    BY DEF ExitPerfFee
  <2> DEFINE gross == GrossPnl(e, lot)
  <2>2. gross \in Int /\ before \in Int
    BY <1>4, <1>6
  <2> HIDE DEF before, gross
  <2>3. \/ PerfFee(e, gross, before) = 0
        \/ before > e.peak /\ 100 * PerfFee(e, gross, before) <= (before - e.peak) * PerformanceFee
    BY <1>1, <2>2, FeeOfGain
  <2>4. fee = PerfFee(e, gross, before)
    BY <2>1 DEF gross
  <2> HIDE DEF fee
  <2> QED
    BY <2>3, <2>4
<1> HIDE DEF lot, c, fee
<1>8. c.cash = before - fee
  BY <1>2, <1>4
<1> HIDE DEF before
<1>9. c.peak \in Int /\ c.peak >= e.peak /\ c.peak >= before - fee
  BY <1>2, <1>4, <1>5, <1>6, <1>8 DEF Greatest
<1>10. fee = 0 \/ (100 * fee <= (before - e.peak) * PerformanceFee /\ c.peak >= before - fee)
  BY <1>7, <1>9
<1>11. e.perfFees * (100 - PerformanceFee) <= PerformanceFee * (e.peak - StartingCapital)
  BY DEF FeesEarned
<1>12. (e.perfFees + fee) * (100 - PerformanceFee) <= PerformanceFee * (c.peak - StartingCapital)
  <2>1. e.peak \in Int /\ StartingCapital \in Int
    BY <1>4
  <2> QED
    BY <1>4, <1>6, <1>9, <1>10, <1>11, <2>1, GrowthArithmetic
<1>13. FeesEarned(c)
  BY <1>2, <1>12 DEF FeesEarned
<1> QED
  BY <1>13 DEF c

(* So do the exits of a tick.                                               *)
LEMMA ExitsEarned ==
  ASSUME NEW e, Known(e), FeesEarned(e), NEW signal
  PROVE  FeesEarned(CheckExit(e)) /\ FeesEarned(DynamicExit(e, signal))
<1>1. e.managed \subseteq Nat
  BY DEF Known, Engine
<1> QED
  BY <1>1, ExitOrNothing, CloseEarned DEF Reason

(* All performance fees together stay within the performance fee on the     *)
(* growth of the highest equity.                                            *)
THEOREM FeesWithinGrowth == EngineSpec => []HighWaterMark
<1> DEFINE Inv == FeesEarned(engine)
<1>1. EngineInit => Inv
  <2> SUFFICES ASSUME EngineInit PROVE Inv
    OBVIOUS
  <2>1. engine.perfFees = 0 /\ engine.peak = StartingCapital
    BY InitIsNew, NewEngineKnown
  <2>2. StartingCapital \in Nat /\ PerformanceFee \in Nat
    BY EngineAssumption
  <2> QED
    BY <2>1, <2>2 DEF FeesEarned
<1>2. EngineTypeOK /\ Inv /\ [EngineNext]_engineVars => Inv'
  <2> SUFFICES ASSUME EngineTypeOK, Inv, [EngineNext]_engineVars PROVE Inv'
    OBVIOUS
  <2>0. Known(engine) /\ engine.price \in Price
    BY DEF EngineTypeOK, Known, Engine
  <2>1. CASE UNCHANGED engineVars
    BY <2>1 DEF FeesEarned, engineVars
  <2>2. CASE EngineNext
    <3>1. CASE engine' = engine
      BY <3>1 DEF FeesEarned
    <3>2. CASE engine' = [NewEngine EXCEPT !.price = engine.price]
      <4>1. engine'.perfFees = 0 /\ engine'.peak = StartingCapital
        BY <2>0, <3>2, NewEngineKnown
      <4>2. StartingCapital \in Nat /\ PerformanceFee \in Nat
        BY EngineAssumption
      <4> QED
        BY <4>1, <4>2 DEF FeesEarned
    <3>3. CASE \E p \in Price : engine' = [engine EXCEPT !.price = p]
      BY <2>0, <3>3, PriceOnly DEF FeesEarned
    <3>4. ASSUME NEW signal
          PROVE  LET left == DynamicExit(CheckExit(engine), signal)
                 IN Known(left) /\ FeesEarned(left)
      BY <2>0, ExitsKnown, ExitsEarned
    <3>5. CASE \E signal \in Signal \cup {NoSignal} :
                 engine' = DynamicExit(CheckExit(engine), signal)
      BY <3>4, <3>5
    <3>6. CASE \E signal \in Signal, qty \in Quantity, slip \in Slip :
                 LET left == DynamicExit(CheckExit(engine), signal)
                 IN /\ MayEnter(left, signal) /\ Affordable(left, qty, slip)
                    /\ engine' = Open(left, signal.action, qty, slip)
      <4>1. PICK signal \in Signal, qty \in Quantity, slip \in Slip :
              LET left == DynamicExit(CheckExit(engine), signal)
              IN /\ Affordable(left, qty, slip)
                 /\ engine' = Open(left, signal.action, qty, slip)
        BY <3>6
      <4> DEFINE left == DynamicExit(CheckExit(engine), signal)
      <4>2. Known(left) /\ FeesEarned(left)
        BY <3>4
      <4>3. engine'.perfFees = left.perfFees /\ engine'.peak = left.peak
        <5>1. Affordable(left, qty, slip) /\ engine' = Open(left, signal.action, qty, slip)
          BY <4>1
        <5> HIDE DEF left
        <5> QED
          BY <4>2, <5>1, EntryFields DEF EnteredFrom
      <4> QED
        BY <4>2, <4>3 DEF FeesEarned
    <3>7. CASE \E o \in ExternalOrder : engine' = RecordTrade(engine, o) /\ filled' = filled + 1
      BY <2>0, <3>7, RecordTradeKnown DEF SameMoney, FeesEarned
    <3> QED
      BY <2>0, <2>2, <3>1, <3>2, <3>3, <3>5, <3>6, <3>7, TickResult
  <2> QED
    BY <2>1, <2>2
<1>3. Inv => HighWaterMark
  BY DEF FeesEarned, HighWaterMark
<1> QED
  BY <1>1, <1>2, <1>3, EngineKeepsTypes, PTL DEF EngineSpec

(* At most one lot is managed, and it was the reason of its close.          *)
AtMostOne(S) == \A i, j \in S : i = j
OneByOne(e) == AtMostOne(e.managed) /\ e.last.closed = e.last.triggered

(* The signals of the code are all strong enough to close a lot: their      *)
(* strength is between 50 and 80 percent, the threshold is 35.              *)
SignalsReverse == \A s \in Strength : s >= ReversalThreshold

(* A close leaves at most one managed lot, and names it as its reason.      *)
LEMMA CloseOneByOne ==
  ASSUME NEW e, Known(e), AtMostOne(e.managed), NEW t \in e.managed, NEW r
  PROVE  OneByOne(Close(e, t, r)) /\ Close(e, t, r).managed = {}
<1>1. ClosedFrom(e, Close(e, t, r), t)
  BY CloseFields
<1>2. Min(e.managed) \in e.managed
  BY OldestManaged
<1>3. Min(e.managed) = t /\ e.managed \ {Min(e.managed)} = {}
  BY <1>2 DEF AtMostOne
<1> QED
  BY <1>1, <1>3 DEF ClosedFrom, OneByOne, AtMostOne

(* Stop loss and take profit close the lot that triggered them.             *)
LEMMA CheckOneByOne ==
  ASSUME NEW e, Known(e), OneByOne(e)
  PROVE  OneByOne(CheckExit(e))
<1>1. CASE CheckExit(e) = e
  BY <1>1
<1>2. CASE e.managed # {} /\ \E t \in e.managed, r \in Reason : CheckExit(e) = Close(e, t, r)
  <2>1. PICK t \in e.managed, r \in Reason : CheckExit(e) = Close(e, t, r)
    BY <1>2
  <2>2. AtMostOne(e.managed)
    BY DEF OneByOne
  <2> QED
    BY <2>1, <2>2, CloseOneByOne
<1> QED
  BY <1>1, <1>2, ExitOrNothing

(* So does a reversal.                                                      *)
LEMMA ReverseOneByOne ==
  ASSUME NEW e, Known(e), OneByOne(e), NEW signal
  PROVE  /\ OneByOne(DynamicExit(e, signal))
         /\ \/ DynamicExit(e, signal).managed = {}
            \/ DynamicExit(e, signal) = e /\ \A i \in e.managed : ~Reverses(e.lots[i], signal)
<1>1. CASE DynamicExit(e, signal) = e /\ \A i \in e.managed : ~Reverses(e.lots[i], signal)
  BY <1>1
<1>2. CASE e.managed # {} /\ \E t \in e.managed : DynamicExit(e, signal) = Close(e, t, "DYNAMIC_EXIT")
  <2>1. PICK t \in e.managed : DynamicExit(e, signal) = Close(e, t, "DYNAMIC_EXIT")
    BY <1>2
  <2>2. AtMostOne(e.managed)
    BY DEF OneByOne
  <2> QED
    BY <2>1, <2>2, CloseOneByOne
<1> QED
  BY <1>1, <1>2, ExitOrNothing

(* An entry that may be made finds no lot left, when signals reverse.       *)
LEMMA EntryFindsNone ==
  ASSUME SignalsReverse, NEW e, Known(e), OneByOne(e), NEW signal \in Signal,
         MayEnter(DynamicExit(e, signal), signal)
  PROVE  DynamicExit(e, signal).managed = {}
<1>1. SUFFICES ASSUME DynamicExit(e, signal) = e,
                      \A i \in e.managed : ~Reverses(e.lots[i], signal),
                      NEW i \in e.managed, e.lots[i].side # signal.action
               PROVE  FALSE
  BY ReverseOneByOne DEF MayEnter
<1>2. signal # NoSignal /\ signal.strength >= ReversalThreshold
  BY SignalTypes DEF SignalsReverse, MayEnter
<1> QED
  BY <1>1, <1>2 DEF Reverses

(* The closed lot is the one whose stop, target or reversal caused it.      *)
THEOREM TriggeredLotCloses ==
  ASSUME SignalsReverse
  PROVE  EngineSpec => []ClosesTriggeredLot
<1> DEFINE Inv == OneByOne(engine)
<1>1. EngineInit => Inv
  <2> SUFFICES ASSUME EngineInit PROVE Inv
    OBVIOUS
  <2>1. engine.managed = {} /\ engine.last = NoTrade
    BY InitIsNew, NewEngineKnown
  <2> QED
    BY <2>1 DEF OneByOne, AtMostOne, NoTrade
<1>2. EngineTypeOK /\ Inv /\ [EngineNext]_engineVars => Inv'
  <2> SUFFICES ASSUME EngineTypeOK, Inv, [EngineNext]_engineVars PROVE Inv'
    OBVIOUS
  <2>0. Known(engine) /\ engine.price \in Price
    BY DEF EngineTypeOK, Known, Engine
  <2>1. CASE UNCHANGED engineVars
    BY <2>1 DEF OneByOne, AtMostOne, engineVars
  <2>2. CASE EngineNext
    <3> DEFINE exited == CheckExit(engine)
    <3>0. Known(exited) /\ OneByOne(exited)
      BY <2>0, ExitsKnown, CheckOneByOne
    <3>1. CASE engine' = engine
      BY <3>1 DEF OneByOne, AtMostOne
    <3>2. CASE engine' = [NewEngine EXCEPT !.price = engine.price]
      <4>1. engine'.managed = {} /\ engine'.last = NoTrade
        BY <2>0, <3>2, NewEngineKnown
      <4> QED
        BY <4>1 DEF OneByOne, AtMostOne, NoTrade
    <3>3. CASE \E p \in Price : engine' = [engine EXCEPT !.price = p]
      <4>1. engine'.managed = engine.managed /\ engine'.last = engine.last
        BY <2>0, <3>3, PriceOnly
      <4> QED
        BY <4>1 DEF OneByOne, AtMostOne
    <3>4. CASE \E signal \in Signal \cup {NoSignal} : engine' = DynamicExit(exited, signal)
      <4> HIDE DEF exited
      <4>1. \A signal : OneByOne(DynamicExit(exited, signal))
        BY <3>0, ReverseOneByOne
      <4> QED
        BY <3>4, <4>1
    <3>5. CASE \E signal \in Signal, qty \in Quantity, slip \in Slip :
                 LET left == DynamicExit(exited, signal)
                 IN /\ MayEnter(left, signal) /\ Affordable(left, qty, slip)
                    /\ engine' = Open(left, signal.action, qty, slip)
      <4> HIDE DEF exited
      <4>1. PICK signal \in Signal, qty \in Quantity, slip \in Slip :
              LET left == DynamicExit(exited, signal)
              IN /\ MayEnter(left, signal) /\ Affordable(left, qty, slip)
                 /\ engine' = Open(left, signal.action, qty, slip)
        BY <3>5
      <4> DEFINE left == DynamicExit(exited, signal)
      <4>2. Known(left) /\ OneByOne(left) /\ left.managed = {}
        BY <3>0, <4>1, ExitsKnown, ReverseOneByOne, EntryFindsNone
      <4>3. Affordable(left, qty, slip) /\ engine' = Open(left, signal.action, qty, slip)
        BY <4>1
      <4> HIDE DEF left
      <4>4. engine'.managed = left.managed \cup {NextId(left)} /\ engine'.last = left.last
        <5>1. EnteredFrom(left, engine', signal.action, qty, EntryPrice(left, signal.action, slip))
          BY <4>2, <4>3, EntryFields
        <5> QED
          BY <5>1 DEF EnteredFrom
      <4> QED
        BY <4>2, <4>4 DEF OneByOne, AtMostOne
    <3>6. CASE \E o \in ExternalOrder : engine' = RecordTrade(engine, o) /\ filled' = filled + 1
      <4>1. SameMoney(engine, engine')
        BY <2>0, <3>6, RecordTradeKnown
      <4> QED
        BY <4>1 DEF SameMoney, OneByOne, AtMostOne
    <3> QED
      BY <2>0, <2>2, <3>1, <3>2, <3>3, <3>4, <3>5, <3>6, TickResult
  <2> QED
    BY <2>1, <2>2
<1>3. Inv => ClosesTriggeredLot
  BY DEF OneByOne, ClosesTriggeredLot
<1> QED
  BY <1>1, <1>2, <1>3, EngineKeepsTypes, PTL DEF EngineSpec

-----------------------------------------------------------------------------
(* Taking one element out of a sum, or putting one in, whatever the rows of *)
(* the table are called.                                                    *)
LEMMA SumDrop ==
  ASSUME NEW S, IsFiniteSet(S), NEW z \in S, NEW f, \A x \in S : f[x] \in Int,
         NEW g, \A x \in S \ {z} : g[x] = f[x]
  PROVE  SumFunctionOnSet(f, S) = f[z] + SumFunctionOnSet(g, S \ {z})
<1>1. IsFiniteSet(S \ {z})
  BY FS_Subset
<1>2. SumFunctionOnSet(g, S \ {z}) = SumFunctionOnSet(f, S \ {z})
  BY <1>1, SumAgree
<1> QED
  BY <1>2, SumRemove

(* A row added to a table of amounts adds to its sum.                       *)
LEMMA SumGrow ==
  ASSUME NEW S, IsFiniteSet(S), NEW z, z \notin S, NEW g, \A x \in S \cup {z} : g[x] \in Int,
         NEW f, \A x \in S : g[x] = f[x]
  PROVE  SumFunctionOnSet(g, S \cup {z}) = g[z] + SumFunctionOnSet(f, S)
<1>1. SumFunctionOnSet(g, S) = SumFunctionOnSet(f, S)
  BY SumAgree
<1> QED
  BY <1>1, SumAdd

(* Rows of the two sums of the ledger.                                      *)
EntryRow(e) == [i \in e.open |-> Worth(Abs(e.lots[i].qty), e.lots[i].avg)]
FeeRow(e) == [i \in e.managed |-> e.lots[i].unitFee * e.lots[i].qty]

(* The two sums of the ledger are the sums of these rows.                   *)
LEMMA LedgerSums ==
  ASSUME NEW e, Known(e)
  PROVE  /\ EntryValue(e) = SumFunctionOnSet(EntryRow(e), e.open)
         /\ EntryFees(e) = SumFunctionOnSet(FeeRow(e), e.managed)
         /\ IsFiniteSet(e.open) /\ IsFiniteSet(e.managed)
         /\ \A i \in e.open : EntryRow(e)[i] \in Int
         /\ \A i \in e.managed : FeeRow(e)[i] \in Int
         /\ EntryValue(e) \in Int /\ EntryFees(e) \in Int
<1>1. e \in Engine /\ e.open \subseteq LotIds(e) /\ e.managed \subseteq LotIds(e)
  BY DEF Known
<1>2. EntryValue(e) = SumFunctionOnSet(EntryRow(e), e.open)
  <2>1. DOMAIN EntryRow(e) = e.open
    BY DEF EntryRow
  <2> QED
    BY <2>1 DEF EntryValue, EntryRow, SumFunction
<1>3. EntryFees(e) = SumFunctionOnSet(FeeRow(e), e.managed)
  <2>1. DOMAIN FeeRow(e) = e.managed
    BY DEF FeeRow
  <2> QED
    BY <2>1 DEF EntryFees, FeeRow, SumFunction
<1>4. IsFiniteSet(e.open) /\ IsFiniteSet(e.managed)
  BY <1>1, LotIdsAre, FS_Subset
<1>5. \A i \in e.open : EntryRow(e)[i] \in Int
  <2> SUFFICES ASSUME NEW i \in e.open PROVE EntryRow(e)[i] \in Int
    OBVIOUS
  <2> DEFINE lot == e.lots[i]
  <2>1. lot \in Lot
    BY <1>1, LotIdsAre
  <2>2. Abs(lot.qty) \in Int /\ lot.avg \in Int
    BY <2>1 DEF Lot, Abs
  <2>3. Worth(Abs(lot.qty), lot.avg) \in Int
    <3> DEFINE q == Abs(lot.qty)
               a == lot.avg
    <3>1. q \in Int /\ a \in Int
      BY <2>2
    <3> HIDE DEF q, a
    <3>2. Worth(q, a) \in Int
      BY <3>1, WorthInt
    <3> QED
      BY <3>2 DEF q, a
  <2> QED
    BY <2>3 DEF EntryRow
<1>6. \A i \in e.managed : FeeRow(e)[i] \in Int
  <2> SUFFICES ASSUME NEW i \in e.managed PROVE FeeRow(e)[i] \in Int
    OBVIOUS
  <2> DEFINE lot == e.lots[i]
  <2>1. lot \in Lot
    BY <1>1, LotIdsAre
  <2>2. lot.unitFee \in Int /\ lot.qty \in Int
    BY <2>1 DEF Lot
  <2>3. lot.unitFee * lot.qty \in Int
    BY <2>2, IntProduct
  <2> QED
    BY <2>3 DEF FeeRow
<1> QED
  BY <1>2, <1>3, <1>4, <1>5, <1>6, SumType

(* The loop alone keeps the two lists the same, and the books balanced.     *)
Books(e) ==
  /\ e.open = e.managed
  /\ e.cash - StartingCapital + EntryValue(e) = e.netPnl - EntryFees(e)

(* A close keeps the books balanced.                                        *)
LEMMA CloseBooks ==
  ASSUME NEW e, Known(e), e.managed # {}, Books(e), NEW t \in Nat, NEW r \in Reason
  PROVE  Books(Close(e, t, r))
<1> DEFINE id == Min(e.managed)
           lot == Oldest(e)
           c == Close(e, t, r)
           fee == Fee(lot.qty, e.price)
           perf == ExitPerfFee(e, lot)
           gross == GrossPnl(e, lot)
           u == lot.unitFee * lot.qty
           w == Worth(lot.qty, lot.avg)
<1>1. /\ e \in Engine /\ id \in e.managed /\ id \in e.open /\ lot \in Lot /\ lot = e.lots[id]
  BY OldestManaged DEF Known, Books, Oldest
<1>2. Known(c) /\ ClosedFrom(e, c, t)
  BY CloseKnown, CloseFields
<1> HIDE DEF c
<1>3. EntryValue(e) = w + EntryValue(c)
  <2>1. EntryRow(e)[id] = w
    <3>1. lot.qty \in Nat
      BY <1>1 DEF Lot
    <3>2. Abs(lot.qty) = lot.qty
      BY <3>1 DEF Abs
    <3> QED
      BY <1>1, <3>2 DEF EntryRow
  <2>2. c.open = e.open \ {id} /\ c.lots = e.lots
    BY <1>2 DEF ClosedFrom
  <2>3. \A i \in e.open \ {id} : EntryRow(c)[i] = EntryRow(e)[i]
    BY <2>2 DEF EntryRow
  <2>4. SumFunctionOnSet(EntryRow(e), e.open)
          = EntryRow(e)[id] + SumFunctionOnSet(EntryRow(c), e.open \ {id})
    BY <1>1, <2>3, LedgerSums, SumDrop
  <2> QED
    BY <1>2, <2>1, <2>2, <2>4, LedgerSums
<1>4. EntryFees(e) = u + EntryFees(c)
  <2>1. FeeRow(e)[id] = u
    BY <1>1 DEF FeeRow
  <2>2. c.managed = e.managed \ {id} /\ c.lots = e.lots
    BY <1>2 DEF ClosedFrom
  <2>3. \A i \in e.managed \ {id} : FeeRow(c)[i] = FeeRow(e)[i]
    BY <2>2 DEF FeeRow
  <2>4. SumFunctionOnSet(FeeRow(e), e.managed)
          = FeeRow(e)[id] + SumFunctionOnSet(FeeRow(c), e.managed \ {id})
    <3>1. IsFiniteSet(e.managed) /\ \A i \in e.managed : FeeRow(e)[i] \in Int
      BY LedgerSums
    <3> HIDE DEF id
    <3> QED
      BY <1>1, <2>3, <3>1, SumDrop
  <2> QED
    BY <1>2, <2>1, <2>2, <2>4, LedgerSums
<1>5. /\ EntryValue(e) \in Int /\ EntryFees(e) \in Int
      /\ EntryValue(c) \in Int /\ EntryFees(c) \in Int
  BY <1>2, LedgerSums
<1>6. /\ gross \in Int /\ fee \in Int /\ perf \in Int /\ u \in Int /\ w \in Int
  <2>1. gross \in Int /\ fee \in Int /\ perf \in Int /\ u \in Int
    BY <1>1, CloseAmounts
  <2>2. lot.qty \in Int /\ lot.avg \in Int
    BY <1>1 DEF Lot
  <2>3. w \in Int
    <3> DEFINE q == lot.qty
               a == lot.avg
    <3>1. q \in Int /\ a \in Int
      BY <2>2
    <3> HIDE DEF q, a
    <3>2. Worth(q, a) \in Int
      BY <3>1, WorthInt
    <3> QED
      BY <3>2 DEF q, a
  <2> QED
    BY <2>1, <2>3
<1>7. e.cash \in Int /\ e.netPnl \in Int /\ StartingCapital \in Int
  <2>1. StartingCapital \in Nat
    BY EngineAssumption
  <2> QED
    BY <1>1, <2>1 DEF Engine
<1>8. Returned(e, lot) = (w + gross) - fee
  BY <1>6 DEF Returned
<1>9. NetPnl(e, lot) = gross - (u + fee + perf)
  BY DEF NetPnl
<1>10. c.cash = e.cash + Returned(e, lot) - perf /\ c.netPnl = e.netPnl + NetPnl(e, lot)
  BY <1>2 DEF ClosedFrom
<1>11. e.open = e.managed /\ e.cash - StartingCapital + EntryValue(e) = e.netPnl - EntryFees(e)
  BY DEF Books
<1> HIDE DEF id, lot, fee, perf, gross, u, w
<1>12. c.cash - StartingCapital + EntryValue(c) = c.netPnl - EntryFees(c)
  BY <1>3, <1>4, <1>5, <1>6, <1>7, <1>8, <1>9, <1>10, <1>11
<1>13. c.open = c.managed
  BY <1>2, <1>11 DEF ClosedFrom
<1>14. Books(c)
  BY <1>12, <1>13 DEF Books
<1> QED
  BY <1>14 DEF c

(* So do the exits of a tick.                                               *)
LEMMA ExitsBooks ==
  ASSUME NEW e, Known(e), Books(e), NEW signal
  PROVE  Books(CheckExit(e)) /\ Books(DynamicExit(e, signal))
<1>1. e.managed \subseteq Nat
  BY DEF Known, Engine
<1> QED
  BY <1>1, ExitOrNothing, CloseBooks DEF Reason

(* An entry keeps the books balanced.                                       *)
LEMMA OpenBooks ==
  ASSUME NEW e, Known(e), Books(e), NEW signal \in Signal, NEW qty \in Quantity,
         NEW slip \in Slip, Affordable(e, qty, slip)
  PROVE  Books(Open(e, signal.action, qty, slip))
<1> DEFINE price == EntryPrice(e, signal.action, slip)
           o == Open(e, signal.action, qty, slip)
           n == NextId(e)
           lot == LotAt(e, signal.action, qty, price, Fee(1, price))
           w == Worth(qty, price)
           fee == Fee(qty, price)
<1>1. /\ Known(o) /\ price \in Nat /\ qty \in Nat \ {0}
      /\ o.cash = e.cash - (w + fee) /\ o.lots = Append(e.lots, lot)
      /\ o.open = e.open \cup {n} /\ o.managed = e.managed \cup {n} /\ o.netPnl = e.netPnl
  BY EntryFields DEF EnteredFrom
<1> HIDE DEF o
<1>2. e \in Engine /\ e.lots \in Seq(Lot) /\ e.open \subseteq LotIds(e) /\ e.open = e.managed
  BY DEF Known, Engine, Books
<1>3. lot \in Lot /\ lot.qty = qty /\ lot.avg = price /\ lot.unitFee = Fee(1, price)
  <2>1. Fee(1, price) \in Nat /\ signal.action \in Side
    BY <1>1, WorthNat, SignalTypes
  <2> HIDE DEF price
  <2> QED
    BY <1>1, <1>2, <2>1, LotAtType DEF LotAt
<1> HIDE DEF lot
<1>4. n \notin e.open /\ o.lots[n] = lot /\ \A i \in e.open : o.lots[i] = e.lots[i]
  <2>1. n = Len(e.lots) + 1
    BY DEF NextId
  <2> HIDE DEF n
  <2> QED
    BY <1>1, <1>2, <1>3, <2>1, AppendLot DEF LotIds
<1>5. w \in Int /\ fee \in Int
  <2> HIDE DEF price
  <2> QED
    BY <1>1, WorthNat
<1>6. EntryValue(o) = w + EntryValue(e)
  <2>1. EntryRow(o)[n] = w
    <3>1. Abs(lot.qty) = qty
      BY <1>1, <1>3 DEF Abs
    <3> HIDE DEF n, price
    <3> QED
      BY <1>1, <1>3, <1>4, <3>1 DEF EntryRow
  <2> HIDE DEF n, w
  <2>2. \A i \in e.open : EntryRow(o)[i] = EntryRow(e)[i]
    BY <1>1, <1>4 DEF EntryRow
  <2>3. SumFunctionOnSet(EntryRow(o), e.open \cup {n})
          = EntryRow(o)[n] + SumFunctionOnSet(EntryRow(e), e.open)
    <3>1. IsFiniteSet(e.open) /\ \A i \in o.open : EntryRow(o)[i] \in Int
      BY <1>1, LedgerSums
    <3>2. \A i \in e.open \cup {n} : EntryRow(o)[i] \in Int
      BY <1>1, <3>1
    <3>3. n \notin e.open
      BY <1>4
    <3> DEFINE S == e.open
               f == EntryRow(e)
               g == EntryRow(o)
    <3>4. /\ IsFiniteSet(S) /\ n \notin S /\ (\A x \in S : g[x] = f[x])
          /\ \A x \in S \cup {n} : g[x] \in Int
      BY <2>2, <3>1, <3>2, <3>3
    <3> HIDE DEF S, f, g
    <3>5. SumFunctionOnSet(g, S \cup {n}) = g[n] + SumFunctionOnSet(f, S)
      BY <3>4, SumGrow, ZenonT(30)
    <3> QED
      BY <3>5 DEF S, f, g
  <2> QED
    BY <1>1, <2>1, <2>3, LedgerSums
<1>7. EntryFees(o) = fee + EntryFees(e)
  <2>1. FeeRow(o)[n] = fee
    <3>1. Fee(1, price) * qty = Fee(qty, price)
      <4>1. TakerFee \in Int /\ price \in Int /\ qty \in Int
        BY <1>1, EngineAssumption
      <4>2. \A a, p, q \in Int : (a * (1 * p)) * q = a * (q * p)
        OBVIOUS
      <4> HIDE DEF price
      <4> QED
        BY <4>1, <4>2 DEF Fee
    <3> HIDE DEF n, price
    <3> QED
      BY <1>1, <1>2, <1>3, <1>4, <3>1 DEF FeeRow
  <2> HIDE DEF n, fee
  <2>2. \A i \in e.managed : FeeRow(o)[i] = FeeRow(e)[i]
    BY <1>1, <1>2, <1>4 DEF FeeRow
  <2>3. SumFunctionOnSet(FeeRow(o), e.managed \cup {n})
          = FeeRow(o)[n] + SumFunctionOnSet(FeeRow(e), e.managed)
    <3>1. IsFiniteSet(e.managed) /\ \A i \in o.managed : FeeRow(o)[i] \in Int
      BY <1>1, LedgerSums
    <3>2. \A i \in e.managed \cup {n} : FeeRow(o)[i] \in Int
      BY <1>1, <3>1
    <3>3. n \notin e.managed
      BY <1>2, <1>4
    <3> DEFINE S == e.managed
               f == FeeRow(e)
               g == FeeRow(o)
    <3>4. /\ IsFiniteSet(S) /\ n \notin S /\ (\A x \in S : g[x] = f[x])
          /\ \A x \in S \cup {n} : g[x] \in Int
      BY <2>2, <3>1, <3>2, <3>3
    <3> HIDE DEF S, f, g
    <3>5. SumFunctionOnSet(g, S \cup {n}) = g[n] + SumFunctionOnSet(f, S)
      BY <3>4, SumGrow, ZenonT(30)
    <3> QED
      BY <3>5 DEF S, f, g
  <2> QED
    BY <1>1, <2>1, <2>3, LedgerSums
<1>8. /\ EntryValue(e) \in Int /\ EntryFees(e) \in Int
      /\ EntryValue(o) \in Int /\ EntryFees(o) \in Int
  BY <1>1, LedgerSums
<1>9. e.cash \in Int /\ e.netPnl \in Int /\ StartingCapital \in Int
  <2>1. StartingCapital \in Nat
    BY EngineAssumption
  <2> QED
    BY <1>2, <2>1 DEF Engine
<1>10. e.cash - StartingCapital + EntryValue(e) = e.netPnl - EntryFees(e)
  BY DEF Books
<1> HIDE DEF w, fee
<1>11. o.cash - StartingCapital + EntryValue(o) = o.netPnl - EntryFees(o)
  <2>1. o.cash = e.cash - (w + fee) /\ o.netPnl = e.netPnl
    BY <1>1
  <2> QED
    BY <1>5, <1>6, <1>7, <1>8, <1>9, <1>10, <2>1
<1>12. Books(o)
  BY <1>1, <1>2, <1>11 DEF Books
<1> QED
  BY <1>12 DEF o

(* The books of a new engine are balanced.                                  *)
LEMMA NewBooks ==
  ASSUME NEW p \in Price
  PROVE  Books([NewEngine EXCEPT !.price = p])
<1> DEFINE e == [NewEngine EXCEPT !.price = p]
<1>1. /\ Known(e) /\ e.open = {} /\ e.managed = {} /\ e.cash = StartingCapital /\ e.netPnl = 0
  BY NewEngineKnown
<1> HIDE DEF e
<1>2. EntryValue(e) = 0 /\ EntryFees(e) = 0
  BY <1>1, LedgerSums, SumUnfold, FS_EmptySet
<1>3. StartingCapital \in Nat
  BY EngineAssumption
<1>4. Books(e)
  BY <1>1, <1>2, <1>3 DEF Books
<1> QED
  BY <1>4 DEF e

(* A price alone changes nothing in the books.                              *)
LEMMA PriceBooks ==
  ASSUME NEW e, Known(e), Books(e), NEW p \in Price
  PROVE  Books([e EXCEPT !.price = p])
<1> DEFINE r == [e EXCEPT !.price = p]
<1>1. /\ Known(r) /\ r.cash = e.cash /\ r.managed = e.managed /\ r.open = e.open
      /\ r.lots = e.lots /\ r.netPnl = e.netPnl
  BY PriceOnly
<1> HIDE DEF r
<1>2. EntryValue(r) = EntryValue(e) /\ EntryFees(r) = EntryFees(e)
  BY <1>1 DEF EntryValue, EntryFees
<1>3. Books(r)
  BY <1>1, <1>2 DEF Books
<1> QED
  BY <1>3 DEF r

(* Without fills of the broker the realized profit is the sum of the net    *)
(* profits of the closed trades less the entry fees of the open lots.       *)
THEOREM RealizedIsSumOfTrades == EngineSpec => []LedgerBalances
<1> DEFINE Inv == filled = 0 => Books(engine)
<1>1. EngineInit => Inv
  BY InitIsNew, NewBooks
<1>2. EngineTypeOK /\ Inv /\ [EngineNext]_engineVars => Inv'
  <2> SUFFICES ASSUME EngineTypeOK, Inv, [EngineNext]_engineVars, filled' = 0
               PROVE  Books(engine')
    OBVIOUS
  <2>0. Known(engine) /\ engine.price \in Price /\ filled \in Nat
    BY EngineAssumption DEF EngineTypeOK, Known, Engine
  <2>1. CASE UNCHANGED engineVars
    BY <2>1 DEF engineVars
  <2>2. CASE EngineNext
    <3>0. filled = 0 /\ ~(filled' = filled + 1)
      <4>1. filled' = filled \/ filled' = filled + 1
        BY <2>2 DEF EngineNext, Start, Stop, ResetEngine, Tick, MarketEvent, SimulateFill
      <4> QED
        BY <2>0, <4>1
    <3>1. Books(engine)
      BY <3>0
    <3>2. CASE engine' = engine
      BY <3>1, <3>2
    <3>3. CASE engine' = [NewEngine EXCEPT !.price = engine.price]
      BY <2>0, <3>3, NewBooks
    <3>4. CASE \E p \in Price : engine' = [engine EXCEPT !.price = p]
      BY <2>0, <3>1, <3>4, PriceBooks
    <3> DEFINE exited == CheckExit(engine)
    <3>5. Known(exited) /\ Books(exited)
      BY <2>0, <3>1, ExitsKnown, ExitsBooks
    <3>6. CASE \E signal \in Signal \cup {NoSignal} : engine' = DynamicExit(exited, signal)
      <4> HIDE DEF exited
      <4> QED
        BY <3>5, <3>6, ExitsBooks
    <3>7. CASE \E signal \in Signal, qty \in Quantity, slip \in Slip :
                 LET left == DynamicExit(exited, signal)
                 IN /\ MayEnter(left, signal) /\ Affordable(left, qty, slip)
                    /\ engine' = Open(left, signal.action, qty, slip)
      <4> HIDE DEF exited
      <4>1. PICK signal \in Signal, qty \in Quantity, slip \in Slip :
              LET left == DynamicExit(exited, signal)
              IN Affordable(left, qty, slip) /\ engine' = Open(left, signal.action, qty, slip)
        BY <3>7
      <4> DEFINE left == DynamicExit(exited, signal)
      <4>2. Known(left) /\ Books(left)
        BY <3>5, ExitsKnown, ExitsBooks
      <4>3. Affordable(left, qty, slip) /\ engine' = Open(left, signal.action, qty, slip)
        BY <4>1
      <4> HIDE DEF left
      <4> QED
        BY <4>2, <4>3, OpenBooks
    <3> QED
      BY <2>0, <2>2, <3>0, <3>2, <3>3, <3>4, <3>6, <3>7, TickResult
  <2> QED
    BY <2>1, <2>2
<1>3. EngineTypeOK /\ Inv => LedgerBalances
  <2> SUFFICES ASSUME EngineTypeOK, Books(engine)
               PROVE  RealizedPnl(engine) = engine.netPnl - EntryFees(engine)
    BY DEF LedgerBalances
  <2>1. Known(engine) /\ engine \in Engine /\ engine.open \subseteq LotIds(engine)
    BY DEF EngineTypeOK, Known
  <2>2. MarketValue(engine) \in Int /\ EntryValue(engine) \in Int /\ EntryFees(engine) \in Int
    BY <2>1, MarketValueType, LedgerSums
  <2>3. engine.cash \in Int /\ engine.netPnl \in Int
    BY <2>1 DEF Engine
  <2>4. StartingCapital \in Nat
    BY EngineAssumption
  <2> QED
    BY <2>2, <2>3, <2>4 DEF RealizedPnl, Equity, Books
<1> QED
  BY <1>1, <1>2, <1>3, EngineKeepsTypes, PTL DEF EngineSpec

(* A lot's stop is on the losing side of its average price, its target on   *)
(* the winning side.                                                        *)
Bracketed(lot) ==
  /\ Sign(lot.side) * lot.stopLoss <= Sign(lot.side) * lot.avg
  /\ Sign(lot.side) * lot.avg <= Sign(lot.side) * lot.takeProfit
LotsBracketed(e) == \A i \in LotIds(e) : Bracketed(e.lots[i])

(* No streak of losses lowers the target below the entry: it is lowered by  *)
(* a step for each loss up to max windows, and by the adjustment limit at   *)
(* most.  The code has 0.5 * 6 <= 3.0 (paper_models.py:52, 62, 73).         *)
TargetsStayAbove ==
  Step * MaxWindows <= BaseTakeProfit \/ MaxTPAdjustment <= BaseTakeProfit

(* Until the broker fills an order on the same lots, a lot whose stop loss  *)
(* closes it has not gained and one whose target closes it has not lost,    *)
(* whatever streak moved the two when the lot was opened.                   *)
StopsLoseTargetsGain ==
  filled = 0 =>
    \A i \in engine.managed :
      LET lot == engine.lots[i]
      IN /\ ExitReason(engine, lot) = "STOP_LOSS" => GrossPnl(engine, lot) <= 0
         /\ ExitReason(engine, lot) = "TAKE_PROFIT" => GrossPnl(engine, lot) >= 0

(* A product with a larger factor is larger.                                *)
LEMMA ProductGrows == \A a, b, c \in Nat : b <= c => a * b <= a * c
<1>1. \A a, b, c \in Nat : b <= c => a * (c - b) >= 0
  <2>1. \A a, d \in Nat : a * d \in Nat
    OBVIOUS
  <2> QED
    BY <2>1
<1>2. \A a, b, c \in Nat : a * c = a * b + a * (c - b)
  OBVIOUS
<1> QED
  BY <1>1, <1>2

(* Neither parameter is ever negative.                                      *)
LEMMA ParametersPositive ==
  ASSUME TargetsStayAbove, NEW k \in [wins : Nat, losses : Nat]
  PROVE  StopLossPct(k) \in Nat /\ TakeProfitPct(k) \in Nat
<1>1. k.wins \in Nat /\ k.losses \in Nat
  OBVIOUS
<1>2. Least(k.losses, MaxWindows) \in Nat /\ Least(k.wins, 4) \in Nat
      /\ Least(k.losses, MaxWindows) <= MaxWindows
  BY <1>1, AdaptiveAssumption DEF Least
<1>3. LossAdjustment(k) \in Nat /\ WinAdjustment(k) \in Nat
  BY <1>2, AdaptiveAssumption, NatProduct DEF LossAdjustment, WinAdjustment
<1>4. LossAdjustment(k) <= Step * MaxWindows
  BY <1>2, AdaptiveAssumption, ProductGrows DEF LossAdjustment
<1>5. Step * MaxWindows \in Nat
  BY AdaptiveAssumption, NatProduct
<1> DEFINE cap == Step * MaxWindows
<1>6. cap \in Nat /\ LossAdjustment(k) <= cap /\ (cap <= BaseTakeProfit \/ MaxTPAdjustment <= BaseTakeProfit)
  BY <1>4, <1>5 DEF TargetsStayAbove
<1> HIDE DEF cap
<1>7. StopLossPct(k) \in Nat
  BY <1>3, AdaptiveAssumption DEF StopLossPct, Least, Greatest
<1>8. TakeProfitPct(k) \in Nat
  BY <1>3, <1>6, AdaptiveAssumption DEF TakeProfitPct, Least, Greatest
<1> QED
  BY <1>7, <1>8

(* A price less a part of it, and plus a part of it, in whole numbers.      *)
LEMMA AroundPrice ==
  \A price, part \in Nat :
    /\ (price * (1000 - part)) \div 1000 <= price
    /\ (price * (1000 + part)) \div 1000 >= price
<1>1. \A price, part \in Nat :
        /\ price * part \in Nat
        /\ price * (1000 - part) = 1000 * price - price * part
        /\ price * (1000 + part) = 1000 * price + price * part
  OBVIOUS
<1>2. \A price, m \in Nat :
        /\ (1000 * price - m) \div 1000 <= price
        /\ (1000 * price + m) \div 1000 >= price
  OBVIOUS
<1> QED
  BY <1>1, <1>2

(* A new lot has its stop and target on the right sides of its price.      *)
LEMMA NewLotBracketed ==
  ASSUME TargetsStayAbove, NEW e \in Engine, NEW side \in Side, NEW qty, NEW price \in Nat,
         NEW unitFee
  PROVE  Bracketed(LotAt(e, side, qty, price, unitFee))
<1> DEFINE lot == LotAt(e, side, qty, price, unitFee)
           sl == StopLossPct(e.streak)
           tp == TakeProfitPct(e.streak)
<1>1. e.streak \in [wins : Nat, losses : Nat]
  BY DEF Engine
<1>2. sl \in Nat /\ tp \in Nat
  BY <1>1, ParametersPositive
<1>3. /\ lot.side = side /\ lot.avg = price
      /\ lot.stopLoss = (price * (1000 - Sign(side) * sl)) \div 1000
      /\ lot.takeProfit = (price * (1000 + Sign(side) * tp)) \div 1000
  BY DEF LotAt
<1> HIDE DEF lot, sl, tp
<1>4. CASE Sign(side) = 1
  <2>1. 1000 - Sign(side) * sl = 1000 - sl /\ 1000 + Sign(side) * tp = 1000 + tp
    BY <1>2, <1>4
  <2>2. lot.stopLoss <= price /\ lot.takeProfit >= price /\ lot.stopLoss \in Int
        /\ lot.takeProfit \in Int
    <3>1. price * (1000 - sl) \in Int /\ price * (1000 + tp) \in Int
      BY <1>2, IntProduct
    <3>2. \A a \in Int : a \div 1000 \in Int
      OBVIOUS
    <3> QED
      BY <1>2, <1>3, <2>1, <3>1, <3>2, AroundPrice
  <2> QED
    BY <1>3, <1>4, <2>2 DEF Bracketed, lot
<1>5. CASE Sign(side) = -1
  <2>1. 1000 - Sign(side) * sl = 1000 + sl /\ 1000 + Sign(side) * tp = 1000 - tp
    BY <1>2, <1>5
  <2>2. lot.stopLoss >= price /\ lot.takeProfit <= price /\ lot.stopLoss \in Int
        /\ lot.takeProfit \in Int
    <3>1. price * (1000 + sl) \in Int /\ price * (1000 - tp) \in Int
      BY <1>2, IntProduct
    <3>2. \A a \in Int : a \div 1000 \in Int
      OBVIOUS
    <3> QED
      BY <1>2, <1>3, <2>1, <3>1, <3>2, AroundPrice
  <2> QED
    BY <1>3, <1>5, <2>2 DEF Bracketed, lot
<1> QED
  BY <1>4, <1>5, SignType DEF lot

(* A close changes no lot, so the exits of a tick keep the brackets.        *)
LEMMA ExitsBracketed ==
  ASSUME NEW e, Known(e), LotsBracketed(e), NEW signal
  PROVE  LotsBracketed(CheckExit(e)) /\ LotsBracketed(DynamicExit(e, signal))
<1>1. ASSUME e.managed # {}, NEW t, NEW r PROVE LotsBracketed(Close(e, t, r))
  BY <1>1, CloseFields DEF ClosedFrom, LotsBracketed, LotIds
<1> QED
  BY <1>1, ExitOrNothing

(* An entry adds a lot with its own.                                        *)
LEMMA EntryBracketed ==
  ASSUME TargetsStayAbove, NEW e, Known(e), LotsBracketed(e), NEW signal \in Signal,
         NEW qty \in Quantity, NEW slip \in Slip, Affordable(e, qty, slip)
  PROVE  LotsBracketed(Open(e, signal.action, qty, slip))
<1> DEFINE price == EntryPrice(e, signal.action, slip)
           lot == LotAt(e, signal.action, qty, price, Fee(1, price))
           o == Open(e, signal.action, qty, slip)
<1>1. /\ EnteredFrom(e, o, signal.action, qty, price)
      /\ price \in Nat /\ qty \in Nat \ {0} /\ e \in Engine /\ e.lots \in Seq(Lot)
      /\ signal.action \in Side
  BY EntryFields, SignalTypes DEF Known, Engine
<1>2. Fee(1, price) \in Nat
  BY <1>1, WorthNat
<1>3. lot \in Lot /\ Bracketed(lot)
  BY <1>1, <1>2, LotAtType, NewLotBracketed
<1>4. o.lots = Append(e.lots, lot)
  BY <1>1 DEF EnteredFrom
<1> HIDE DEF lot, o, price
<1>5. /\ DOMAIN o.lots = DOMAIN e.lots \cup {Len(e.lots) + 1}
      /\ o.lots[Len(e.lots) + 1] = lot
      /\ \A i \in DOMAIN e.lots : o.lots[i] = e.lots[i]
  BY <1>1, <1>3, <1>4, AppendLot
<1>6. LotsBracketed(o)
  BY <1>3, <1>5 DEF LotsBracketed, LotIds
<1> QED
  BY <1>6 DEF o

(* Beyond its stop the price is on the losing side of the average, beyond   *)
(* its target on the winning side.                                          *)
LEMMA BracketedExit ==
  ASSUME NEW e \in Engine, NEW lot \in Lot, Bracketed(lot)
  PROVE  /\ ExitReason(e, lot) = "STOP_LOSS" => GrossPnl(e, lot) <= 0
         /\ ExitReason(e, lot) = "TAKE_PROFIT" => GrossPnl(e, lot) >= 0
<1> DEFINE s == Sign(lot.side)
           gain == e.price - lot.avg
<1>1. e.price \in Nat
  BY EngineAssumption DEF Engine
<1>2. lot.avg \in Nat /\ lot.qty \in Nat /\ lot.stopLoss \in Int /\ lot.takeProfit \in Int
  BY DEF Lot
<1>3. s \in {1, -1}
  BY SignType
<1>4. GrossPnl(e, lot) = s * (1000 * (lot.qty * gain))
  BY DEF GrossPnl, Worth
<1>5. /\ ExitReason(e, lot) = "STOP_LOSS" => s * e.price <= s * lot.stopLoss
      /\ ExitReason(e, lot) = "TAKE_PROFIT" => s * e.price >= s * lot.takeProfit
  BY DEF ExitReason
<1>6. s * lot.stopLoss <= s * lot.avg /\ s * lot.avg <= s * lot.takeProfit
  BY DEF Bracketed
<1> HIDE DEF s
<1>7. /\ ExitReason(e, lot) = "STOP_LOSS" => s * gain <= 0
      /\ ExitReason(e, lot) = "TAKE_PROFIT" => s * gain >= 0
  BY <1>1, <1>2, <1>3, <1>5, <1>6
<1>8. gain \in Int /\ s * gain \in Int
  BY <1>1, <1>2, <1>3
<1> HIDE DEF gain
<1>9. s * (1000 * (lot.qty * gain)) = 1000 * (lot.qty * (s * gain))
  <2>1. lot.qty * gain \in Int /\ lot.qty * (-gain) = -(lot.qty * gain)
    BY <1>2, <1>8
  <2>2. CASE s = 1
    BY <1>8, <2>1, <2>2
  <2>3. CASE s = -1
    BY <1>8, <2>1, <2>3
  <2> QED
    BY <1>3, <2>2, <2>3
<1>10. \A q \in Nat, g \in Int : (g <= 0 => 1000 * (q * g) <= 0) /\ (g >= 0 => 1000 * (q * g) >= 0)
  <2>1. \A q, g \in Nat : q * g \in Nat
    BY NatProduct
  <2>2. \A q \in Nat, g \in Int : q * (-g) = -(q * g) /\ q * g \in Int
    OBVIOUS
  <2> QED
    BY <2>1, <2>2
<1> QED
  BY <1>2, <1>4, <1>7, <1>8, <1>9, <1>10

(* The adaptive parameters never turn a stop into a target or the reverse.  *)
THEOREM StopsAndTargets == TargetsStayAbove /\ EngineSpec => []StopsLoseTargetsGain
<1> SUFFICES ASSUME TargetsStayAbove PROVE EngineSpec => []StopsLoseTargetsGain
  OBVIOUS
<1> DEFINE Inv == filled = 0 => LotsBracketed(engine)
<1>1. EngineInit => Inv
  BY DEF EngineInit, NewEngine, LotsBracketed, LotIds
<1>2. EngineTypeOK /\ Inv /\ [EngineNext]_engineVars => Inv'
  <2> SUFFICES ASSUME EngineTypeOK, Inv, [EngineNext]_engineVars, filled' = 0
               PROVE  LotsBracketed(engine')
    BY DEF LotsBracketed, LotIds
  <2>0. Known(engine) /\ filled \in Nat
    BY EngineAssumption DEF EngineTypeOK, Known
  <2>1. CASE UNCHANGED engineVars
    BY <2>1 DEF engineVars
  <2>2. CASE EngineNext
    <3>0. filled = 0 /\ ~(filled' = filled + 1)
      <4>1. filled' = filled \/ filled' = filled + 1
        BY <2>2 DEF EngineNext, Start, Stop, ResetEngine, Tick, MarketEvent, SimulateFill
      <4> QED
        BY <2>0, <4>1
    <3>1. LotsBracketed(engine)
      BY <3>0
    <3>2. CASE engine' = engine
      BY <3>1, <3>2
    <3>3. CASE engine' = [NewEngine EXCEPT !.price = engine.price]
      BY <3>3 DEF NewEngine, LotsBracketed, LotIds
    <3>4. CASE \E p \in Price : engine' = [engine EXCEPT !.price = p]
      BY <2>0, <3>1, <3>4, PriceOnly DEF LotsBracketed, LotIds
    <3> DEFINE exited == CheckExit(engine)
    <3>5. Known(exited) /\ LotsBracketed(exited)
      BY <2>0, <3>1, ExitsKnown, ExitsBracketed
    <3>6. CASE \E signal \in Signal \cup {NoSignal} : engine' = DynamicExit(exited, signal)
      <4> HIDE DEF exited
      <4> QED
        BY <3>5, <3>6, ExitsBracketed
    <3>7. CASE \E signal \in Signal, qty \in Quantity, slip \in Slip :
                 LET left == DynamicExit(exited, signal)
                 IN /\ MayEnter(left, signal) /\ Affordable(left, qty, slip)
                    /\ engine' = Open(left, signal.action, qty, slip)
      <4> HIDE DEF exited
      <4>1. PICK signal \in Signal, qty \in Quantity, slip \in Slip :
              LET left == DynamicExit(exited, signal)
              IN Affordable(left, qty, slip) /\ engine' = Open(left, signal.action, qty, slip)
        BY <3>7
      <4> DEFINE left == DynamicExit(exited, signal)
      <4>2. Known(left) /\ LotsBracketed(left)
        BY <3>5, ExitsKnown, ExitsBracketed
      <4>3. Affordable(left, qty, slip) /\ engine' = Open(left, signal.action, qty, slip)
        BY <4>1
      <4> HIDE DEF left
      <4> QED
        BY <4>2, <4>3, EntryBracketed
    <3> QED
      BY <2>0, <2>2, <3>0, <3>2, <3>3, <3>4, <3>6, <3>7, TickResult
  <2> QED
    BY <2>1, <2>2
<1>3. EngineTypeOK /\ Inv => StopsLoseTargetsGain
  <2> SUFFICES ASSUME EngineTypeOK, LotsBracketed(engine), NEW i \in engine.managed
               PROVE  LET lot == engine.lots[i]
                      IN /\ ExitReason(engine, lot) = "STOP_LOSS" => GrossPnl(engine, lot) <= 0
                         /\ ExitReason(engine, lot) = "TAKE_PROFIT" => GrossPnl(engine, lot) >= 0
    BY DEF StopsLoseTargetsGain
  <2>1. i \in LotIds(engine) /\ engine.lots \in Seq(Lot) /\ engine \in Engine
    BY DEF EngineTypeOK, Engine
  <2>2. engine.lots[i] \in Lot
    <3>1. \A s \in Seq(Lot) : \A j \in DOMAIN s : s[j] \in Lot
      OBVIOUS
    <3> QED
      BY <2>1, <3>1 DEF LotIds
  <2> QED
    BY <2>1, <2>2, BracketedExit DEF LotsBracketed
<1> QED
  BY <1>1, <1>2, <1>3, EngineKeepsTypes, PTL DEF EngineSpec

-----------------------------------------------------------------------------
(* The account of the broker adapter.                                       *)

(* A quotient is at most what is divided.                                   *)
LEMMA OverIsSmaller ==
  ASSUME NEW a \in Nat, NEW b \in Nat, b > 0
  PROVE  a \div b \in Nat /\ a \div b <= a
<1> DEFINE q == a \div b
<1>1. q \in Nat /\ b * q <= a
  OBVIOUS
<1> HIDE DEF q
<1>2. b * q = q + (b - 1) * q
  BY <1>1
<1>3. (b - 1) * q \in Nat
  <2>1. b - 1 \in Nat
    OBVIOUS
  <2> QED
    BY <1>1, <2>1, NatProduct
<1>4. q <= a
  <2> DEFINE r == (b - 1) * q
             p == b * q
  <2>1. p = q + r /\ r \in Nat /\ p <= a
    BY <1>1, <1>2, <1>3
  <2> HIDE DEF r, p
  <2> QED
    BY <1>1, <2>1
<1> QED
  BY <1>1, <1>4 DEF q

(* The fields of an order, by the assumption on the orders.                 *)
LEMMA OrderFields ==
  ASSUME NEW o \in Order
  PROVE  /\ o.asset \in Asset /\ o.side \in {"BUY", "SELL"} /\ o.qty \in Nat /\ o.qty > 0
         /\ o.price \in Nat /\ o.type \in {"MARKET", "LIMIT"}
         /\ Sign(o.side) \in Int /\ Sign(o.side) \in {1, -1}
<1>1. o.asset \in Asset
  BY DEF Asset
<1>2. /\ o.side \in {"BUY", "SELL"} /\ o.qty \in Nat \ {0} /\ o.price \in Nat
      /\ o.type \in {"MARKET", "LIMIT"}
  BY BrokerAssumption
<1> QED
  BY <1>1, <1>2, SignType

(* There are finitely many assets.                                          *)
LEMMA AssetFinite == IsFiniteSet(Asset)
<1>1. IsFiniteSet(Order)
  BY BrokerAssumption
<1>2. [o \in Order |-> o.asset] \in Surjection(Order, Asset)
  BY DEF Surjection, Asset
<1> QED
  BY <1>1, <1>2, FS_Surjection

(* The touch of a quote is a price.                                         *)
LEMMA TouchType ==
  ASSUME quotes \in [Asset -> Quote], NEW o \in Order
  PROVE  Touch(o) \in Nat /\ quotes[o.asset].bid \in Nat /\ quotes[o.asset].ask \in Nat
<1>1. quotes[o.asset] \in Quote
  BY OrderFields
<1>2. quotes[o.asset].bid \in Nat /\ quotes[o.asset].ask \in Nat
  BY <1>1, BrokerAssumption
<1> QED
  BY <1>2 DEF Touch

(* The price of a fill is a price.                                          *)
LEMMA FillPriceType ==
  ASSUME quotes \in [Asset -> Quote], NEW o \in Order
  PROVE  FillPrice(o) \in Nat
<1>1. Touch(o) \in Nat /\ quotes[o.asset].bid \in Nat /\ quotes[o.asset].ask \in Nat
  BY TouchType
<1>2. CASE o.type = "MARKET"
  <2> DEFINE base == FirstNonZero(Touch(o), o.price)
             slip == base \div SlippageDivisor
  <2>1. base \in Nat
    BY <1>1, OrderFields DEF FirstNonZero
  <2>2. SlippageDivisor \in Nat /\ SlippageDivisor > 0
    BY BrokerAssumption
  <2>3. slip \in Nat /\ slip <= base
    <3> HIDE DEF base
    <3> QED
      BY <2>1, <2>2, OverIsSmaller
  <2>4. FillPrice(o) = base + Sign(o.side) * slip
    BY <1>2 DEF FillPrice
  <2>5. Sign(o.side) \in {1, -1}
    BY OrderFields
  <2> HIDE DEF base, slip
  <2> QED
    BY <2>1, <2>3, <2>4, <2>5
<1>3. CASE o.type # "MARKET"
  BY <1>1, <1>3 DEF FillPrice
<1> QED
  BY <1>2, <1>3

-----------------------------------------------------------------------------
(* What a fill of o at a price makes, b, of the positions of account a.     *)
NewPosition(a, o) == a.pos[o.asset] + Sign(o.side) * o.qty
NewAverage(a, o, price) ==
  (a.avg[o.asset] * Abs(a.pos[o.asset]) + price * o.qty) \div Abs(NewPosition(a, o))
Gain(a, o, price) == IF a.avg[o.asset] > 0 THEN GrossProfit(a, o, price) ELSE 0

Updated(a, b, o, price) ==
  /\ b.pos = [a.pos EXCEPT ![o.asset] = NewPosition(a, o)]
  /\ \/ /\ Increases(a, o)
        /\ b.avg = [a.avg EXCEPT ![o.asset] = NewAverage(a, o, price)]
        /\ b.realized = a.realized
     \/ /\ ~Increases(a, o) /\ NewPosition(a, o) = 0
        /\ b.avg = [a.avg EXCEPT ![o.asset] = 0]
        /\ b.realized = a.realized + Gain(a, o, price)
     \/ /\ ~Increases(a, o) /\ Sign(o.side) * NewPosition(a, o) > 0
        /\ b.avg = [a.avg EXCEPT ![o.asset] = price]
        /\ b.realized = a.realized + Gain(a, o, price)
     \/ /\ ~Increases(a, o) /\ Sign(o.side) * NewPosition(a, o) < 0
        /\ b.avg = a.avg
        /\ b.realized = a.realized + Gain(a, o, price)

(* The amounts that a fill computes with.                                   *)
LEMMA PositionFacts ==
  ASSUME NEW a \in Account, NEW o \in Order
  PROVE  /\ a.pos[o.asset] \in Int /\ a.avg[o.asset] \in Nat
         /\ Abs(a.pos[o.asset]) \in Nat /\ NewPosition(a, o) \in Int
         /\ Increases(a, o) => Abs(NewPosition(a, o)) = Abs(a.pos[o.asset]) + o.qty
         /\ ClosingQty(a, o) \in Nat
<1>1. a.pos[o.asset] \in Int /\ a.avg[o.asset] \in Nat
  BY OrderFields DEF Account
<1>2. o.qty \in Nat /\ o.qty > 0 /\ Sign(o.side) \in {1, -1}
  BY OrderFields
<1> DEFINE p == a.pos[o.asset]
           s == Sign(o.side)
           q == o.qty
<1>3. /\ NewPosition(a, o) = p + s * q /\ (Increases(a, o) <=> s * p >= 0)
      /\ ClosingQty(a, o) = IF q < Abs(p) THEN q ELSE Abs(p)
  BY DEF NewPosition, Increases, ClosingQty
<1>4. p \in Int /\ q \in Nat /\ q > 0 /\ s \in {1, -1}
  BY <1>1, <1>2
<1> HIDE DEF p, s, q
<1>5. Abs(p) \in Nat /\ p + s * q \in Int /\ (s * p >= 0 => Abs(p + s * q) = Abs(p) + q)
  BY <1>4 DEF Abs
<1>6. ClosingQty(a, o) \in Nat
  BY <1>3, <1>4, <1>5
<1>7. NewPosition(a, o) \in Int /\ (Increases(a, o) => Abs(NewPosition(a, o)) = Abs(p) + q)
  BY <1>3, <1>5
<1> QED
  BY <1>1, <1>5, <1>6, <1>7 DEF p, q

(* Gains and losses are amounts.                                            *)
LEMMA GrossType ==
  ASSUME NEW a \in Account, NEW o \in Order, NEW price \in Nat
  PROVE  GrossProfit(a, o, price) \in Int /\ Gain(a, o, price) \in Int
<1> DEFINE d == a.avg[o.asset] - price
           q == ClosingQty(a, o)
           s == Sign(o.side)
<1>1. d \in Int /\ q \in Int /\ s \in Int
  BY PositionFacts, OrderFields
<1>2. GrossProfit(a, o, price) = s * d * q
  BY DEF GrossProfit
<1> HIDE DEF d, q, s
<1>3. s * d * q \in Int
  <2>1. s * d \in Int
    BY <1>1, IntProduct
  <2> QED
    BY <1>1, <2>1, IntProduct
<1> QED
  BY <1>2, <1>3 DEF Gain

(* A new average is a price.                                                *)
LEMMA AverageType ==
  ASSUME NEW a \in Account, NEW o \in Order, NEW price \in Nat, Increases(a, o)
  PROVE  NewAverage(a, o, price) \in Nat
<1> DEFINE x == a.avg[o.asset] * Abs(a.pos[o.asset])
           y == price * o.qty
           n == Abs(NewPosition(a, o))
<1>1. x \in Nat /\ y \in Nat
  BY PositionFacts, OrderFields, NatProduct
<1>2. n \in Nat /\ n > 0
  <2>1. n = Abs(a.pos[o.asset]) + o.qty
    BY PositionFacts
  <2> HIDE DEF n
  <2> QED
    BY <2>1, PositionFacts, OrderFields
<1>3. NewAverage(a, o, price) = (x + y) \div n
  BY DEF NewAverage
<1> HIDE DEF x, y, n
<1>4. x + y \in Nat
  BY <1>1
<1> QED
  BY <1>2, <1>3, <1>4, QuotientOf

(* update_position() makes these positions, this average and this profit.   *)
LEMMA UpdatePositionFields ==
  ASSUME NEW a \in Account, NEW o \in Order, NEW price \in Nat
  PROVE  /\ UpdatePosition(a, o, price) \in Account
         /\ Updated(a, UpdatePosition(a, o, price), o, price)
<1> DEFINE s == o.asset
           sgn == Sign(o.side)
           new == NewPosition(a, o)
           gain == Gain(a, o, price)
           avg == NewAverage(a, o, price)
           moved == [a EXCEPT !.pos[s] = new]
           realized == [moved EXCEPT !.realized = a.realized + gain]
           b == UpdatePosition(a, o, price)
<1>1. /\ s \in Asset /\ sgn \in Int /\ new \in Int /\ gain \in Int /\ a.cash \in Int
      /\ a.realized \in Int /\ o.qty \in Int /\ price \in Int
  BY OrderFields, PositionFacts, GrossType DEF Account
<1>2. /\ sgn * price * o.qty \in Int /\ sgn * price * Abs(new) \in Int
  <2>1. Abs(new) \in Int
    BY <1>1 DEF Abs
  <2>2. sgn * price \in Int
    <3> HIDE DEF sgn
    <3> QED
      BY <1>1, IntProduct
  <2> HIDE DEF sgn, new
  <2> QED
    BY <1>1, <2>1, <2>2, IntProduct
<1>3. b = IF Increases(a, o)
          THEN [moved EXCEPT !.avg[s] = avg, !.cash = a.cash - sgn * price * o.qty]
          ELSE IF new = 0 THEN [realized EXCEPT !.avg[s] = 0]
          ELSE IF sgn * new > 0
               THEN [realized EXCEPT !.avg[s] = price, !.cash = a.cash - sgn * price * Abs(new)]
               ELSE [realized EXCEPT !.cash = a.cash - sgn * price * o.qty]
  <2>1. DOMAIN a = {"cash", "pos", "avg", "realized", "commissions", "winStreak", "lossStreak"}
    BY DEF Account
  <2>2. a.avg \in [Asset -> Nat] /\ s \in Asset
    BY <1>1 DEF Account
  <2>3. /\ moved.realized = a.realized /\ moved.cash = a.cash /\ moved.avg = a.avg
    BY <2>1
  <2>4. /\ realized.cash = a.cash /\ realized.avg = a.avg
    BY <2>1
  <2> DEFINE raw == [moved EXCEPT !.realized =
                       @ + IF a.avg[s] > 0 THEN GrossProfit(a, o, price) ELSE 0]
  <2>5. raw = realized
    BY <2>3 DEF Gain
  <2>6. b = IF Increases(a, o)
            THEN [moved EXCEPT !.avg[s] = (@ * Abs(a.pos[s]) + price * o.qty) \div Abs(new),
                               !.cash = @ - sgn * price * o.qty]
            ELSE IF new = 0 THEN [raw EXCEPT !.avg[s] = 0]
            ELSE IF sgn * new > 0
                 THEN [raw EXCEPT !.avg[s] = price, !.cash = @ - sgn * price * Abs(new)]
                 ELSE [raw EXCEPT !.cash = @ - sgn * price * o.qty]
    BY DEF UpdatePosition, NewPosition
  <2>7. avg = (moved.avg[s] * Abs(a.pos[s]) + price * o.qty) \div Abs(new)
    BY <2>3 DEF NewAverage
  <2> HIDE DEF moved, realized, raw, b, new, sgn, avg
  <2> QED
    BY <2>3, <2>4, <2>5, <2>6, <2>7
<1>4. moved \in Account /\ moved.pos = [a.pos EXCEPT ![s] = new] /\ moved.avg = a.avg
      /\ moved.realized = a.realized
  <2> HIDE DEF new
  <2> QED
    BY <1>1 DEF Account
<1> HIDE DEF moved
<1>5. /\ realized \in Account /\ realized.pos = [a.pos EXCEPT ![s] = new] /\ realized.avg = a.avg
      /\ realized.realized = a.realized + gain
  <2> HIDE DEF new, gain
  <2>1. a.realized + gain \in Int
    BY <1>1
  <2> QED
    BY <1>4, <2>1 DEF Account
<1> HIDE DEF realized
<1>6. CASE Increases(a, o)
  <2>1. avg \in Nat /\ a.cash - sgn * price * o.qty \in Int
    <3>1. avg \in Nat
      BY <1>6, AverageType
    <3> QED
      BY <1>1, <1>2, <3>1
  <2> DEFINE cash == a.cash - sgn * price * o.qty
  <2>2. b = [moved EXCEPT !.avg[s] = avg, !.cash = cash]
    BY <1>3, <1>6
  <2>3. cash \in Int
    BY <2>1
  <2> HIDE DEF avg, new, cash, b
  <2>4. /\ b \in Account /\ b.pos = moved.pos /\ b.avg = [a.avg EXCEPT ![s] = avg]
        /\ b.realized = a.realized
    BY <1>1, <1>4, <2>1, <2>2, <2>3 DEF Account
  <2> QED
    BY <1>4, <1>6, <2>4 DEF Updated, b, avg, new
<1>7. CASE ~Increases(a, o) /\ new = 0
  <2>1. b = [realized EXCEPT !.avg[s] = 0]
    BY <1>3, <1>7
  <2> HIDE DEF b, gain
  <2>2. /\ b \in Account /\ b.pos = realized.pos /\ b.avg = [a.avg EXCEPT ![s] = 0]
        /\ b.realized = a.realized + gain
    BY <1>1, <1>5, <2>1 DEF Account
  <2> QED
    BY <1>5, <1>7, <2>2 DEF Updated, b, gain
<1>8. CASE ~Increases(a, o) /\ sgn * new > 0 /\ new # 0
  <2> DEFINE cash == a.cash - sgn * price * Abs(new)
  <2>1. b = [realized EXCEPT !.avg[s] = price, !.cash = cash]
    BY <1>3, <1>8
  <2>2. cash \in Int
    BY <1>1, <1>2
  <2> HIDE DEF b, gain, cash
  <2>3. /\ b \in Account /\ b.pos = realized.pos /\ b.avg = [a.avg EXCEPT ![s] = price]
        /\ b.realized = a.realized + gain
    BY <1>1, <1>5, <2>1, <2>2 DEF Account
  <2> QED
    BY <1>5, <1>8, <2>3 DEF Updated, b, gain
<1>9. CASE ~Increases(a, o) /\ ~(sgn * new > 0) /\ new # 0
  <2> DEFINE cash == a.cash - sgn * price * o.qty
  <2>1. b = [realized EXCEPT !.cash = cash]
    BY <1>3, <1>9
  <2>2. cash \in Int
    BY <1>1, <1>2
  <2>3. sgn * new < 0
    <3>1. sgn \in {1, -1} /\ new \in Int /\ new # 0
      BY <1>1, <1>9, OrderFields
    <3> HIDE DEF sgn, new
    <3> QED
      BY <1>9, <3>1
  <2> HIDE DEF b, gain, cash
  <2>4. /\ b \in Account /\ b.pos = realized.pos /\ b.avg = a.avg
        /\ b.realized = a.realized + gain
    BY <1>1, <1>5, <2>1, <2>2 DEF Account
  <2> QED
    BY <1>5, <1>9, <2>3, <2>4 DEF Updated, b, gain
<1> QED
  BY <1>6, <1>7, <1>8, <1>9

(* The performance fee of an exit leaves the positions alone.               *)
LEMMA SettleFields ==
  ASSUME NEW a \in Account, NEW o \in Order, NEW price \in Nat
  PROVE  LET b == Settle(a, o, price)
         IN b \in Account /\ b.pos = a.pos /\ b.avg = a.avg /\ b.realized = a.realized
<1> DEFINE profit == GrossProfit(a, o, price)
           fee == (profit * FeePercent) \div 100
           b == Settle(a, o, price)
<1>1. CASE Increases(a, o)
  BY <1>1 DEF Settle
<1>2. CASE ~Increases(a, o) /\ profit > 0
  <2>1. fee \in Nat
    <3>1. profit \in Nat
      BY <1>2, GrossType
    <3>2. FeePercent \in Nat
      BY BrokerAssumption
    <3> DEFINE n == profit * FeePercent
    <3>3. n \in Nat
      <4> HIDE DEF profit
      <4> QED
        BY <3>1, <3>2, NatProduct
    <3> HIDE DEF n
    <3>4. n \div 100 \in Nat
      BY <3>3
    <3> QED
      BY <3>4 DEF n
  <2> DEFINE wins == a.winStreak + 1
             won == [a EXCEPT !.winStreak = wins, !.lossStreak = 0]
  <2>2. /\ won \in Account /\ won.pos = a.pos /\ won.avg = a.avg /\ won.realized = a.realized
        /\ RecordWin(a) = won
    <3>1. wins \in Nat /\ RecordWin(a) = won
      BY DEF RecordWin, Account
    <3> HIDE DEF wins
    <3> QED
      BY <3>1 DEF Account
  <2>3. b = [won EXCEPT !.commissions = won.commissions + fee]
    BY <1>2, <2>2 DEF Settle, Account
  <2> HIDE DEF b, fee, won
  <2>4. won.commissions + fee \in Nat
    BY <2>1, <2>2 DEF Account
  <2>5. b \in Account /\ b.pos = won.pos /\ b.avg = won.avg /\ b.realized = won.realized
    BY <2>2, <2>3, <2>4 DEF Account
  <2> QED
    BY <2>2, <2>5 DEF b
<1>3. CASE ~Increases(a, o) /\ ~(profit > 0)
  <2>1. b = RecordLoss(a)
    BY <1>3 DEF Settle
  <2>2. RecordLoss(a) \in Account /\ RecordLoss(a).pos = a.pos /\ RecordLoss(a).avg = a.avg
        /\ RecordLoss(a).realized = a.realized
    <3> DEFINE n == a.lossStreak + 1
               lost == [a EXCEPT !.lossStreak = n, !.winStreak = 0]
    <3>1. n \in Nat
      BY DEF Account
    <3>2. RecordLoss(a) = lost
      BY DEF RecordLoss, Account
    <3> HIDE DEF n
    <3>3. lost \in Account /\ lost.pos = a.pos /\ lost.avg = a.avg /\ lost.realized = a.realized
      BY <3>1 DEF Account
    <3> QED
      BY <3>2, <3>3
  <2> QED
    BY <2>1, <2>2
<1> QED
  BY <1>1, <1>2, <1>3

(* An account after a fill.                                                 *)
LEMMA FillFields ==
  ASSUME NEW a \in Account, NEW o \in Order, NEW price \in Nat
  PROVE  LET b == UpdatePosition(Settle(a, o, price), o, price)
         IN b \in Account /\ Updated(a, b, o, price)
<1> DEFINE m == Settle(a, o, price)
           b == UpdatePosition(m, o, price)
<1>1. m \in Account /\ m.pos = a.pos /\ m.avg = a.avg /\ m.realized = a.realized
  BY SettleFields
<1> HIDE DEF m
<1>2. b \in Account /\ Updated(m, b, o, price)
  BY <1>1, UpdatePositionFields
<1> HIDE DEF b
<1>3. /\ NewPosition(m, o) = NewPosition(a, o) /\ NewAverage(m, o, price) = NewAverage(a, o, price)
      /\ Gain(m, o, price) = Gain(a, o, price) /\ (Increases(m, o) <=> Increases(a, o))
  BY <1>1 DEF NewPosition, NewAverage, Gain, Increases, GrossProfit, ClosingQty
<1>4. Updated(a, b, o, price)
  BY <1>1, <1>2, <1>3 DEF Updated
<1> QED
  BY <1>2, <1>4 DEF b, m

(* A new account is an account.                                             *)
LEMMA NewAccountType == NewAccount \in Account
<1>1. InitialBalance \in Int
  BY BrokerAssumption
<1> DEFINE zero == [s \in Asset |-> 0]
<1>2. zero \in [Asset -> Int] /\ zero \in [Asset -> Nat]
  OBVIOUS
<1>3. NewAccount = [cash |-> InitialBalance, pos |-> zero, avg |-> zero, realized |-> 0,
                    commissions |-> 0, winStreak |-> 0, lossStreak |-> 0]
  BY DEF NewAccount
<1> HIDE DEF zero
<1> QED
  BY <1>1, <1>2, <1>3 DEF Account

(* The first state is well typed.                                           *)
LEMMA InitType == ASSUME Init PROVE TypeOK
<1> DEFINE nowhere == [s \in Asset |-> Absent]
<1>1. nowhere \in [Asset -> Stored] /\ Absent \in Stored
  BY DEF Stored
<1>2. account \in Account
  BY NewAccountType DEF Init
<1>3. quotes \in [Asset -> Quote] /\ MaxEvents \in Nat
  BY BrokerAssumption DEF Init
<1>4. redis = [cash |-> Absent, pos |-> nowhere]
  BY DEF Init
<1>5. redis \in [cash : Stored, pos : [Asset -> Stored]]
  <2> HIDE DEF nowhere
  <2> QED
    BY <1>1, <1>4
<1>6. submission \in [Order -> {"new", "sleeping", "returned"}] /\ book \subseteq Order
  BY DEF Init
<1>7. sync \in [Order -> [pc : SyncPc, value : Int]]
  BY DEF Init, SyncPc
<1>8. balance \in [Reader -> [pc : BalancePc, cash : Stored, pos : [Asset -> Stored]]]
  <2>1. balance = [r \in Reader |-> [pc |-> "idle", cash |-> Absent, pos |-> redis.pos]]
    BY DEF Init
  <2> DEFINE idle == [pc |-> "idle", cash |-> Absent, pos |-> redis.pos]
  <2>2. idle \in [pc : BalancePc, cash : Stored, pos : [Asset -> Stored]]
    BY <1>1, <1>5 DEF BalancePc
  <2> HIDE DEF idle
  <2>3. balance = [r \in Reader |-> idle]
    BY <2>1 DEF idle
  <2> QED
    BY <2>2, <2>3
<1>9. fills \subseteq [order : Order, price : Nat] /\ resets \in BOOLEAN /\ overwritten \in BOOLEAN
  BY DEF Init
<1>10. events \in 0 .. MaxEvents
  BY <1>3 DEF Init
<1> QED
  BY <1>2, <1>3, <1>5, <1>6, <1>7, <1>8, <1>9, <1>10 DEF TypeOK

(* A fill keeps the types.                                                  *)
LEMMA FillType ==
  ASSUME TypeOK, NEW o \in Order, Fill(o)
  PROVE  TypeOK'
<1>1. account \in Account /\ quotes \in [Asset -> Quote]
  BY DEF TypeOK
<1>2. FillPrice(o) \in Nat
  BY <1>1, FillPriceType
<1>3. account' \in Account
  BY <1>1, <1>2, FillFields DEF Fill
<1>4. fills' \subseteq [order : Order, price : Nat]
  <2>1. fills' = fills \cup {[order |-> o, price |-> FillPrice(o)]}
    BY DEF Fill
  <2> QED
    BY <1>2, <2>1 DEF TypeOK
<1>5. sync' \in [Order -> [pc : SyncPc, value : Int]]
  <2>1. sync \in [Order -> [pc : SyncPc, value : Int]]
    BY DEF TypeOK
  <2>2. (IF UseRedis THEN "created" ELSE "none") \in SyncPc
    BY DEF SyncPc
  <2> DEFINE pc == IF UseRedis THEN "created" ELSE "none"
  <2>3. sync' = [sync EXCEPT ![o].pc = pc]
    BY DEF Fill
  <2> HIDE DEF pc
  <2> QED
    BY <2>1, <2>2, <2>3 DEF pc
<1>6. submission' \in [Order -> {"new", "sleeping", "returned"}]
  BY DEF Fill, TypeOK
<1> QED
  BY <1>3, <1>4, <1>5, <1>6 DEF Fill, TypeOK

(* So do the other steps of submit_order().                                 *)
LEMMA SubmitType ==
  ASSUME TypeOK, NEW o \in Order, SubmitBegin(o) \/ NotFilled(o) \/ Cancel(o)
  PROVE  TypeOK'
<1>1. MaxEvents \in Nat
  BY BrokerAssumption
<1>2. CASE SubmitBegin(o)
  BY <1>2 DEF SubmitBegin, TypeOK
<1>3. CASE NotFilled(o)
  BY <1>3 DEF NotFilled, TypeOK
<1>4. CASE Cancel(o)
  BY <1>1, <1>4 DEF Cancel, TypeOK
<1> QED
  BY <1>2, <1>3, <1>4

(* So do the tasks that copy the account.                                   *)
LEMMA SyncType ==
  ASSUME TypeOK, NEW o \in Order, SyncStep(o)
  PROVE  TypeOK'
<1>1. sync \in [Order -> [pc : SyncPc, value : Int]] /\ sync[o] \in [pc : SyncPc, value : Int]
  BY DEF TypeOK
<1>2. o.asset \in Asset
  BY OrderFields
<1>3. account.cash \in Int /\ account.pos[o.asset] \in Int
  BY <1>2 DEF TypeOK, Account
<1>4. redis \in [cash : Stored, pos : [Asset -> Stored]]
  BY DEF TypeOK
<1>5. CASE SyncSendCash(o)
  <2>1. sync' \in [Order -> [pc : SyncPc, value : Int]]
    <3>1. [pc |-> "set", value |-> account.cash] \in [pc : SyncPc, value : Int]
      BY <1>3 DEF SyncPc
    <3> QED
      BY <1>1, <1>5, <3>1 DEF SyncSendCash
  <2> QED
    BY <1>5, <2>1 DEF SyncSendCash, TypeOK
<1>6. CASE SyncSetServed(o)
  <2>1. sync' \in [Order -> [pc : SyncPc, value : Int]]
    <3> DEFINE row == [pc |-> IF sync[o].pc = "set" THEN "answered" ELSE "done", value |-> 0]
    <3>1. sync' = [sync EXCEPT ![o] = row]
      BY <1>1, <1>6 DEF SyncSetServed
    <3>2. row \in [pc : SyncPc, value : Int]
      BY DEF SyncPc
    <3> HIDE DEF row
    <3> QED
      BY <1>1, <3>1, <3>2
  <2>2. redis' \in [cash : Stored, pos : [Asset -> Stored]]
    <3>1. sync[o].value \in Stored
      BY <1>1 DEF Stored
    <3> QED
      BY <1>4, <1>6, <3>1 DEF SyncSetServed
  <2> QED
    BY <1>6, <2>1, <2>2 DEF SyncSetServed, TypeOK
<1>7. CASE SyncSendPosition(o)
  <2>1. sync' \in [Order -> [pc : SyncPc, value : Int]]
    <3>1. [pc |-> "hset", value |-> account.pos[o.asset]] \in [pc : SyncPc, value : Int]
      BY <1>3 DEF SyncPc
    <3> QED
      BY <1>1, <1>7, <3>1 DEF SyncSendPosition
  <2> QED
    BY <1>7, <2>1 DEF SyncSendPosition, TypeOK
<1>8. CASE SyncHsetServed(o)
  <2>1. sync' \in [Order -> [pc : SyncPc, value : Int]]
    <3>1. [pc |-> "done", value |-> 0] \in [pc : SyncPc, value : Int]
      BY DEF SyncPc
    <3> QED
      BY <1>1, <1>8, <3>1 DEF SyncHsetServed
  <2>2. redis' \in [cash : Stored, pos : [Asset -> Stored]]
    <3>1. sync[o].value \in Stored
      BY <1>1 DEF Stored
    <3> QED
      BY <1>2, <1>4, <1>8, <3>1 DEF SyncHsetServed
  <2> QED
    BY <1>8, <2>1, <2>2 DEF SyncHsetServed, TypeOK
<1>9. CASE SyncFails(o)
  <2>1. sync' \in [Order -> [pc : SyncPc, value : Int]]
    <3>1. [pc |-> "done", value |-> 0] \in [pc : SyncPc, value : Int]
      BY DEF SyncPc
    <3> QED
      BY <1>1, <1>9, <3>1 DEF SyncFails
  <2> QED
    BY <1>9, <2>1 DEF SyncFails, TypeOK
<1> QED
  BY <1>5, <1>6, <1>7, <1>8, <1>9 DEF SyncStep

(* States of a call of get_paper_balance().                                 *)
Answer == [pc : BalancePc, cash : Stored, pos : [Asset -> Stored]]

(* No answer is an answer.                                                  *)
LEMMA NoAnswerType == NoAnswer \in Answer
<1> DEFINE nowhere == [s \in Asset |-> Absent]
<1>1. nowhere \in [Asset -> Stored] /\ Absent \in Stored
  BY DEF Stored
<1>2. NoAnswer = [pc |-> "done", cash |-> Absent, pos |-> nowhere]
  BY DEF NoAnswer
<1> HIDE DEF nowhere
<1> QED
  BY <1>1, <1>2 DEF Answer, BalancePc

(* Reading the balance keeps the types.                                     *)
LEMMA BalanceType ==
  ASSUME TypeOK, NEW r \in Reader, BalanceStep(r)
  PROVE  TypeOK'
<1>1. balance \in [Reader -> Answer] /\ balance[r] \in Answer
  BY DEF TypeOK, Answer
<1>2. redis.cash \in Stored /\ redis.pos \in [Asset -> Stored] /\ account \in Account
  BY DEF TypeOK
<1>3. CASE BalanceCashServed(r)
  <2>1. balance' \in [Reader -> Answer]
    BY <1>1, <1>2, <1>3 DEF BalanceCashServed, Answer, BalancePc
  <2> QED
    BY <1>3, <2>1 DEF BalanceCashServed, TypeOK, Answer
<1>4. CASE BalanceTakesCash(r)
  <2>1. balance' \in [Reader -> Answer]
    <3>1. Absent \in Stored
      BY DEF Stored
    <3> QED
      BY <1>1, <1>4, <3>1 DEF BalanceTakesCash, Answer, BalancePc
  <2>2. account' \in Account
    <3>1. CASE balance[r].cash = Absent
      BY <1>2, <1>4, <3>1 DEF BalanceTakesCash
    <3>2. CASE balance[r].cash # Absent
      <4>1. balance[r].cash \in Int
        BY <1>1, <3>2 DEF Answer, Stored
      <4>2. account' = [account EXCEPT !.cash = balance[r].cash]
        BY <1>4, <3>2 DEF BalanceTakesCash
      <4> QED
        BY <1>2, <4>1, <4>2 DEF Account
    <3> QED
      BY <3>1, <3>2
  <2>3. overwritten' \in BOOLEAN
    BY <1>4 DEF BalanceTakesCash
  <2> QED
    BY <1>4, <2>1, <2>2, <2>3 DEF BalanceTakesCash, TypeOK, Answer
<1>5. CASE BalancePositionsServed(r)
  <2>1. balance' \in [Reader -> Answer]
    BY <1>1, <1>2, <1>5 DEF BalancePositionsServed, Answer, BalancePc
  <2> QED
    BY <1>5, <2>1 DEF BalancePositionsServed, TypeOK, Answer
<1>6. CASE BalanceTakesPositions(r)
  <2>1. balance' \in [Reader -> Answer]
    BY <1>1, <1>6, NoAnswerType DEF BalanceTakesPositions
  <2>2. account' \in Account
    <3>1. CASE \A s \in Asset : balance[r].pos[s] = Absent
      BY <1>2, <1>6, <3>1 DEF BalanceTakesPositions
    <3>2. CASE ~(\A s \in Asset : balance[r].pos[s] = Absent)
      <4> DEFINE pos == [s \in Asset |-> IF balance[r].pos[s] = Absent THEN 0 ELSE balance[r].pos[s]]
      <4>1. pos \in [Asset -> Int]
        BY <1>1 DEF Answer, Stored
      <4>2. account' = [account EXCEPT !.pos = pos]
        BY <1>6, <3>2 DEF BalanceTakesPositions
      <4> HIDE DEF pos
      <4> QED
        BY <1>2, <4>1, <4>2 DEF Account
    <3> QED
      BY <3>1, <3>2
  <2>3. overwritten' \in BOOLEAN
    BY <1>6 DEF BalanceTakesPositions
  <2> QED
    BY <1>6, <2>1, <2>2, <2>3 DEF BalanceTakesPositions, TypeOK, Answer
<1> QED
  BY <1>3, <1>4, <1>5, <1>6 DEF BalanceStep

(* A restart keeps the types.                                               *)
LEMMA RestartType ==
  ASSUME TypeOK, Restart
  PROVE  TypeOK'
<1>1. account' \in Account
  BY NewAccountType DEF Restart
<1>2. quotes' \in [Asset -> Quote]
  BY BrokerAssumption DEF Restart
<1>3. submission' \in [Order -> {"new", "sleeping", "returned"}]
  BY DEF Restart, TypeOK
<1>4. sync' \in [Order -> [pc : SyncPc, value : Int]]
  <2>1. sync \in [Order -> [pc : SyncPc, value : Int]]
    BY DEF TypeOK
  <2> DEFINE left(o) ==
        CASE sync[o].pc \in {"created", "answered"} -> [sync[o] EXCEPT !.pc = "done"]
          [] sync[o].pc = "set" -> [sync[o] EXCEPT !.pc = "last set"]
          [] OTHER -> sync[o]
  <2>2. ASSUME NEW o \in Order PROVE left(o) \in [pc : SyncPc, value : Int]
    <3>1. sync[o] \in [pc : SyncPc, value : Int]
      BY <2>1
    <3>2. CASE sync[o].pc \in {"created", "answered"}
      BY <3>1, <3>2 DEF SyncPc
    <3>3. CASE sync[o].pc = "set"
      BY <3>1, <3>3 DEF SyncPc
    <3>4. CASE sync[o].pc \notin {"created", "answered", "set"}
      BY <3>1, <3>4
    <3> QED
      BY <3>2, <3>3, <3>4
  <2>3. sync' = [o \in Order |-> left(o)]
    BY DEF Restart
  <2> HIDE DEF left
  <2> QED
    BY <2>2, <2>3
<1>5. balance' \in [Reader -> Answer]
  <2>1. \A r \in Reader : balance[r] \in Answer
    BY DEF TypeOK, Answer
  <2> QED
    BY <2>1, NoAnswerType DEF Restart
<1>6. events' \in 0 .. MaxEvents
  <2>1. MaxEvents \in Nat /\ events \in 0 .. MaxEvents
    BY BrokerAssumption DEF TypeOK
  <2>2. events < MaxEvents /\ events' = events + 1
    BY DEF Restart
  <2> QED
    BY <2>1, <2>2
<1>7. book' \subseteq Order /\ overwritten' \in BOOLEAN
  BY DEF Restart
<1>8. redis' = redis /\ fills' = fills /\ resets' = resets
  BY DEF Restart
<1> QED
  BY <1>1, <1>2, <1>3, <1>4, <1>5, <1>6, <1>7, <1>8 DEF TypeOK, Answer

(* A reset keeps the types.                                                 *)
LEMMA ResetType ==
  ASSUME TypeOK, Reset
  PROVE  TypeOK'
<1>1. account' \in Account
  BY NewAccountType DEF Reset
<1>2. events' \in 0 .. MaxEvents
  <2>1. MaxEvents \in Nat /\ events \in 0 .. MaxEvents
    BY BrokerAssumption DEF TypeOK
  <2> QED
    BY <2>1 DEF Reset
<1> QED
  BY <1>1, <1>2 DEF Reset, TypeOK

(* A ticker keeps the types.                                                *)
LEMMA QuoteType ==
  ASSUME TypeOK, NEW s \in Asset, NEW q \in Quote, UpdateQuote(s, q)
  PROVE  TypeOK'
<1>1. events' \in 0 .. MaxEvents
  <2>1. MaxEvents \in Nat /\ events \in 0 .. MaxEvents
    BY BrokerAssumption DEF TypeOK
  <2> QED
    BY <2>1 DEF UpdateQuote
<1>2. quotes' \in [Asset -> Quote]
  BY DEF UpdateQuote, TypeOK
<1> QED
  BY <1>1, <1>2 DEF UpdateQuote, TypeOK

(* The account, its copies and its tasks keep their types; above all, an    *)
(* average entry price never gets negative, whatever the fills are.         *)
THEOREM BrokerKeepsTypes == Spec => []TypeOK
<1>1. Init => TypeOK
  BY InitType
<1>2. TypeOK /\ [Next]_vars => TypeOK'
  <2> SUFFICES ASSUME TypeOK, [Next]_vars PROVE TypeOK'
    OBVIOUS
  <2>1. CASE UNCHANGED vars
    BY <2>1 DEF vars, TypeOK
  <2>2. CASE Next
    BY <2>2, QuoteType, SubmitType, FillType, SyncType, BalanceType, ResetType, RestartType DEF Next
  <2> QED
    BY <2>1, <2>2
<1> QED
  BY <1>1, <1>2, PTL DEF Spec

-----------------------------------------------------------------------------
(* The fills so far: what a step may do to them.                            *)
LEMMA FillsChange ==
  ASSUME Next
  PROVE  \/ fills' = fills /\ \A o \in Order : ~Fill(o)
         \/ Reset
         \/ \E o \in Order : Fill(o)
BY DEF Next, UpdateQuote, SubmitBegin, NotFilled, Cancel, SyncStep, SyncSendCash, SyncSetServed,
       SyncSendPosition, SyncHsetServed, SyncFails, BalanceStep, BalanceCashServed,
       BalanceTakesCash, BalancePositionsServed, BalanceTakesPositions, Restart

(* A limit order is filled at its limit or better.                          *)
THEOREM LimitsAreHonoured == Spec => []LimitHonoured
<1>1. Init => LimitHonoured
  BY DEF Init, LimitHonoured
<1>2. TypeOK /\ LimitHonoured /\ [Next]_vars => LimitHonoured'
  <2> SUFFICES ASSUME TypeOK, LimitHonoured, [Next]_vars PROVE LimitHonoured'
    OBVIOUS
  <2>1. CASE UNCHANGED vars \/ fills' = fills
    BY <2>1 DEF vars, LimitHonoured
  <2>2. CASE Reset
    BY <2>2 DEF Reset, LimitHonoured
  <2>3. ASSUME NEW o \in Order, Fill(o) PROVE LimitHonoured'
    <3> DEFINE f == [order |-> o, price |-> FillPrice(o)]
    <3>1. fills' = fills \cup {f}
      BY <2>3 DEF Fill
    <3>2. ASSUME o.type = "LIMIT", o.price # 0
          PROVE  Sign(o.side) * FillPrice(o) <= Sign(o.side) * o.price
      <4>1. FillPrice(o) = Touch(o)
        BY <3>2 DEF FillPrice
      <4>2. Crossed(o)
        BY <2>3, <3>2 DEF Fill, Fillable
      <4>3. Touch(o) \in Nat /\ o.price \in Nat /\ Sign(o.side) \in {1, -1}
        BY TouchType, OrderFields DEF TypeOK
      <4> QED
        BY <4>1, <4>2, <4>3 DEF Crossed
    <3>3. f.order = o /\ f.price = FillPrice(o)
      OBVIOUS
    <3> HIDE DEF f
    <3> QED
      BY <3>1, <3>2, <3>3 DEF LimitHonoured
  <2> QED
    BY <2>1, <2>2, <2>3, FillsChange
<1> QED
  BY <1>1, <1>2, BrokerKeepsTypes, PTL DEF Spec

(* Every order that was filled has returned: it is filled only once.        *)
FillsReturned ==
  /\ IsFiniteSet(fills)
  /\ \A f \in fills : submission[f.order] = "returned"

(* No order was filled at first.                                            *)
LEMMA FillsReturnedInit == ASSUME Init PROVE FillsReturned
BY FS_EmptySet DEF Init, FillsReturned

(* A step fills an order that sleeps, and its call returns.                 *)
LEMMA FillsReturnedStep ==
  ASSUME TypeOK, FillsReturned, [Next]_vars
  PROVE  FillsReturned'
<1>0. submission \in [Order -> {"new", "sleeping", "returned"}] /\ \A f \in fills : f.order \in Order
  BY DEF TypeOK
<1>1. CASE Reset
  BY <1>1, FS_EmptySet DEF Reset, FillsReturned
<1>2. ASSUME NEW o \in Order, Fill(o) PROVE FillsReturned'
  <2> DEFINE f == [order |-> o, price |-> FillPrice(o)]
  <2>1. fills' = fills \cup {f} /\ f.order = o
    BY <1>2 DEF Fill
  <2>2. submission' = [submission EXCEPT ![o] = "returned"]
    BY <1>2 DEF Fill
  <2> HIDE DEF f
  <2>3. IsFiniteSet(fills')
    BY <2>1, FS_AddElement DEF FillsReturned
  <2> QED
    BY <1>0, <2>1, <2>2, <2>3 DEF FillsReturned
<1>3. ASSUME NEW o \in Order, SubmitBegin(o) \/ NotFilled(o) PROVE FillsReturned'
  <2>1. fills' = fills /\ submission[o] # "returned"
    BY <1>3 DEF SubmitBegin, NotFilled
  <2>2. \A p \in Order : p # o => submission'[p] = submission[p]
    BY <1>0, <1>3 DEF SubmitBegin, NotFilled
  <2> QED
    BY <1>0, <2>1, <2>2 DEF FillsReturned
<1>4. CASE Restart
  <2>1. fills' = fills
    BY <1>4 DEF Restart
  <2>2. \A p \in Order : submission[p] = "returned" => submission'[p] = "returned"
    BY <1>4 DEF Restart
  <2> QED
    BY <1>0, <2>1, <2>2 DEF FillsReturned
<1>5. CASE fills' = fills /\ submission' = submission
  BY <1>5 DEF FillsReturned
<1>6. \/ fills' = fills /\ submission' = submission
      \/ Reset \/ Restart
      \/ \E o \in Order : Fill(o) \/ SubmitBegin(o) \/ NotFilled(o)
  BY DEF Next, vars, UpdateQuote, Cancel, SyncStep, SyncSendCash, SyncSetServed,
         SyncSendPosition, SyncHsetServed, SyncFails, BalanceStep, BalanceCashServed,
         BalanceTakesCash, BalancePositionsServed, BalanceTakesPositions
<1> QED
  BY <1>1, <1>2, <1>3, <1>4, <1>5, <1>6

(* A fill that is about to happen is not among the fills yet.               *)
LEMMA FillIsNew ==
  ASSUME FillsReturned, NEW o \in Order, Fill(o)
  PROVE  [order |-> o, price |-> FillPrice(o)] \notin fills
<1>1. submission[o] = "sleeping"
  BY DEF Fill
<1> QED
  BY <1>1 DEF FillsReturned

-----------------------------------------------------------------------------
(* The sum of the fills in F.                                               *)
MovedBy(F) == SumFunction([f \in F |-> Moved(f)])

(* What fills move is an amount.                                            *)
LEMMA MovedType ==
  ASSUME NEW F, F \subseteq [order : Order, price : Nat], NEW f \in F
  PROVE  Moved(f) \in Int /\ [g \in F |-> Moved(g)][f] = Moved(f)
<1>1. f.order \in Order
  OBVIOUS
<1>2. Sign(f.order.side) \in Int /\ f.order.qty \in Int
  BY <1>1, OrderFields
<1> QED
  BY <1>2, IntProduct DEF Moved

(* No fill moves nothing.                                                   *)
LEMMA NothingMoved == MovedBy({}) = 0
<1> DEFINE f == [x \in {} |-> Moved(x)]
<1>1. MovedBy({}) = SumFunctionOnSet(f, {})
  BY DEF MovedBy, SumFunction
<1>2. IsFiniteSet({})
  BY FS_EmptySet
<1> HIDE DEF f
<1> QED
  BY <1>1, <1>2, SumUnfold

(* One more fill moves its quantity more.                                   *)
LEMMA OneMoreMoved ==
  ASSUME NEW F, NEW f, F \cup {f} \subseteq [order : Order, price : Nat], IsFiniteSet(F), f \notin F
  PROVE  MovedBy(F \cup {f}) = MovedBy(F) + Moved(f) /\ MovedBy(F) \in Int
<1> DEFINE G == F \cup {f}
           a == [x \in F |-> Moved(x)]
           b == [x \in G |-> Moved(x)]
<1>1. MovedBy(F) = SumFunctionOnSet(a, F) /\ MovedBy(G) = SumFunctionOnSet(b, G)
  BY DEF MovedBy, SumFunction
<1>2. /\ \A x \in F : a[x] \in Int
      /\ \A x \in G : b[x] \in Int
      /\ \A x \in F : b[x] = a[x]
  BY MovedType
<1>3. b[f] = Moved(f)
  OBVIOUS
<1> HIDE DEF a, b
<1>4. SumFunctionOnSet(b, F) = SumFunctionOnSet(a, F)
  BY <1>2, SumAgree
<1>5. SumFunctionOnSet(b, G) = b[f] + SumFunctionOnSet(b, F)
  BY <1>2, SumAdd
<1>6. SumFunctionOnSet(a, F) \in Int /\ Moved(f) \in Int
  <2>1. f \in G /\ G \subseteq [order : Order, price : Nat]
    OBVIOUS
  <2> HIDE DEF G
  <2> QED
    BY <1>2, <2>1, SumType, MovedType
<1> HIDE DEF G
<1>7. MovedBy(G) = MovedBy(F) + Moved(f) /\ MovedBy(F) \in Int
  BY <1>1, <1>3, <1>4, <1>5, <1>6
<1> QED
  BY <1>7 DEF G

(* qty is the sum of some of the fills fs of asset s.                       *)
SumOfSome(fs, s, qty) == \E F \in SUBSET {f \in fs : f.order.asset = s} : qty = MovedBy(F)

(* IsSumOfFills, in these words.                                            *)
LEMMA SumOfFillsIs == \A s, qty : IsSumOfFills(s, qty) <=> SumOfSome(fills, s, qty)
BY DEF IsSumOfFills, SumOfSome, MovedBy, FillsOf

(* Nothing is the sum of no fills.                                          *)
LEMMA ZeroIsSum == \A fs, s : SumOfSome(fs, s, 0)
BY NothingMoved DEF SumOfSome

(* Fills are only added, so a sum of fills stays one.                       *)
LEMMA SumsStay ==
  ASSUME NEW fs, NEW new, fs \subseteq new, NEW s, NEW qty, SumOfSome(fs, s, qty)
  PROVE  SumOfSome(new, s, qty)
BY DEF SumOfSome

(* Every copy of a position there is, in the account, in Redis, on its way  *)
(* to Redis, and on its way back, is the sum of some of the fills.          *)
CopiesAreSums ==
  /\ \A s \in Asset : SumOfSome(fills, s, account.pos[s])
  /\ \A s \in Asset : redis.pos[s] # Absent => SumOfSome(fills, s, redis.pos[s])
  /\ \A o \in Order : sync[o].pc = "hset" => SumOfSome(fills, o.asset, sync[o].value)
  /\ \A r \in Reader, s \in Asset :
       balance[r].pos[s] # Absent => SumOfSome(fills, s, balance[r].pos[s])

(* Nothing was copied at first.                                             *)
LEMMA CopiesInit == ASSUME Init PROVE CopiesAreSums
<1>1. account.pos = [s \in Asset |-> 0]
  BY DEF Init, NewAccount
<1>2. redis.pos = [s \in Asset |-> Absent]
  BY DEF Init
<1>3. \A o \in Order : sync[o].pc = "none"
  BY DEF Init
<1>4. \A r \in Reader : balance[r].pos = redis.pos
  BY DEF Init
<1> QED
  BY <1>1, <1>2, <1>3, <1>4, ZeroIsSum DEF CopiesAreSums

(* A fill adds itself to the position, and one fill to the fills.           *)
LEMMA FillCopies ==
  ASSUME TypeOK, FillsReturned, CopiesAreSums, NEW o \in Order, Fill(o)
  PROVE  CopiesAreSums'
<1> DEFINE f == [order |-> o, price |-> FillPrice(o)]
<1>1. account \in Account /\ FillPrice(o) \in Nat /\ o.asset \in Asset
  BY FillPriceType, OrderFields DEF TypeOK
<1>2. fills' = fills \cup {f} /\ f \notin fills /\ fills \cup {f} \subseteq [order : Order, price : Nat]
  <2>1. fills' = fills \cup {f}
    BY DEF Fill
  <2>2. f \notin fills
    BY FillIsNew
  <2> QED
    BY <1>1, <2>1, <2>2 DEF TypeOK
<1>3. f.order = o
  OBVIOUS
<1> HIDE DEF f
<1>4. account'.pos = [account.pos EXCEPT ![o.asset] = NewPosition(account, o)]
  <2>1. Updated(account, account', o, FillPrice(o))
    BY <1>1, FillFields DEF Fill
  <2> QED
    BY <2>1 DEF Updated
<1>5. account.pos \in [Asset -> Int]
  BY <1>1 DEF Account
<1>6. SumOfSome(fills', o.asset, account'.pos[o.asset])
  <2>1. PICK F \in SUBSET {g \in fills : g.order.asset = o.asset} : account.pos[o.asset] = MovedBy(F)
    BY <1>1 DEF CopiesAreSums, SumOfSome
  <2>2. IsFiniteSet(F) /\ f \notin F /\ F \cup {f} \subseteq [order : Order, price : Nat]
    <3>1. F \subseteq fills /\ IsFiniteSet(fills)
      BY DEF FillsReturned
    <3> QED
      BY <1>2, <3>1, FS_Subset
  <2>3. MovedBy(F \cup {f}) = MovedBy(F) + Moved(f)
    BY <2>2, OneMoreMoved
  <2>4. account'.pos[o.asset] = MovedBy(F \cup {f})
    BY <1>1, <1>3, <1>4, <1>5, <2>1, <2>3 DEF NewPosition, Moved
  <2>5. F \cup {f} \in SUBSET {g \in fills' : g.order.asset = o.asset}
    BY <1>2, <1>3
  <2> QED
    BY <2>4, <2>5 DEF SumOfSome
<1>7. fills \subseteq fills'
  BY <1>2
<1>8. \A s \in Asset : SumOfSome(fills', s, account'.pos[s])
  <2>1. \A s \in Asset : s # o.asset => account'.pos[s] = account.pos[s]
    BY <1>4, <1>5
  <2> QED
    BY <1>6, <1>7, <2>1, SumsStay DEF CopiesAreSums
<1>9. redis' = redis /\ balance' = balance
  BY DEF Fill
<1>10. \A p \in Order : sync'[p].pc = "hset" => sync[p].pc = "hset" /\ sync'[p].value = sync[p].value
  <2>1. sync \in [Order -> [pc : SyncPc, value : Int]]
    BY DEF TypeOK
  <2> QED
    BY <2>1 DEF Fill
<1> QED
  BY <1>7, <1>8, <1>9, <1>10, SumsStay DEF CopiesAreSums

(* The tasks only copy positions.                                           *)
LEMMA TaskCopies ==
  ASSUME TypeOK, CopiesAreSums, NEW o \in Order, SyncStep(o)
  PROVE  CopiesAreSums'
<1>1. fills' = fills /\ account' = account /\ balance' = balance
  BY DEF SyncStep, SyncSendCash, SyncSetServed, SyncSendPosition, SyncHsetServed, SyncFails
<1>2. sync \in [Order -> [pc : SyncPc, value : Int]] /\ redis \in [cash : Stored, pos : [Asset -> Stored]]
  BY DEF TypeOK
<1>3. o.asset \in Asset
  BY OrderFields
<1>4. \A p \in Order : sync'[p].pc = "hset" => SumOfSome(fills', p.asset, sync'[p].value)
  <2>1. CASE SyncSendPosition(o)
    BY <1>1, <1>2, <1>3, <2>1 DEF SyncSendPosition, CopiesAreSums
  <2>2. CASE SyncSendCash(o)
    BY <1>1, <1>2, <2>2 DEF SyncSendCash, CopiesAreSums
  <2>3. CASE SyncSetServed(o)
    BY <1>1, <1>2, <2>3 DEF SyncSetServed, CopiesAreSums
  <2>4. CASE SyncHsetServed(o)
    BY <1>1, <1>2, <2>4 DEF SyncHsetServed, CopiesAreSums
  <2>5. CASE SyncFails(o)
    BY <1>1, <1>2, <2>5 DEF SyncFails, CopiesAreSums
  <2> QED
    BY <2>1, <2>2, <2>3, <2>4, <2>5 DEF SyncStep
<1>5. \A s \in Asset : redis'.pos[s] # Absent => SumOfSome(fills', s, redis'.pos[s])
  <2>1. CASE SyncHsetServed(o)
    BY <1>1, <1>2, <2>1 DEF SyncHsetServed, CopiesAreSums
  <2>2. CASE SyncSetServed(o)
    BY <1>1, <1>2, <2>2 DEF SyncSetServed, CopiesAreSums
  <2>3. CASE redis' = redis
    BY <1>1, <2>3 DEF CopiesAreSums
  <2> QED
    BY <2>1, <2>2, <2>3 DEF SyncStep, SyncSendCash, SyncSendPosition, SyncFails
<1> QED
  BY <1>1, <1>4, <1>5 DEF CopiesAreSums

(* Reading the balance takes over a sum of fills, or nothing.               *)
LEMMA ReaderCopies ==
  ASSUME TypeOK, CopiesAreSums, NEW r \in Reader, BalanceStep(r)
  PROVE  CopiesAreSums'
<1>1. fills' = fills /\ redis' = redis /\ sync' = sync
  BY DEF BalanceStep, BalanceCashServed, BalanceTakesCash, BalancePositionsServed,
         BalanceTakesPositions
<1>2. balance \in [Reader -> Answer] /\ account \in Account
  BY DEF TypeOK, Answer
<1>3. \A q \in Reader, s \in Asset :
        balance'[q].pos[s] # Absent => SumOfSome(fills', s, balance'[q].pos[s])
  <2>1. CASE BalanceCashServed(r)
    BY <1>1, <1>2, <2>1 DEF BalanceCashServed, CopiesAreSums, Answer
  <2>2. CASE BalanceTakesCash(r)
    BY <1>1, <1>2, <2>2 DEF BalanceTakesCash, CopiesAreSums, Answer
  <2>3. CASE BalancePositionsServed(r)
    BY <1>1, <1>2, <2>3 DEF BalancePositionsServed, CopiesAreSums, Answer
  <2>4. CASE BalanceTakesPositions(r)
    <3>1. \A s \in Asset : NoAnswer.pos[s] = Absent
      BY DEF NoAnswer
    <3> QED
      BY <1>1, <1>2, <2>4, <3>1 DEF BalanceTakesPositions, CopiesAreSums
  <2> QED
    BY <2>1, <2>2, <2>3, <2>4 DEF BalanceStep
<1>4. \A s \in Asset : SumOfSome(fills', s, account'.pos[s])
  <2>1. CASE account' = account
    BY <1>1, <2>1 DEF CopiesAreSums
  <2>2. CASE account' = [account EXCEPT !.cash = balance[r].cash]
    BY <1>1, <1>2, <2>2 DEF CopiesAreSums, Account
  <2>3. CASE account' = [account EXCEPT !.pos =
               [s \in Asset |-> IF balance[r].pos[s] = Absent THEN 0 ELSE balance[r].pos[s]]]
    BY <1>1, <1>2, <2>3, ZeroIsSum DEF CopiesAreSums, Account
  <2> QED
    BY <2>1, <2>2, <2>3 DEF BalanceStep, BalanceCashServed, BalanceTakesCash,
                            BalancePositionsServed, BalanceTakesPositions
<1> QED
  BY <1>1, <1>3, <1>4 DEF CopiesAreSums

(* A restart forgets positions, and keeps those in Redis.                   *)
LEMMA RestartCopies ==
  ASSUME TypeOK, CopiesAreSums, Restart
  PROVE  CopiesAreSums'
<1>1. fills' = fills /\ redis' = redis /\ account' = NewAccount
  BY DEF Restart
<1>2. \A s \in Asset : account'.pos[s] = 0
  BY <1>1 DEF NewAccount
<1>3. \A o \in Order : sync'[o].pc = "hset" => sync[o].pc = "hset" /\ sync'[o].value = sync[o].value
  <2> SUFFICES ASSUME NEW o \in Order, sync'[o].pc = "hset"
               PROVE  sync[o].pc = "hset" /\ sync'[o].value = sync[o].value
    OBVIOUS
  <2>1. sync'[o] = CASE sync[o].pc \in {"created", "answered"} -> [sync[o] EXCEPT !.pc = "done"]
                     [] sync[o].pc = "set" -> [sync[o] EXCEPT !.pc = "last set"]
                     [] OTHER -> sync[o]
    BY DEF Restart
  <2>2. sync[o] \in [pc : SyncPc, value : Int]
    BY DEF TypeOK
  <2> QED
    BY <2>1, <2>2
<1>4. \A r \in Reader, s \in Asset :
        balance'[r].pos[s] # Absent => balance'[r] = balance[r]
  <2>1. \A s \in Asset : NoAnswer.pos[s] = Absent
    BY DEF NoAnswer
  <2>2. \A r \in Reader : balance'[r] = balance[r] \/ balance'[r] = NoAnswer
    BY DEF Restart
  <2> QED
    BY <2>1, <2>2
<1> QED
  BY <1>1, <1>2, <1>3, <1>4, ZeroIsSum DEF CopiesAreSums

(* Without a reset a position is the sum of some of the fills, each counted *)
(* once, whatever is copied, lost, read back or restarted.                  *)
THEOREM NoFillTwice == Spec => []NoFillCountedTwice
<1> DEFINE Inv == FillsReturned /\ (~resets => CopiesAreSums)
<1>1. Init => Inv
  BY FillsReturnedInit, CopiesInit
<1>2. TypeOK /\ Inv /\ [Next]_vars => Inv'
  <2> SUFFICES ASSUME TypeOK, Inv, [Next]_vars, ~resets' PROVE CopiesAreSums'
    BY FillsReturnedStep
  <2>1. CASE UNCHANGED vars
    BY <2>1 DEF vars, CopiesAreSums
  <2>2. CASE Next
    <3>1. resets' = resets /\ ~Reset
      BY <2>2 DEF Next, UpdateQuote, SubmitBegin, Fill, NotFilled, Cancel, Reset,
         SyncStep, SyncSendCash, SyncSetServed, SyncSendPosition, SyncHsetServed, SyncFails,
         BalanceStep, BalanceCashServed, BalanceTakesCash, BalancePositionsServed,
         BalanceTakesPositions, Restart
    <3>2. CopiesAreSums
      BY <3>1
    <3>3. CASE fills' = fills /\ account' = account /\ redis' = redis /\ sync' = sync /\ balance' = balance
      BY <3>2, <3>3 DEF CopiesAreSums
    <3>4. ASSUME NEW o \in Order, SubmitBegin(o) \/ NotFilled(o) \/ Cancel(o) PROVE CopiesAreSums'
      BY <3>3, <3>4 DEF SubmitBegin, NotFilled, Cancel
    <3>5. ASSUME NEW s \in Asset, NEW q \in Quote, UpdateQuote(s, q) PROVE CopiesAreSums'
      BY <3>3, <3>5 DEF UpdateQuote
    <3> QED
      BY <2>2, <3>1, <3>2, <3>4, <3>5, FillCopies, TaskCopies, ReaderCopies, RestartCopies DEF Next
  <2> QED
    BY <2>1, <2>2
<1>3. Inv => NoFillCountedTwice
  BY SumOfFillsIs DEF CopiesAreSums, NoFillCountedTwice
<1> QED
  BY <1>1, <1>2, <1>3, BrokerKeepsTypes, PTL DEF Spec

(* A sum of zeros is zero.                                                  *)
LEMMA SumOfZeros ==
  ASSUME NEW S, IsFiniteSet(S), NEW f, \A x \in S : f[x] = 0
  PROVE  SumFunctionOnSet(f, S) = 0
<1> DEFINE C == {T \in SUBSET S : SumFunctionOnSet(f, T) = 0}
<1>1. ASSUME NEW T \in SUBSET S, \A U \in SUBSET T : U # T => U \in C
      PROVE  T \in C
  <2>1. IsFiniteSet(T)
    BY FS_Subset
  <2>2. CASE T = {}
    BY <2>1, <2>2, SumUnfold
  <2>3. CASE T # {}
    <3> DEFINE u == T \ {Pick(T)}
    <3>1. Pick(T) \in T /\ f[Pick(T)] = 0
      BY <2>3, PickMember
    <3>2. SumFunctionOnSet(f, u) = 0
      BY <1>1, <3>1
    <3>3. SumFunctionOnSet(f, T) = f[Pick(T)] + SumFunctionOnSet(f, u)
      BY <2>1, <2>3, SumUnfold
    <3> HIDE DEF u
    <3> QED
      BY <3>1, <3>2, <3>3
  <2> QED
    BY <2>2, <2>3
<1>2. S \in C
  <2> HIDE DEF C
  <2> QED
    BY <1>1, SubsetInduction
<1> QED
  BY <1>2

(* One row of a sum changes.                                                *)
LEMMA SumChange ==
  ASSUME NEW S, IsFiniteSet(S), NEW z \in S, NEW f, NEW g,
         \A x \in S : f[x] \in Int /\ g[x] \in Int,
         \A x \in S \ {z} : g[x] = f[x]
  PROVE  SumFunctionOnSet(g, S) = SumFunctionOnSet(f, S) + (g[z] - f[z])
<1>1. IsFiniteSet(S \ {z})
  BY FS_Subset
<1>2. SumFunctionOnSet(g, S \ {z}) = SumFunctionOnSet(f, S \ {z})
  BY <1>1, SumAgree
<1>3. SumFunctionOnSet(f, S) = f[z] + SumFunctionOnSet(f, S \ {z})
  BY SumRemove
<1>4. SumFunctionOnSet(g, S) = g[z] + SumFunctionOnSet(g, S \ {z})
  BY SumRemove
<1>5. SumFunctionOnSet(f, S \ {z}) \in Int
  BY <1>1, SumType
<1> QED
  BY <1>2, <1>3, <1>4, <1>5

-----------------------------------------------------------------------------
(* A quotient without remainder.                                            *)
LEMMA ExactQuotient ==
  ASSUME NEW x \in Nat, NEW n \in Nat, n > 0, x % n = 0
  PROVE  (x \div n) * n = x
<1> DEFINE q == x \div n
<1>1. q \in Nat /\ x = n * q + (x % n)
  OBVIOUS
<1>2. n * q = q * n /\ n * q \in Int
  BY <1>1
<1> QED
  BY <1>1, <1>2

(* A product of positive numbers is positive.                               *)
LEMMA Positive == \A a, b \in Nat : a > 0 /\ b > 0 => a * b > 0
OBVIOUS

(* A fill of side s, quantity q and price c on a position p of average v:   *)
(* one that adds to it and makes the average w, and one that closes k of it *)
(* and leaves n.                                                            *)
Adds(s, p, q, v, c, w) ==
  /\ s \in {1, -1} /\ p \in Int /\ q \in Nat /\ q > 0 /\ v \in Nat /\ c \in Nat /\ c > 0 /\ w \in Nat
  /\ s * p >= 0 /\ w * (Abs(p) + q) = v * Abs(p) + c * q
Closes(s, p, q, v, c, n, k) ==
  /\ s \in {1, -1} /\ p \in Int /\ q \in Nat /\ v \in Nat /\ c \in Nat
  /\ s * p < 0 /\ n = p + s * q /\ k = IF q < Abs(p) THEN q ELSE Abs(p)

Adding(s, p, q, v, c, w) == w > 0 /\ s * c * q = w * (p + s * q) - v * p
Closing(s, p, q, v, c, n, k) ==
  /\ s * n >= 0 => s * (v - c) * k + s * c * q = c * n - v * p
  /\ s * n < 0 => s * (v - c) * k + s * c * q = v * n - v * p

(* A fill that adds to a position pays for it at the new average.           *)
LEMMA AddingArithmetic ==
  \A s, p, q, v, c, w : Adds(s, p, q, v, c, w) => Adding(s, p, q, v, c, w)
<1> SUFFICES ASSUME NEW s, NEW p, NEW q, NEW v, NEW c, NEW w, Adds(s, p, q, v, c, w)
             PROVE  w > 0 /\ s * c * q = w * (p + s * q) - v * p
  BY DEF Adding
<1>0. /\ s \in {1, -1} /\ p \in Int /\ q \in Nat /\ q > 0 /\ v \in Nat /\ c \in Nat /\ c > 0 /\ w \in Nat
      /\ s * p >= 0 /\ w * (Abs(p) + q) = v * Abs(p) + c * q
  BY DEF Adds
<1> USE <1>0
<1>1. w > 0
  <2> SUFFICES ASSUME w = 0 PROVE FALSE
    OBVIOUS
  <2>1. v * Abs(p) \in Nat /\ c * q \in Nat /\ c * q > 0
    <3>1. Abs(p) \in Nat
      BY DEF Abs
    <3> QED
      BY <3>1, NatProduct, Positive
  <2> DEFINE x == v * Abs(p)
             y == c * q
  <2>2. x + y = 0
    <3>1. Abs(p) + q \in Int
      BY DEF Abs
    <3>2. 0 * (Abs(p) + q) = 0
      BY <3>1
    <3> QED
      BY <3>2
  <2>3. x \in Nat /\ y \in Nat /\ y > 0
    BY <2>1
  <2> HIDE DEF x, y
  <2> QED
    BY <2>2, <2>3
<1>2. CASE s = 1
  <2>1. Abs(p) = p
    BY <1>2 DEF Abs
  <2>2. w * (p + q) = v * p + c * q
    BY <2>1
  <2> QED
    BY <1>1, <1>2, <2>2
<1>3. CASE s = -1
  <2>1. Abs(p) = -p
    BY <1>3 DEF Abs
  <2>2. w * ((-p) + q) = v * (-p) + c * q
    BY <2>1
  <2>3. w * ((-p) + q) = -(w * (p - q)) /\ v * (-p) = -(v * p) /\ s * c * q = -(c * q)
        /\ p + s * q = p - q
    BY <1>3
  <2> DEFINE x == w * (p - q)
             y == v * p
             z == c * q
  <2>4. x \in Int /\ y \in Int /\ z \in Int
    <3>1. p - q \in Int
      OBVIOUS
    <3> QED
      BY <3>1, IntProduct
  <2>5. -x = (-y) + z
    BY <2>2, <2>3
  <2>6. s * c * q = -z /\ w * (p + s * q) - v * p = x - y
    BY <2>3
  <2> HIDE DEF x, y, z
  <2>7. -z = x - y
    BY <2>4, <2>5
  <2> QED
    BY <1>1, <2>6, <2>7
<1> QED
  BY <1>2, <1>3

(* What a fill against a position pays and gains is the change of the cost. *)
LEMMA ClosingArithmetic ==
  \A s, p, q, v, c, n, k : Closes(s, p, q, v, c, n, k) => Closing(s, p, q, v, c, n, k)
<1> SUFFICES ASSUME NEW s, NEW p, NEW q, NEW v, NEW c, NEW n, NEW k, Closes(s, p, q, v, c, n, k)
             PROVE  /\ s * n >= 0 => s * (v - c) * k + s * c * q = c * n - v * p
                    /\ s * n < 0 => s * (v - c) * k + s * c * q = v * n - v * p
  BY DEF Closing
<1>0. /\ s \in {1, -1} /\ p \in Int /\ q \in Nat /\ v \in Nat /\ c \in Nat
      /\ s * p < 0 /\ n = p + s * q /\ k = IF q < Abs(p) THEN q ELSE Abs(p)
  BY DEF Closes
<1> USE <1>0
<1>1. CASE s = 1
  <2>1. Abs(p) = -p /\ n = p + q /\ s * n = n /\ s * (v - c) = v - c /\ s * c = c
    BY <1>1 DEF Abs
  <2>2. CASE n >= 0
    <3>1. k = -p
      BY <2>1, <2>2
    <3>2. (v - c) * (-p) + c * q = c * (p + q) - v * p
      OBVIOUS
    <3>3. s * (v - c) * k + s * c * q = c * n - v * p
      BY <2>1, <3>1, <3>2
    <3> QED
      BY <2>1, <2>2, <3>3
  <2>3. CASE n < 0
    <3>1. k = q
      BY <2>1, <2>3
    <3>2. (v - c) * q + c * q = v * (p + q) - v * p
      OBVIOUS
    <3>3. s * (v - c) * k + s * c * q = v * n - v * p
      BY <2>1, <3>1, <3>2
    <3> QED
      BY <2>1, <2>3, <3>3
  <2> QED
    BY <2>1, <2>2, <2>3
<1>2. CASE s = -1
  <2>1. Abs(p) = p /\ n = p - q /\ s * n = -n /\ s * (v - c) = c - v /\ s * c = -c
    BY <1>2 DEF Abs
  <2>2. CASE -n >= 0
    <3>1. k = p
      BY <2>1, <2>2
    <3>2. (c - v) * p + (-c) * q = c * (p - q) - v * p
      OBVIOUS
    <3>3. s * (v - c) * k + s * c * q = c * n - v * p
      BY <2>1, <3>1, <3>2
    <3> QED
      BY <2>1, <2>2, <3>3
  <2>3. CASE -n < 0
    <3>1. k = q
      BY <2>1, <2>3
    <3>2. (c - v) * q + (-c) * q = v * (p - q) - v * p
      OBVIOUS
    <3>3. s * (v - c) * k + s * c * q = v * n - v * p
      BY <2>1, <3>1, <3>2
    <3> QED
      BY <2>1, <2>3, <3>3
  <2> QED
    BY <2>1, <2>2, <2>3
<1> QED
  BY <1>1, <1>2

(* What the identity needs of a fill: a price above zero, and an average    *)
(* that is a whole number, as the code's decimals are in the unit of the    *)
(* model.                                                                   *)
ExactFill(o) ==
  /\ FillPrice(o) > 0
  /\ Increases(account, o) =>
       (account.avg[o.asset] * Abs(account.pos[o.asset]) + FillPrice(o) * o.qty)
         % (Abs(account.pos[o.asset]) + o.qty) = 0

ExactFills == [][\A o \in Order : Fill(o) => ExactFill(o)]_vars

(* Whoever holds something has an average price for it.                     *)
Priced(a) == \A s \in Asset : a.pos[s] # 0 => a.avg[s] > 0

CostRow(a) == [s \in Asset |-> a.avg[s] * a.pos[s]]
Cost(a) == SumFunctionOnSet(CostRow(a), Asset)
Paid(F) == SumFunction([f \in F |-> Spent(f)])

Ledger == account.realized + Paid(fills) = Cost(account) /\ Priced(account)

(* A new average that is a whole number is exact.                           *)
LEMMA ExactAverage ==
  ASSUME NEW a \in Account, NEW o \in Order, NEW price \in Nat, Increases(a, o),
         (a.avg[o.asset] * Abs(a.pos[o.asset]) + price * o.qty) % (Abs(a.pos[o.asset]) + o.qty) = 0
  PROVE  /\ NewAverage(a, o, price) \in Nat
         /\ NewAverage(a, o, price) * (Abs(a.pos[o.asset]) + o.qty)
              = a.avg[o.asset] * Abs(a.pos[o.asset]) + price * o.qty
<1> DEFINE x == a.avg[o.asset] * Abs(a.pos[o.asset])
           y == price * o.qty
           n == Abs(a.pos[o.asset]) + o.qty
           w == NewAverage(a, o, price)
<1>1. x \in Nat /\ y \in Nat
  BY PositionFacts, OrderFields, NatProduct
<1>2. n \in Nat /\ n > 0 /\ Abs(NewPosition(a, o)) = n
  BY PositionFacts, OrderFields
<1>3. w = (x + y) \div n
  BY <1>2 DEF NewAverage
<1>4. (x + y) % n = 0
  OBVIOUS
<1>5. w \in Nat
  BY AverageType
<1> HIDE DEF x, y, n, w
<1>6. x + y \in Nat
  BY <1>1
<1>7. w * n = x + y
  BY <1>2, <1>3, <1>4, <1>6, ExactQuotient
<1> QED
  BY <1>5, <1>7 DEF x, y, n, w

(* What a fill pays and gains is the change of the cost of its asset.       *)
LEMMA BookedFill ==
  ASSUME NEW a \in Account, NEW b \in Account, NEW o \in Order, NEW price \in Nat, price > 0,
         Updated(a, b, o, price), Priced(a),
         Increases(a, o) =>
           (a.avg[o.asset] * Abs(a.pos[o.asset]) + price * o.qty)
             % (Abs(a.pos[o.asset]) + o.qty) = 0
  PROVE  /\ (b.realized - a.realized) + Sign(o.side) * price * o.qty
              = b.avg[o.asset] * b.pos[o.asset] - a.avg[o.asset] * a.pos[o.asset]
         /\ b.pos[o.asset] # 0 => b.avg[o.asset] > 0
<1> DEFINE t == o.asset
           s == Sign(o.side)
           p == a.pos[t]
           v == a.avg[t]
           q == o.qty
           n == NewPosition(a, o)
           w == NewAverage(a, o, price)
           k == ClosingQty(a, o)
           gain == Gain(a, o, price)
<1>1. /\ t \in Asset /\ s \in {1, -1} /\ p \in Int /\ v \in Nat /\ q \in Nat /\ q > 0
      /\ n \in Int /\ n = p + s * q /\ k = IF q < Abs(p) THEN q ELSE Abs(p)
  BY OrderFields, PositionFacts DEF NewPosition, ClosingQty
<1>2. b.pos[t] = n
  BY <1>1 DEF Updated, Account
<1>3. a.realized \in Int /\ b.realized \in Int /\ gain \in Int
  BY GrossType DEF Account
<1>4. Increases(a, o) <=> s * p >= 0
  BY DEF Increases
<1>5. CASE Increases(a, o)
  <2>1. b.avg[t] = w /\ b.realized = a.realized
    BY <1>1, <1>5 DEF Updated, Account
  <2>2. w \in Nat /\ w * (Abs(p) + q) = v * Abs(p) + price * q
    BY <1>5, ExactAverage
  <2>3. s * p >= 0
    BY <1>4, <1>5
  <2> HIDE DEF t, s, p, v, q, n, w
  <2>4. w > 0 /\ s * price * q = w * (p + s * q) - v * p
    <3>1. s \in {1, -1} /\ p \in Int /\ q \in Nat /\ q > 0 /\ v \in Nat
      BY <1>1
    <3>2. w \in Nat /\ w * (Abs(p) + q) = v * Abs(p) + price * q
      BY <2>2
    <3> QED
      <4>1. Adds(s, p, q, v, price, w)
        BY <3>1, <3>2, <2>3 DEF Adds
      <4>2. Adding(s, p, q, v, price, w)
        BY <4>1, AddingArithmetic
      <4> QED
        BY <4>2 DEF Adding
  <2>5. b.realized - a.realized = 0
    BY <1>3, <2>1
  <2>6. s * price * q \in Int
    <3>1. s * price \in Int
      BY <1>1, IntProduct
    <3> QED
      BY <1>1, <3>1, IntProduct
  <2>7. (b.realized - a.realized) + s * price * q = w * n - v * p
    BY <1>1, <2>4, <2>5, <2>6
  <2> QED
    BY <1>2, <2>1, <2>4, <2>7 DEF t, s, p, v, q
<1>6. CASE ~Increases(a, o)
  <2>1. s * p < 0
    <3>1. s * p \in Int
      <4> HIDE DEF s, p
      <4> QED
        BY <1>1, IntProduct
    <3> DEFINE z == s * p
    <3>2. z \in Int /\ ~(z >= 0)
      BY <1>4, <1>6, <3>1
    <3>3. z < 0
      <4> HIDE DEF z
      <4> QED
        BY <3>2
    <3> QED
      BY <3>3
  <2>2. gain = s * (v - price) * k
    <3>1. p # 0
      <4> HIDE DEF s, p
      <4> QED
        BY <1>1, <2>1
    <3>2. v > 0
      BY <1>1, <3>1 DEF Priced
    <3> QED
      BY <3>2 DEF Gain, GrossProfit
  <2>3. b.realized = a.realized + gain
    BY <1>6 DEF Updated
  <2>4. b.realized - a.realized = gain
    <3> HIDE DEF gain
    <3> QED
      BY <1>3, <2>3
  <2>5. /\ s * n >= 0 => gain + s * price * q = price * n - v * p
        /\ s * n < 0 => gain + s * price * q = v * n - v * p
    <3> HIDE DEF t, s, p, v, q, n, k, gain
    <3>1. s \in {1, -1} /\ p \in Int /\ q \in Nat /\ v \in Nat
      BY <1>1
    <3>2. n = p + s * q /\ k = IF q < Abs(p) THEN q ELSE Abs(p)
      BY <1>1
    <3>3. Closing(s, p, q, v, price, n, k)
      <4>1. Closes(s, p, q, v, price, n, k)
        BY <3>1, <3>2, <2>1 DEF Closes
      <4> QED
        BY <4>1, ClosingArithmetic
    <3>4. /\ s * n >= 0 => s * (v - price) * k + s * price * q = price * n - v * p
          /\ s * n < 0 => s * (v - price) * k + s * price * q = v * n - v * p
      BY <3>3 DEF Closing
    <3> QED
      BY <2>2, <3>4
  <2>6. CASE n = 0
    <3>1. b.avg[t] = 0
      BY <1>1, <1>6, <2>6 DEF Updated, Account
    <3>2. s * n >= 0 /\ price * n = 0 /\ b.avg[t] * n = 0
      <4>1. \A x \in Int : x * 0 = 0
        OBVIOUS
      <4> HIDE DEF s, n, t
      <4>2. s * 0 = 0 /\ price * 0 = 0
        BY <1>1, <4>1
      <4> QED
        BY <2>6, <3>1, <4>1, <4>2
    <3>3. gain + s * price * q = b.avg[t] * n - v * p
      <4> HIDE DEF t, s, p, v, q, n, gain
      <4> QED
        BY <2>5, <3>2
    <3> QED
      BY <1>2, <2>4, <2>6, <3>3
  <2>7. CASE s * n > 0
    <3>1. b.avg[t] = price
      <4>1. n # 0 /\ ~(s * n < 0)
        <5> HIDE DEF s, n
        <5> QED
          BY <1>1, <2>7
      <4> QED
        BY <1>1, <1>6, <4>1 DEF Updated, Account
    <3>2. s * n >= 0
      <4> HIDE DEF s, n
      <4> QED
        BY <1>1, <2>7
    <3>3. gain + s * price * q = b.avg[t] * n - v * p
      <4> HIDE DEF t, s, p, v, q, n, gain
      <4> QED
        BY <2>5, <3>1, <3>2
    <3> QED
      BY <1>2, <2>4, <3>1, <3>3
  <2>8. CASE s * n < 0
    <3>1. b.avg[t] = v
      <4>1. n # 0 /\ ~(s * n > 0)
        <5> HIDE DEF s, n
        <5> QED
          BY <1>1, <2>8
      <4> QED
        BY <1>1, <1>6, <4>1 DEF Updated, Account
    <3>2. gain + s * price * q = b.avg[t] * n - v * p
      <4> HIDE DEF t, s, p, v, q, n, gain
      <4> QED
        BY <2>5, <2>8, <3>1
    <3>3. v > 0
      <4>1. p # 0
        <5> HIDE DEF s, p
        <5> QED
          BY <1>1, <2>1
      <4> QED
        BY <1>1, <4>1 DEF Priced
    <3> QED
      BY <1>2, <2>4, <3>1, <3>2, <3>3
  <2>9. n = 0 \/ s * n > 0 \/ s * n < 0
    <3> HIDE DEF s, n
    <3> QED
      BY <1>1
  <2> QED
    BY <2>6, <2>7, <2>8, <2>9
<1> QED
  BY <1>5, <1>6

(* The cost of what is held is an amount.                                   *)
LEMMA CostType ==
  ASSUME NEW a \in Account
  PROVE  (\A s \in Asset : CostRow(a)[s] = a.avg[s] * a.pos[s] /\ CostRow(a)[s] \in Int)
         /\ Cost(a) \in Int
<1>1. \A s \in Asset : CostRow(a)[s] = a.avg[s] * a.pos[s]
  BY DEF CostRow
<1>2. \A s \in Asset : a.avg[s] \in Int /\ a.pos[s] \in Int
  BY DEF Account
<1>3. \A s \in Asset : CostRow(a)[s] \in Int
  BY <1>1, <1>2, IntProduct
<1> QED
  BY <1>1, <1>3, AssetFinite, SumType DEF Cost

(* What a fill spends is an amount.                                         *)
LEMMA SpentType ==
  ASSUME NEW F, F \subseteq [order : Order, price : Nat], NEW f \in F
  PROVE  Spent(f) \in Int
<1>1. f.order \in Order /\ f.price \in Nat
  OBVIOUS
<1>2. Sign(f.order.side) \in Int /\ f.order.qty \in Int /\ f.price \in Int
  BY <1>1, OrderFields
<1>3. Sign(f.order.side) * f.price \in Int
  BY <1>2, IntProduct
<1> QED
  BY <1>2, <1>3, IntProduct DEF Spent

(* No fill costs nothing.                                                   *)
LEMMA NothingPaid == Paid({}) = 0
<1> DEFINE f == [x \in {} |-> Spent(x)]
<1>1. Paid({}) = SumFunctionOnSet(f, {})
  BY DEF Paid, SumFunction
<1>2. IsFiniteSet({})
  BY FS_EmptySet
<1> HIDE DEF f
<1> QED
  BY <1>1, <1>2, SumUnfold

(* One more fill costs its price more.                                      *)
LEMMA OneMorePaid ==
  ASSUME NEW F, NEW f, F \cup {f} \subseteq [order : Order, price : Nat], IsFiniteSet(F), f \notin F
  PROVE  Paid(F \cup {f}) = Paid(F) + Spent(f) /\ Paid(F) \in Int /\ Spent(f) \in Int
<1> DEFINE G == F \cup {f}
           a == [x \in F |-> Spent(x)]
           b == [x \in G |-> Spent(x)]
<1>1. Paid(F) = SumFunctionOnSet(a, F) /\ Paid(G) = SumFunctionOnSet(b, G)
  BY DEF Paid, SumFunction
<1>2. /\ \A x \in F : a[x] \in Int
      /\ \A x \in G : b[x] \in Int
      /\ \A x \in F : b[x] = a[x]
  BY SpentType
<1>3. b[f] = Spent(f)
  OBVIOUS
<1> HIDE DEF a, b
<1>4. SumFunctionOnSet(b, F) = SumFunctionOnSet(a, F)
  BY <1>2, SumAgree
<1>5. SumFunctionOnSet(b, G) = b[f] + SumFunctionOnSet(b, F)
  BY <1>2, SumAdd
<1>6. SumFunctionOnSet(a, F) \in Int /\ Spent(f) \in Int
  <2>1. f \in G /\ G \subseteq [order : Order, price : Nat]
    OBVIOUS
  <2> HIDE DEF G
  <2> QED
    BY <1>2, <2>1, SumType, SpentType
<1> HIDE DEF G
<1>7. Paid(G) = Paid(F) + Spent(f) /\ Paid(F) \in Int
  BY <1>1, <1>3, <1>4, <1>5, <1>6
<1> QED
  BY <1>6, <1>7 DEF G

(* A new account owes nothing.                                              *)
LEMMA NewLedger ==
  ASSUME NEW a, a = NewAccount
  PROVE  a.realized + Paid({}) = Cost(a) /\ Priced(a)
<1>1. a.realized = 0 /\ (\A s \in Asset : a.pos[s] = 0 /\ a.avg[s] = 0)
  BY DEF NewAccount
<1>2. \A s \in Asset : CostRow(a)[s] = 0
  BY <1>1 DEF CostRow
<1>3. Cost(a) = 0
  BY <1>2, AssetFinite, SumOfZeros DEF Cost
<1> QED
  BY <1>1, <1>3, NothingPaid DEF Priced

(* A fill keeps the ledger.                                                 *)
LEMMA FillLedger ==
  ASSUME TypeOK, FillsReturned, Ledger, NEW o \in Order, Fill(o), ExactFill(o)
  PROVE  Ledger'
<1> DEFINE f == [order |-> o, price |-> FillPrice(o)]
           c == FillPrice(o)
           a == account
           b == account'
           t == o.asset
           d == b.avg[t] * b.pos[t] - a.avg[t] * a.pos[t]
<1>1. a \in Account /\ c \in Nat /\ c > 0 /\ t \in Asset
  BY FillPriceType, OrderFields DEF TypeOK, ExactFill
<1>2. b \in Account /\ Updated(a, b, o, c)
  BY <1>1, FillFields DEF Fill
<1>3. fills' = fills \cup {f} /\ f \notin fills /\ fills \cup {f} \subseteq [order : Order, price : Nat]
  <2>1. fills' = fills \cup {f}
    BY DEF Fill
  <2>2. f \notin fills
    BY FillIsNew
  <2> QED
    BY <1>1, <2>1, <2>2 DEF TypeOK
<1>4. Spent(f) = Sign(o.side) * c * o.qty
  BY DEF Spent
<1>5. /\ (b.realized - a.realized) + Spent(f) = d
      /\ b.pos[t] # 0 => b.avg[t] > 0
  <2>1. Increases(a, o) =>
          (a.avg[o.asset] * Abs(a.pos[o.asset]) + c * o.qty) % (Abs(a.pos[o.asset]) + o.qty) = 0
    BY DEF ExactFill
  <2>2. Priced(a)
    BY DEF Ledger
  <2> HIDE DEF a, b, c, f
  <2> QED
    BY <1>1, <1>2, <1>4, <2>1, <2>2, BookedFill
<1> HIDE DEF f, c
<1>6. Paid(fills') = Paid(fills) + Spent(f) /\ Paid(fills) \in Int /\ Spent(f) \in Int
  BY <1>3, OneMorePaid DEF FillsReturned
<1>7. \A s \in Asset : s # t => b.pos[s] = a.pos[s] /\ b.avg[s] = a.avg[s]
  BY <1>1, <1>2 DEF Updated, Account
<1>8. Cost(b) = Cost(a) + d
  <2>1. \A s \in Asset : CostRow(a)[s] \in Int /\ CostRow(b)[s] \in Int
    BY <1>1, <1>2, CostType
  <2>2. CostRow(a)[t] = a.avg[t] * a.pos[t] /\ CostRow(b)[t] = b.avg[t] * b.pos[t]
    BY <1>1, <1>2, CostType
  <2>3. \A s \in Asset \ {t} : CostRow(b)[s] = CostRow(a)[s]
    BY <1>7 DEF CostRow
  <2> DEFINE x == CostRow(a)
             y == CostRow(b)
  <2>4. y[t] - x[t] = d
    BY <2>2
  <2>5. /\ \A s \in Asset : x[s] \in Int /\ y[s] \in Int
        /\ \A s \in Asset \ {t} : y[s] = x[s]
        /\ t \in Asset
    BY <1>1, <2>1, <2>3
  <2> HIDE DEF x, y, t, a, b, d
  <2>6. SumFunctionOnSet(y, Asset) = SumFunctionOnSet(x, Asset) + (y[t] - x[t])
    BY <2>5, AssetFinite, SumChange
  <2> QED
    BY <2>4, <2>6 DEF Cost, x, y
<1>9. b.realized + Paid(fills') = Cost(b)
  <2>1. a.realized \in Int /\ b.realized \in Int /\ Cost(a) \in Int
    BY <1>1, <1>2, CostType DEF Account
  <2>2. a.realized + Paid(fills) = Cost(a)
    BY DEF Ledger
  <2>3. d \in Int
    <3>1. (b.realized - a.realized) + Spent(f) \in Int
      BY <1>6, <2>1
    <3> HIDE DEF d
    <3> QED
      BY <1>5, <3>1
  <2> HIDE DEF a, b, d
  <2> QED
    BY <1>5, <1>6, <1>8, <2>1, <2>2, <2>3
<1>10. Priced(b)
  BY <1>5, <1>7 DEF Ledger, Priced
<1> QED
  BY <1>9, <1>10 DEF Ledger, Cost, CostRow, Priced, Paid

(* Realized profit and money paid add up to the cost of what is held, for   *)
(* fills with a price and whole averages.                                   *)
THEOREM ProfitsAddUp == Spec /\ ExactFills => []PnLIdentity
<1> DEFINE Inv == FillsReturned /\ (~overwritten => Ledger)
           Exact == \A o \in Order : Fill(o) => ExactFill(o)
<1>1. Init => Inv
  <2>1. ASSUME Init PROVE account = NewAccount /\ fills = {}
    BY <2>1 DEF Init
  <2> QED
    BY <2>1, FillsReturnedInit, NewLedger DEF Ledger
<1>2. TypeOK /\ Inv /\ [Next]_vars /\ [Exact]_vars => Inv'
  <2> SUFFICES ASSUME TypeOK, Inv, [Next]_vars, [Exact]_vars, ~overwritten' PROVE Ledger'
    BY FillsReturnedStep
  <2>1. CASE UNCHANGED vars
    BY <2>1 DEF vars, Ledger, Cost, CostRow, Priced, Paid
  <2>2. CASE Next /\ Exact
    <3>1. ~overwritten /\ ~Restart
      <4>1. ~Restart
        BY DEF Restart
      <4>2. \/ \E r \in Reader : BalanceTakesCash(r) \/ BalanceTakesPositions(r)
            \/ overwritten' = overwritten
        BY <2>2, <4>1 DEF Next, UpdateQuote, SubmitBegin, Fill, NotFilled, Cancel, Reset,
           SyncStep, SyncSendCash, SyncSetServed, SyncSendPosition, SyncHsetServed, SyncFails,
           BalanceStep, BalanceCashServed, BalancePositionsServed
      <4>3. ASSUME NEW r \in Reader, BalanceTakesCash(r) \/ BalanceTakesPositions(r)
            PROVE  ~overwritten
        <5>1. overwritten' = (overwritten \/ account' # account)
          BY <4>3 DEF BalanceTakesCash, BalanceTakesPositions
        <5> QED
          BY <5>1, Zenon
      <4> QED
        BY <4>1, <4>2, <4>3
    <3>2. Ledger
      BY <3>1
    <3>3. CASE fills' = fills /\ account' = account
      BY <3>2, <3>3 DEF Ledger, Cost, CostRow, Priced, Paid
    <3>4. ASSUME NEW o \in Order, Fill(o) PROVE Ledger'
      BY <2>2, <3>2, <3>4, FillLedger
    <3>5. CASE Reset
      <4>1. account' = NewAccount /\ fills' = {}
        BY <3>5 DEF Reset
      <4> QED
        BY <4>1, NewLedger DEF Ledger
    <3>6. \/ fills' = fills /\ account' = account
          \/ Reset \/ \E o \in Order : Fill(o)
      BY <2>2, <3>1 DEF Next, UpdateQuote, SubmitBegin, NotFilled, Cancel,
         SyncStep, SyncSendCash, SyncSetServed, SyncSendPosition, SyncHsetServed, SyncFails,
         BalanceStep, BalanceCashServed, BalanceTakesCash, BalancePositionsServed,
         BalanceTakesPositions
    <3> QED
      BY <3>3, <3>4, <3>5, <3>6
  <2> QED
    BY <2>1, <2>2
<1>3. Inv => PnLIdentity
  <2>1. Cost(account) = SumFunction([s \in Asset |-> account.avg[s] * account.pos[s]])
    BY DEF Cost, CostRow, SumFunction
  <2> QED
    BY <2>1 DEF Ledger, PnLIdentity, Paid
<1> QED
  BY <1>1, <1>2, <1>3, BrokerKeepsTypes, PTL DEF Spec, ExactFills
================================================================================
