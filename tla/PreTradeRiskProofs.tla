-------------------------- MODULE PreTradeRiskProofs ---------------------------
(* What the validator promises for any limits, any windows and any number   *)
(* of symbols.                                                              *)
EXTENDS PreTradeRisk, FiniteSetTheorems, SequenceTheorems, TLAPS

LEMMA TypeInit == Init => TypeOK
<1> SUFFICES ASSUME Init PROVE TypeOK
  OBVIOUS
<1>1. <<>> \in Seq(0 .. MaxTime) /\ Len(<<>>) = 0 /\ 0 \in 0 .. MaxTime
  BY PreTradeAssumption
<1>2. view \in [Symbol -> Int] /\ mids \in [Symbol -> Price \cup {NoPrice}]
  BY DEF Init
<1>3. now = 0 /\ stamps = <<>> /\ approved = {} /\ limited = {} /\ value = 0
  BY DEF Init
<1>4. /\ now \in 0 .. MaxTime /\ stamps \in Seq(0 .. MaxTime) /\ Len(stamps) <= MaxAttempts
      /\ approved \subseteq 1 .. Len(stamps) /\ limited \subseteq 1 .. Len(stamps)
      /\ value \in Value \cup {0}
  BY <1>1, <1>3, PreTradeAssumption
<1>5. killed \in BOOLEAN
  BY Zenon DEF Init
<1> QED
  BY <1>2, <1>4, <1>5, Zenon DEF TypeOK

(* Taking a stamp.                                                          *)
LEMMA StampAppended ==
  ASSUME NEW t \in 0 .. MaxTime, NEW at \in Seq(0 .. MaxTime)
  PROVE  /\ Append(at, t) \in Seq(0 .. MaxTime)
         /\ Len(Append(at, t)) = Len(at) + 1
         /\ Append(at, t)[Len(at) + 1] = t
         /\ \A i \in 1 .. Len(at) : Append(at, t)[i] = at[i]
  BY AppendProperties

(* The switch is a Boolean; the rest of the type is about numbers.          *)
Numbers ==
  /\ now \in 0 .. MaxTime
  /\ stamps \in Seq(0 .. MaxTime) /\ Len(stamps) <= MaxAttempts
  /\ approved \subseteq 1 .. Len(stamps) /\ limited \subseteq 1 .. Len(stamps)
  /\ view \in [Symbol -> Int] /\ mids \in [Symbol -> Price \cup {NoPrice}]
  /\ value \in Value \cup {0}

LEMMA TypeParts == /\ TypeOK <=> Numbers /\ killed \in BOOLEAN
                   /\ TypeOK' <=> Numbers' /\ killed' \in BOOLEAN
  BY Zenon DEF TypeOK, Numbers

LEMMA NumbersStep == Numbers /\ [Next]_vars => Numbers'
<1> SUFFICES ASSUME Numbers, [Next]_vars PROVE Numbers'
  OBVIOUS
<1> USE DEF Numbers
<1>0. now \in Nat /\ Len(stamps) \in Nat
  BY PreTradeAssumption
<1>1. ASSUME NEW s \in Symbol, NEW side \in Side, NEW q \in Quantity,
             NEW price \in Price \cup {NoPrice}, Validate(s, side, q, price)
      PROVE  Numbers'
  <2> DEFINE at == Append(stamps, now)
  <2>1. at \in Seq(0 .. MaxTime) /\ Len(at) = Len(stamps) + 1
    BY StampAppended
  <2>2. /\ stamps' = at /\ Len(stamps) < MaxAttempts
        /\ UNCHANGED <<now, view, mids, value>>
        /\ approved' = approved \/ approved' = approved \cup {Len(at)}
        /\ limited' = limited \/ limited' = limited \cup {Len(at)}
    BY <1>1 DEF Validate, Stamped
  <2> HIDE DEF at
  <2>3. /\ stamps' \in Seq(0 .. MaxTime) /\ Len(stamps') <= MaxAttempts
        /\ Len(stamps') = Len(stamps) + 1
    BY <1>0, <2>1, <2>2, PreTradeAssumption
  <2>4. approved' \subseteq 1 .. Len(stamps') /\ limited' \subseteq 1 .. Len(stamps')
    <3>1. 1 .. Len(stamps) \subseteq 1 .. Len(stamps') /\ Len(stamps') \in 1 .. Len(stamps')
      BY <1>0, <2>3
    <3> QED
      BY <2>2, <3>1
  <2>5. now' = now /\ view' = view /\ mids' = mids /\ value' = value
    BY <2>2
  <2> QED
    BY <2>3, <2>4, <2>5, Zenon
<1>2. ASSUME NEW s \in Symbol, NEW n \in Position, UpdatePosition(s, n) PROVE Numbers'
  <2>1. n \in Int
    BY PreTradeAssumption
  <2> QED
    BY <1>2, <2>1 DEF UpdatePosition
<1>3. ASSUME NEW s \in Symbol, NEW p \in Price, UpdateMidPrice(s, p) PROVE Numbers'
  BY <1>3 DEF UpdateMidPrice
<1>4. ASSUME NEW v \in Value, UpdatePortfolioValue(v) PROVE Numbers'
  BY <1>4 DEF UpdatePortfolioValue
<1>5. CASE SetKillSwitchActive
  BY <1>5 DEF SetKillSwitchActive
<1>6. CASE Tick
  <2>1. now < MaxTime /\ now' = now + 1
        /\ UNCHANGED <<stamps, approved, limited, view, mids, value>>
    BY <1>6 DEF Tick
  <2>2. now' \in 0 .. MaxTime
    BY <1>0, <2>1, PreTradeAssumption
  <2> QED
    BY <2>1, <2>2
<1>7. CASE UNCHANGED vars
  BY <1>7 DEF vars
<1> QED
  BY <1>1, <1>2, <1>3, <1>4, <1>5, <1>6, <1>7 DEF Next

LEMMA SwitchStep == killed \in BOOLEAN /\ [Next]_vars => killed' \in BOOLEAN
<1> SUFFICES ASSUME killed \in BOOLEAN, [Next]_vars PROVE killed' \in BOOLEAN
  OBVIOUS
<1>1. ASSUME NEW s \in Symbol, NEW side, NEW q, NEW price, Validate(s, side, q, price)
      PROVE  killed' = killed
  BY <1>1, Zenon DEF Validate, Stamped
<1>2. ASSUME NEW s \in Symbol, NEW n, UpdatePosition(s, n) PROVE killed' = killed
  BY <1>2, Zenon DEF UpdatePosition
<1>3. ASSUME NEW s \in Symbol, NEW p, UpdateMidPrice(s, p) PROVE killed' = killed
  BY <1>3, Zenon DEF UpdateMidPrice
<1>4. ASSUME NEW v, UpdatePortfolioValue(v) PROVE killed' = killed
  BY <1>4, Zenon DEF UpdatePortfolioValue
<1>5. ASSUME SetKillSwitchActive PROVE killed' \in BOOLEAN
  BY <1>5, Zenon DEF SetKillSwitchActive
<1>6. ASSUME Tick \/ UNCHANGED vars PROVE killed' = killed
  BY <1>6, Zenon DEF Tick, vars
<1> QED
  BY <1>1, <1>2, <1>3, <1>4, <1>5, <1>6, Zenon DEF Next

LEMMA TypeStep == TypeOK /\ [Next]_vars => TypeOK'
  BY NumbersStep, SwitchStep, TypeParts

(* Every variable of the validator keeps its type.                          *)
THEOREM PreTradeTypeOK == Spec => []TypeOK
  BY TypeInit, TypeStep, PTL DEF Spec

-----------------------------------------------------------------------------
(* The rate limit.  Held(i, w) are the stamps that the deque held and       *)
(* counted when validation i was decided; Monotone is what makes a window a *)
(* contiguous piece of the stamps.                                          *)
Held(i, w) == {j \in 1 .. i : j > i - MaxStamps /\ stamps[i] - stamps[j] < w}
Monotone == \A i, j \in 1 .. Len(stamps) : /\ i <= j => stamps[i] <= stamps[j]
                                           /\ stamps[i] <= now
CountedWithin(w, limit) == \A i \in approved : Cardinality(Held(i, w)) <= limit
CountedAbove == \A i \in limited : ~(/\ Cardinality(Held(i, Second)) <= PerSecond
                                     /\ Cardinality(Held(i, Minute)) <= PerMinute)
RateInv == Numbers /\ Monotone /\ CountedWithin(Second, PerSecond)
                              /\ CountedWithin(Minute, PerMinute) /\ CountedAbove

LEMMA Parameters ==
  /\ MaxTime \in Nat /\ MaxStamps \in Nat
  /\ PerSecond \in Nat /\ PerSecond < MaxStamps /\ Second \in Nat
  /\ PerMinute \in Nat /\ PerMinute < MaxStamps /\ Minute \in Nat
  BY PreTradeAssumption

LEMMA StampsNat ==
  ASSUME Numbers
  PROVE  /\ Len(stamps) \in Nat /\ now \in Nat
         /\ \A j \in 1 .. Len(stamps) : stamps[j] \in Nat
<1>1. stamps \in Seq(0 .. MaxTime) /\ now \in 0 .. MaxTime
  BY DEF Numbers
<1> QED
  BY <1>1, Parameters

(* What the deque has forgotten does not matter: a window that reaches      *)
(* beyond it fills it, and then nothing is approved.                        *)
LEMMA DequeSuffices ==
  ASSUME Numbers, Monotone, NEW w \in Nat, NEW limit \in Nat, limit < MaxStamps,
         NEW i \in approved, Cardinality(Held(i, w)) <= limit
  PROVE  Cardinality(ApprovedWithin(i, w)) <= limit
<1>0. /\ i \in 1 .. Len(stamps) /\ Len(stamps) \in Nat
      /\ \A j \in 1 .. Len(stamps) : stamps[j] \in Nat
      /\ MaxStamps \in Nat
  BY Parameters, StampsNat DEF Numbers
<1>1. Held(i, w) \subseteq 1 .. i /\ IsFiniteSet(1 .. i)
  BY <1>0, FS_Interval DEF Held
<1>2. IsFiniteSet(Held(i, w))
  BY <1>1, FS_Subset
<1>3. ASSUME NEW j \in ApprovedWithin(i, w), j <= i - MaxStamps PROVE FALSE
  <2>1. j \in 1 .. i /\ stamps[i] - stamps[j] < w
    BY <1>0 DEF ApprovedWithin, Numbers
  <2>2. ASSUME NEW k \in i - MaxStamps + 1 .. i PROVE k \in Held(i, w)
    <3>1. k \in 1 .. Len(stamps) /\ j \in 1 .. Len(stamps) /\ j <= k /\ k \in 1 .. i
      BY <1>0, <1>3, <2>1
    <3>2. stamps[j] <= stamps[k]
      BY <3>1 DEF Monotone
    <3>3. stamps[i] - stamps[k] < w
      BY <1>0, <2>1, <3>1, <3>2
    <3> QED
      BY <1>0, <2>2, <3>1, <3>3 DEF Held
  <2>3. i - MaxStamps + 1 .. i \subseteq Held(i, w)
    BY <2>2
  <2>4. Cardinality(i - MaxStamps + 1 .. i) = MaxStamps
    <3>1. i - MaxStamps + 1 \in Int /\ i \in Int /\ i - MaxStamps + 1 <= i + 1
      BY <1>0
    <3>2. Cardinality(i - MaxStamps + 1 .. i) = IF i - MaxStamps + 1 > i THEN 0
                                                ELSE i - (i - MaxStamps + 1) + 1
      BY <3>1, FS_Interval
    <3> QED
      BY <1>0, <3>2
  <2>5. MaxStamps <= Cardinality(Held(i, w))
    <3>1. Cardinality(i - MaxStamps + 1 .. i) <= Cardinality(Held(i, w))
      BY <1>2, <2>3, FS_Subset
    <3> QED
      BY <2>4, <3>1
  <2>6. Cardinality(Held(i, w)) \in Nat
    BY <1>2, FS_CardinalityType
  <2> QED
    BY <1>0, <2>5, <2>6
<1>4. ApprovedWithin(i, w) \subseteq Held(i, w)
  <2> SUFFICES ASSUME NEW j \in ApprovedWithin(i, w) PROVE j \in Held(i, w)
    OBVIOUS
  <2>1. j \in 1 .. i /\ stamps[i] - stamps[j] < w
    BY <1>0 DEF ApprovedWithin, Numbers
  <2> QED
    BY <1>0, <1>3, <2>1 DEF Held
<1>5. /\ Cardinality(ApprovedWithin(i, w)) <= Cardinality(Held(i, w))
      /\ Cardinality(ApprovedWithin(i, w)) \in Nat
      /\ Cardinality(Held(i, w)) \in Nat
  BY <1>2, <1>4, FS_Subset, FS_CardinalityType
<1> QED
  BY <1>5

(* Stamps of the past do not change, and neither does what was counted.     *)
LEMMA HeldStays ==
  ASSUME Numbers, NEW at \in Seq(0 .. MaxTime), Len(at) >= Len(stamps),
         \A j \in 1 .. Len(stamps) : at[j] = stamps[j], stamps' = at,
         NEW w, NEW i \in 1 .. Len(stamps)
  PROVE  Held(i, w)' = Held(i, w)
<1>1. i \in 1 .. Len(stamps) /\ Len(stamps) \in Nat
  BY DEF Numbers
<1>2. \A j \in 1 .. i : at[j] = stamps[j]
  BY <1>1
<1> QED
  BY <1>1, <1>2 DEF Held

LEMMA RateInit == Init => RateInv
<1> SUFFICES ASSUME Init PROVE RateInv
  OBVIOUS
<1>1. Len(stamps) = 0 /\ approved = {} /\ limited = {}
  BY DEF Init
<1> QED
  BY <1>1, TypeInit, TypeParts DEF RateInv, Monotone, CountedWithin, CountedAbove

LEMMA RateStep == RateInv /\ [Next]_vars => RateInv'
<1> SUFFICES ASSUME RateInv, [Next]_vars
             PROVE  Monotone' /\ CountedWithin(Second, PerSecond)'
                              /\ CountedWithin(Minute, PerMinute)' /\ CountedAbove'
  BY NumbersStep DEF RateInv
<1> USE DEF RateInv
<1>0. now \in 0 .. MaxTime /\ Len(stamps) \in Nat /\ stamps \in Seq(0 .. MaxTime)
      /\ now \in Nat /\ MaxTime \in Nat
  BY Parameters, StampsNat DEF Numbers
<1>1. ASSUME NEW s \in Symbol, NEW side \in Side, NEW q \in Quantity,
             NEW price \in Price \cup {NoPrice}, Validate(s, side, q, price)
      PROVE  Monotone' /\ CountedWithin(Second, PerSecond)'
                       /\ CountedWithin(Minute, PerMinute)' /\ CountedAbove'
  <2> DEFINE at == Append(stamps, now)
  <2>0. PICK n \in Nat : n = Len(stamps) + 1
    BY <1>0
  <2>1. /\ at \in Seq(0 .. MaxTime) /\ Len(at) = n /\ at[n] = now
        /\ \A j \in 1 .. Len(stamps) : at[j] = stamps[j]
    BY <1>0, <2>0, StampAppended
  <2>2. stamps' = at /\ now' = now
    BY <1>1 DEF Validate, Stamped
  <2>3. /\ approved' \subseteq approved \cup {n}
        /\ approved' # approved => RateOk(at)
        /\ limited' \subseteq limited \cup {n}
        /\ limited' # limited => ~RateOk(at)
    BY <1>1, <2>1 DEF Validate, Stamped
  <2> HIDE DEF at
  <2>6. Monotone'
    <3>1. \A j \in 1 .. Len(stamps) : stamps[j] <= now
      BY DEF Monotone
    <3>2. ASSUME NEW i \in 1 .. n PROVE at[i] <= now /\ (i # n => i \in 1 .. Len(stamps))
      <4>1. CASE i = n
        BY <1>0, <2>1, <4>1
      <4>2. CASE i # n
        <5>1. i \in 1 .. Len(stamps)
          BY <1>0, <2>0, <4>2
        <5>2. at[i] = stamps[i]
          BY <2>1, <5>1
        <5> QED
          BY <3>1, <5>1, <5>2
      <4> QED
        BY <4>1, <4>2
    <3>3. ASSUME NEW i \in 1 .. n, NEW j \in 1 .. n, i <= j PROVE at[i] <= at[j]
      <4>1. CASE j = n
        BY <2>1, <3>2, <4>1
      <4>2. CASE j # n
        <5>1. i \in 1 .. Len(stamps) /\ j \in 1 .. Len(stamps)
          BY <1>0, <2>0, <3>3, <4>2
        <5> QED
          BY <2>1, <3>3, <5>1 DEF Monotone
      <4> QED
        BY <4>1, <4>2
    <3> QED
      BY <2>1, <2>2, <3>2, <3>3 DEF Monotone
  <2>7. ASSUME NEW w PROVE Held(n, w)' = {j \in 1 .. Len(at) : j > Len(at) - MaxStamps
                                                              /\ now - at[j] < w}
    BY <2>1, <2>2 DEF Held
  <2>8. ASSUME NEW w, NEW limit, CountedWithin(w, limit),
               approved' # approved => Recent(at, w) <= limit
        PROVE  CountedWithin(w, limit)'
    <3> SUFFICES ASSUME NEW i \in approved' PROVE Cardinality(Held(i, w)') <= limit
      BY DEF CountedWithin
    <3>1. CASE i \in approved
      <4>1. Held(i, w)' = Held(i, w)
        <5>1. i \in 1 .. Len(stamps) /\ Len(at) >= Len(stamps)
          BY <1>0, <2>0, <2>1, <3>1 DEF Numbers
        <5> QED
          BY <2>1, <2>2, <5>1, HeldStays
      <4> QED
        BY <2>8, <3>1, <4>1 DEF CountedWithin
    <3>2. CASE i \notin approved
      <4>1. i = n /\ approved' # approved
        BY <2>3, <3>2
      <4> QED
        BY <2>7, <2>8, <4>1 DEF Recent
    <3> QED
      BY <3>1, <3>2
  <2>9. CountedAbove'
    <3> SUFFICES ASSUME NEW i \in limited'
                 PROVE  ~(/\ Cardinality(Held(i, Second)') <= PerSecond
                          /\ Cardinality(Held(i, Minute)') <= PerMinute)
      BY DEF CountedAbove
    <3>1. CASE i \in limited
      <4>1. i \in 1 .. Len(stamps) /\ Len(at) >= Len(stamps)
        BY <1>0, <2>0, <2>1, <3>1 DEF Numbers
      <4>2. \A w : Held(i, w)' = Held(i, w)
        BY <2>1, <2>2, <4>1, HeldStays
      <4> QED
        BY <3>1, <4>2 DEF CountedAbove
    <3>2. CASE i \notin limited
      <4>1. i = n /\ ~RateOk(at)
        BY <2>3, <3>2
      <4> QED
        BY <2>7, <4>1 DEF RateOk, Recent
    <3> QED
      BY <3>1, <3>2
  <2> QED
    BY <2>3, <2>6, <2>8, <2>9 DEF RateOk
<1>2. ASSUME UNCHANGED <<stamps, approved, limited>>, now' \in Nat, now <= now'
      PROVE  Monotone' /\ CountedWithin(Second, PerSecond)'
                       /\ CountedWithin(Minute, PerMinute)' /\ CountedAbove'
  <2>1. Monotone'
    BY <1>2, StampsNat DEF Monotone
  <2> QED
    BY <1>2, <2>1 DEF CountedWithin, CountedAbove, Held
<1>3. \/ UNCHANGED <<stamps, approved, limited>> /\ now' \in Nat /\ now <= now'
      \/ \E s \in Symbol, side \in Side, q \in Quantity, price \in Price \cup {NoPrice} :
           Validate(s, side, q, price)
  BY <1>0 DEF Next, vars, UpdatePosition, UpdateMidPrice, UpdatePortfolioValue,
         SetKillSwitchActive, Tick
<1> QED
  BY <1>1, <1>2, <1>3

(* No window contains more approved orders than its limit, although the     *)
(* deque is bounded (pre_trade_risk.py:73, 194-212).                        *)
THEOREM RateLimitHolds == Spec => []RateLimited
<1>1. RateInv => RateLimited
  <2> SUFFICES ASSUME RateInv, NEW i \in approved
               PROVE  /\ Cardinality(ApprovedWithin(i, Second)) <= PerSecond
                      /\ Cardinality(ApprovedWithin(i, Minute)) <= PerMinute
    BY DEF RateLimited
  <2> QED
    BY DequeSuffices, Parameters DEF RateInv, CountedWithin
<1> QED
  BY RateInit, RateStep, <1>1, PTL DEF Spec

(* A rate limit refuses an order only when more than the limit were         *)
(* validated within its window, so an order after a pause passes it         *)
(* (pre_trade_risk.py:195-212).                                             *)
THEOREM RefusalsHaveCause == Spec => []RefusedForCause
<1>1. RateInv => RefusedForCause
  <2> SUFFICES ASSUME RateInv, NEW i \in limited
               PROVE  \/ Cardinality(ValidatedWithin(i, Second)) > PerSecond
                      \/ Cardinality(ValidatedWithin(i, Minute)) > PerMinute
    BY DEF RefusedForCause
  <2>1. i \in Nat
    BY StampsNat DEF RateInv, Numbers
  <2>2. ASSUME NEW w PROVE /\ Cardinality(Held(i, w)) <= Cardinality(ValidatedWithin(i, w))
                           /\ Cardinality(Held(i, w)) \in Nat
                           /\ Cardinality(ValidatedWithin(i, w)) \in Nat
    <3>1. Held(i, w) \subseteq ValidatedWithin(i, w) /\ ValidatedWithin(i, w) \subseteq 1 .. i
      BY DEF Held, ValidatedWithin
    <3>2. IsFiniteSet(ValidatedWithin(i, w))
      BY <2>1, <3>1, FS_Interval, FS_Subset
    <3> QED
      BY <3>1, <3>2, FS_Subset, FS_CardinalityType
  <2>3. ~(/\ Cardinality(Held(i, Second)) <= PerSecond
          /\ Cardinality(Held(i, Minute)) <= PerMinute)
    BY DEF RateInv, CountedAbove
  <2> QED
    BY <2>2, <2>3, Parameters
<1> QED
  BY RateInit, RateStep, <1>1, PTL DEF Spec
================================================================================
