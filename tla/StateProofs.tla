----------------------------- MODULE StateProofs -----------------------------
(* What the central state promises for every value of the constants: the    *)
(* store of one node, and the pair of nodes that replicate it.              *)
EXTENDS StateStore, Replication, FiniteSetTheorems, SequenceTheorems, TLAPS

-----------------------------------------------------------------------------
(* The store.                                                               *)

(* The absolute value is a natural number, positive but for zero. *)
LEMMA AbsNat == ASSUME NEW n \in Int
                PROVE  Abs(n) \in Nat /\ (n # 0 => Abs(n) > 0)
BY DEF Abs

(* The cost of two lots and their average are natural numbers, whatever the *)
(* signs of the quantities are (state_store.py:263-284).                    *)
LEMMA UpdatedType ==
  ASSUME NEW p \in Position, NEW delta \in Delta, NEW price \in Price
  PROVE  Updated(p, delta, price) \in Position
<1>1. delta \in Int /\ delta # 0 /\ price \in Nat
  BY StoreAssumption
<1>2. p.qty \in Int /\ p.avg \in Nat
  BY DEF Position
<1>3. CASE p = NoPosition
  BY <1>1, <1>3 DEF Updated, Position
<1>4. CASE p # NoPosition /\ p.qty + delta = 0
  BY <1>4 DEF Updated, Position, NoPosition
<1>5. CASE p # NoPosition /\ p.qty + delta # 0
  <2> DEFINE total == p.avg * Abs(p.qty) + price * Abs(delta)
             size == Abs(p.qty + delta)
  <2>1. Abs(p.qty) \in Nat /\ Abs(delta) \in Nat
    BY <1>1, <1>2, AbsNat
  <2>2. \A a, b \in Nat : a * b \in Nat
    OBVIOUS
  <2>3. p.avg * Abs(p.qty) \in Nat /\ price * Abs(delta) \in Nat
    BY <1>1, <1>2, <2>1, <2>2
  <2>4. total \in Nat
    BY <2>3
  <2>5. size \in Nat /\ size > 0
    BY <1>1, <1>2, <1>5, AbsNat
  <2>6. \A a, b \in Nat : b > 0 => a \div b \in Nat
    OBVIOUS
  <2>7. total \div size \in Nat
    BY <2>4, <2>5, <2>6
  <2>8. Updated(p, delta, price) = [qty |-> p.qty + delta, avg |-> total \div size]
    BY <1>5 DEF Updated
  <2>9. p.qty + delta \in Int
    BY <1>1, <1>2
  <2> QED
    BY <2>7, <2>8, <2>9 DEF Position
<1> QED
  BY <1>3, <1>4, <1>5

(* A value put into the curve, with or without dropping the oldest.         *)
LEMMA BufferType ==
  ASSUME NEW s \in Seq(Int), NEW v \in Int
  PROVE  Append(s, v) \in Seq(Int) /\ Tail(Append(s, v)) \in Seq(Int)
<1>1. Append(s, v) \in Seq(Int) /\ Append(s, v) # <<>>
  BY AppendProperties
<1> QED
  BY <1>1, HeadTailProperties

-----------------------------------------------------------------------------
LEMMA TypeInit == Init => TypeOK
<1> SUFFICES ASSUME Init PROVE TypeOK
  OBVIOUS
<1>1. NoPosition \in Position /\ [qty |-> 1, avg |-> 1] \in Position
  BY DEF NoPosition, Position
<1> QED
  BY <1>1, StoreAssumption DEF Init, TypeOK, NoRemote, Nobody, Holder

LEMMA TypeStep == TypeOK /\ [Next]_vars => TypeOK'
<1> SUFFICES ASSUME TypeOK, [Next]_vars PROVE TypeOK'
  OBVIOUS
<1> USE DEF TypeOK
<1>0. /\ NoPosition \in Position
      /\ \A q \in Delta, a \in Price : [qty |-> q, avg |-> a] \in Position
      /\ \A a \in Price : a \in Int
  <2>1. NoPosition \in Position
    BY DEF NoPosition, Position
  <2>2. ASSUME NEW q \in Delta, NEW a \in Price
        PROVE  [qty |-> q, avg |-> a] \in Position /\ a \in Int
    <3>1. q \in Int /\ a \in Nat
      BY <2>2, StoreAssumption
    <3> QED
      BY <3>1 DEF Position
  <2>3. \A a \in Price : a \in Int
    BY StoreAssumption
  <2> QED
    BY <2>1, <2>2, <2>3
<1>1. ASSUME Bump, risk' = risk PROVE version' \in 0 .. MaxVersion /\ risk' \in 0 .. version'
  BY <1>1, StoreAssumption DEF Bump
<1>2. ASSUME Publish, version' \in Nat, risk' \in Nat
      PROVE  published' \in Seq(Nat)
  BY <1>2 DEF Publish
<1>3. ASSUME NEW op \in Holder, NEW s \in Symbol, PersistThenPublish(op, s),
             version' \in Nat, risk' \in Nat
      PROVE  /\ holder' \in Holder /\ held' \in Symbol
             /\ published' \in Seq(Nat)
  <2>1. CASE UseRedis
    BY <1>3, <2>1 DEF PersistThenPublish, NoPublish
  <2>2. CASE ~UseRedis
    <3>1. Publish
      BY <1>3, <2>2 DEF PersistThenPublish
    <3> QED
      BY <1>2, <1>3, <2>2, <3>1 DEF PersistThenPublish, Holder
  <2> QED
    BY <2>1, <2>2
<1>4. version \in Nat /\ risk \in Nat /\ \A v : v \in 0 .. MaxVersion => v \in Nat
  BY StoreAssumption
<1>5. ASSUME NEW s \in Symbol, NEW q \in Delta, NEW a \in Price, SetPosition(s, q, a)
      PROVE  TypeOK'
  <2>1. version' \in 0 .. MaxVersion /\ risk' \in 0 .. version'
    BY <1>1, <1>5 DEF SetPosition
  <2>2. /\ holder' \in Holder /\ held' \in Symbol
        /\ published' \in Seq(Nat)
    BY <1>3, <1>4, <1>5, <2>1 DEF SetPosition, Holder
  <2> QED
    BY <1>0, <1>5, <2>1, <2>2 DEF SetPosition
<1>6. ASSUME NEW s \in Symbol, NEW q \in Delta, NEW a \in Price, UpdatePosition(s, q, a)
      PROVE  TypeOK'
  <2>1. version' \in 0 .. MaxVersion /\ risk' \in 0 .. version'
    BY <1>1, <1>6 DEF UpdatePosition
  <2>2. published' \in Seq(Nat)
    BY <1>2, <1>4, <1>6, <2>1 DEF UpdatePosition
  <2>3. Updated(positions[s], q, a) \in Position
    BY UpdatedType
  <2> QED
    BY <1>6, <2>1, <2>2, <2>3 DEF UpdatePosition
<1>7. ASSUME NEW v \in Price, SetPortfolioValue(v) PROVE TypeOK'
  <2>1. version' \in 0 .. MaxVersion /\ risk' \in 0 .. version'
    BY <1>1, <1>7 DEF SetPortfolioValue
  <2>2. /\ holder' \in Holder /\ held' \in Symbol
        /\ published' \in Seq(Nat)
    BY <1>3, <1>4, <1>7, <2>1 DEF SetPortfolioValue, Holder
  <2> QED
    BY <1>0, <1>7, <2>1, <2>2 DEF SetPortfolioValue
<1>8. ASSUME NEW v \in Price, AppendToEquityCurve(v) PROVE TypeOK'
  <2>1. version' \in 0 .. MaxVersion /\ risk' \in 0 .. version'
    BY <1>1, <1>8 DEF AppendToEquityCurve
  <2>2. published' \in Seq(Nat)
    BY <1>2, <1>4, <1>8, <2>1 DEF AppendToEquityCurve
  <2>3. curve \in Seq(Int) /\ v \in Int
    BY <1>0
  <2>5. curve' \in Seq(Int)
    BY <1>8, <2>3, BufferType DEF AppendToEquityCurve
  <2> QED
    BY <1>8, <2>1, <2>2, <2>5 DEF AppendToEquityCurve
<1>9. ASSUME NEW v \in Price, UpdatePerformanceMetrics(v) PROVE TypeOK'
  BY <1>0, <1>1, <1>9 DEF UpdatePerformanceMetrics, NoPublish
<1>10. ASSUME Persisted PROVE TypeOK'
  <2>1. published' \in Seq(Nat)
    BY <1>2, <1>4, <1>10 DEF Persisted
  <2>2. redis' \in [pos : [Symbol -> Position], portfolio : SUBSET Int]
    BY <1>10 DEF Persisted
  <2> QED
    BY <1>10, <2>1, <2>2 DEF Persisted, Holder
<1>11. ASSUME PersistFails PROVE TypeOK'
  BY <1>11 DEF PersistFails, Holder
<1>12. ASSUME NEW o \in OrderId, NEW status \in Status, SetOrder(o, status) PROVE TypeOK'
  <2>1. version' \in 0 .. MaxVersion /\ risk' \in 0 .. version'
    BY <1>1, <1>12 DEF SetOrder
  <2>2. published' \in Seq(Nat)
    BY <1>2, <1>4, <1>12, <2>1 DEF SetOrder
  <2>3. DOMAIN orders' \subseteq OrderId /\ orders' \in [DOMAIN orders' -> Status]
    BY <1>12 DEF SetOrder
  <2> QED
    BY <1>12, <2>1, <2>2, <2>3 DEF SetOrder
<1>13. ASSUME NEW o \in OrderId, RemoveOrder(o) PROVE TypeOK'
  <2>1. version' \in 0 .. MaxVersion /\ risk' \in 0 .. version'
    BY <1>1, <1>13 DEF RemoveOrder
  <2>2. published' \in Seq(Nat)
    BY <1>2, <1>4, <1>13, <2>1 DEF RemoveOrder
  <2>3. DOMAIN orders' \subseteq OrderId /\ orders' \in [DOMAIN orders' -> Status]
    BY <1>13 DEF RemoveOrder
  <2> QED
    BY <1>13, <2>1, <2>2, <2>3 DEF RemoveOrder
<1>14. ASSUME SetRiskState PROVE TypeOK'
  BY <1>14, StoreAssumption DEF SetRiskState, Bump, NoPublish
<1>15. ASSUME SyncReadPositions \/ SyncApplyPositions \/ SyncReadPortfolio
              \/ SyncApplyPortfolio \/ SyncFails
       PROVE  TypeOK'
  <2>1. CASE SyncReadPositions
    BY <2>1 DEF SyncReadPositions
  <2>2. CASE SyncApplyPositions
    BY <2>2 DEF SyncApplyPositions
  <2>3. CASE SyncReadPortfolio
    BY <2>3 DEF SyncReadPortfolio
  <2>4. NoRemote \in [step : {"none", "positions", "applied", "portfolio"},
                      pos : [Symbol -> Position], portfolio : SUBSET Int]
    BY <1>0 DEF NoRemote
  <2>5. CASE SyncApplyPortfolio
    BY <2>4, <2>5 DEF SyncApplyPortfolio
  <2>6. CASE SyncFails
    BY <2>4, <2>6 DEF SyncFails
  <2> QED
    BY <1>15, <2>1, <2>2, <2>3, <2>5, <2>6
<1>16. ASSUME BecomePrimary PROVE TypeOK'
  BY <1>16 DEF BecomePrimary
<1>17. CASE UNCHANGED vars
  BY <1>17 DEF vars
<1> QED
  BY <1>5, <1>6, <1>7, <1>8, <1>9, <1>10, <1>11, <1>12, <1>13, <1>14, <1>15, <1>16, <1>17
     DEF Next

(* Every variable of the store keeps its type; the average price of a       *)
(* position in particular is never negative (state_store.py:263-284).       *)
THEOREM StoreTypeOK == Spec => []TypeOK
<1>1. Init => TypeOK
  BY TypeInit
<1>2. TypeOK /\ [Next]_vars => TypeOK'
  BY TypeStep
<1> QED
  BY <1>1, <1>2, PTL DEF Spec

-----------------------------------------------------------------------------
(* While an operation waits for Redis its version has not been published,   *)
(* and nobody else can publish: that is why the snapshot it sends           *)
(* afterwards is newer than every one before it.                            *)
PublishOrder ==
  /\ PublishedInOrder
  /\ holder # Nobody => \A i \in DOMAIN published : published[i] < version

(* One more snapshot, newer than all before it, keeps them in order.        *)
LEMMA NewerLast ==
  ASSUME NEW s \in Seq(Nat), NEW v \in Nat,
         \A i, j \in DOMAIN s : i < j => s[i] < s[j],
         \A i \in DOMAIN s : s[i] < v
  PROVE  LET t == Append(s, v) IN
           /\ \A i, j \in DOMAIN t : i < j => t[i] < t[j]
           /\ \A i \in DOMAIN t : t[i] <= v
<1> DEFINE t == Append(s, v)
<1>1. DOMAIN s = 1 .. Len(s) /\ DOMAIN t = 1 .. Len(s) + 1 /\ Len(s) \in Nat
  OBVIOUS
<1>2. \A i \in 1 .. Len(s) : t[i] = s[i] /\ s[i] \in Nat
  OBVIOUS
<1>3. t[Len(s) + 1] = v
  OBVIOUS
<1> QED
  BY <1>1, <1>2, <1>3

LEMMA OrderStep == TypeOK /\ PublishOrder /\ [Next]_vars => PublishOrder'
<1> SUFFICES ASSUME TypeOK, PublishOrder, [Next]_vars PROVE PublishOrder'
  OBVIOUS
<1>1. /\ published \in Seq(Nat) /\ version \in Nat
      /\ \A i \in DOMAIN published : published[i] \in Nat
  BY StoreAssumption DEF TypeOK
<1>2. ASSUME Publish, version' \in Nat, version <= version', holder' = Nobody,
             \A i \in DOMAIN published : published[i] < version'
      PROVE  PublishOrder'
  <2>1. CASE role = "PRIMARY"
    BY <1>1, <1>2, <2>1, NewerLast DEF Publish, PublishOrder, PublishedInOrder
  <2>2. CASE role # "PRIMARY"
    BY <1>1, <1>2, <2>2 DEF Publish, PublishOrder, PublishedInOrder
  <2> QED
    BY <2>1, <2>2
<1>3. ASSUME Bump
      PROVE  /\ version' \in Nat /\ version < version'
             /\ \A i \in DOMAIN published : published[i] < version'
  BY <1>1, <1>3 DEF Bump, PublishOrder, PublishedInOrder
<1>4. ASSUME Bump, NoPublish PROVE PublishOrder'
  BY <1>1, <1>3, <1>4 DEF NoPublish, PublishOrder, PublishedInOrder
<1>5. ASSUME Bump, NEW op \in Holder, NEW s, PersistThenPublish(op, s) PROVE PublishOrder'
  <2>1. CASE UseRedis
    BY <1>4, <1>5, <2>1 DEF PersistThenPublish
  <2>2. CASE ~UseRedis
    BY <1>1, <1>2, <1>3, <1>5, <2>2 DEF PersistThenPublish
  <2> QED
    BY <2>1, <2>2
<1>6. ASSUME Bump, Publish, Unlocked, UNCHANGED holder PROVE PublishOrder'
  BY <1>1, <1>2, <1>3, <1>6 DEF Unlocked
<1>7. ASSUME NEW s \in Symbol, NEW q \in Delta, NEW a \in Price,
             SetPosition(s, q, a) \/ UpdatePosition(s, q, a)
      PROVE  PublishOrder'
  BY <1>5, <1>6, <1>7 DEF SetPosition, UpdatePosition, Holder
<1>8. ASSUME NEW v \in Price,
             SetPortfolioValue(v) \/ AppendToEquityCurve(v) \/ UpdatePerformanceMetrics(v)
      PROVE  PublishOrder'
  BY <1>4, <1>5, <1>6, <1>8
     DEF SetPortfolioValue, AppendToEquityCurve, UpdatePerformanceMetrics, Holder
<1>9. ASSUME Persisted PROVE PublishOrder'
  BY <1>1, <1>2, <1>9 DEF Persisted, PublishOrder
<1>10. ASSUME NEW o \in OrderId,
              RemoveOrder(o) \/ \E status \in Status : SetOrder(o, status)
       PROVE  PublishOrder'
  BY <1>6, <1>10 DEF RemoveOrder, SetOrder
<1>11. ASSUME SetRiskState PROVE PublishOrder'
  BY <1>4, <1>11 DEF SetRiskState
<1>12. ASSUME \/ PersistFails \/ BecomePrimary \/ SyncReadPositions \/ SyncApplyPositions
              \/ SyncReadPortfolio \/ SyncApplyPortfolio \/ SyncFails \/ UNCHANGED vars
       PROVE  PublishOrder'
  <2>1. UNCHANGED <<published, version>> /\ (holder' = holder \/ holder' = Nobody)
    BY <1>12 DEF PersistFails, BecomePrimary, SyncReadPositions, SyncApplyPositions,
                 SyncReadPortfolio, SyncApplyPortfolio, SyncFails, vars
  <2> QED
    BY <2>1 DEF PublishOrder, PublishedInOrder
<1> QED
  BY <1>7, <1>8, <1>9, <1>10, <1>11, <1>12 DEF Next

(* Snapshots leave a node in the order of their versions, although the      *)
(* operations that persist publish only after Redis has answered            *)
(* (state_store.py:233-250, 289-308).                                       *)
THEOREM StorePublishesInOrder == Spec => []PublishedInOrder
<1>1. Init => PublishOrder
  BY StoreAssumption DEF Init, PublishOrder, PublishedInOrder
<1>2. TypeOK /\ PublishOrder /\ [Next]_vars => PublishOrder'
  BY OrderStep
<1>3. PublishOrder => PublishedInOrder
  BY DEF PublishOrder
<1> QED
  BY <1>1, <1>2, <1>3, StoreTypeOK, PTL DEF Spec

-----------------------------------------------------------------------------
(* The set of orders stays finite, which the count of its members needs.    *)
Bounded == IsFiniteSet(DOMAIN orders) /\ OrdersAndCurveBounded

LEMMA BoundedStep == TypeOK /\ Bounded /\ [Next]_vars => Bounded'
<1> SUFFICES ASSUME TypeOK, Bounded, [Next]_vars PROVE Bounded'
  OBVIOUS
<1> USE DEF Bounded, OrdersAndCurveBounded
<1>1. ASSUME UNCHANGED <<orders, curve>> PROVE Bounded'
  BY <1>1
<1>2. ASSUME NEW v \in Price, AppendToEquityCurve(v) PROVE Bounded'
  <2>1. curve \in Seq(Int) /\ v \in Int /\ MaxEquityPoints \in Nat
    BY StoreAssumption DEF TypeOK
  <2>2. Len(Append(curve, v)) = Len(curve) + 1 /\ Append(curve, v) \in Seq(Int)
    BY <2>1
  <2>3. Len(Tail(Append(curve, v))) = Len(curve)
    BY <2>1, <2>2
  <2>4. Len(curve') <= MaxEquityPoints
    BY <1>2, <2>1, <2>2, <2>3 DEF AppendToEquityCurve
  <2> QED
    BY <1>2, <2>4 DEF AppendToEquityCurve
<1>3. ASSUME NEW o \in OrderId, NEW status \in Status, SetOrder(o, status) PROVE Bounded'
  <2>1. DOMAIN orders' = DOMAIN orders \cup {o}
    BY <1>3 DEF SetOrder
  <2>2. /\ IsFiniteSet(DOMAIN orders \cup {o})
        /\ Cardinality(DOMAIN orders \cup {o}) <= Cardinality(DOMAIN orders) + 1
    <3>1. IsFiniteSet(DOMAIN orders)
      OBVIOUS
    <3>2. Cardinality(DOMAIN orders) \in Nat
      BY <3>1, FS_CardinalityType
    <3>3. /\ IsFiniteSet(DOMAIN orders \cup {o})
          /\ Cardinality(DOMAIN orders \cup {o}) \in
               {Cardinality(DOMAIN orders), Cardinality(DOMAIN orders) + 1}
      BY <3>1, FS_AddElement
    <3> QED
      BY <3>2, <3>3
  <2>3. Cardinality(DOMAIN orders) < MaxActiveOrders
    BY <1>3 DEF SetOrder, OrderAccepted
  <2>4. Cardinality(DOMAIN orders \cup {o}) <= MaxActiveOrders
    BY <2>2, <2>3, FS_CardinalityType, StoreAssumption
  <2> QED
    BY <1>3, <2>1, <2>2, <2>4 DEF SetOrder
<1>4. ASSUME NEW o \in OrderId, RemoveOrder(o) PROVE Bounded'
  <2>1. DOMAIN orders' = DOMAIN orders \ {o}
    BY <1>4 DEF RemoveOrder
  <2>2. /\ IsFiniteSet(DOMAIN orders \ {o})
        /\ Cardinality(DOMAIN orders \ {o}) <= Cardinality(DOMAIN orders)
    BY FS_Subset
  <2>3. Cardinality(DOMAIN orders \ {o}) <= MaxActiveOrders
    BY <2>2, FS_CardinalityType, StoreAssumption
  <2> QED
    BY <1>4, <2>1, <2>2, <2>3 DEF RemoveOrder
<1> QED
  BY <1>1, <1>2, <1>3, <1>4
     DEF Next, vars, SetPosition, UpdatePosition, SetPortfolioValue, UpdatePerformanceMetrics,
         Persisted, PersistFails, SetRiskState, SyncReadPositions, SyncApplyPositions,
         SyncReadPortfolio, SyncApplyPortfolio, SyncFails, BecomePrimary

(* The order book never outgrows its limit and the equity curve never its   *)
(* buffer (state_store.py:315-340).                                         *)
THEOREM StoreBounded == Spec => []OrdersAndCurveBounded
<1>1. Init => Bounded
  <2>1. IsFiniteSet({}) /\ Cardinality({}) = 0
    BY FS_EmptySet
  <2> QED
    BY <2>1, StoreAssumption DEF Init, Bounded, OrdersAndCurveBounded
<1>2. TypeOK /\ Bounded /\ [Next]_vars => Bounded'
  BY BoundedStep
<1>3. Bounded => OrdersAndCurveBounded
  BY DEF Bounded
<1> QED
  BY <1>1, <1>2, <1>3, StoreTypeOK, PTL DEF Spec

-----------------------------------------------------------------------------
(* The pair of nodes, for any number of nodes, any threshold and any bound  *)
(* on the clock.                                                            *)

LEMMA PairTypeInit == PairInit => PairTypeOK
<1> SUFFICES ASSUME PairInit PROVE PairTypeOK
  OBVIOUS
<1>1. missed \in BOOLEAN
  BY DEF PairInit
<1>2. now \in 1 .. MaxTime /\ 0 \in 0 .. now /\ 1 \in 1 .. now
  BY ReplicationAssumption DEF PairInit
<1> QED
  BY <1>1, <1>2, ReplicationAssumption DEF PairInit, PairTypeOK, Unheard

LEMMA SnapshotMessage ==
  ASSUME NEW n \in Node, NEW t \in 1 .. MaxTime, NEW s \in Snapshot
  PROVE  [kind |-> "state", to |-> n, sent |-> t, body |-> s, checksum |-> s] \in Message
  BY DEF Message

LEMMA BeatMessage ==
  ASSUME NEW n \in Node, NEW t \in 1 .. MaxTime
  PROVE  [kind |-> "heartbeat", to |-> n, sent |-> t] \in Message
  BY DEF Message

(* The next snapshot to publish fits into the bound.                        *)
LEMMA NextSnapshot ==
  ASSUME genuine \subseteq Snapshot, Cardinality(genuine) < MaxSnapshots
  PROVE  Cardinality(genuine) + 1 \in Snapshot
<1>1. IsFiniteSet(1 .. MaxSnapshots)
  BY ReplicationAssumption, FS_Interval
<1>2. IsFiniteSet(genuine)
  BY <1>1, FS_Subset DEF Snapshot
<1>3. Cardinality(genuine) \in Nat
  BY <1>2, FS_CardinalityType
<1> QED
  BY <1>3, ReplicationAssumption DEF Snapshot

(* A state message, and a damaged one, which is still a message.            *)
LEMMA StateMessage ==
  ASSUME NEW m \in Message, m.kind = "state"
  PROVE  /\ m \in [kind : {"state"}, to : Node, sent : 1 .. MaxTime,
                  body : Snapshot \cup {Garbled}, checksum : Snapshot \cup {GarbledSum}]
         /\ m.body \in Snapshot \cup {Garbled} /\ m.checksum \in Snapshot \cup {GarbledSum}
  BY DEF Message

LEMMA DamagedMessage ==
  ASSUME NEW m \in Message, m.kind = "state",
         NEW d \in {[m EXCEPT !.body = Garbled], [m EXCEPT !.checksum = GarbledSum]}
  PROVE  d \in Message /\ d.kind = "state" /\ d.body \in {m.body, Garbled}
<1>1. m \in [kind : {"state"}, to : Node, sent : 1 .. MaxTime,
             body : Snapshot \cup {Garbled}, checksum : Snapshot \cup {GarbledSum}]
  BY StateMessage
<1>2. CASE d = [m EXCEPT !.body = Garbled]
  BY <1>1, <1>2 DEF Message
<1>3. CASE d = [m EXCEPT !.checksum = GarbledSum]
  BY <1>1, <1>3 DEF Message
<1> QED
  BY <1>2, <1>3

(* A body that matches its checksum was not damaged.                        *)
LEMMA VerifiedIntact ==
  ASSUME NEW m \in Message, m.kind = "state", Verified(m)
  PROVE  m.body \in Snapshot /\ m.checksum = m.body
<1>1. m.body \in Snapshot \cup {Garbled} /\ m.checksum \in Snapshot \cup {GarbledSum}
  BY StateMessage
<1>2. m.body = m.checksum
  BY DEF Verified, Digest
<1> QED
  BY <1>1, <1>2, ReplicationAssumption DEF Snapshot, Garbled, GarbledSum

LEMMA PairTypeStep == PairTypeOK /\ [PairNext]_pairVars => PairTypeOK'
<1> SUFFICES ASSUME PairTypeOK, [PairNext]_pairVars PROVE PairTypeOK'
  OBVIOUS
<1> USE DEF PairTypeOK
<1>0. now \in 1 .. MaxTime /\ MaxTime \in Nat
  BY ReplicationAssumption
<1>1. ASSUME NEW n \in Node, PublishState(n) PROVE PairTypeOK'
  <2> DEFINE s == Cardinality(genuine) + 1
  <2>1. s \in Snapshot
    BY <1>1, NextSnapshot DEF PublishState
  <2>2. \A m \in Peers(n) : [kind |-> "state", to |-> m, sent |-> now,
                             body |-> s, checksum |-> s] \in Message
    BY <1>0, <2>1, SnapshotMessage DEF Peers
  <2>3. net' = net \cup {[kind |-> "state", to |-> m, sent |-> now,
                          body |-> s, checksum |-> s] : m \in Peers(n)}
    BY <1>1 DEF PublishState, Digest
  <2>4. net' \subseteq Message
    BY <2>2, <2>3
  <2>5. /\ genuine' = genuine \cup {s}
        /\ UNCHANGED <<now, localRole, heard, beat, accepted, synced, crashed, missed>>
    BY <1>1 DEF PublishState
  <2> HIDE DEF s
  <2> QED
    BY <2>1, <2>4, <2>5
<1>2. ASSUME NEW n \in Node, SendHeartbeat(n) PROVE PairTypeOK'
  <2>1. \A m \in Peers(n) : [kind |-> "heartbeat", to |-> m, sent |-> now] \in Message
    BY <1>0, BeatMessage DEF Peers
  <2>2. net' \subseteq Message
    BY <1>2, <2>1 DEF SendHeartbeat
  <2> QED
    BY <1>0, <1>2, <2>2 DEF SendHeartbeat
<1>3. ASSUME NEW n \in Node, Failover(n) PROVE PairTypeOK'
  BY <1>0, <1>3 DEF Failover
<1>4. ASSUME NEW n \in Node, Crash(n) PROVE PairTypeOK'
  BY <1>4 DEF Crash
<1>5. ASSUME NEW n \in Node, NEW m \in net, ReceiveState(n, m) PROVE PairTypeOK'
  <2>1. net' \subseteq Message
    BY <1>5 DEF ReceiveState
  <2>2. CASE Verified(m)
    <3>1. m.body \in Snapshot /\ m.checksum \in Snapshot
      BY <1>5, <2>2, VerifiedIntact DEF ReceiveState
    <3> QED
      BY <1>0, <1>5, <2>1, <2>2, <3>1 DEF ReceiveState
  <2>3. CASE ~Verified(m)
    BY <1>5, <2>1, <2>3 DEF ReceiveState
  <2> QED
    BY <2>2, <2>3
<1>6. ASSUME NEW n \in Node, NEW m \in net, ReceiveHeartbeat(n, m) PROVE PairTypeOK'
  BY <1>0, <1>6 DEF ReceiveHeartbeat
<1>7. ASSUME NEW m \in net, Lose(m) PROVE PairTypeOK'
  BY <1>7 DEF Lose
<1>8. ASSUME NEW m \in net, Corrupt(m) PROVE PairTypeOK'
  <2>1. m \in Message /\ m.kind = "state"
    BY <1>8 DEF Corrupt
  <2>2. PICK d \in {[m EXCEPT !.body = Garbled], [m EXCEPT !.checksum = GarbledSum]} :
               net' = (net \ {m}) \cup {d}
    BY <1>8 DEF Corrupt
  <2>3. d \in Message
    BY <2>1, DamagedMessage
  <2> QED
    BY <1>8, <2>2, <2>3 DEF Corrupt
<1>9. CASE Tick
  <2>1. now' \in 1 .. MaxTime /\ 0 .. now \subseteq 0 .. now' /\ 1 .. now \subseteq 1 .. now'
    BY <1>0, <1>9 DEF Tick
  <2>2. heard \in [Node -> 0 .. now'] /\ beat \in [Node -> 1 .. now'] /\ net' \subseteq Message
    BY <1>9, <2>1 DEF Tick
  <2> QED
    BY <1>9, <2>1, <2>2 DEF Tick
<1>10. CASE UNCHANGED pairVars
  BY <1>10 DEF pairVars
<1> QED
  BY <1>1, <1>2, <1>3, <1>4, <1>5, <1>6, <1>7, <1>8, <1>9, <1>10 DEF PairNext

(* Times stay within the clock, snapshots and messages within their sets    *)
(* (state_replication.py:51-65).                                            *)
THEOREM ReplicationTypeOK == PairSpec => []PairTypeOK
<1> QED
  BY PairTypeInit, PairTypeStep, PTL DEF PairSpec

-----------------------------------------------------------------------------
(* What travels is what was published, or damaged.                          *)
CarriesGenuine == \A m \in net : m.kind = "state" => m.body \in genuine \cup {Garbled}
GenuineInv == PairTypeOK /\ CarriesGenuine /\ AcceptedGenuine

LEMMA GenuineInit == PairInit => GenuineInv
  BY PairTypeInit DEF PairInit, GenuineInv, CarriesGenuine, AcceptedGenuine

LEMMA GenuineStep == GenuineInv /\ [PairNext]_pairVars => GenuineInv'
<1> SUFFICES ASSUME GenuineInv, [PairNext]_pairVars PROVE CarriesGenuine' /\ AcceptedGenuine'
  BY PairTypeStep DEF GenuineInv
<1> USE DEF GenuineInv, CarriesGenuine, AcceptedGenuine, Digest
<1>1. ASSUME NEW n \in Node, PublishState(n) PROVE CarriesGenuine' /\ AcceptedGenuine'
  <2> DEFINE s == Cardinality(genuine) + 1
  <2>1. /\ genuine' = genuine \cup {s}
        /\ net' = net \cup {[kind |-> "state", to |-> m, sent |-> now,
                             body |-> s, checksum |-> s] : m \in Peers(n)}
        /\ UNCHANGED <<accepted, synced>>
    BY <1>1 DEF PublishState
  <2> HIDE DEF s
  <2> QED
    BY <2>1
<1>2. ASSUME NEW n \in Node, SendHeartbeat(n) PROVE CarriesGenuine' /\ AcceptedGenuine'
  BY <1>2 DEF SendHeartbeat
<1>3. ASSUME NEW n \in Node, Failover(n) PROVE CarriesGenuine' /\ AcceptedGenuine'
  BY <1>3 DEF Failover
<1>4. ASSUME NEW n \in Node, Crash(n) PROVE CarriesGenuine' /\ AcceptedGenuine'
  BY <1>4 DEF Crash
<1>5. ASSUME NEW n \in Node, NEW m \in net, ReceiveState(n, m)
      PROVE  CarriesGenuine' /\ AcceptedGenuine'
  <2>1. CarriesGenuine'
    BY <1>5 DEF ReceiveState
  <2>2. CASE Verified(m)
    <3>1. m.body \in Snapshot /\ m.checksum = m.body
      BY <1>5, <2>2, VerifiedIntact DEF ReceiveState, PairTypeOK
    <3>2. m.body # Garbled
      BY <3>1, ReplicationAssumption DEF Snapshot, Garbled
    <3>3. m.body \in genuine
      BY <1>5, <3>2 DEF ReceiveState
    <3>4. /\ synced' = [synced EXCEPT ![n] = m.body] /\ UNCHANGED genuine
          /\ accepted' = [accepted EXCEPT ![n] = @ \cup {m.body}]
      BY <1>5, <2>2, <3>1 DEF ReceiveState
    <3> QED
      BY <2>1, <3>3, <3>4 DEF PairTypeOK
  <2>3. CASE ~Verified(m)
    BY <1>5, <2>1, <2>3 DEF ReceiveState
  <2> QED
    BY <2>2, <2>3
<1>6. ASSUME NEW n \in Node, NEW m \in net, ReceiveHeartbeat(n, m)
      PROVE  CarriesGenuine' /\ AcceptedGenuine'
  BY <1>6 DEF ReceiveHeartbeat
<1>7. ASSUME NEW m \in net, Lose(m) PROVE CarriesGenuine' /\ AcceptedGenuine'
  BY <1>7 DEF Lose
<1>8. ASSUME NEW m \in net, Corrupt(m) PROVE CarriesGenuine' /\ AcceptedGenuine'
  <2>1. PICK d \in {[m EXCEPT !.body = Garbled], [m EXCEPT !.checksum = GarbledSum]} :
               net' = (net \ {m}) \cup {d}
    BY <1>8 DEF Corrupt
  <2>2. m \in Message /\ m.kind = "state" /\ UNCHANGED <<genuine, accepted, synced>>
    BY <1>8 DEF Corrupt, PairTypeOK
  <2>3. d.body \in {m.body, Garbled}
    BY <2>2, DamagedMessage
  <2> QED
    BY <2>1, <2>2, <2>3
<1>9. CASE Tick
  BY <1>9 DEF Tick
<1>10. CASE UNCHANGED pairVars
  BY <1>10 DEF pairVars
<1> QED
  BY <1>1, <1>2, <1>3, <1>4, <1>5, <1>6, <1>7, <1>8, <1>9, <1>10 DEF PairNext

(* Whatever the network loses, repeats, delays or damages, receive_state()  *)
(* answers True only to a body some primary has published, and the checksum *)
(* a node reports is that of such a body (state_replication.py:120-151).    *)
THEOREM OnlyGenuineAccepted == PairSpec => []AcceptedGenuine
<1>1. GenuineInv => AcceptedGenuine
  BY DEF GenuineInv
<1> QED
  BY GenuineInit, GenuineStep, <1>1, PTL DEF PairSpec

-----------------------------------------------------------------------------
(* While the first primary lives and no heartbeat was missed, it is the     *)
(* only one; it is never late with a heartbeat, and no heartbeat to a live  *)
(* node is older than MaxDelay.  The last part says how far a standby can   *)
(* be behind: it has heard something since the last heartbeat, or one that  *)
(* was sent at most an Interval after what it heard last is on its way.     *)
OnlyFirst == \A n \in Node : localRole[n] = "PRIMARY" <=> n = First
BeatsInTime == now <= beat[First] + Interval
DeliversInTime == \A m \in net : m.kind = "heartbeat" => now <= m.sent + MaxDelay
OnItsWay(n) == \E m \in net : m.kind = "heartbeat" /\ m.to = n
                              /\ m.sent <= heard[n] + Interval
HearsInTime == \A n \in Node : n # First /\ heard[n] > Unheard =>
                 beat[First] <= heard[n] \/ OnItsWay(n)
TimelyParts == OnlyFirst /\ BeatsInTime /\ DeliversInTime /\ HearsInTime
Good == First \notin crashed /\ ~missed
Timely == PairTypeOK /\ (Good => TimelyParts)

Fits == Interval + MaxDelay <= Threshold

LEMMA TimelyInit == PairInit => Timely
<1> SUFFICES ASSUME PairInit PROVE TimelyParts
  BY PairTypeInit DEF Timely
<1> QED
  BY ReplicationAssumption
  DEF PairInit, TimelyParts, OnlyFirst, BeatsInTime, DeliversInTime, HearsInTime, Unheard

(* A standby that hears in time does not fail over.                         *)
LEMMA NeverSilent ==
  ASSUME Fits, Timely, Good, NEW n \in Node
  PROVE  ~FailoverNeeded(n)
<1> SUFFICES ASSUME FailoverNeeded(n) PROVE FALSE
  OBVIOUS
<1> USE ReplicationAssumption DEF Timely, TimelyParts, Good
<1>1. n # First /\ heard[n] > Unheard /\ now - heard[n] > Threshold
  BY DEF FailoverNeeded, Silent, OnlyFirst
<1>2. now \in Nat /\ heard[n] \in Nat /\ beat[First] \in Nat
  BY DEF PairTypeOK
<1>3. CASE beat[First] <= heard[n]
  BY <1>1, <1>2, <1>3 DEF BeatsInTime, Fits
<1>4. CASE OnItsWay(n)
  <2>1. PICK m \in net : m.kind = "heartbeat" /\ m.sent <= heard[n] + Interval
    BY <1>4 DEF OnItsWay
  <2>2. m.sent \in Nat
    BY DEF PairTypeOK, Message
  <2>3. now <= m.sent + MaxDelay
    BY <2>1 DEF DeliversInTime
  <2> QED
    BY <1>1, <1>2, <2>1, <2>2, <2>3 DEF Fits
<1> QED
  BY <1>1, <1>3, <1>4 DEF HearsInTime

LEMMA TimelyStep == Fits /\ Timely /\ [PairNext]_pairVars => Timely'
<1> SUFFICES ASSUME Fits, Timely, [PairNext]_pairVars, Good'
             PROVE  TimelyParts'
  BY PairTypeStep DEF Timely
<1> USE ReplicationAssumption DEF Timely, PairTypeOK, Good
<1>0. /\ now \in Nat /\ now >= 1 /\ beat[First] \in Nat /\ beat[First] <= now
      /\ \A n \in Node : heard[n] \in Nat
      /\ \A m \in net : m.sent \in Nat /\ m.to \in Node
  BY DEF Message
<1>1. ASSUME NEW n \in Node, PublishState(n) PROVE TimelyParts'
  <2>1. Good /\ TimelyParts
    BY <1>1 DEF PublishState
  <2>2. /\ UNCHANGED <<now, localRole, heard, beat>> /\ net \subseteq net'
        /\ \A m \in net' : m.kind = "heartbeat" => m \in net
    BY <1>1 DEF PublishState
  <2> QED
    BY <2>1, <2>2 DEF TimelyParts, OnlyFirst, BeatsInTime, DeliversInTime, HearsInTime, OnItsWay
<1>2. ASSUME NEW n \in Node, SendHeartbeat(n) PROVE TimelyParts'
  <2>1. Good /\ TimelyParts
    BY <1>2 DEF SendHeartbeat
  <2>2. n = First
    BY <1>2, <2>1 DEF SendHeartbeat, TimelyParts, OnlyFirst
  <2>3. /\ UNCHANGED <<now, localRole, heard>> /\ beat'[First] = now
        /\ net' = net \cup {[kind |-> "heartbeat", to |-> m, sent |-> now] : m \in Peers(First)}
    BY <1>2, <2>2 DEF SendHeartbeat
  <2>4. OnlyFirst' /\ BeatsInTime' /\ DeliversInTime'
    BY <1>0, <2>1, <2>3 DEF TimelyParts, OnlyFirst, BeatsInTime, DeliversInTime
  <2>5. ASSUME NEW k \in Node, k # First, heard[k] > Unheard PROVE OnItsWay(k)'
    <3>1. CASE beat[First] <= heard[k]
      <4> DEFINE m == [kind |-> "heartbeat", to |-> k, sent |-> now]
      <4>1. m \in net'
        BY <2>3, <2>5 DEF Peers
      <4>2. now <= heard[k] + Interval
        BY <1>0, <2>1, <3>1 DEF TimelyParts, BeatsInTime
      <4> QED
        BY <2>3, <4>1, <4>2 DEF OnItsWay
    <3>2. CASE OnItsWay(k)
      BY <2>3, <3>2 DEF OnItsWay
    <3> QED
      BY <2>1, <2>5, <3>1, <3>2 DEF TimelyParts, HearsInTime
  <2> QED
    BY <2>3, <2>4, <2>5 DEF TimelyParts, HearsInTime
<1>3. ASSUME NEW n \in Node, Failover(n) PROVE TimelyParts'
  BY <1>3, NeverSilent DEF Failover
<1>4. ASSUME NEW n \in Node, Crash(n) PROVE TimelyParts'
  BY <1>4 DEF Crash
<1>5. ASSUME NEW n \in Node, NEW m \in net, ReceiveState(n, m) \/ ReceiveHeartbeat(n, m)
      PROVE  TimelyParts'
  <2>1. Good /\ TimelyParts
    BY <1>5 DEF ReceiveState, ReceiveHeartbeat
  <2>2. /\ UNCHANGED <<now, localRole, beat>> /\ net' \subseteq net
        /\ heard' = heard \/ heard' = [heard EXCEPT ![n] = now]
    BY <1>5 DEF ReceiveState, ReceiveHeartbeat
  <2>3. OnlyFirst' /\ BeatsInTime' /\ DeliversInTime'
    BY <2>1, <2>2 DEF TimelyParts, OnlyFirst, BeatsInTime, DeliversInTime
  <2>4. /\ m.to = n
        /\ m.kind = "heartbeat" => heard'[n] = now
        /\ \A l \in net : l # m => l \in net'
    BY <1>5 DEF ReceiveState, ReceiveHeartbeat
  <2>5. ASSUME NEW k \in Node, k # First, heard'[k] > Unheard
        PROVE  beat[First] <= heard'[k] \/ OnItsWay(k)'
    <3>1. CASE heard'[k] = now
      BY <1>0, <3>1
    <3>2. CASE heard'[k] = heard[k] /\ heard'[k] # now
      <4>1. CASE beat[First] <= heard[k]
        BY <3>2, <4>1
      <4>2. CASE OnItsWay(k)
        <5>1. PICK l \in net : l.kind = "heartbeat" /\ l.to = k
                               /\ l.sent <= heard[k] + Interval
          BY <4>2 DEF OnItsWay
        <5>2. l # m
          BY <2>4, <3>2, <5>1
        <5> QED
          BY <2>4, <3>2, <5>1, <5>2 DEF OnItsWay
      <4> QED
        BY <2>1, <2>5, <3>2, <4>1, <4>2 DEF TimelyParts, HearsInTime
    <3>3. heard'[k] = heard[k] \/ heard'[k] = now
      BY <2>2
    <3> QED
      BY <3>1, <3>2, <3>3
  <2> QED
    BY <2>2, <2>3, <2>5 DEF TimelyParts, HearsInTime
<1>6. ASSUME NEW m \in net, Lose(m) PROVE TimelyParts'
  <2>1. Good /\ TimelyParts /\ UNCHANGED <<now, localRole, heard, beat>>
    BY <1>6 DEF Lose
  <2>2. m.kind # "heartbeat"
    BY <1>0, <1>6, <2>1 DEF Lose, IsHeartbeat, Up
  <2>3. /\ net' \subseteq net
        /\ \A l \in net : l.kind = "heartbeat" => l \in net'
    BY <1>6, <2>2 DEF Lose
  <2> QED
    BY <2>1, <2>3
    DEF TimelyParts, OnlyFirst, BeatsInTime, DeliversInTime, HearsInTime, OnItsWay
<1>7. ASSUME NEW m \in net, Corrupt(m) PROVE TimelyParts'
  <2>1. Good /\ TimelyParts /\ UNCHANGED <<now, localRole, heard, beat>>
    BY <1>7 DEF Corrupt
  <2>2. PICK d \in {[m EXCEPT !.body = Garbled], [m EXCEPT !.checksum = GarbledSum]} :
               net' = (net \ {m}) \cup {d}
    BY <1>7 DEF Corrupt
  <2>3. m \in Message /\ m.kind = "state"
    BY <1>7 DEF Corrupt
  <2>4. d.kind = "state"
    BY <2>3, DamagedMessage
  <2>5. \A l : l.kind = "heartbeat" => (l \in net <=> l \in net')
    BY <2>2, <2>3, <2>4
  <2> QED
    BY <2>1, <2>5
    DEF TimelyParts, OnlyFirst, BeatsInTime, DeliversInTime, HearsInTime, OnItsWay
<1>8. CASE Tick
  <2>1. /\ Good /\ TimelyParts /\ now' = now + 1
        /\ ~\E m \in net \ net' : IsHeartbeat(m)
        /\ net' = {m \in net : now < m.sent + MaxDelay}
        /\ UNCHANGED <<localRole, heard, beat>> /\ Punctual
    BY <1>8 DEF Tick
  <2>2. BeatsInTime'
    BY <1>0, <2>1 DEF Punctual, Up, TimelyParts, OnlyFirst, BeatsInTime
  <2>3. \A m \in net' : now + 1 <= m.sent + MaxDelay
    BY <1>0, <2>1
  <2>4. DeliversInTime'
    BY <2>1, <2>3 DEF DeliversInTime
  <2>5. \A m \in net : m.kind = "heartbeat" => m \in net'
    BY <1>0, <2>1 DEF IsHeartbeat, Up
  <2> QED
    BY <2>1, <2>2, <2>4, <2>5 DEF TimelyParts, OnlyFirst, HearsInTime, OnItsWay
<1>9. CASE UNCHANGED pairVars
  BY <1>9 DEF pairVars, TimelyParts, OnlyFirst, BeatsInTime, DeliversInTime, HearsInTime, OnItsWay
<1> QED
  BY <1>1, <1>2, <1>3, <1>4, <1>5, <1>6, <1>7, <1>8, <1>9 DEF PairNext

(* If no heartbeat is lost and an interval and a delivery fit into the      *)
(* threshold, no standby takes over beside a live primary                   *)
(* (state_replication.py:5 and :162-176).                                   *)
THEOREM NoDoublePrimary == Fits /\ PairSpec => []TakeoverOnlyAfterCrash
<1>1. Timely => TakeoverOnlyAfterCrash
  BY DEF Timely, Good, TimelyParts, OnlyFirst, TakeoverOnlyAfterCrash
<1> SUFFICES ASSUME Fits PROVE PairSpec => []TakeoverOnlyAfterCrash
  OBVIOUS
<1>2. Timely /\ [PairNext]_pairVars => Timely'
  BY TimelyStep
<1> QED
  BY TimelyInit, <1>1, <1>2, PTL DEF PairSpec
================================================================================
