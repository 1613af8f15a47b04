------------------------------- MODULE StateStore -------------------------------
(***************************************************************************)
(* The central state of qtrader/core/state_store.py: positions, active     *)
(* orders, portfolio value, equity curve and risk state behind one asyncio *)
(* lock, copied to Redis and published to the standby node by a PRIMARY.   *)
(*                                                                         *)
(* An operation that does not await inside the lock is one action, enabled *)
(* while the lock is free.  set_position and set_portfolio_value keep the  *)
(* lock while Redis answers.                                               *)
(***************************************************************************)
EXTENDS Integers, Sequences, FiniteSets

CONSTANTS
  Symbol, OrderId,
  Price,          \* prices of position changes
  Delta,          \* signed quantity changes, 0 excluded
  MaxPositions, MaxActiveOrders, MaxEquityPoints,
  UseRedis,       \* settings.redis_host is configured
  MaxVersion      \* bound: changes of the state

ASSUME StoreAssumption ==
  /\ MaxPositions \in Nat /\ MaxActiveOrders \in Nat /\ MaxEquityPoints \in Nat \ {0}
  /\ UseRedis \in BOOLEAN /\ MaxVersion \in Nat
  /\ Price \subseteq Nat \ {0} /\ Delta \subseteq Int \ {0}

Status == {"NEW", "ACK", "PARTIAL"}
NoPosition == [qty |-> 0, avg |-> 0]
Position == [qty : Int, avg : Nat]
Nobody == "nobody"
Holder == {Nobody, "set_position", "set_portfolio_value"}

VARIABLES
  positions,   \* _state.positions; NoPosition: no entry
  orders,      \* _state.active_orders: order id -> status, for the entries
  portfolio,   \* _state.portfolio_value
  curve,       \* _state.equity_curve
  risk,        \* version at which _state.risk_state was last set
  version,     \* _state.version
  holder,      \* the operation that awaits Redis with the lock
  held,        \* its symbol
  redis,       \* the hash of positions and the portfolio value, {} if absent
  role,        \* role of the replicator
  published,   \* versions of the snapshots published so far
  remote       \* what a sync_from_remote() call has read and not yet applied

vars == <<positions, orders, portfolio, curve, risk, version, holder, held,
          redis, role, published, remote>>

NoRemote == [step |-> "none", pos |-> [s \in Symbol |-> NoPosition], portfolio |-> {}]

Init ==
  /\ positions = [s \in Symbol |-> NoPosition]
  /\ orders = [o \in {} |-> "NEW"]
  /\ portfolio = 0
  /\ curve = <<>>
  /\ risk = 0
  /\ version = 0
  /\ holder = Nobody
  /\ held \in Symbol
  /\ redis \in [pos : {positions, [s \in Symbol |-> [qty |-> 1, avg |-> 1]]}, portfolio : {{}, {1}}]
  /\ role \in {"PRIMARY", "STANDBY"}
  /\ published = <<>>
  /\ remote = NoRemote

-----------------------------------------------------------------------------
Abs(n) == IF n < 0 THEN -n ELSE n
Present == {s \in Symbol : positions[s] # NoPosition}
Unlocked == holder = Nobody

(* Every change of the state counts a version. *)
Bump == version < MaxVersion /\ version' = version + 1

(* _publish_if_primary: called after the lock is released, without an await *)
(* in between; the snapshot is the state at the current version.            *)
Publish ==
  published' = IF role = "PRIMARY" THEN Append(published, version') ELSE published

NoPublish == UNCHANGED published

(* Mutant: the snapshot is taken while Redis is still being waited for. *)
ReleaseEarly(op, s) ==
  /\ held' = s
  /\ holder' = IF UseRedis THEN op ELSE Nobody
  /\ Publish

(* What is left of an operation once the state is changed: with Redis it    *)
(* keeps the lock and waits, without Redis it publishes at once.            *)
PersistThenPublish(op, s) ==
  /\ held' = s
  /\ IF UseRedis THEN holder' = op /\ NoPublish ELSE holder' = Nobody /\ Publish

(* At the limit set_position and set_order return and change nothing, which *)
(* is a stuttering step here.                                               *)
PositionAccepted(s) == Cardinality(Present) < MaxPositions
OrderAccepted(o) == Cardinality(DOMAIN orders) < MaxActiveOrders

SetPosition(s, q, a) ==
  /\ Unlocked
  /\ PositionAccepted(s)
  /\ positions' = [positions EXCEPT ![s] = [qty |-> q, avg |-> a]]
  /\ Bump
  /\ UNCHANGED risk
  /\ PersistThenPublish("set_position", s)
  /\ UNCHANGED <<orders, portfolio, curve, redis, role, remote>>

SetPortfolioValue(v) ==
  /\ Unlocked
  /\ portfolio' = v
  /\ Bump
  /\ UNCHANGED risk
  /\ PersistThenPublish("set_portfolio_value", held)
  /\ UNCHANGED <<positions, orders, curve, redis, role, remote>>

(* Redis has answered: the lock is released and the snapshot published. *)
Persisted ==
  /\ holder # Nobody
  /\ redis' = IF holder = "set_position"
              THEN [redis EXCEPT !.pos[held] = positions[held]]
              ELSE [redis EXCEPT !.portfolio = {portfolio}]
  /\ holder' = Nobody
  /\ UNCHANGED <<version, risk>>
  /\ Publish
  /\ UNCHANGED <<positions, orders, portfolio, curve, held, role, remote>>

(* A Redis error leaves the lock and the caller gets it; the change stays. *)
PersistFails ==
  /\ holder # Nobody
  /\ holder' = Nobody
  /\ UNCHANGED <<positions, orders, portfolio, curve, risk, version, held, redis,
                 role, published, remote>>

(* Mutant: a short position brings its costs in with the wrong sign. *)
UpdatedSigned(p, delta, price) ==
  IF p = NoPosition THEN [qty |-> delta, avg |-> price]
  ELSE IF p.qty + delta = 0 THEN NoPosition
  ELSE [qty |-> p.qty + delta,
        avg |-> (p.avg * p.qty + price * delta) \div Abs(p.qty + delta)]

(* The position after a change by a quantity, with the code's average: the  *)
(* costs of both are added, whatever the signs are.                         *)
Updated(p, delta, price) ==
  IF p = NoPosition THEN [qty |-> delta, avg |-> price]
  ELSE IF p.qty + delta = 0 THEN NoPosition
  ELSE [qty |-> p.qty + delta,
        avg |-> (p.avg * Abs(p.qty) + price * Abs(delta)) \div Abs(p.qty + delta)]

UpdatePosition(s, delta, price) ==
  /\ Unlocked
  /\ positions' = [positions EXCEPT ![s] = Updated(@, delta, price)]
  /\ Bump
  /\ UNCHANGED risk
  /\ Publish
  /\ UNCHANGED <<orders, portfolio, curve, holder, held, redis, role, remote>>

AppendToEquityCurve(v) ==
  /\ Unlocked
  /\ curve' = LET longer == Append(curve, v)
              IN IF Len(longer) > MaxEquityPoints THEN Tail(longer) ELSE longer
  /\ Bump
  /\ UNCHANGED risk
  /\ Publish
  /\ UNCHANGED <<positions, orders, portfolio, holder, held, redis, role, remote>>

SetOrder(o, status) ==
  /\ Unlocked
  /\ OrderAccepted(o)
  /\ orders' = [x \in DOMAIN orders \cup {o} |-> IF x = o THEN status ELSE orders[x]]
  /\ Bump
  /\ UNCHANGED risk
  /\ Publish
  /\ UNCHANGED <<positions, portfolio, curve, holder, held, redis, role, remote>>

(* remove_order counts a version for an unknown order too. *)
RemoveOrder(o) ==
  /\ Unlocked
  /\ orders' = [x \in DOMAIN orders \ {o} |-> orders[x]]
  /\ Bump
  /\ UNCHANGED risk
  /\ Publish
  /\ UNCHANGED <<positions, portfolio, curve, holder, held, redis, role, remote>>

(* set_risk_state, and like it set_last_approved_risk_metrics,              *)
(* set_current_risk_multiplier and set_last_signal_timestamp: a version and *)
(* no snapshot.                                                             *)
SetRiskState ==
  /\ Unlocked
  /\ Bump
  /\ risk' = version'
  /\ NoPublish
  /\ UNCHANGED <<positions, orders, portfolio, curve, holder, held, redis, role, remote>>

(* update_performance_metrics adds to the value without Redis or snapshot.  *)
UpdatePerformanceMetrics(gain) ==
  /\ Unlocked
  /\ portfolio' = portfolio + gain
  /\ Bump
  /\ NoPublish
  /\ UNCHANGED <<positions, orders, curve, risk, holder, held, redis, role, remote>>

-----------------------------------------------------------------------------
(* sync_from_remote(): the hash is read before the lock is taken, applied   *)
(* under it, then the same for the value, if there is one.  No version, no  *)
(* snapshot.                                                                *)

SyncReadPositions ==
  /\ UseRedis /\ remote.step = "none"
  /\ remote' = [remote EXCEPT !.step = "positions", !.pos = redis.pos]
  /\ UNCHANGED <<positions, orders, portfolio, curve, risk, version, holder, held,
                 redis, role, published>>

SyncApplyPositions ==
  /\ Unlocked /\ remote.step = "positions"
  /\ positions' = [s \in Symbol |->
                     IF remote.pos[s] = NoPosition THEN positions[s] ELSE remote.pos[s]]
  /\ remote' = [remote EXCEPT !.step = "applied"]
  /\ UNCHANGED <<orders, portfolio, curve, risk, version, holder, held, redis,
                 role, published>>

SyncReadPortfolio ==
  /\ remote.step = "applied"
  /\ remote' = [remote EXCEPT !.step = "portfolio", !.portfolio = redis.portfolio]
  /\ UNCHANGED <<positions, orders, portfolio, curve, risk, version, holder, held,
                 redis, role, published>>

SyncApplyPortfolio ==
  /\ Unlocked /\ remote.step = "portfolio"
  /\ \/ remote.portfolio = {} /\ UNCHANGED portfolio
     \/ portfolio' \in remote.portfolio
  /\ remote' = NoRemote
  /\ UNCHANGED <<positions, orders, curve, risk, version, holder, held, redis,
                 role, published>>

(* A Redis error or the timeout of the caller ends the sync where it waits. *)
SyncFails ==
  /\ remote.step # "none"
  /\ remote' = NoRemote
  /\ UNCHANGED <<positions, orders, portfolio, curve, risk, version, holder, held,
                 redis, role, published>>

(* execute_failover() of the replicator. *)
BecomePrimary ==
  /\ role = "STANDBY"
  /\ role' = "PRIMARY"
  /\ UNCHANGED <<positions, orders, portfolio, curve, risk, version, holder, held,
                 redis, published, remote>>

-----------------------------------------------------------------------------
Next ==
  \/ \E s \in Symbol, q \in Delta, a \in Price :
       SetPosition(s, q, a) \/ UpdatePosition(s, q, a)
  \/ \E v \in Price : SetPortfolioValue(v) \/ AppendToEquityCurve(v)
                      \/ UpdatePerformanceMetrics(v)
  \/ Persisted \/ PersistFails
  \/ \E o \in OrderId : \/ \E status \in Status : SetOrder(o, status)
                        \/ RemoveOrder(o)
  \/ SetRiskState
  \/ SyncReadPositions \/ SyncApplyPositions
  \/ SyncReadPortfolio \/ SyncApplyPortfolio \/ SyncFails
  \/ BecomePrimary

Spec == Init /\ [][Next]_vars

-----------------------------------------------------------------------------
(* Type invariant of the store; an average price is never negative, also    *)
(* not when positions change sign (state_store.py:263-274).                 *)
TypeOK ==
  /\ positions \in [Symbol -> Position]
  /\ DOMAIN orders \subseteq OrderId /\ orders \in [DOMAIN orders -> Status]
  /\ portfolio \in Int
  /\ curve \in Seq(Int)
  /\ version \in 0 .. MaxVersion /\ risk \in 0 .. version
  /\ holder \in Holder /\ held \in Symbol
  /\ redis \in [pos : [Symbol -> Position], portfolio : SUBSET Int]
  /\ role \in {"PRIMARY", "STANDBY"}
  /\ published \in Seq(Nat)
  /\ remote \in [step : {"none", "positions", "applied", "portfolio"},
                 pos : [Symbol -> Position], portfolio : SUBSET Int]

(* The snapshots a node publishes carry strictly increasing versions none   *)
(* of which lies in the future, although the publishing operation waited    *)
(* for Redis after it had changed the state (state_store.py:243-250).       *)
PublishedInOrder ==
  /\ \A i, j \in DOMAIN published : i < j => published[i] < published[j]
  /\ \A i \in DOMAIN published : published[i] <= version

(* The circular buffer and the order limit hold in every interleaving of    *)
(* the operations that test them (state_store.py:133-134).                  *)
OrdersAndCurveBounded ==
  /\ Cardinality(DOMAIN orders) <= MaxActiveOrders
  /\ Len(curve) <= MaxEquityPoints
================================================================================
