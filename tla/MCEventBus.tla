----------------------------- MODULE MCEventBus -----------------------------
(* Small instances of EventBus for TLC. *)
EXTENDS EventBus

Order(id) ==
  [id |-> id, type |-> "ORDER", symbol |-> "BTC", order_id |-> "o1"]
Quote(id) ==
  [id |-> id, type |-> "MARKET_DATA", symbol |-> "BTC", order_id |-> ""]
Reset(id) ==
  [id |-> id, type |-> "ORDER", symbol |-> "", order_id |-> ""]

(* Two orders and a quote of one symbol: enough to fill a queue of two, so   *)
(* that a publisher waits and a quote is shed.  The strategy comes and goes, *)
(* at first in front of the risk handler, which stays: it may fail before    *)
(* the other is called, and take the other's place away from the iterator.   *)
RunEvent == {Order(1), Order(2), Quote(3)}
RunSubscribers == [ORDER |-> <<"strategy", "risk">>, MARKET_DATA |-> <<>>]

(* Orders on two partitions, handled by two permanent subscribers. *)
SplitEvent == {Order(1), Order(2), Reset(3)}
SplitSubscribers == [ORDER |-> <<"audit", "risk">>]

MCHash == [k \in {"BTC", "o1", "system_default"} |-> IF k = "BTC" THEN 3 ELSE 4]

=============================================================================
