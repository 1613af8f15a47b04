---------------------------------- MODULE Twap ---------------------------------
(***************************************************************************)
(* TwapAlgo of rust_core/src/algo.rs, called with any timestamps.           *)
(* Timestamps are i64; their difference divided by the interval is cast to  *)
(* usize, so that a call before the start counts as one far behind the end. *)
(***************************************************************************)
EXTENDS Integers, FiniteSets

CONSTANTS
  DurationMs, SliceCount,
  Start,            \* start_ts, of the constructor and of reset()
  FirstId,          \* next_order_id, of both
  Stamp,            \* timestamps of calls
  MaxCalls

ASSUME TwapAssumption ==
  /\ DurationMs \in Nat /\ SliceCount \in Nat \ {0}
  /\ Start \subseteq Nat /\ FirstId \subseteq Nat /\ Stamp \subseteq Nat /\ MaxCalls \in Nat

VARIABLES
  startTs, slicesExecuted, lastId,
  emitted,          \* history: ids handed out since the last reset
  seen,             \* history: timestamps of the calls since then
  calls

twapVars == <<startTs, slicesExecuted, lastId, emitted, seen, calls>>

TwapInit ==
  /\ startTs \in Start /\ slicesExecuted = 0 /\ lastId \in FirstId
  /\ emitted = {} /\ seen = {} /\ calls = 0

Interval == DurationMs \div SliceCount
Wide == 1073741824  \* 2^30 stands for 2^64, beyond every count of the model

(* Integer division of Rust truncates towards zero. *)
Elapsed(t) ==
  IF t >= startTs THEN (t - startTs) \div Interval ELSE -((startTs - t) \div Interval)

AsUsize(n) == n % Wide

Smaller(m, n) == IF m < n THEN m ELSE n

(* Mutant: what was executed already is not subtracted. *)
ToExecuteAgain(t) == Smaller(AsUsize(Elapsed(t)), SliceCount)

(* target_slices.saturating_sub(slices_executed) *)
ToExecute(t) ==
  LET target == Smaller(AsUsize(Elapsed(t)), SliceCount)
  IN IF target > slicesExecuted THEN target - slicesExecuted ELSE 0

(* generate_slices(); every slice is total_qty / slice_count. *)
GenerateSlices(t) ==
  /\ calls < MaxCalls /\ calls' = calls + 1
  /\ LET n == IF slicesExecuted >= SliceCount \/ Interval <= 0 THEN 0 ELSE ToExecute(t)
     IN /\ slicesExecuted' = slicesExecuted + n
        /\ lastId' = lastId + n
        /\ emitted' = emitted \cup (lastId + 1 .. lastId + n)
  /\ seen' = seen \cup {t}
  /\ UNCHANGED startTs

(* reset(): the caller also says where the ids go on. *)
Reset(t, id) ==
  /\ calls < MaxCalls /\ calls' = calls + 1
  /\ startTs' = t /\ slicesExecuted' = 0
  /\ lastId' = id
  /\ emitted' = {} /\ seen' = {}

TwapNext ==
  \/ \E t \in Stamp : GenerateSlices(t)
  \/ \E t \in Start, id \in FirstId : Reset(t, id)

TwapSpec == TwapInit /\ [][TwapNext]_twapVars

(* However far apart the calls are, and also when the clock runs back       *)
(* between them, the slices handed out are those due at the latest call,    *)
(* each once and never more than there are.  Calls before the start, which  *)
(* hand out everything at once, are excluded.                               *)
TwapOnSchedule ==
  (Interval > 0 /\ \A t \in seen : t >= startTs) =>
    /\ Cardinality(emitted) = slicesExecuted
    /\ slicesExecuted <= SliceCount
    /\ \A t \in seen : slicesExecuted >= Smaller((t - startTs) \div Interval, SliceCount)
    /\ slicesExecuted > 0 => \E t \in seen : (t - startTs) \div Interval >= slicesExecuted
================================================================================
