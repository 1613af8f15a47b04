------------------------------- MODULE Adaptive -------------------------------
(***************************************************************************)
(* AdaptiveConfig of qtrader/execution/paper_models.py: stop loss, take    *)
(* profit and position size as functions of the current streak of wins or  *)
(* losses.  Percentages are in tenths of a percent.                        *)
(***************************************************************************)
EXTENDS Amounts

CONSTANTS
  BaseStopLoss, BaseTakeProfit, BasePositionSize,
  Step,             \* streak_adjust_step
  MaxSLAdjustment, MaxTPAdjustment,
  MinStopLoss, MinTakeProfit, MinPosition, MaxPosition,
  LossCritical, WinStable, WinReward, MaxWindows

ASSUME AdaptiveAssumption ==
  /\ BaseStopLoss \in Nat /\ BaseTakeProfit \in Nat /\ BasePositionSize \in Nat
  /\ Step \in Nat /\ MaxSLAdjustment \in Nat /\ MaxTPAdjustment \in Nat
  /\ MinStopLoss \in Nat /\ MinTakeProfit \in Nat
  /\ MinPosition \in Nat /\ MaxPosition \in Nat
  /\ LossCritical \in Nat /\ WinStable \in Nat /\ WinReward \in Nat /\ MaxWindows \in Nat


NoStreak == [wins |-> 0, losses |-> 0]

(* record_win, record_loss *)
Won(k) == [wins |-> k.wins + 1, losses |-> 0]
Lost(k) == [wins |-> 0, losses |-> k.losses + 1]

LossAdjustment(k) == Step * Least(k.losses, MaxWindows)
WinAdjustment(k) == Step * Least(k.wins, 4)

StopLossPct(k) ==
  IF k.losses >= LossCritical
  THEN Least(BaseStopLoss + LossAdjustment(k), BaseStopLoss + MaxSLAdjustment)
  ELSE IF k.wins >= WinStable
  THEN Greatest(BaseStopLoss - WinAdjustment(k), MinStopLoss)
  ELSE BaseStopLoss

TakeProfitPct(k) ==
  IF k.losses >= LossCritical
  THEN Greatest(BaseTakeProfit - LossAdjustment(k), BaseTakeProfit - MaxTPAdjustment)
  ELSE IF k.wins >= WinStable
  THEN Least(BaseTakeProfit + WinAdjustment(k), BaseTakeProfit + MaxTPAdjustment)
  ELSE Greatest(BaseTakeProfit, MinTakeProfit)

PositionSizePct(k) ==
  IF k.losses >= WinStable
  THEN Greatest(BasePositionSize - LossAdjustment(k), MinPosition)
  ELSE IF k.wins >= WinReward
  THEN Least(BasePositionSize + WinAdjustment(k), MaxPosition)
  ELSE BasePositionSize
===============================================================================
