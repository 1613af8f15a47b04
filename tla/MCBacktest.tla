------------------------------- MODULE MCBacktest ------------------------------
(* The backtest and the slicing algorithm of the Rust core.  They share       *)
(* nothing: the instance explores one of them at a time.                      *)
EXTENDS Backtest, Twap

MCInit == Init /\ TwapInit

MCNext ==
  \/ calls = 0 /\ Next /\ UNCHANGED twapVars
  \/ bars = 0 /\ TwapNext /\ UNCHANGED vars

MCSpec == MCInit /\ [][MCNext]_<<vars, twapVars>>
================================================================================
