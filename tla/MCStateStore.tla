----------------------------- MODULE MCStateStore ------------------------------
(* Instances of StateStore. *)
EXTENDS StateStore

SellOne == {-1}
================================================================================
