----------------------------- MODULE MCKillSwitch ------------------------------
(* Instances of KillSwitch. *)
EXTENDS KillSwitch

(* An order that opens or adds to a long, and closes a short. *)
MCOrder == {[symbol |-> "BTC", quantity |-> 1]}
================================================================================
