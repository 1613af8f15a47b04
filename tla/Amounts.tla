-------------------------------- MODULE Amounts --------------------------------
(* Arithmetic that the paper account and the paper engine share. *)
EXTENDS Integers

Abs(n) == IF n < 0 THEN -n ELSE n
Least(a, b) == IF a < b THEN a ELSE b
Greatest(a, b) == IF a > b THEN a ELSE b

(* What a trade of a side does to a position, or a price move to its profit. *)
Sign(side) == IF side = "BUY" THEN 1 ELSE -1
================================================================================
