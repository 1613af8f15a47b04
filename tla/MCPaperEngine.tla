----------------------------- MODULE MCPaperEngine -----------------------------
(* Instances of PaperEngine around one price. *)
EXTENDS PaperEngine

NewOrder(side, qty, price) == [side |-> side, qty |-> qty, price |-> price]
TwoSided == {NewOrder("BUY", 1, 200), NewOrder("SELL", 2, 210), NewOrder("SELL", 1, 190)}
================================================================================
