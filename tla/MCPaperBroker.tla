----------------------------- MODULE MCPaperBroker -----------------------------
(* Instances of PaperBroker.  Prices are multiples of 600, so that averages  *)
(* over three units, slippage of a tenth and a fee of 15 percent are exact.  *)
EXTENDS PaperBroker, TLC

NewOrder(id, side, qty, type, price) ==
  [id |-> id, asset |-> "BTC", side |-> side, qty |-> qty, type |-> type, price |-> price]

Low == [bid |-> 600, ask |-> 1200]
High == [bid |-> 1800, ask |-> 2400]
MCQuote == {Low, High}
MCFirstQuote == [s \in Asset |-> Low]

(* Two of these fill as any one branch of update_position does: additions,  *)
(* partial and full closes and flips, of a long and of a short position.    *)
TwoWayOrders ==
  {NewOrder(1, "BUY", 1, "MARKET", 0), NewOrder(2, "BUY", 2, "LIMIT", 1800),
   NewOrder(3, "SELL", 1, "MARKET", 0), NewOrder(4, "SELL", 2, "LIMIT", 1800)}

(* The calls of get_paper_balance() are alike. *)
ReaderSymmetry == Permutations(Reader)

=============================================================================
