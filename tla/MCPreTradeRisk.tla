---------------------------- MODULE MCPreTradeRisk -----------------------------
(* PreTradeRisk on two symbols, with small limits. *)
EXTENDS PreTradeRisk, TLC

SymbolSymmetry == Permutations(Symbol)
================================================================================
