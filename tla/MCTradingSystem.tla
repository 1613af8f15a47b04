----------------------------- MODULE MCTradingSystem ---------------------------
EXTENDS TradingSystem
================================================================================
