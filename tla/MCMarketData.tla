---------------------------- MODULE MCMarketData ----------------------------
(* MarketData for TLC: two symbols, one per request, so that a subscription *)
(* can be cut in two by a refused send.                                     *)
EXTENDS MarketData
=============================================================================
