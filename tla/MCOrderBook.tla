---------------------------- MODULE MCOrderBook ----------------------------
(* Instances of OrderBook for TLC. *)
EXTENDS OrderBook

MCPrices == {1, 2}

\* Nothing validates the quantity a client sends.
MCQuantities == {-1, 1, 2}
=============================================================================
