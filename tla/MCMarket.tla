------------------------------ MODULE MCMarket ------------------------------
(* Market for TLC. *)
EXTENDS Market

MCSecurities == <<"GOOG", "AAPL">>
=============================================================================
