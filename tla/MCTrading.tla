----------------------------- MODULE MCTrading -----------------------------
(* Trading for TLC. *)
EXTENDS Trading

CONSTANTS alice, bob

MCUsers      == {alice, bob}
MCOne        == {alice}
MCPrices     == {1}
MCQuantities == {1, 2}

MCPageMenu ==
  {[side |-> Buy, type |-> Limit, price |-> 1, size |-> 2],
   [side |-> Buy, type |-> Market, price |-> MarketPrice, size |-> 2]}

MCBotMenu == {[side |-> Sell, type |-> Limit, price |-> 1, size |-> 1]}

\* A page has the name of its user.
MCUserOf == [p \in MCOne |-> p]

MCFirstBotID == [u \in Bots |-> IF u = alice THEN 4 ELSE 2]
=============================================================================
