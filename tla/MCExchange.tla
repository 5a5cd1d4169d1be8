----------------------------- MODULE MCExchange -----------------------------
(* Instances of Exchange for TLC. *)
EXTENDS Exchange

CONSTANTS alice, bob

MCPrices     == {1, 2}
MCQuantities == {1, 2}
MCOnePrice   == {1}
MCOddQuantities == {0, 1, 2}
MCUsers      == {alice, bob}
MCSenders    == {alice, bob, NoUser}

\* Users differ in nothing but their names.
MCSymmetry == Permutations(MCUsers)
=============================================================================
