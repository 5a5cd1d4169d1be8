------------------------------ MODULE MCServer ------------------------------
(* Server for TLC. *)
EXTENDS Server

CONSTANTS alice, bob

MCUsers == {alice, bob}
MCOneUser == {alice}
MCAlgos == {1, 2}
MCOneAlgo == {1}

\* Users differ in nothing but their names.
MCSymmetry == Permutations(MCUsers)
=============================================================================
