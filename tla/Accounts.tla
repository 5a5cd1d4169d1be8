------------------------------ MODULE Accounts ------------------------------
(***************************************************************************)
(* The names that ClientManager and AlgoProcessManager keep their maps by. *)
(***************************************************************************)
EXTENDS Naturals, FiniteSets, SequencesExt

CONSTANTS Users,    \* user names
          Algos     \* algo IDs; each page counts its algos from 1
=============================================================================
