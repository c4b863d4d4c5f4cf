------------------------------ MODULE MCMining ------------------------------
(* Instance of Mining for TLC: ids of two bytes of two bits.               *)
EXTENDS Mining
=============================================================================
