----------------------------- MODULE MCLogRing ------------------------------
(* Instances of LogRing for TLC. *)
EXTENDS LogRing
=============================================================================
