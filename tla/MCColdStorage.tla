---------------------------- MODULE MCColdStorage ----------------------------
(* An instance of ColdStorage for TLC: MCColdStorage.cfg.                  *)
EXTENDS ColdStorage

CONSTANTS phrase, seed, bad

(* The restore field takes a phrase, plain or full of white space, the key *)
(* of a wallet the page generates, a key that is none, and a typo.         *)
MCTypeable ==
  {Phrase(phrase), Typed("phrase", phrase, TRUE, TRUE),
   Hex(RawKey(seed)), Hex(RawKey(bad)), Junk("typo")}

MCFunding == <<3, 1>>
=============================================================================
